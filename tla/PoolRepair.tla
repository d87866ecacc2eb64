----------------------------- MODULE PoolRepair -----------------------------
(***************************************************************************)
(* Owner repair of one pool (crates/wildbloomd/src/replicas/pool_repair.rs, *)
(* pool.rs and its use of coding.rs and transport.rs): passes over the      *)
(* parts of a signed receipt, each node read and verified, missing parts    *)
(* made again from the ones that were read, signed, uploaded and read back, *)
(* and a report.  A part is one byte long.                                  *)
(***************************************************************************)
EXTENDS Integers, FiniteSets, Sequences, SequencesExt, Coding

CONSTANTS
    None,
    Nodes,
    Receipts,    \* what may be handed to the importer: records of mode, required, ...
    Payload,     \* the file's bytes, one per required part
    Budget,      \* transfer_budget_bytes
    MaxChanges   \* nodes that go, come back, lose or spoil a part, answers that
                 \* are wrong, refusals to sign, the end of the authority

VARIABLES
    manifest,  \* the receipt, with its parts' bytes and what is made from each
               \* choice of sources
    check,     \* --check-only
    stored,    \* what each node holds for its part: a byte, None or Spoilt
    up,        \* the nodes that can be reached
    authority, \* the receipt file is the one that was read, and not expired
    willing,   \* the signer signs
    pass,      \* where the pass is and what it has found
    report,    \* the last pass's report
    moved,     \* bytes transferred in this pass
    changes

vars == <<manifest, check, stored, up, authority, willing, pass, report, moved, changes>>

Bounded == changes < MaxChanges /\ changes' = changes + 1

Spoilt == 256
Parts(m) == 1..m.total

-----------------------------------------------------------------------------
(* Receipts *)

\* What the layout's mode allows.
Layout(m) ==
    \/ m.mode = "erasure" /\ m.required >= 2 /\ m.required < m.total /\ m.copies = 1
    \/ m.mode = "replicas" /\ m.required = 1 /\ m.total = 1 /\ m.copies \in 2..3

Groups(m, p) == {m.group[n] : n \in Range(m.targets[p])}

\* Mutant: a failure group may hold two parts.
Apart_Within(m) ==
    \A p \in Parts(m) : \A i, j \in DOMAIN m.targets[p] : i # j => m.group[m.targets[p][i]] # m.group[m.targets[p][j]]

\* No node, and no failure group, appears twice: not within a part, not in two.
Apart(m) ==
    /\ \A p \in Parts(m) : \A i, j \in DOMAIN m.targets[p] : i # j => m.group[m.targets[p][i]] # m.group[m.targets[p][j]]
    /\ \A p, q \in Parts(m) : p # q => Groups(m, p) \cap Groups(m, q) = {}

\* Policy::validate: there are as many groups as copies are wanted.
validate(m) == \A p \in Parts(m) : Cardinality(Groups(m, p)) >= m.copies

\* pool::templates, which every use of a receipt goes through.
templates(m) == Layout(m) /\ Apart(m) /\ validate(m)

\* The bytes of the parts, as the receipt's hashes fix them.
Bytes(m) ==
    IF m.mode = "replicas" THEN <<Payload[1]>>
    ELSE LET g == generator(m.required, m.total) IN [p \in Parts(m) |-> combine(g[p], Payload)]

\* coding.rs regenerate: every part, from k sources with these bytes.
regenerate(m, chosen, bytes) ==
    LET t == transform(m.required, m.total, chosen)
        inputs == [i \in DOMAIN chosen |-> bytes[chosen[i]]]
    IN [p \in Parts(m) |-> combine(t[p], inputs)]

Chosen(m) == {c \in [1..m.required -> Parts(m)] : \A i, j \in 1..m.required : i < j => c[i] < c[j]}

-----------------------------------------------------------------------------
(* The pass *)

Idle == [at |-> "idle", part |-> 1, tgt |-> 1, groups |-> <<>>, sources |-> <<>>, files |-> <<>>,
         left |-> Budget, intact |-> {}]

Node == manifest.targets[pass.part][pass.tgt]
Group == manifest.group[Node]
Enough(p) == Cardinality(pass.groups[p]) >= manifest.copies

\* transport.rs verify and download: the whole part, hashed.
verify(n, p) == n \in up /\ stored[n] = manifest.bytes[p]

\* The next target, or the next part's first; past the last, the next stage.
Advanced(ps, next) ==
    IF ps.tgt < Len(manifest.targets[ps.part]) /\ Cardinality(ps.groups[ps.part]) < manifest.copies
    THEN [ps EXCEPT !.tgt = @ + 1]
    ELSE IF ps.part < manifest.total THEN [ps EXCEPT !.part = @ + 1, !.tgt = 1]
    ELSE [ps EXCEPT !.part = 1, !.tgt = 1, !.at = next]

\* Guard::check fails, or the budget is spent: the service ends with an error.
Over == pass' = [Idle EXCEPT !.at = "over"] /\ UNCHANGED <<stored, report, moved, changes>>

begin ==
    /\ pass.at = "idle" /\ authority
    /\ pass' = [Idle EXCEPT !.at = "probe", !.groups = [p \in Parts(manifest) |-> {}]]
    /\ moved' = 0
    /\ UNCHANGED <<manifest, check, stored, up, authority, willing, report, changes>>

guard_fails ==
    /\ pass.at # "over" /\ ~authority
    /\ Over
    /\ UNCHANGED <<manifest, check, up, authority, willing>>

\* A target is read; a part's first good answer is kept as its source.
probe ==
    /\ pass.at = "probe" /\ authority
    /\ IF pass.left < 1 THEN Over
       ELSE /\ LET good == verify(Node, pass.part)
                   read == [pass EXCEPT !.left = @ - 1,
                              !.groups[pass.part] = IF good THEN @ \cup {Group} ELSE @,
                              !.sources = IF good /\ pass.part \notin Range(@) THEN Append(@, pass.part) ELSE @,
                              !.intact = IF good THEN @ \cup {Node} ELSE @]
               IN pass' = Advanced(read, "decide")
            /\ moved' = moved + 1
            /\ UNCHANGED <<stored, report, changes>>
    /\ UNCHANGED <<manifest, check, up, authority, willing>>

\* Mutant: the sources are used as they are when there are enough of them.
Regenerates_Few == manifest.mode = "erasure" /\ Len(pass.sources) < manifest.required

\* Some part of an erasure pool has no source.
Regenerates == manifest.mode = "erasure" /\ Len(pass.sources) < manifest.total

Files ==
    IF Regenerates THEN manifest.made[SubSeq(pass.sources, 1, manifest.required)]
    ELSE [p \in Parts(manifest) |-> IF p \in Range(pass.sources) THEN manifest.bytes[p] ELSE None]

Repairs == ~check /\ Len(pass.sources) >= manifest.required /\ \E p \in Parts(manifest) : ~Enough(p)

\* Whether anything is missing and can be made; made parts are hashed first.
decide ==
    /\ pass.at = "decide" /\ authority
    /\ IF Repairs /\ Regenerates /\ Files # manifest.bytes THEN Over
       ELSE /\ pass' = IF Repairs THEN [pass EXCEPT !.at = "offer", !.files = Files] ELSE [pass EXCEPT !.at = "report"]
            /\ UNCHANGED <<stored, report, moved, changes>>
    /\ UNCHANGED <<manifest, check, up, authority, willing>>

Skips == Enough(pass.part) \/ Group \in pass.groups[pass.part]

\* A target that has nothing to be given is passed over.
pass_over ==
    /\ pass.at = "offer" /\ Skips
    /\ pass' = Advanced(pass, "report")
    /\ UNCHANGED <<manifest, check, stored, up, authority, willing, report, moved, changes>>

\* The upload and its read-back
reserve == 2

\* The bytes are reserved before the signature is asked for.
offer ==
    /\ pass.at = "offer" /\ ~Skips /\ authority
    /\ IF pass.left < reserve THEN Over
       ELSE /\ pass' = [pass EXCEPT !.left = @ - reserve, !.at = "sign"]
            /\ UNCHANGED <<stored, report, moved, changes>>
    /\ UNCHANGED <<manifest, check, up, authority, willing>>

\* The signer's answer, and the authority again.
sign ==
    /\ pass.at = "sign" /\ authority
    /\ pass' = IF willing THEN [pass EXCEPT !.at = "upload"] ELSE Advanced([pass EXCEPT !.at = "offer"], "report")
    /\ UNCHANGED <<manifest, check, stored, up, authority, willing, report, moved, changes>>

\* Mutant: the authority is not looked at after the signature.
Guarded_Not == TRUE

Guarded == authority

\* The node keeps what it is sent, or answers wrongly: it says that it keeps
\* what it does not, or its answer is lost.
upload ==
    /\ pass.at = "upload" /\ Guarded
    /\ moved' = moved + 1
    /\ \E kept, ok \in BOOLEAN :
          /\ Node \notin up => (~kept /\ ~ok)
          /\ IF kept = ok /\ (Node \in up => kept) THEN UNCHANGED changes ELSE Bounded
          /\ stored' = IF kept THEN [stored EXCEPT ![Node] = pass.files[pass.part]] ELSE stored
          /\ pass' = IF ok THEN [pass EXCEPT !.at = "readback"] ELSE Advanced([pass EXCEPT !.at = "offer"], "report")
    /\ UNCHANGED <<manifest, check, up, authority, willing, report>>

\* Mutant: the node's word is taken.
Kept_Said(n, p) == TRUE

Kept(n, p) == verify(n, p)

\* The mandatory read-back
readback ==
    /\ pass.at = "readback" /\ authority
    /\ moved' = moved + 1
    /\ LET read == [pass EXCEPT !.at = "offer",
                       !.groups[pass.part] = IF Kept(Node, pass.part) THEN @ \cup {Group} ELSE @,
                       !.intact = IF verify(Node, pass.part) THEN @ \cup {Node} ELSE @]
       IN pass' = Advanced(read, "report")
    /\ UNCHANGED <<manifest, check, stored, up, authority, willing, report, changes>>

Held(p) == Cardinality(pass.groups[p]) > 0

\* The report; a check ends with it.
finish ==
    /\ pass.at = "report" /\ authority
    /\ report' = [protected |-> \A p \in Parts(manifest) : Enough(p),
                  recoverable |-> Cardinality({p \in Parts(manifest) : Held(p)}) >= manifest.required,
                  intact |-> pass.intact]
    /\ pass' = [Idle EXCEPT !.at = IF check THEN "over" ELSE "idle"]
    /\ UNCHANGED <<manifest, check, stored, up, authority, willing, moved, changes>>

-----------------------------------------------------------------------------
(* Around it *)

node_goes(n) == up' = (IF n \in up THEN up \ {n} ELSE up \cup {n}) /\ UNCHANGED <<stored, authority, willing>>
node_loses(n) == (\E v \in {None, Spoilt} : stored' = [stored EXCEPT ![n] = v]) /\ UNCHANGED <<up, authority, willing>>
authority_ends == authority /\ authority' = FALSE /\ UNCHANGED <<stored, up, willing>>
signer_turns == willing' = ~willing /\ UNCHANGED <<stored, up, authority>>

\* The service is told to end, its parent closes its input, or its own storage
\* fails: the pass is dropped where it is.
ends_early ==
    /\ pass.at # "over" /\ Bounded
    /\ pass' = [Idle EXCEPT !.at = "over"]
    /\ UNCHANGED <<manifest, check, stored, up, authority, willing, report, moved>>

world ==
    /\ pass.at # "over" /\ Bounded
    /\ \/ \E n \in Nodes : node_goes(n) \/ node_loses(n)
       \/ authority_ends \/ signer_turns
    /\ UNCHANGED <<manifest, check, pass, report, moved>>

PartOf(m, n) == {p \in Parts(m) : n \in Range(m.targets[p])}
Right(m, b, n) == IF PartOf(m, n) = {} THEN None ELSE b[CHOOSE p \in PartOf(m, n) : TRUE]

\* A receipt that was accepted; some nodes hold their part.
Init ==
    /\ \E m \in Receipts : \E have \in SUBSET Nodes : LET b == Bytes(m) IN
          /\ templates(m)
          /\ manifest = [mode |-> m.mode, required |-> m.required, total |-> m.total, copies |-> m.copies,
                         targets |-> m.targets, group |-> m.group, bytes |-> b,
                         made |-> IF m.mode = "erasure" THEN [c \in Chosen(m) |-> regenerate(m, c, b)] ELSE <<>>]
          /\ stored = [n \in Nodes |-> IF n \in have THEN Right(m, b, n) ELSE None]
    /\ check \in BOOLEAN /\ up = Nodes /\ authority = TRUE /\ willing = TRUE
    /\ pass = Idle /\ report = None /\ moved = 0 /\ changes = 0

Step == begin \/ guard_fails \/ probe \/ decide \/ pass_over \/ offer \/ sign \/ upload \/ readback \/ finish
Next == Step \/ ends_early \/ world

\* The process goes on.
Spec == Init /\ [][Next]_vars /\ WF_vars(Step)

-----------------------------------------------------------------------------
(* Properties *)

\* What was transferred never exceeds what was reserved, nor what was reserved
\* the budget, failed attempts included.
TypeOK ==
    /\ pass.at \in {"idle", "probe", "decide", "offer", "sign", "upload", "readback", "report", "over"}
    /\ pass.at \notin {"idle", "over"} => (pass.left \in 0..Budget /\ moved <= Budget - pass.left)

\* What is about to be uploaded to a node is the part the receipt signs,
\* byte for byte, though it was made from other parts (regenerate).
UploadsReal == pass.at \in {"offer", "sign", "upload", "readback"} => pass.files[pass.part] = manifest.bytes[pass.part]

\* "Protected" is evidence: for every part, as many failure groups as copies
\* are wanted hold nodes that were read whole and right in this pass; a node's
\* acknowledgement never counts (the mandatory read-back).
Evidence ==
    report # None =>
        (report.protected =>
            \A p \in Parts(manifest) :
                Cardinality({manifest.group[n] : n \in Range(manifest.targets[p]) \cap report.intact}) >= manifest.copies)

\* A protected pool outlives the loss of any total - required failure groups,
\* or of copies - 1 when it is replicated (pool.rs: groups are assigned once).
Survives ==
    report # None =>
        (report.protected =>
            LET margin == IF manifest.mode = "erasure" THEN manifest.total - manifest.required ELSE manifest.copies - 1
            IN \A lost \in SUBSET Range(manifest.group) : Cardinality(lost) <= margin =>
                  Cardinality({p \in Parts(manifest) :
                      \E n \in Range(manifest.targets[p]) \cap report.intact : manifest.group[n] \notin lost}) >= manifest.required)

\* An upload has the authority it needs.
OnlyWithAuthorityStep ==
    (pass.at = "upload" /\ moved' > moved) => (authority /\ ~check)

\* Nothing is written to a node by a check, nor once the authority has ended,
\* even while the signer was asked (Guard::check).
OnlyWithAuthority == [][OnlyWithAuthorityStep]_vars

Protected == report # None /\ report.protected
Steady == up = Nodes /\ authority /\ willing
Recoverable == Cardinality({p \in Parts(manifest) : \E n \in Range(manifest.targets[p]) : stored[n] = manifest.bytes[p]}) >= manifest.required

\* With its nodes, its signer and enough parts there, the service brings the
\* pool back to its protection.
Restores == <>[](Steady /\ Recoverable /\ pass.at # "over") => <>Protected
=============================================================================
