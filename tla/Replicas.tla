------------------------------ MODULE Replicas ------------------------------
(***************************************************************************)
(* The replica coordinator (crates/wildbloomd/src/replicas): one policy     *)
(* file, the state directory of its coordinator, the directory runner's     *)
(* passes and the storage nodes they read and repair.                       *)
(*                                                                          *)
(* A pass reads every blob from every target, in turns of a cursor and      *)
(* within a budget, and mirrors a blob to owner targets until it is         *)
(* verified in enough failure groups.  Every write needs a signature of its *)
(* own, from a command or through files the owner answers.  The policy file *)
(* may be replaced, expire or be stopped under the pass, the nodes lose     *)
(* blobs, and the process crashes between any two saves.  Time counts in    *)
(* lives of a signing request.                                              *)
(***************************************************************************)
EXTENDS Naturals, Integers, Sequences, FiniteSets, SequencesExt

CONSTANTS
    None,
    Targets,      \* the policy's targets, in order
    Owners,       \* the targets kept for the owner
    Group,        \* each target's failure group
    Blobs,        \* the policy's blobs, in order
    Size,         \* each blob's size
    Desired,      \* the groups asked for
    Mirrors,      \* limits.mirrors
    Verification, \* limits.verification_bytes
    MaxChanges,   \* replacements, losses, crashes, failures and ticks
    MaxNow

VARIABLES
    file,    \* the signed policy on disk
    disk,    \* state.json
    mem,     \* the snapshot of the running coordinator
    handoff, \* the pending directory: requests and their signed answers
    held,    \* the blobs each node holds
    at,      \* where the coordinator is
    p,       \* the pass under way
    stopped, \* the event of a stop the runner has carried out
    signer,  \* "command" or "files"
    now,
    credit,  \* signatures given and not yet sent, for each blob and target
    reads,   \* complete reads since the last pass began
    changes

policy == <<file, now>>
state == <<disk, mem, handoff>>
world == <<held, signer, credit, changes>>
vars == <<policy, state, world, at, p, stopped, reads>>

TargetSet == ToSet(Targets)
BlobSet == ToSet(Blobs)
Keys == BlobSet \X Owners
Bounded == changes < MaxChanges /\ changes' = changes + 1

-----------------------------------------------------------------------------
(* State *)

Unseen == [b \in BlobSet |-> [t \in TargetSet |-> "none"]]
Deferred == [b \in BlobSet |-> [t \in TargetSet |-> "deferred"]]
NoPending == [k \in Keys |-> None]
NoFiles == [requests |-> {}, signed |-> {}]

\* The snapshot of a policy that is new to the state directory.
accept_new(pol) ==
    [revision |-> pol.revision, event |-> pol.event, observed |-> FALSE, cursor |-> 0,
     repair |-> [b \in BlobSet |-> 0], obs |-> Unseen, pending |-> NoPending]

\* Mutant: another event of the same revision is accepted.
Rollback_Older(pol) == IF mem = None THEN FALSE ELSE mem.revision > pol.revision

\* accept: an older revision, and another event of the same one, are refused.
Rollback(pol) ==
    IF mem = None THEN FALSE
    ELSE mem.revision > pol.revision \/ (mem.revision = pol.revision /\ mem.event # pol.event)

save(s) == mem' = s /\ disk' = s

Invalid(s) == [s EXCEPT !.obs = Unseen, !.observed = FALSE, !.pending = NoPending]

\* invalidate: the snapshot is saved without its observations, then the
\* pending directory is cleared.
invalidate ==
    /\ IF mem = None THEN UNCHANGED <<mem, disk>> ELSE save(Invalid(mem))
    /\ handoff' = NoFiles

reconcile_pending_files(keep) ==
    [requests |-> handoff.requests \cap keep, signed |-> handoff.signed \cap keep]

\* Mutant: the signed answer stays.
remove_request_Half(id) == [requests |-> handoff.requests \ {id}, signed |-> handoff.signed]

remove_request(id) == [requests |-> handoff.requests \ {id}, signed |-> handoff.signed \ {id}]

-----------------------------------------------------------------------------
(* The policy *)

\* verify_policy: the signature and the fields are good; the time may be over.
verify_policy(pol) == ~pol.expired

load_policy == verify_policy(file)

\* Guard::check
check == load_policy /\ file.event = p.pol.event

\* repair_template: what the request's event id depends on.
repair_template(b, t, requested) == <<p.pol.event, b, t, requested>>

\* verify_return: the answer is the request's, and in time.
verify_return(sig, requested) == sig /\ requested = now

\* Limits::validate: one blob's scan and every read-back must fit.
validate == \A b \in BlobSet : Size[b] * (Len(Targets) + Mirrors) <= Verification

-----------------------------------------------------------------------------
(* A pass *)

groups(obs) == {Group[t] : t \in {u \in Owners : obs[u] = "verified"}}

\* prune_pending: a request is kept while it may still be answered.
Prunes(s) ==
    LET kept(k) == /\ s.pending[k] # None
                   /\ Cardinality(groups(s.obs[k[1]])) < p.pol.desired
                   /\ s.pending[k] = now
                   /\ s.obs[k[1]][k[2]] # "verified"
    IN [s EXCEPT !.pending = [k \in Keys |-> IF kept(k) THEN @[k] ELSE None]]

PendingIds(s) == {repair_template(k[1], k[2], s.pending[k]) : k \in {x \in Keys : s.pending[x] # None}}

\* A pass that is over, or not begun.
NoPass ==
    [pol |-> [revision |-> 0, event |-> 0, desired |-> 0, expired |-> FALSE], off |-> 0, start |-> 0, t |-> 1,
     obs |-> [t \in TargetSet |-> "none"], sources |-> <<>>, pairs |-> <<>>, first |-> 0, k |-> 0, waiting |-> {},
     target |-> None, sig |-> FALSE, request |-> 0, used |-> 0, attempts |-> 0, writes |-> 0]

Fails == at' = "failed" /\ p' = NoPass

\* cycle: a policy that can be read, and that is no stop already carried out.
begin ==
    /\ at = "idle" /\ load_policy /\ stopped # file.event /\ validate
    /\ p' = [p EXCEPT !.pol = file, !.off = 0, !.used = 0, !.attempts = 0, !.writes = 0]
    /\ at' = "accept"
    /\ UNCHANGED <<policy, state, world, stopped, reads>>

\* cycle: an unreadable policy ends what was observed.
unreadable ==
    /\ at = "idle" /\ ~load_policy /\ stopped' = None
    /\ invalidate
    /\ UNCHANGED <<policy, world, at, p, reads>>

\* Mutant: the new policy is saved with the first change of the pass.
Commits_Late(s) == mem' = s /\ UNCHANGED disk

\* Rollback protection is on disk before any operation.
Commits(s) == save(s)

\* pass_inner: the policy is accepted before anything is done.
accept ==
    /\ at = "accept"
    /\ IF ~check \/ Rollback(p.pol)
       THEN Fails /\ UNCHANGED state
       ELSE /\ IF mem # None /\ mem.event = p.pol.event
               THEN UNCHANGED state
               ELSE Commits(accept_new(p.pol)) /\ handoff' = NoFiles
            /\ at' = "prepare" /\ UNCHANGED p
    /\ UNCHANGED <<policy, world, stopped, reads>>

\* Mutant: a policy that is known keeps its observations.
Prepared_Known(s) == [s EXCEPT !.observed = FALSE]

\* Previous passes are history, never evidence.
Prepared(s) == [s EXCEPT !.obs = Deferred, !.observed = FALSE]

prepare ==
    /\ at = "prepare"
    /\ LET s == Prunes(Prepared(IF p.pol.desired = 0 THEN Invalid(mem) ELSE mem))
       IN /\ save(s)
          /\ handoff' = reconcile_pending_files(PendingIds(s))
          /\ p' = [p EXCEPT !.start = s.cursor]
    /\ at' = IF p.pol.desired = 0 THEN "finish" ELSE "blob"
    /\ reads' = {}
    /\ UNCHANGED <<policy, world, stopped>>

Index == (p.start + p.off) % Len(Blobs)
Blob == Blobs[Index + 1]

\* Mutant: what the repairs may still read back is not reserved.
reserve_Scan == Size[Blob] * Len(Targets)

\* The budget a blob may need: its scan and the repairs that are left.
reserve == Size[Blob] * (Len(Targets) + Mirrors - p.attempts)

blob_begin ==
    /\ at = "blob"
    /\ IF p.off = Len(Blobs) \/ p.used + reserve > Verification
       THEN at' = "finish" /\ p' = [NoPass EXCEPT !.pol = p.pol]
       ELSE /\ at' = "scan"
            /\ p' = [p EXCEPT !.t = 1, !.obs = [t \in TargetSet |-> "deferred"], !.sources = <<>>]
    /\ UNCHANGED <<policy, state, world, stopped, reads>>

\* transport.verify of the next target; ok when the node answers.
verify(ok) ==
    /\ at = "scan" /\ p.t <= Len(Targets)
    /\ LET t == Targets[p.t]
           found == ok /\ Blob \in held[t]
       IN IF ~check
          THEN ok /\ Fails /\ UNCHANGED <<reads, changes>>
          ELSE /\ IF ok THEN UNCHANGED changes ELSE Bounded
               /\ p' = [p EXCEPT !.t = @ + 1, !.used = @ + Size[Blob],
                                 !.obs[t] = IF found THEN "verified" ELSE "failed",
                                 !.sources = IF found THEN Append(@, t) ELSE @]
               /\ reads' = IF found THEN reads \cup {<<Blob, t>>} ELSE reads
               /\ UNCHANGED at
    /\ UNCHANGED <<policy, state, held, signer, credit, stopped>>

\* Every owner target with every verified source, source by source.
pairs(sources) ==
    LET n == Len(Targets)
        all == [i \in 1..(Len(sources) * n) |-> <<Targets[((i - 1) % n) + 1], sources[((i - 1) \div n) + 1]>>]
    IN SelectSeq(all, LAMBDA q : q[1] \in Owners /\ q[1] # q[2])

scanned ==
    /\ at = "scan" /\ p.t > Len(Targets)
    /\ LET q == pairs(p.sources)
       IN p' = [p EXCEPT !.pairs = q, !.k = 0, !.first = mem.repair[Blob], !.waiting = {}]
    /\ at' = "repair"
    /\ UNCHANGED <<policy, state, world, stopped, reads>>

PairIndex(k) == (p.first + k) % Len(p.pairs)
Enough == Cardinality(groups(p.obs)) >= p.pol.desired \/ p.attempts >= Mirrors

Skips(t) == Group[t] \in groups(p.obs) \/ t \in p.waiting

\* The pairs that are left, from the blob's repair cursor on.
Left == {k \in p.k..(Len(p.pairs) - 1) : ~Skips(p.pairs[PairIndex(k) + 1][1])}

repair ==
    /\ at = "repair" /\ ~Enough /\ Left # {}
    /\ LET k == CHOOSE x \in Left : \A y \in Left : x <= y
           i == PairIndex(k)
       IN /\ save([mem EXCEPT !.repair[Blob] = (i + 1) % Len(p.pairs)])
          /\ p' = [p EXCEPT !.k = k + 1, !.target = p.pairs[i + 1][1], !.attempts = @ + 1]
    /\ at' = "authorise"
    /\ UNCHANGED <<policy, handoff, world, stopped, reads>>

Advanced(s) == [s EXCEPT !.cursor = (Index + 1) % Len(Blobs)]

blob_end ==
    /\ at = "repair" /\ (Enough \/ Left = {})
    /\ save(Advanced([mem EXCEPT !.obs[Blob] = p.obs]))
    /\ p' = [NoPass EXCEPT !.pol = p.pol, !.start = p.start, !.off = p.off + 1,
                           !.used = p.used, !.attempts = p.attempts, !.writes = p.writes]
    /\ at' = "blob"
    /\ UNCHANGED <<policy, handoff, world, stopped, reads>>

-----------------------------------------------------------------------------
(* Authorisation *)

Key == <<Blob, p.target>>
Waits(how) == p' = [p EXCEPT !.obs[p.target] = how, !.waiting = @ \cup {p.target}]

\* authorise with a command: the request is signed on the spot.
sign(ok) ==
    /\ at = "authorise" /\ signer = "command"
    /\ IF ~check
       THEN ok /\ Fails /\ UNCHANGED <<state, credit, changes>>
       ELSE /\ IF ok THEN credit' = [credit EXCEPT ![Key] = 1] /\ UNCHANGED changes
                     ELSE Bounded /\ UNCHANGED credit
            /\ at' = "consume" /\ p' = [p EXCEPT !.sig = ok, !.request = now]
            /\ save([mem EXCEPT !.pending[Key] = None])
            /\ UNCHANGED handoff
    /\ UNCHANGED <<policy, held, signer, stopped, reads>>

\* authorise with files: a request that has run out is replaced by a new one.
request ==
    /\ at = "authorise" /\ signer = "files"
    /\ IF ~check
       THEN Fails /\ UNCHANGED state
       ELSE LET old == mem.pending[Key]
                dir == IF old # None /\ old # now THEN remove_request(repair_template(Blob, p.target, old)) ELSE handoff
                id == repair_template(Blob, p.target, now)
            IN /\ save([mem EXCEPT !.pending[Key] = now])
               /\ handoff' = [dir EXCEPT !.requests = @ \cup {id}]
               /\ IF id \in dir.signed
                  THEN at' = "signed" /\ p' = [p EXCEPT !.sig = TRUE, !.request = now]
                  ELSE at' = "repair" /\ Waits("awaiting")
    /\ UNCHANGED <<policy, world, stopped, reads>>

\* The owner answers a request of the pending directory.
owner_signs ==
    /\ \E id \in handoff.requests \ handoff.signed :
          /\ handoff' = [handoff EXCEPT !.signed = @ \cup {id}]
          /\ credit' = [credit EXCEPT ![<<id[2], id[3]>>] = 1]
    /\ UNCHANGED <<policy, disk, mem, held, signer, changes, at, p, stopped, reads>>

\* Consumed before sending: the request is forgotten.
consume ==
    /\ at = "signed"
    /\ IF check
       THEN save([mem EXCEPT !.pending[Key] = None]) /\ at' = "consume" /\ UNCHANGED p
       ELSE Fails /\ UNCHANGED <<mem, disk>>
    /\ UNCHANGED <<policy, handoff, world, stopped, reads>>

\* Then its files are removed; a signature that is late by now is no use.
consumed ==
    /\ at = "consume"
    /\ handoff' = remove_request(repair_template(Blob, p.target, p.request))
    /\ IF verify_return(p.sig, p.request)
       THEN at' = "mirror" /\ UNCHANGED p
       ELSE at' = "repair" /\ Waits("unavailable")
    /\ UNCHANGED <<policy, mem, disk, world, stopped, reads>>

-----------------------------------------------------------------------------
(* Mirroring *)

\* transport.mirror: the target fetches the blob from the source, if the
\* signature is still good.
mirror(ok) ==
    /\ at = "mirror"
    /\ IF ~check
       THEN ok /\ Fails /\ UNCHANGED <<held, credit, changes>>
       ELSE IF p.request # now
       THEN /\ ok /\ at' = "repair" /\ p' = [p EXCEPT !.obs[p.target] = "unavailable"]
            /\ UNCHANGED <<held, credit, changes>>
       ELSE /\ IF ok THEN UNCHANGED changes ELSE Bounded
            /\ credit' = [credit EXCEPT ![Key] = @ - 1]
            /\ LET source == p.pairs[PairIndex(p.k - 1) + 1][2]
                   done == ok /\ Blob \in held[source]
               IN /\ held' = IF done THEN [held EXCEPT ![p.target] = @ \cup {Blob}] ELSE held
                  /\ p' = [p EXCEPT !.writes = @ + 1, !.obs[p.target] = IF done THEN "acknowledged" ELSE "failed"]
            /\ at' = "mirrored"
    /\ UNCHANGED <<policy, state, signer, stopped, reads>>

mirrored ==
    /\ at = "mirrored"
    /\ IF ~check THEN Fails /\ UNCHANGED <<mem, disk>>
       ELSE /\ IF p.obs[p.target] = "acknowledged"
               THEN save([mem EXCEPT !.obs[Blob] = p.obs]) /\ at' = "readback"
               ELSE at' = "repair" /\ UNCHANGED <<mem, disk>>
            /\ UNCHANGED p
    /\ UNCHANGED <<policy, handoff, world, stopped, reads>>

Readback(found) == IF found THEN "verified" ELSE "failed"

\* The acknowledged blob is read back.
readback(ok) ==
    /\ at = "readback"
    /\ IF ~check
       THEN ok /\ Fails /\ UNCHANGED <<reads, changes>>
       ELSE /\ IF ok THEN UNCHANGED changes ELSE Bounded
            /\ LET found == ok /\ Blob \in held[p.target]
               IN /\ p' = [p EXCEPT !.used = @ + Size[Blob], !.obs[p.target] = Readback(found)]
                  /\ reads' = IF found THEN reads \cup {Key} ELSE reads
            /\ at' = "repair"
    /\ UNCHANGED <<policy, state, held, signer, credit, stopped>>

-----------------------------------------------------------------------------
(* The end of a pass *)

\* The report is the saved snapshot.
finish ==
    /\ at = "finish"
    /\ IF ~check
       THEN Fails /\ UNCHANGED <<state, stopped>>
       ELSE /\ LET s == [Prunes(mem) EXCEPT !.observed = TRUE]
               IN save(s) /\ handoff' = reconcile_pending_files(PendingIds(s))
            /\ at' = "idle"
            /\ stopped' = IF p.pol.desired = 0 THEN p.pol.event ELSE None
            /\ p' = NoPass
    /\ UNCHANGED <<policy, world, reads>>

\* run_pass: a pass that failed leaves no observation.
pass_fails ==
    /\ at = "failed" /\ at' = "idle" /\ stopped' = None
    /\ invalidate
    /\ UNCHANGED <<policy, world, p, reads>>

-----------------------------------------------------------------------------
(* Around the coordinator *)

\* StateDirectory::open
open ==
    /\ at = "down" /\ at' = "idle" /\ mem' = disk /\ stopped' = None
    /\ UNCHANGED <<policy, disk, handoff, world, p, reads>>

crash ==
    /\ at # "down" /\ at' = "down" /\ mem' = None /\ p' = NoPass /\ Bounded
    /\ UNCHANGED <<policy, disk, handoff, held, signer, credit, stopped, reads>>

\* Another policy takes the file's place: newer, older or of the same revision.
owner_replaces ==
    /\ Bounded
    /\ \E revision \in {file.revision - 1, file.revision, file.revision + 1} \ {0}, desired \in {0, Desired} :
          file' = [revision |-> revision, event |-> changes + 2, desired |-> desired, expired |-> FALSE]
    /\ UNCHANGED <<now, state, held, signer, credit, at, p, stopped, reads>>

expires ==
    /\ ~file.expired /\ Bounded
    /\ file' = [file EXCEPT !.expired = TRUE]
    /\ UNCHANGED <<now, state, held, signer, credit, at, p, stopped, reads>>

node_loses ==
    /\ Bounded
    /\ \E t \in TargetSet, b \in BlobSet : b \in held[t] /\ held' = [held EXCEPT ![t] = @ \ {b}]
    /\ UNCHANGED <<policy, state, signer, credit, at, p, stopped, reads>>

tick ==
    /\ now < MaxNow /\ now' = now + 1 /\ Bounded
    /\ UNCHANGED <<file, state, held, signer, credit, at, p, stopped, reads>>

Init ==
    /\ file = [revision |-> 1, event |-> 1, desired |-> Desired, expired |-> FALSE]
    /\ disk = None /\ mem = None /\ handoff = NoFiles
    /\ signer \in {"command", "files"}
    \* The source has the blobs; a directory of requests finds them in the last archive too.
    /\ LET holders == {Targets[1]} \cup (IF signer = "files" THEN {Targets[Len(Targets)]} ELSE {})
       IN held = [t \in TargetSet |-> IF t \in holders THEN BlobSet ELSE {}]
    /\ at = "down"
    /\ p = NoPass
    /\ stopped = None /\ now = 0
    /\ credit = [k \in Keys |-> 0] /\ reads = {} /\ changes = 0

Coordinator ==
    \/ open \/ begin \/ accept \/ prepare \/ blob_begin \/ verify(TRUE) \/ scanned \/ repair \/ blob_end
    \/ sign(TRUE) \/ request \/ consume \/ consumed \/ mirror(TRUE) \/ mirrored \/ readback(TRUE) \/ finish \/ pass_fails

Faults ==
    \/ verify(FALSE) \/ sign(FALSE) \/ mirror(FALSE) \/ readback(FALSE)
    \/ crash \/ owner_replaces \/ expires \/ node_loses \/ tick

Next == Coordinator \/ unreadable \/ owner_signs \/ Faults

\* The runner's loop goes on, and the owner answers the requests.
Spec == Init /\ [][Next]_vars /\ WF_vars(Coordinator) /\ WF_vars(owner_signs)

-----------------------------------------------------------------------------
(* Properties *)

TypeOK ==
    /\ mem # None => mem.cursor \in 0..(Len(Blobs) - 1)
    /\ at \in {"down", "idle", "accept", "prepare", "blob", "scan", "repair", "authorise", "signed", "consume",
              "mirror", "mirrored", "readback", "finish", "failed"}
    /\ held \in [TargetSet -> SUBSET BlobSet] /\ p.sources \in Seq(TargetSet)
    /\ \A k \in Keys : credit[k] \in -1..1

\* Every write is covered by a signature of its own, also when the process is
\* cut off between reading the answer and sending the write (authorise:
\* consume before sending).
SignedOnce == \A k \in Keys : credit[k] >= 0

\* A pass stays within its reading budget and its repairs, whatever blobs it
\* meets and however many repairs are read back (Limits::validate, reserve).
WithinBudget == p.used <= Verification /\ p.writes <= p.attempts /\ p.attempts <= Mirrors

\* What the state says is verified was read in full since the last pass
\* began, under the accepted policy (pass_inner, invalidate, accept).
Evidence ==
    disk # None => \A b \in BlobSet, t \in TargetSet : disk.obs[b][t] = "verified" => <<b, t>> \in reads

\* Nothing is read or written for a policy that a crash could make the
\* coordinator forget (accept: "Commit rollback protection before any operation").
Committed ==
    at \in {"prepare", "scan", "authorise", "mirror", "readback"} => (disk # None /\ disk.event = p.pol.event)

\* The recorded policy stays or gives way to a newer one.
NeverBackStep ==
    disk # None => \/ disk'.revision > disk.revision
                   \/ disk'.revision = disk.revision /\ disk'.event = disk.event

\* The state never goes back: to an older revision, or to another event of the
\* same one (StateDirectory::accept).
NeverBack == [][NeverBackStep]_vars

Runs == /\ load_policy /\ file.desired > 0
        /\ disk # None => (file.revision > disk.revision \/ file.event = disk.event)

Scans(b) == at = "scan" /\ Blob = b
Somewhere(b) == \E t \in TargetSet : b \in held[t]
Protected(b) == Cardinality({Group[t] : t \in {u \in Owners : b \in held[u]}}) >= Desired

\* While the policy stands, every blob is scanned again and again, however
\* large it is (Limits::validate: "the rotating cursor cannot starve a large blob").
Rotates == \A b \in BlobSet : <>[]Runs => []<>Scans(b)

\* While the policy stands, a blob some node keeps ends up in the groups asked
\* for (pass_inner, authorise, repair cursors).
Repaired == \A b \in BlobSet : <>[](Runs /\ Somewhere(b)) => <>[]Protected(b)
=============================================================================
