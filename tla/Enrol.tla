------------------------------- MODULE Enrol -------------------------------
(***************************************************************************)
(* Enrolment (crates/wildbloomd/src/replicas/enrol.rs): the runs that turn  *)
(* a source's inventory into signed policies, with the ledger and the       *)
(* policy history they append to, and the intake coordinator, whose         *)
(* observations they read.                                                  *)
(*                                                                          *)
(* A run holds a lock, so one runs at a time.  Its inventory is what the    *)
(* source held some time before; the coordinator, the source and the        *)
(* archives go on while it runs, and it may be cut off between any two of   *)
(* its writes.  A hash is a tuple of digits and a policy id is a prefix of  *)
(* one; the empty prefix stands for the intake policy.  Time counts in      *)
(* intake graces.  The coordinator's pass is one step; module Replicas      *)
(* has its detail.                                                          *)
(***************************************************************************)
EXTENDS Naturals, Sequences, FiniteSets, SequencesExt

CONSTANTS
    None,
    Blobs,      \* hashes
    Archives,   \* the ids of the archives
    MaxBlobs,        \* MAX_POLICY_BLOBS
    Ttl,        \* policy_ttl_days
    Renew,      \* renew_below_days
    MaxNow,
    MaxChanges  \* uploads, losses, moves, crashes and refusals of the signer

VARIABLES
    source,   \* the blobs the source holds
    held,     \* the blobs each node holds; an archive that moves gets a new node
    up,       \* the archives that answer
    origin,   \* the configured node of each archive
    now,
    ledger,   \* ledger.jsonl, by blob
    history,  \* policy-history.jsonl, by policy id
    policies, \* policies/signed-<id>.json
    coord,    \* the intake coordinator's state.json
    at,       \* where the run is
    r,        \* what the run holds in memory
    proofs,   \* the blobs the coordinator has read in full, with the node
    crashes,
    changes

files == <<ledger, history, policies>>
world == <<source, held, up, origin, now>>
vars == <<files, world, coord, at, r, proofs, crashes, changes>>

intake_id == <<>>
Ids == {intake_id} \cup UNION {{SubSeq(b, 1, n) : n \in 1..Len(b)} : b \in Blobs}
ArchiveNodes == Archives \X {1, 2}
Bounded == changes < MaxChanges /\ changes' = changes + 1

\* The order of hashes and of archive ids; the intake id comes last.
Before(x, y) ==
    IF y = intake_id THEN x # y
    ELSE x # intake_id /\ \E n \in 0..Len(x) :
            /\ n <= Len(y) /\ SubSeq(x, 1, n) = SubSeq(y, 1, n)
            /\ IF n = Len(x) THEN n < Len(y) ELSE n < Len(y) /\ x[n + 1] < y[n + 1]
First(S) == CHOOSE x \in S : \A y \in S \ {x} : Before(x, y)

-----------------------------------------------------------------------------
(* The ledger *)

Seen == {b \in Blobs : ledger[b] # None}
Archived == {b \in Seen : ledger[b].archived}

\* A blob that is new to the ledger.
LedgerBlob == [first_seen |-> now, archived |-> FALSE, lost |-> FALSE]

Older(b, c) == ledger[b].first_seen < ledger[c].first_seen \/ (ledger[b].first_seen = ledger[c].first_seen /\ Before(b, c))

-----------------------------------------------------------------------------
(* A run *)

NoRun == [inv |-> {}, origin |-> origin, obs |-> {}, desired |-> [id \in Ids |-> None]]

\* The lock is free, the inventory is what the source held.
start ==
    /\ at \in {"idle", "done"} /\ at' = "seen"
    /\ r' = [NoRun EXCEPT !.inv = source]
    /\ UNCHANGED <<files, world, coord, proofs, crashes, changes>>

\* The next arrival that the ledger does not know is appended.
seen ==
    /\ at = "seen" /\ ~(r.inv \subseteq Seen)
    /\ ledger' = [ledger EXCEPT ![First(r.inv \ Seen)] = LedgerBlob]
    /\ UNCHANGED <<history, policies, world, coord, at, r, proofs, crashes, changes>>

\* Mutant: the targets of the observed policy may be others than the run's.
Trusted_Any(record) == record.event = coord.event

\* The accepted event is one of the history, with the targets of the run.
Trusted(record) == record.event = coord.event /\ record.origin = r.origin

\* The intake coordinator's observations, when they can be trusted.
trusted_observations ==
    /\ at = "seen" /\ r.inv \subseteq Seen /\ at' = "verdict"
    /\ r' = [r EXCEPT !.obs = IF coord # None /\ \E i \in DOMAIN history[intake_id] : Trusted(history[intake_id][i])
                              THEN coord.obs ELSE {}]
    /\ UNCHANGED <<files, world, coord, proofs, crashes, changes>>

verified_on(b) == {a \in Archives : <<b, a>> \in r.obs}

\* Every archive has the blob, or one has and the grace is over.
Places(b) == verified_on(b) = Archives \/ (verified_on(b) # {} /\ now > ledger[b].first_seen)

Placing == {b \in Seen \ Archived : Places(b)}

\* The verdicts are appended one by one.
archive ==
    /\ at = "verdict" /\ Placing # {}
    /\ ledger' = [ledger EXCEPT ![First(Placing)].archived = TRUE]
    /\ UNCHANGED <<history, policies, world, coord, at, r, proofs, crashes, changes>>

\* What is gone from the source before it was archived.
Losing == {b \in Seen \ Archived : ~ledger[b].lost /\ b \notin r.inv}

lose ==
    /\ at = "verdict" /\ Placing = {} /\ Losing # {}
    /\ ledger' = [ledger EXCEPT ![First(Losing)].lost = TRUE]
    /\ UNCHANGED <<history, policies, world, coord, at, r, proofs, crashes, changes>>

-----------------------------------------------------------------------------
(* Desired policies *)

\* The oldest blobs that are not archived, as many as a policy takes.
intake_blobs ==
    LET waiting == Seen \ Archived
    IN {b \in waiting : Cardinality({c \in waiting : Older(c, b)}) < MaxBlobs}

Members(id) == {b \in Archived : IsPrefix(id, b)}

\* partition: the shortest prefix whose chunk is not too large.
chunk(b) ==
    LET fits == {n \in 1..Len(b) : Cardinality(Members(SubSeq(b, 1, n))) <= MaxBlobs}
    IN SubSeq(b, 1, CHOOSE n \in fits : \A m \in fits : n <= m)

chunks == {chunk(b) : b \in Archived}

last(id) == IF history[id] = <<>> THEN None ELSE Last(history[id])

Desired(blobs) == [origin |-> r.origin, groups |-> IF blobs = {} THEN 0 ELSE Cardinality(Archives), blobs |-> blobs]

\* Mutant: a chunk that was split is left as it is.
Stops_Never(id) == FALSE

\* A chunk that is no more gets one stop.
Stops(id) == id # intake_id /\ id \notin chunks /\ last(id) # None /\ last(id).groups # 0

\* The content a policy should have, or None.
desired(id) ==
    CASE id = intake_id -> IF intake_blobs # {} \/ history[id] # <<>> THEN Desired(intake_blobs) ELSE None
      [] id \in chunks  -> Desired({b \in Archived : chunk(b) = id})
      [] Stops(id)      -> Desired({})
      [] OTHER          -> None

content(record) == [origin |-> record.origin, groups |-> record.groups, blobs |-> record.blobs]

\* Mutant: what is near its expiry is left to expire.
Unchanged_Expiring(id) == last(id) # None /\ content(last(id)) = r.desired[id]

Unchanged(id) ==
    /\ last(id) # None
    /\ content(last(id)) = r.desired[id]
    /\ last(id).expires >= now + Renew

revision(id) == IF last(id) = None THEN 1 ELSE last(id).revision + 1

Record(id) ==
    LET d == r.desired[id]
    IN [origin |-> d.origin, groups |-> d.groups, blobs |-> d.blobs, revision |-> revision(id),
        event |-> <<revision(id), crashes>>, expires |-> now + Ttl]

\* The ledger is up to date: the policies are derived from it.
derive ==
    /\ at = "verdict" /\ Placing = {} /\ Losing = {}
    /\ at' = "sign" /\ r' = [r EXCEPT !.desired = [id \in Ids |-> desired(id)], !.obs = {}, !.inv = {}]
    /\ UNCHANGED <<files, world, coord, proofs, crashes, changes>>

Due == {id \in Ids : r.desired[id] # None /\ ~Unchanged(id)}

\* The next policy is signed and its file is written.
sign ==
    /\ at = "sign"
    /\ LET due == Due
       IN due # {} /\ policies' = [policies EXCEPT ![First(due)] = Record(First(due))]
    /\ at' = "record"
    /\ UNCHANGED <<ledger, history, world, coord, r, proofs, crashes, changes>>

\* The signer refuses: the run ends.
signer_fails ==
    /\ at = "sign" /\ Due # {} /\ Bounded
    /\ at' = "idle" /\ r' = NoRun
    /\ UNCHANGED <<files, world, coord, proofs, crashes>>

\* Mutant: the record is not kept.
Recorded_Not(id) == history

Recorded(id) == [history EXCEPT ![id] = Append(@, policies[id])]

\* File first, history second.
record ==
    /\ at = "record"
    /\ LET id == First(Due)
       IN history' = Recorded(id) /\ r' = [r EXCEPT !.desired[id] = None]
    /\ at' = "sign"
    /\ UNCHANGED <<ledger, policies, world, coord, proofs, crashes, changes>>

\* Nothing is left to sign.
done ==
    /\ at = "sign" /\ Due = {}
    /\ at' = "done" /\ r' = NoRun
    /\ UNCHANGED <<files, world, coord, proofs, crashes, changes>>

-----------------------------------------------------------------------------
(* Around the run *)

\* StateDirectory::accept refuses the file: the coordinator has accepted
\* another event of its revision.
Stranded ==
    IF coord = None \/ policies[intake_id] = None THEN FALSE
    ELSE coord.revision >= policies[intake_id].revision /\ coord.event # policies[intake_id].event

\* The intake coordinator's pass: what the source or an archive that answers
\* holds is brought to the archives that lack it, and read back.
pass ==
    /\ policies[intake_id] # None
    /\ LET pol == policies[intake_id]
           nodes == {<<a, pol.origin[a]>> : a \in up}
           found == {b \in pol.blobs : b \in source \/ \E n \in nodes : b \in held[n]}
       IN IF Stranded \/ pol.expires <= now
          THEN /\ coord # None /\ coord' = [coord EXCEPT !.obs = {}]
               /\ UNCHANGED <<held, proofs>>
          ELSE /\ coord' = [revision |-> pol.revision, event |-> pol.event, obs |-> found \X up]
               /\ held' = [n \in ArchiveNodes |-> IF n \in nodes THEN held[n] \cup found ELSE held[n]]
               /\ proofs' = proofs \cup (found \X nodes)
    /\ UNCHANGED <<files, source, up, origin, now, at, r, crashes, changes>>

uploaded ==
    /\ Bounded /\ \E b \in Blobs \ (source \cup Seen) : source' = source \cup {b}
    /\ UNCHANGED <<files, held, up, origin, now, coord, at, r, proofs, crashes>>

source_forgets ==
    /\ Bounded /\ \E b \in source : source' = source \ {b}
    /\ UNCHANGED <<files, held, up, origin, now, coord, at, r, proofs, crashes>>

\* The configuration gives an archive another node, between two runs.
archive_moves ==
    /\ Bounded /\ at \in {"idle", "done"} /\ \E a \in Archives : origin[a] = 1 /\ origin' = [origin EXCEPT ![a] = 2]
    /\ r' = [r EXCEPT !.origin = origin'] /\ at' = "idle"
    /\ UNCHANGED <<files, source, held, up, now, coord, proofs, crashes>>

archive_down ==
    /\ Bounded /\ \E a \in up : up' = up \ {a}
    /\ UNCHANGED <<files, source, held, origin, now, coord, at, r, proofs, crashes>>

archives_up ==
    /\ up # Archives /\ up' = Archives
    /\ UNCHANGED <<files, source, held, origin, now, coord, at, r, proofs, crashes, changes>>

crash ==
    /\ at \notin {"idle", "done"} /\ Bounded /\ crashes' = crashes + 1
    /\ at' = "idle" /\ r' = NoRun
    /\ UNCHANGED <<files, world, coord, proofs>>

tick ==
    /\ now < MaxNow /\ now' = now + 1 /\ at \in {"idle", "done"} /\ at' = "idle"
    /\ UNCHANGED <<files, source, held, up, origin, coord, r, proofs, crashes, changes>>

Init ==
    /\ source \in {{b} : b \in Blobs \ {First(Blobs)}} \cup {Blobs}
    /\ held = [n \in ArchiveNodes |-> {}] /\ up = Archives /\ origin = [a \in Archives |-> 1]
    /\ now = 0 /\ ledger = [b \in Blobs |-> None]
    /\ history = [i \in Ids |-> <<>>] /\ policies = [i \in Ids |-> None] /\ coord = None
    /\ at = "idle" /\ r = NoRun /\ proofs = {} /\ crashes = 0 /\ changes = 0

Run == start \/ seen \/ trusted_observations \/ archive \/ lose \/ derive \/ sign \/ record \/ done

Faults == signer_fails \/ uploaded \/ source_forgets \/ archive_moves \/ archive_down \/ crash

Next == Run \/ Faults \/ archives_up \/ tick \/ pass

\* The timer starts the runs, the coordinators' passes come round and an
\* archive that is down comes back.
Spec == Init /\ [][Next]_vars /\ WF_vars(Run) /\ WF_vars(pass) /\ WF_vars(archives_up)

-----------------------------------------------------------------------------
(* Properties *)

TypeOK ==
    /\ source \subseteq Blobs /\ held \in [ArchiveNodes -> SUBSET Blobs] /\ proofs \subseteq Blobs \X ArchiveNodes
    /\ at \in {"idle", "seen", "verdict", "sign", "record", "done"}
    /\ \A id \in Ids : policies[id] # None => Cardinality(policies[id].blobs) <= MaxBlobs

\* The archives were read.
ArchivedWhenReadStep ==
    \A b \in Archived' \ Archived :
        LET read == {a \in Archives : <<b, <<a, r.origin[a]>>>> \in proofs}
        IN read # {} /\ (read = Archives \/ now > ledger[b].first_seen)

\* A blob is archived only once a coordinator has read it from the archives
\* of the run's own configuration, from all of them until the grace is over
\* (trusted_observations, intake verdicts).
ArchivedWhenRead == [][ArchivedWhenReadStep]_vars

Live(id) == policies[id] # None /\ policies[id].groups > 0

Known(id) == Live(id) /\ last(id) # None

\* When a run is through, every archived blob is in a live archive policy
\* with the configured archives, and in one only of those that the history
\* knows, whatever an earlier run left behind (partition, stop revisions).
Covered ==
    at = "done" => \A b \in Archived :
        /\ \E id \in Ids \ {intake_id} : Live(id) /\ b \in policies[id].blobs /\ policies[id].origin = origin
        /\ \A i, j \in Ids : (Known(i) /\ Known(j) /\ b \in policies[i].blobs \cap policies[j].blobs) => i = j

\* When a run is through, no policy it answers for is close to its expiry
\* (renewing expiry).
Renewed == at = "done" => \A id \in Ids : Known(id) => policies[id].expires >= now + Renew

AllArchived == Seen \subseteq Archived
Reachable(b) == b \in source \/ \E a \in Archives : b \in held[<<a, origin[a]>>]

Placeable == ~Stranded /\ \A b \in Seen \ Archived : Reachable(b)

\* While every blob the ledger waits for can still be read somewhere, and the
\* coordinator follows its policy, each of them is archived in the end, also
\* when more are waiting than one policy takes (intake, MAX_POLICY_BLOBS).
Placed ==
    <>[]Placeable => <>[]AllArchived
=============================================================================
