------------------------------- MODULE Claims -------------------------------
(***************************************************************************)
(* The custody of one blob among delegated keys and owners, after          *)
(* crates/wildbloomd/src/grants: claims.rs moves an ended key's claim to   *)
(* its owner and hands it back when the key is granted again, the gate of  *)
(* mod.rs counts the keys' writes and records the owners', and the sweep   *)
(* drives the moves.  Every row, lock region and store call names one      *)
(* hash, so blobs only meet in the byte ceilings: a refusal for the        *)
(* ceiling is a choice here, and so is a store or database error.          *)
(*                                                                         *)
(* Steps are the regions under the database lock and the single store      *)
(* calls between them.  `sweep` is the pass that holds Inner::updates, so  *)
(* grants and revocations happen between passes and expiry at any time.    *)
(* Which grants make a key active is the business of DeviceGrants.         *)
(***************************************************************************)
EXTENDS Naturals

CONSTANTS
    Keys,       \* device and recovery keys
    Owners,
    Delegating, \* sets of pairs, one of which says who delegates to whom
    SlowWrites, \* whether an owner's upload may outlast OWNER_WRITE_WINDOW
    MaxCrashes, \* bound on crashes
    None

ASSUME PartyAssumption ==
    /\ Keys \cap Owners = {} /\ None \notin Keys \cup Owners
    /\ Delegating \subseteq SUBSET (Keys \X Owners)
ASSUME BoundAssumption == SlowWrites \in BOOLEAN /\ MaxCrashes \in Nat

VARIABLES
    delegations, \* the keys each owner signs grants for; other owners stay away
    claims,  \* who claims the blob in the store, which keeps it while anyone does
    moves,   \* moved_claims: each key's recorded move
    recent,  \* owner_writes: the owners with a mark inside the window
    member,  \* core_members: the owner that delegated each trusted key
    active,  \* the keys some active grant names
    due,     \* restore_due
    request, \* each key's request at the gate
    upload,  \* the owners with an upload past the gate
    sweep,   \* the maintenance pass
    stake,   \* history: keys whose upload neither they nor the owner deleted
    own,     \* history: owners whose own upload they have not deleted
    crashes

store == <<claims, moves, recent>>
policy == <<member, active, due>>
history == <<stake, own>>
vars == <<delegations, claims, moves, recent, member, active, due, request, upload, sweep,
          stake, own, crashes>>

Record == [owner: Owners, independent: BOOLEAN, adopted: BOOLEAN]
ASSUME RecordAssumption == None \notin Record
NoPass == [at |-> "idle", key |-> None, due |-> {}, ended |-> {}, moved |-> {}]
\* Inside a pass, between keys.
Between == "pass"

TypeOK ==
    /\ delegations \in Delegating
    /\ claims \subseteq Keys \cup Owners
    /\ moves \in [Keys -> Record \cup {None}]
    /\ recent \subseteq Owners /\ upload \subseteq Owners /\ own \subseteq Owners
    /\ member \in [Keys -> Owners \cup {None}]
    /\ active \subseteq Keys /\ due \subseteq Keys
    /\ stake \subseteq Keys
    /\ request \in [Keys -> {"none", "counted", "admitted", "released", "delete"}]
    /\ sweep \in [at: {"idle", "pass", "restore", "mirror", "drop", "forget",
                       "record", "claim", "unclaim", "skip"},
                  key: Keys \cup {None}, due: SUBSET Keys, ended: SUBSET Keys,
                  moved: SUBSET Keys]
    /\ sweep.at \in {"idle", "pass"} <=> sweep.key = None
    /\ crashes \in Nat

Init ==
    /\ delegations \in Delegating
    /\ claims = {} /\ moves = [k \in Keys |-> None] /\ recent = {}
    /\ member = [k \in Keys |-> None] /\ active = {} /\ due = {}
    /\ request = [k \in Keys |-> "none"] /\ upload = {} /\ sweep = NoPass
    /\ stake = {} /\ own = {} /\ crashes = 0

-----------------------------------------------------------------------------
(* Grants, as the pass and the gate see them.                                *)

\* apply_grant: a key is delegated by one owner at a time.
Grant(k, o) ==
    /\ sweep = NoPass
    /\ <<k, o>> \in delegations /\ member[k] \in {None, o}
    /\ member' = [member EXCEPT ![k] = o]
    /\ active' = active \cup {k}
    /\ due' = due \cup {k}
    /\ UNCHANGED <<delegations, store, request, upload, sweep, history, crashes>>

\* apply_revoke needs the update lock; an expiry does not.
Revoke(k) ==
    /\ sweep = NoPass
    /\ active' = active \ {k}
    /\ UNCHANGED <<delegations, store, member, due, request, upload, sweep, history, crashes>>
Expire(k) ==
    /\ k \in active
    /\ active' = active \ {k}
    /\ UNCHANGED <<delegations, store, member, due, request, upload, sweep, history, crashes>>

-----------------------------------------------------------------------------
(* moved_claims.                                                             *)

\* A move to the owner the key is delegated by; a move to another is parked.
HasMove(k) == member[k] # None /\ moves[k] # None /\ moves[k].owner = member[k]

OtherMoves(o, k) == {j \in Keys \ {k} : moves[j] # None /\ moves[j].owner = o}

\* Mutant: the owner's later writes are not looked at.
OwnerClaimNotIndependent(row) == ~row.independent
OwnerClaimIsOurs(row) == ~row.independent /\ ~row.adopted

\* drop_owner_claim_if_ours, in one region under the database lock.
DropOwnerClaimIfOurs(k) ==
    /\ claims' = IF /\ moves[k] # None
                    /\ OwnerClaimIsOurs(moves[k])
                    /\ OtherMoves(moves[k].owner, k) = {}
                 THEN claims \ {moves[k].owner} ELSE claims
    /\ moves' = [moves EXCEPT ![k] = None]

\* What transfer records for a first move of k's claim to o.
MoveRecord(k, o) ==
    LET others == {moves[j] : j \in OtherMoves(o, k)} IN
    [owner |-> o,
     independent |-> o \in claims /\ (others = {} \/ \E row \in others : row.independent),
     adopted |-> o \in recent \/ \E row \in others : row.adopted]

-----------------------------------------------------------------------------
(* The keys at the gate.                                                     *)

\* begin_write counts the request first and checks the grant after.
BeginWrite(k) ==
    /\ request[k] = "none"
    /\ request' = [request EXCEPT ![k] = "counted"]
    /\ UNCHANGED <<delegations, store, policy, upload, sweep, history, crashes>>
CheckActive(k) ==
    /\ request[k] = "counted"
    /\ request' = [request EXCEPT ![k] = IF k \in active THEN "admitted" ELSE "none"]
    /\ UNCHANGED <<delegations, store, policy, upload, sweep, history, crashes>>

\* An upload or mirror: the core takes the claim, for a member within its ceiling.
KeyUpload(k) ==
    /\ request[k] = "admitted"
    /\ member[k] # None
    /\ claims' = claims \cup {k}
    /\ stake' = stake \cup {k}
    /\ request' = [request EXCEPT ![k] = "none"]
    /\ UNCHANGED <<delegations, moves, recent, policy, upload, sweep, own, crashes>>
KeyGivesUp(k) ==
    /\ request[k] = "admitted"
    /\ request' = [request EXCEPT ![k] = "none"]
    /\ UNCHANGED <<delegations, store, policy, upload, sweep, history, crashes>>

\* release_delete: a move to the key's present owner is released first.
Release(k) ==
    /\ request[k] = "admitted"
    /\ HasMove(k)
    /\ DropOwnerClaimIfOurs(k)
    /\ due' = due \cup {k}
    /\ stake' = stake \ {k}
    /\ request' = [request EXCEPT ![k] = "released"]
    /\ UNCHANGED <<delegations, recent, member, active, upload, sweep, own, crashes>>
NothingToRelease(k) ==
    /\ request[k] = "admitted"
    /\ ~HasMove(k)
    /\ request' = [request EXCEPT ![k] = "delete"]
    /\ UNCHANGED <<delegations, store, policy, upload, sweep, history, crashes>>

\* The gate answers for the core when the key holds no claim of its own.
AnswerDelete(k) ==
    /\ request[k] = "released" /\ k \notin claims
    /\ request' = [request EXCEPT ![k] = "none"]
    /\ UNCHANGED <<delegations, store, policy, upload, sweep, stake, own, crashes>>
PassDelete(k) ==
    /\ request[k] = "released" /\ k \in claims
    /\ request' = [request EXCEPT ![k] = "delete"]
    /\ UNCHANGED <<delegations, store, policy, upload, sweep, history, crashes>>

\* The core's own delete; a success may make room for a hand-back.
CoreDelete(k) ==
    /\ request[k] = "delete"
    /\ claims' = claims \ {k}
    /\ stake' = IF k \in claims THEN stake \ {k} ELSE stake
    /\ due' = IF k \in claims THEN due \cup {k} ELSE due
    /\ request' = [request EXCEPT ![k] = "none"]
    /\ UNCHANGED <<delegations, moves, recent, member, active, upload, sweep, own, crashes>>

-----------------------------------------------------------------------------
(* The owners.                                                               *)

\* mark_owner_writes, before the upload reaches the core.
OwnerMark(o) ==
    /\ o \notin upload /\ \E k \in Keys : <<k, o>> \in delegations
    /\ recent' = recent \cup {o}
    /\ moves' = [k \in Keys |->
        IF moves[k] # None /\ moves[k].owner = o
        THEN [moves[k] EXCEPT !.adopted = TRUE] ELSE moves[k]]
    /\ upload' = upload \cup {o}
    /\ UNCHANGED <<delegations, claims, policy, request, sweep, history, crashes>>
OwnerUpload(o) ==
    /\ o \in upload
    /\ claims' = claims \cup {o}
    /\ own' = own \cup {o}
    /\ upload' = upload \ {o}
    /\ UNCHANGED <<delegations, moves, recent, policy, request, sweep, stake, crashes>>
OwnerGivesUp(o) ==
    /\ o \in upload
    /\ upload' = upload \ {o}
    /\ UNCHANGED <<delegations, store, policy, request, sweep, history, crashes>>

\* The window passes, or prune drops the mark.
MarkExpires(o) ==
    /\ o \in recent
    /\ o \in upload => SlowWrites
    /\ recent' = recent \ {o}
    /\ UNCHANGED <<delegations, claims, moves, policy, request, upload, sweep, history, crashes>>

\* An owner deletes its claim, and with it what has been moved to it.
OwnerDelete(o) ==
    /\ o \in claims
    /\ claims' = claims \ {o}
    /\ own' = own \ {o}
    /\ stake' = {k \in stake : /\ k \in claims /\ k # sweep.key
                               /\ moves[k] = None \/ moves[k].owner # o}
    /\ UNCHANGED <<delegations, moves, recent, policy, request, upload, sweep, crashes>>

\* The operator removes the blob and blocks it: every claim goes.
Tombstone ==
    /\ claims # {}
    /\ claims' = {} /\ stake' = {} /\ own' = {}
    /\ UNCHANGED <<delegations, moves, recent, policy, request, upload, sweep, crashes>>

-----------------------------------------------------------------------------
(* sweep_locked.                                                             *)

At(place, k) == [sweep EXCEPT !.at = place, !.key = k]

\* One snapshot and one clock reading serve the whole pass.
SweepBegin ==
    /\ sweep = NoPass
    /\ sweep' = [NoPass EXCEPT !.at = Between, !.due = due,
                   !.ended = {k \in Keys : member[k] # None /\ k \notin active}]
    /\ due' = {}
    /\ UNCHANGED <<delegations, store, member, active, request, upload, history, crashes>>

\* restore: the page of moves to the key's owner is read, then each is tried.
RestoreBegin(k) ==
    /\ sweep.at = Between
    /\ k \in sweep.due
    /\ sweep' = [sweep EXCEPT
        !.due = @ \ {k},
        !.at = IF HasMove(k) /\ k \notin sweep.ended THEN "restore" ELSE @,
        !.key = IF HasMove(k) /\ k \notin sweep.ended THEN k ELSE @]
    /\ UNCHANGED <<delegations, store, policy, request, upload, history, crashes>>

\* The owner deleted it while holding it: that decision wins.
RestoreCheck ==
    /\ sweep.at = "restore"
    /\ sweep' = [sweep EXCEPT !.at = IF member[sweep.key] \in claims THEN "mirror" ELSE "forget"]
    /\ UNCHANGED <<delegations, store, policy, request, upload, history, crashes>>
RestoreMirror ==
    /\ sweep.at = "mirror"
    /\ claims' = IF claims = {} THEN claims ELSE claims \cup {sweep.key}
    /\ sweep' = [sweep EXCEPT !.at = IF claims = {} THEN "forget" ELSE "drop"]
    /\ UNCHANGED <<delegations, moves, recent, policy, request, upload, history, crashes>>

\* Over the ceiling the record is kept; an error also keeps the key due.
RestoreKept ==
    /\ sweep.at \in {"restore", "mirror", "drop", "forget"}
    /\ sweep' = At(Between, None)
    /\ due' \in {due, due \cup {sweep.key}}
    /\ UNCHANGED <<delegations, store, member, active, request, upload, history, crashes>>
RestoreDrop ==
    /\ sweep.at = "drop"
    /\ DropOwnerClaimIfOurs(sweep.key)
    /\ sweep' = At(Between, None)
    /\ UNCHANGED <<delegations, recent, policy, request, upload, history, crashes>>
RestoreForget ==
    /\ sweep.at = "forget"
    /\ moves' = [moves EXCEPT ![sweep.key] = None]
    /\ sweep' = At(Between, None)
    /\ UNCHANGED <<delegations, claims, recent, policy, request, upload, history, crashes>>

\* transfer, for an ended key with no write in flight.
TransferBegin(k) ==
    /\ sweep.at = Between /\ sweep.due = {}
    /\ k \in sweep.ended
    /\ request[k] = "none"
    /\ sweep' = IF k \in claims
                THEN [At("record", k) EXCEPT !.ended = @ \ {k}]
                ELSE [sweep EXCEPT !.ended = @ \ {k}, !.moved = @ \cup {k}]
    /\ UNCHANGED <<delegations, store, policy, request, upload, history, crashes>>
\* Mutant: a busy key leaves the trusted set all the same.
TransferBusyDropped(k) ==
    /\ sweep.at = Between /\ sweep.due = {}
    /\ k \in sweep.ended
    /\ request[k] \notin {"none", "counted"}
    /\ sweep' = [sweep EXCEPT !.ended = @ \ {k}, !.moved = @ \cup {k}]
    /\ UNCHANGED <<delegations, store, policy, request, upload, history, crashes>>
\* wait_idle gives up on the key for this pass.  Its deadline outlasts a request
\* that begin_write is only checking.
TransferBusy(k) ==
    /\ sweep.at = Between /\ sweep.due = {}
    /\ k \in sweep.ended
    /\ request[k] \notin {"none", "counted"}
    /\ sweep' = [sweep EXCEPT !.ended = @ \ {k}]
    /\ UNCHANGED <<delegations, store, policy, request, upload, history, crashes>>
TransferRecord ==
    LET k == sweep.key IN
    /\ sweep.at = "record"
    /\ moves' = [moves EXCEPT ![k] = IF @ = None THEN MoveRecord(k, member[k]) ELSE @]
    /\ sweep' = [sweep EXCEPT !.at = "claim"]
    /\ UNCHANGED <<delegations, claims, recent, policy, request, upload, history, crashes>>
\* Mutant: a claim the store refused is not noticed.
TransferClaimRefused ==
    /\ sweep.at = "claim"
    /\ sweep' = [sweep EXCEPT !.at = "unclaim"]
    /\ UNCHANGED <<delegations, store, policy, request, upload, history, crashes>>
TransferClaim ==
    /\ sweep.at = "claim"
    /\ claims' = IF claims = {} THEN claims ELSE claims \cup {member[sweep.key]}
    /\ sweep' = [sweep EXCEPT !.at = IF claims = {} THEN "skip" ELSE "unclaim"]
    /\ UNCHANGED <<delegations, moves, recent, policy, request, upload, history, crashes>>
TransferUnclaim ==
    /\ sweep.at = "unclaim"
    /\ claims' = claims \ {sweep.key}
    /\ sweep' = [At(Between, None) EXCEPT !.moved = @ \cup {sweep.key}]
    /\ UNCHANGED <<delegations, moves, recent, policy, request, upload, history, crashes>>
TransferSkip ==
    /\ sweep.at = "skip"
    /\ moves' = [moves EXCEPT ![sweep.key] = None]
    /\ sweep' = [At(Between, None) EXCEPT !.moved = @ \cup {sweep.key}]
    /\ UNCHANGED <<delegations, claims, recent, policy, request, upload, history, crashes>>

\* A store or database error: the key stays a member and is tried again.
TransferFails ==
    /\ sweep.at \in {"record", "claim", "unclaim", "skip"}
    /\ sweep' = At(Between, None)
    /\ UNCHANGED <<delegations, store, policy, request, upload, history, crashes>>

\* Mutant: the moved keys stay trusted.
SweepEndKept ==
    /\ sweep.at = Between /\ sweep.due = {} /\ sweep.ended = {}
    /\ sweep' = NoPass
    /\ UNCHANGED <<delegations, store, policy, request, upload, history, crashes>>
\* The keys whose claims were moved leave the trusted set together.
SweepEnd ==
    /\ sweep.at = Between /\ sweep.due = {} /\ sweep.ended = {}
    /\ member' = [k \in Keys |-> IF k \in sweep.moved THEN None ELSE member[k]]
    /\ sweep' = NoPass
    /\ UNCHANGED <<delegations, store, active, due, request, upload, history, crashes>>

\* The process dies; at start every member is offered its moves again.
Crash ==
    /\ crashes < MaxCrashes
    /\ crashes' = crashes + 1
    /\ request' = [k \in Keys |-> "none"] /\ upload' = {} /\ sweep' = NoPass
    /\ due' = {k \in Keys : member[k] # None}
    /\ UNCHANGED <<delegations, store, member, active, history>>

KeyStep(k) ==
    \/ CheckActive(k) \/ KeyUpload(k) \/ KeyGivesUp(k) \/ Release(k)
    \/ NothingToRelease(k) \/ AnswerDelete(k) \/ PassDelete(k) \/ CoreDelete(k)

SweepStep ==
    \/ SweepBegin \/ SweepEnd
    \/ RestoreCheck \/ RestoreMirror \/ RestoreDrop \/ RestoreForget
    \/ TransferRecord \/ TransferClaim \/ TransferUnclaim \/ TransferSkip

Next ==
    \/ \E k \in Keys :
        \/ \E o \in Owners : Grant(k, o)
        \/ Revoke(k) \/ Expire(k) \/ BeginWrite(k) \/ KeyStep(k)
        \/ RestoreBegin(k) \/ TransferBegin(k) \/ TransferBusy(k)
    \/ \E o \in Owners :
        OwnerMark(o) \/ OwnerUpload(o) \/ OwnerGivesUp(o) \/ MarkExpires(o) \/ OwnerDelete(o)
    \/ SweepStep \/ RestoreKept \/ TransferFails
    \/ Tombstone \/ Crash

Spec == Init /\ [][Next]_vars

\* The timer and every wake run a pass, a body that stops arriving is cut off,
\* and neither an error nor a badly timed request of the key recurs at the same
\* place of every pass.
Fairness ==
    /\ WF_vars(SweepStep)
    /\ \A k \in Keys :
        /\ WF_vars(KeyStep(k))
        /\ WF_vars(RestoreBegin(k)) /\ WF_vars(TransferBusy(k)) /\ SF_vars(TransferBegin(k))
    /\ SF_vars(TransferRecord) /\ SF_vars(TransferClaim) /\ SF_vars(TransferUnclaim)
    /\ SF_vars(TransferSkip)

FairSpec == Spec /\ Fairness

-----------------------------------------------------------------------------
(* Properties.                                                               *)

\* "no move hand-back ever drops that owner claim": what an owner uploaded or
\* mirrored itself stays claimed by it until it deletes it, whatever moves to
\* it, hand-backs from it and releases happen around the upload.
OwnerWritesKept == own \subseteq claims

\* "The owner claim now protects the blob, so this cannot orphan it": what a key
\* uploaded stays claimed by it or by an owner until it or the owner deletes it.
KeyWritesKept ==
    \A k \in stake : k \in claims \/ claims \cap Owners # {}

\* "Expiry and revocation do not demote stored claims": a key leaves the trusted
\* set only when no claim of its own is left, so the core never finds one to
\* demote, although an upload admitted before the end may land after it.
NoDemotion == \A k \in Keys : member[k] = None => k \notin claims

Ended(k) == member[k] # None /\ k \notin active

\* An ended key is moved out in the end: it leaves the trusted set, unless it is
\* granted again first, however its uploads, errors and crashes fall.
EndedKeysLeave == \A k \in Keys : Ended(k) ~> ~Ended(k)
=============================================================================
