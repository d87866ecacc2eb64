------------------------------ MODULE GroupGate ------------------------------
(***************************************************************************)
(* The writes of one group through the gate of                             *)
(* crates/wildbloomd/src/grants/group_gate.rs: uploads, mirrors and        *)
(* deletes, the group's view of what it holds (Holdings), and the bytes    *)
(* admitted and not yet committed (Reservation).                           *)
(*                                                                         *)
(* A handler is cut at its awaits, and a blocking task at every lock it    *)
(* takes and every store call it makes.  A request whose client hangs up   *)
(* is dropped at an await; a blocking task that has begun, and a mirror's  *)
(* task, go on.  Every request here has the grant it needs: which grants   *)
(* are in force is GroupGrants' business.  Preflights and reads change     *)
(* nothing but build the holdings, and the limits of the store itself are  *)
(* refusals that may happen.                                               *)
(***************************************************************************)
EXTENDS GroupConstants, Naturals, FiniteSets, FiniteSetsExt

CONSTANTS
    Purgers,    \* those whose grant has the purge scope
    Hashes,
    Size(_),    \* the bytes of a blob
    Ceiling,    \* the group's ceiling
    Tokens,     \* delete tokens
    MaxCrashes, \* bound on crashes
    MaxArrived  \* bound on requests made

CeilingAssumption == Ceiling \in Nat /\ \A h \in Hashes : Size(h) \in Nat
PurgersAssumption == Purgers \subseteq Devices
FiniteAssumption == IsFiniteSet(Hashes) /\ IsFiniteSet(Requests)
GateNoneAssumption == \A hashes \in SUBSET Hashes : None # hashes
GateBoundAssumption == MaxCrashes \in Nat /\ MaxArrived \in Nat
Assumptions ==
    /\ CeilingAssumption /\ PurgersAssumption /\ FiniteAssumption
    /\ GateNoneAssumption /\ GateBoundAssumption
ASSUME GateAssumptions == Assumptions

VARIABLES
    claims,   \* the group's claims in the store
    others,   \* blobs that others claim
    spent,    \* delete tokens spent
    holdings, \* GroupState::holdings, None until it is built
    reserved, \* GroupState::reserved
    reqs,     \* the requests in flight
    proved,   \* history: blobs whose bytes the group has shown
    leaked,   \* history: claims a crash kept from being taken back
    kept,     \* history: claims answered for and not deleted since
    alone,    \* history: mirrors and deletes met no other request
    stayed,   \* history: no client hung up
    crashes,
    arrived   \* requests made

store == <<claims, others, spent>>
history == <<proved, leaked, kept, alone, stayed>>
bounds == <<crashes, arrived>>
gateVars == <<store, holdings, reserved, reqs, history, bounds>>

NoRequest == [kind |-> "none", at |-> "idle"]

Uploads == [kind: {"upload"}, device: Devices, hash: Hashes, held: BOOLEAN, proven: BOOLEAN,
            need: Nat, gone: BOOLEAN, at: {"held", "reserve", "exists", "prove", "begin", "body",
                            "takeBack", "insert", "finish"}]
Mirrors == [kind: {"mirror"}, device: Devices, hash: Hashes, held: BOOLEAN, reserved: Nat,
            existing: BOOLEAN, at: {"reserved", "held", "core", "fetch", "verdict"}]
Deletes == [kind: {"delete"}, device: Devices, hash: Hashes, token: Tokens,
            holders: SUBSET Devices, at: {"spend", "delete", "still", "remove"}]

GateTypeOK ==
    /\ claims \subseteq Devices \X Hashes
    /\ others \subseteq Hashes
    /\ spent \subseteq Tokens
    /\ holdings \in {None} \cup SUBSET Hashes
    /\ reserved \in Nat
    /\ reqs \in [Requests -> {NoRequest} \cup Uploads \cup Mirrors \cup Deletes]
    /\ proved \subseteq Hashes
    /\ {leaked, kept} \subseteq SUBSET (Devices \X Hashes)
    /\ {alone, stayed} \subseteq BOOLEAN
    /\ crashes \in 0 .. MaxCrashes /\ arrived \in 0 .. MaxArrived

GateInit ==
    /\ claims = {} /\ others \in SUBSET Hashes /\ spent = {}
    /\ holdings = None /\ reserved = 0
    /\ reqs = [q \in Requests |-> NoRequest]
    /\ proved = {} /\ leaked = {} /\ kept = {}
    /\ alone = TRUE /\ stayed = TRUE
    /\ crashes = 0 /\ arrived = 0

-----------------------------------------------------------------------------
(* Holdings and reservations.                                                *)

Claimed == {c[2] : c \in claims}
Stored(h) == h \in Claimed \cup others

\* with_holdings: built from the claims on first use.
Held == IF holdings = None THEN Claimed ELSE holdings

Total(hashes) == MapThenSumSet(Size, hashes)

InFlight == {q \in Requests : reqs[q] # NoRequest}

Arrive(q, kind) ==
    /\ arrived < MaxArrived
    /\ arrived' = arrived + 1
    /\ reqs[q] = NoRequest
    /\ alone' = (alone /\ \A p \in InFlight : {reqs[p].kind, kind} = {"upload"})
    /\ UNCHANGED <<store, holdings, reserved, proved, leaked, kept, stayed, crashes>>

ArriveUpload(q, d, h) ==
    /\ Arrive(q, "upload")
    /\ reqs' = [reqs EXCEPT ![q] =
        [kind |-> "upload", device |-> d, hash |-> h, held |-> FALSE, proven |-> FALSE,
         need |-> 0, gone |-> FALSE, at |-> "held"]]
ArriveMirror(q, d, h) ==
    /\ Arrive(q, "mirror")
    /\ reqs' = [reqs EXCEPT ![q] =
        [kind |-> "mirror", device |-> d, hash |-> h, held |-> FALSE, reserved |-> 0,
         existing |-> FALSE, at |-> "reserved"]]
ArriveDelete(q, t, d, h) ==
    /\ Arrive(q, "delete")
    /\ reqs' = [reqs EXCEPT ![q] =
        [kind |-> "delete", device |-> d, hash |-> h, token |-> t, holders |-> {},
         at |-> "spend"]]

At(q, kind, at) == reqs[q].kind = kind /\ reqs[q].at = at

Goto(q, at) == reqs' = [reqs EXCEPT ![q].at = at]

\* The reservation, if there is one, is dropped with the request.  The code's
\* subtraction saturates; that it never has to is part of GateTypeOK.
End(q) ==
    /\ reqs' = [reqs EXCEPT ![q] = NoRequest]
    /\ reserved' = IF reqs[q].kind = "upload" THEN reserved - reqs[q].need ELSE reserved

-----------------------------------------------------------------------------
(* group_upload.                                                             *)

UploadHeld(q) ==
    /\ At(q, "upload", "held")
    /\ holdings' = Held
    /\ reqs' = [reqs EXCEPT ![q].held = reqs[q].hash \in Held, ![q].at = "reserve"]
    /\ UNCHANGED <<store, reserved, history, bounds>>

Need(q) == IF reqs[q].held THEN 0 ELSE Size(reqs[q].hash)

\* Mutant: the bytes other uploads have been admitted for do not count.
FitsHeld(need) == need > 0 => Total(Held) + need <= Ceiling
\* reserve_group_bytes, under the lock of the reservations.
Fits(need) == need > 0 => Total(Held) + reserved + need <= Ceiling

UploadReserve(q) ==
    /\ At(q, "upload", "reserve")
    /\ Fits(Need(q))
    /\ reserved' = reserved + Need(q)
    /\ reqs' = [reqs EXCEPT ![q].need = Need(q), ![q].at = "exists"]
    /\ UNCHANGED <<store, holdings, history, bounds>>
UploadFull(q) ==
    /\ At(q, "upload", "reserve")
    /\ ~Fits(Need(q))
    /\ End(q)
    /\ UNCHANGED <<store, holdings, history, bounds>>

\* A blob the node has and the group does not is proved by its bytes.
UploadExists(q) ==
    LET proven == ~reqs[q].held /\ Stored(reqs[q].hash) IN
    /\ At(q, "upload", "exists")
    /\ reqs' = [reqs EXCEPT ![q].proven = proven, ![q].at = IF proven THEN "prove" ELSE "begin"]
    /\ UNCHANGED <<store, holdings, reserved, history, bounds>>

\* prove_body: the whole body was read and has the hash.
UploadProve(q) ==
    /\ At(q, "upload", "prove")
    /\ proved' = proved \cup {reqs[q].hash}
    /\ Goto(q, "begin")
    /\ UNCHANGED <<store, holdings, reserved, leaked, kept, alone, stayed, bounds>>

\* Mutant: a blob that appeared after the check is claimed on its hash alone.
BeginExistingKept(q) ==
    /\ At(q, "upload", "begin")
    /\ Stored(reqs[q].hash)
    /\ claims' = claims \cup {<<reqs[q].device, reqs[q].hash>>}
    /\ Goto(q, "insert")
    /\ UNCHANGED <<others, spent, holdings, reserved, history, bounds>>

\* begin_claimed_upload finds the blob, and claims it.
BeginExisting(q) ==
    /\ At(q, "upload", "begin")
    /\ Stored(reqs[q].hash)
    /\ claims' = claims \cup {<<reqs[q].device, reqs[q].hash>>}
    /\ Goto(q, IF reqs[q].held \/ reqs[q].proven THEN "insert" ELSE "takeBack")
    /\ UNCHANGED <<others, spent, holdings, reserved, history, bounds>>

\* The blob appeared after the check and nothing proves these bytes.
TakeBack(q) ==
    /\ At(q, "upload", "takeBack")
    /\ claims' = claims \ {<<reqs[q].device, reqs[q].hash>>}
    /\ End(q)
    /\ UNCHANGED <<others, spent, holdings, history, bounds>>

\* begin_claimed_upload does not find it: the body is written, unless it was
\* spent on proving a blob that has gone.
BeginReserved(q) ==
    /\ At(q, "upload", "begin")
    /\ ~Stored(reqs[q].hash)
    /\ ~reqs[q].proven
    /\ Goto(q, "body")
    /\ UNCHANGED <<store, holdings, reserved, history, bounds>>

\* UploadReservation::commit: the bytes have the hash, and the claim is made.
BodyCommit(q) ==
    /\ At(q, "upload", "body")
    /\ claims' = claims \cup {<<reqs[q].device, reqs[q].hash>>}
    /\ proved' = proved \cup {reqs[q].hash}
    /\ Goto(q, "insert")
    /\ UNCHANGED <<others, spent, holdings, reserved, leaked, kept, alone, stayed, bounds>>

UploadInsert(q) ==
    /\ At(q, "upload", "insert")
    /\ holdings' = Held \cup {reqs[q].hash}
    /\ Goto(q, "finish")
    /\ UNCHANGED <<store, reserved, history, bounds>>

\* The reservation is dropped and 200 or 201 answered.
UploadFinish(q) ==
    /\ At(q, "upload", "finish")
    /\ End(q)
    /\ kept' = IF reqs[q].gone THEN kept ELSE kept \cup {<<reqs[q].device, reqs[q].hash>>}
    /\ UNCHANGED <<store, holdings, proved, leaked, alone, stayed, bounds>>

\* A store limit, a body that ends early or is not the blob, a blob that went.
UploadRefused(q) ==
    /\ reqs[q].kind = "upload"
    /\ reqs[q].at \in {"exists", "prove", "begin", "body"}
    /\ End(q)
    /\ UNCHANGED <<store, holdings, history, bounds>>

-----------------------------------------------------------------------------
(* group_mirror.                                                             *)

MirrorReserved(q) ==
    /\ At(q, "mirror", "reserved")
    /\ reqs' = [reqs EXCEPT ![q].reserved = reserved, ![q].at = "held"]
    /\ UNCHANGED <<store, holdings, reserved, history, bounds>>

MirrorHeld(q) ==
    LET held == reqs[q].hash \in Held IN
    /\ At(q, "mirror", "held")
    /\ holdings' = Held
    /\ reqs' = [reqs EXCEPT ![q] = IF ~held /\ Total(Held) + @.reserved >= Ceiling THEN NoRequest
                                 ELSE [@ EXCEPT !.held = held, !.at = "core"]]
    /\ UNCHANGED <<store, reserved, history, bounds>>

\* The core has the blob: it drops the fetched bytes, and claims it.
MirrorExisting(q) ==
    /\ At(q, "mirror", "core")
    /\ Stored(reqs[q].hash)
    /\ claims' = claims \cup {<<reqs[q].device, reqs[q].hash>>}
    /\ reqs' = [reqs EXCEPT ![q].existing = TRUE, ![q].at = "verdict"]
    /\ UNCHANGED <<others, spent, holdings, reserved, history, bounds>>
\* The core has not: it writes the fetched bytes, and claims them.
MirrorBegin(q) ==
    /\ At(q, "mirror", "core")
    /\ ~Stored(reqs[q].hash)
    /\ Goto(q, "fetch")
    /\ UNCHANGED <<store, holdings, reserved, history, bounds>>
MirrorCommit(q) ==
    /\ At(q, "mirror", "fetch")
    /\ claims' = claims \cup {<<reqs[q].device, reqs[q].hash>>}
    /\ proved' = proved \cup {reqs[q].hash}
    /\ Goto(q, "verdict")
    /\ UNCHANGED <<others, spent, holdings, reserved, leaked, kept, alone, stayed, bounds>>
MirrorRefused(q) ==
    /\ At(q, "mirror", "core") \/ At(q, "mirror", "fetch")
    /\ End(q)
    /\ UNCHANGED <<store, holdings, history, bounds>>

\* "a key that did not hold the blob": the claim rests on nothing.
Unproven(q) == reqs[q].existing /\ ~reqs[q].held
PassesCeiling(q) ==
    ~reqs[q].held /\ Total(Held \cup {reqs[q].hash}) + reqs[q].reserved > Ceiling

MirrorVerdict(q) ==
    LET claim == <<reqs[q].device, reqs[q].hash>> IN
    /\ At(q, "mirror", "verdict")
    /\ End(q)
    /\ IF Unproven(q) \/ PassesCeiling(q)
       THEN claims' = claims \ {claim} /\ UNCHANGED kept
       ELSE UNCHANGED claims /\ kept' = kept \cup {claim}
    /\ holdings' = IF Unproven(q) THEN holdings
                   ELSE IF PassesCeiling(q) THEN Held \ {reqs[q].hash}
                   ELSE Held \cup {reqs[q].hash}
    /\ UNCHANGED <<others, spent, proved, leaked, alone, stayed, bounds>>

-----------------------------------------------------------------------------
(* group_delete.                                                             *)

\* spend_group_token, and the claims the signer may remove.
DeleteSpend(q) ==
    LET claimants == IF reqs[q].device \in Purgers THEN Devices ELSE {reqs[q].device}
        holders == {d \in claimants : <<d, reqs[q].hash>> \in claims}
    IN
    /\ At(q, "delete", "spend")
    /\ spent' = spent \cup {reqs[q].token}
    /\ reqs' = [reqs EXCEPT ![q] = IF holders = {} \/ @.token \in spent THEN NoRequest
                                 ELSE [@ EXCEPT !.holders = holders, !.at = "delete"]]
    /\ UNCHANGED <<claims, others, holdings, reserved, history, bounds>>

DeleteClaim(q, d) ==
    /\ At(q, "delete", "delete")
    /\ d \in reqs[q].holders
    /\ claims' = claims \ {<<d, reqs[q].hash>>}
    /\ kept' = kept \ {<<d, reqs[q].hash>>}
    /\ reqs' = [reqs EXCEPT ![q].holders = @ \ {d},
                          ![q].at = IF reqs[q].holders = {d} THEN "still" ELSE "delete"]
    /\ UNCHANGED <<others, spent, holdings, reserved, proved, leaked, alone, stayed, bounds>>

\* The store fails: what is removed stays removed, and is still held.
DeleteFails(q) ==
    /\ At(q, "delete", "delete") \/ At(q, "delete", "still")
    /\ End(q)
    /\ UNCHANGED <<store, holdings, history, bounds>>

\* Mutant: the signer's own claim is the last.
DeleteStillOwn(q) ==
    /\ At(q, "delete", "still")
    /\ Goto(q, "remove")
    /\ UNCHANGED <<store, holdings, reserved, history, bounds>>
\* "The group still holds the blob while any of its keys claims it."
DeleteStill(q) ==
    /\ At(q, "delete", "still")
    /\ reqs' = [reqs EXCEPT ![q] = IF reqs[q].hash \in Claimed THEN NoRequest
                                 ELSE [@ EXCEPT !.at = "remove"]]
    /\ UNCHANGED <<store, holdings, reserved, history, bounds>>
DeleteRemove(q) ==
    /\ At(q, "delete", "remove")
    /\ holdings' = Held \ {reqs[q].hash}
    /\ End(q)
    /\ UNCHANGED <<store, history, bounds>>

-----------------------------------------------------------------------------
(* Hang-ups, others and crashes.                                             *)

\* The client goes away, and the reservation with the request.  Between two
\* blocking tasks the upload is dropped; a task that has begun goes on.
HangUp(q) ==
    /\ reqs[q].kind = "upload" /\ reqs[q].at \notin {"held", "reserve", "finish"}
    /\ ~reqs[q].gone
    /\ stayed' = FALSE
    /\ reserved' = reserved - reqs[q].need
    /\ \/ /\ reqs[q].at \in {"exists", "prove", "begin", "body"}
          /\ reqs' = [reqs EXCEPT ![q] = NoRequest]
       \/ /\ reqs[q].at \in {"begin", "body", "takeBack", "insert"}
          /\ reqs' = [reqs EXCEPT ![q].need = 0, ![q].gone = TRUE]
    /\ UNCHANGED <<store, holdings, proved, leaked, kept, alone, bounds>>

OthersClaim(h) ==
    /\ h \notin others
    /\ others' = others \cup {h}
    /\ UNCHANGED <<claims, spent, holdings, reserved, reqs, history, bounds>>
OthersDelete(h) ==
    /\ h \in others
    /\ others' = others \ {h}
    /\ UNCHANGED <<claims, spent, holdings, reserved, reqs, history, bounds>>

Crash ==
    /\ crashes < MaxCrashes
    /\ crashes' = crashes + 1
    /\ leaked' = leaked \cup
        {<<reqs[q].device, reqs[q].hash>> :
            q \in {p \in Requests : At(p, "upload", "takeBack") \/ At(p, "mirror", "verdict")}}
    /\ alone' = (alone /\ \A q \in InFlight : reqs[q].kind = "upload")
    /\ holdings' = None
    /\ reserved' = 0
    /\ reqs' = [q \in Requests |-> NoRequest]
    /\ UNCHANGED <<store, proved, kept, stayed, arrived>>

GateNext ==
    \/ \E q \in Requests, d \in Devices, h \in Hashes :
        \/ ArriveUpload(q, d, h) \/ ArriveMirror(q, d, h)
        \/ \E t \in Tokens : ArriveDelete(q, t, d, h)
    \/ \E q \in Requests :
        \/ UploadHeld(q) \/ UploadReserve(q) \/ UploadFull(q) \/ UploadExists(q)
        \/ UploadProve(q) \/ BeginExisting(q) \/ TakeBack(q) \/ BeginReserved(q)
        \/ BodyCommit(q) \/ UploadInsert(q) \/ UploadFinish(q) \/ UploadRefused(q)
        \/ MirrorReserved(q) \/ MirrorHeld(q) \/ MirrorExisting(q)
        \/ MirrorBegin(q) \/ MirrorCommit(q) \/ MirrorRefused(q) \/ MirrorVerdict(q)
        \/ DeleteSpend(q) \/ (\E d \in Devices : DeleteClaim(q, d))
        \/ DeleteFails(q) \/ DeleteStill(q) \/ DeleteRemove(q)
        \/ HangUp(q)
    \/ \E h \in Hashes : OthersClaim(h) \/ OthersDelete(h)
    \/ Crash

GateSpec == GateInit /\ [][GateNext]_gateVars

-----------------------------------------------------------------------------
\* What the group may read, it has shown it has: group_read serves what the
\* holdings name, and those are blobs whose bytes a device of the group sent or
\* mirrored.  The one exception is a claim that a crash kept the gate from
\* taking back.
ProvenReads == holdings # None => holdings \subseteq proved \cup {c[2] : c \in leaked}

\* The claims of a group stay within its ceiling however its uploads interleave
\* and wherever the node crashes, while no client hangs up, mirrors and deletes
\* run alone, and no mirror awaits the verdict.
CeilingHolds ==
    alone /\ stayed /\ ~(\E q \in Requests : At(q, "mirror", "verdict"))
        => Total(Claimed) <= Ceiling

\* A blob some key of the group claims counts against the ceiling, and is served
\* to the group, once the requests have ended: whatever uploads interleave, hang
\* up or die, while mirrors and deletes run alone.
HoldingsCover == alone /\ InFlight = {} => Claimed \subseteq Held

\* The holdings name nothing that the group has not shown and leave out nothing
\* that it claims (Holdings, read by group_read and by the ceiling).
HoldingsRight == ProvenReads /\ HoldingsCover

\* "a group's files stay until a holder deletes them or the node owner removes
\* them": while mirrors and deletes run alone, what an upload or a mirror was
\* answered for and no delete has named since stays claimed.
FilesStay == alone => kept \subseteq claims
=============================================================================
