------------------------- MODULE DeviceGrantsProofs -------------------------
(***************************************************************************)
(* Proofs of the safety properties of DeviceGrants, for any devices,       *)
(* owners, signed events, concurrent requests and faults.                  *)
(***************************************************************************)
EXTENDS DeviceGrants, FiniteSetTheorems, TLAPS

Waiting == {"push", "pushing", "revert"}
Pushing == {"pushing", "repushing"}
Places == {"push", "pushing", "revert", "repush", "repushing"}

\* The state of a device that an accepted revocation left, or a later one.
Covers(row, marks, e) ==
    IF row = None
    THEN marks[e.device] # None /\ marks[e.device] >= e.created
    ELSE row.last >= e.created /\ (row.revoked \/ row.granted > e.created)

\* No row forgets a revocation of its device.
Remembered == \A e \in revoked : Covers(rows[e.device], markers, e)

\* What a request that may still put a row back goes by: its own row is not ahead
\* of the table, and the row it found covers every revocation but the later ones.
Harmless(op, table, marks, past) ==
    /\ op.row = RowOf(op.event)
    /\ op.wasRow # None => op.wasRow.last < op.row.last
    /\ table[op.event.device] # None /\ op.row.last <= table[op.event.device].last
    /\ \A e \in past :
        e.device = op.event.device => Covers(op.wasRow, marks, e) \/ e.created > op.row.last
Undoable == \A q \in Requests : ops[q].at \in Waiting => Harmless(ops[q], rows, markers, revoked)

\* Of two such requests for a device one came after the other, and found its row
\* or a later one.
After(p, q) == ops[p].wasRow # None /\ ops[q].row.last <= ops[p].wasRow.last
Ordered ==
    \A p, q \in Requests :
        /\ p # q
        /\ ops[p].at \in Waiting /\ ops[q].at \in Waiting
        /\ ops[p].event.device = ops[q].event.device
        => After(p, q) \/ After(q, p)

\* Whoever pushes holds the lock.
Locked ==
    /\ \A q \in Requests : ops[q].at \in Pushing <=> lock = q
    /\ sweep.at = "pushing" <=> lock = "sweep"

\* Without a refused or dropped push, a change of the members the core has not
\* heard of is on its way.
Underway ==
    faults \subseteq {"crashed"} =>
        \/ sweep.at = "push"
        \/ \E q \in Requests : ops[q].at = "push"
        \/ CoreFriendGrants = IF lock = "free" THEN core ELSE pending

\* Only a refused push leads to anything being put back.
NotRefused ==
    "refused" \notin faults =>
        /\ sweep.at # "back"
        /\ \A q \in Requests : ops[q].at \notin {"revert", "repush", "repushing"}

IInv ==
    /\ TypeOK /\ Remembered /\ Undoable /\ Ordered /\ Locked /\ Underway
    /\ NotRefused /\ ActiveKeysAreMembers

-----------------------------------------------------------------------------
(* The operators.                                                            *)

\* A function on a finite set that is not empty has a largest value.
LEMMA Largest ==
    ASSUME NEW S, IsFiniteSet(S), S # {}, NEW f \in [S -> Nat]
    PROVE  \E x \in S : \A y \in S : f[y] <= f[x]
<1> DEFINE Bounded(A) == \E x \in A : \A y \in A : f[y] <= f[x]
           Bad == {A \in SUBSET S : A # {} /\ ~Bounded(A)}
<1>1. SUFFICES ASSUME Bad # {} PROVE FALSE
  BY Zenon
<1>2. PICK A \in Bad : \A B \in Bad : ~(<<B, A>> \in StrictSubsetOrdering(S))
  <2>1. IsWellFoundedOn(StrictSubsetOrdering(S), SUBSET S)
    BY Zenon, FS_FiniteSubsetsOfFinite, FS_StrictSubsetOrderingWellFounded
  <2>2. Bad \subseteq SUBSET S
    BY Zenon
  <2> HIDE DEF Bad
  <2> QED
    BY Zenon, <1>1, <2>1, <2>2, WFMin
<1>3. PICK a \in A : TRUE
  BY Zenon
<1>4. A \ {a} \notin Bad
  <2>1. A \ {a} \in SUBSET S /\ A \in SUBSET S /\ A \ {a} \subseteq A /\ A \ {a} # A
    BY Zenon, <1>3
  <2>2. <<A \ {a}, A>> \in StrictSubsetOrdering(S)
    BY Zenon, <2>1 DEF StrictSubsetOrdering
  <2> QED
    BY Zenon, <1>2, <2>2
<1>5. CASE A \ {a} = {}
  <2>1. \A y \in A : y = a
    BY Zenon, <1>5
  <2> QED
    BY <1>2, <1>3, <2>1
<1>6. CASE A \ {a} # {}
  <2>1. PICK x \in A \ {a} : \A y \in A \ {a} : f[y] <= f[x]
    BY Zenon, <1>4, <1>6
  <2>2. a \in S /\ x \in S /\ A \subseteq S
    BY Zenon, <1>3
  <2>3. \A y \in A : f[y] \in Nat
    BY Zenon, <2>2
  <2>4. CASE f[a] <= f[x]
    BY Zenon, <2>1, <2>3, <2>4, <1>2
  <2>5. CASE f[x] <= f[a]
    <3>1. \A y \in A : f[y] <= f[a]
      BY <1>3, <2>1, <2>3, <2>5
    <3> QED
      BY Zenon, <1>2, <1>3, <3>1
  <2> QED
    BY <1>3, <2>1, <2>3, <2>4, <2>5
<1> QED
  BY Zenon, <1>5, <1>6

\* The ceiling of a key that is named by an active grant is one of the limits.
LEMMA ActiveLimitType ==
    ASSUME NEW table \in Rows, NEW k, now \in Nat, KeyActive(table, k)
    PROVE  ActiveLimit(table, k) \in Nat
<1> DEFINE S == ActiveNaming(table, k)
           f == [d \in S |-> table[d].limit]
<1>1. S \subseteq Devices /\ \A d \in S : table[d] \in Row
  BY Zenon DEF ActiveNaming, Naming, Rows
<1>2. IsFiniteSet(S) /\ S # {}
  BY Zenon, <1>1, FS_Subset, DevicesAssumption DEF KeyActive
<1>3. f \in [S -> Nat]
  BY Zenon, <1>1 DEF Row
<1>4. PICK x \in S : \A y \in S : f[y] <= f[x]
  <2> HIDE DEF f, S
  <2> QED
    BY Zenon, <1>2, <1>3, Largest
<1>5. /\ f[x] \in {table[d].limit : d \in S}
      /\ \A d \in S : table[d].limit <= f[x]
  BY Zenon, <1>4
<1>6. ActiveLimit(table, k) \in {table[d].limit : d \in S}
  BY Zenon, <1>5 DEF ActiveLimit
<1> QED
  BY Zenon, <1>1, <1>6 DEF Row

\* What the place of a request tells of it.
LEMMA OpShape ==
    ASSUME NEW op \in Op
    PROVE  /\ op.at \in {"idle", "verified"} \cup Places
           /\ op.at = "idle" <=> op = Idle
           /\ op.at = "verified" => op.event \in Events
           /\ op.at \in Places => op \in Applied
BY DEF Op, Idle, Verified, Applied, Places

\* A request that has applied its grant moves from place to place.
LEMMA OpMoves ==
    ASSUME NEW op \in Op, op.at \in Places, NEW at \in Places
    PROVE  /\ [op EXCEPT !.at = at] \in Op
           /\ [op EXCEPT !.at = at].at = at
           /\ [op EXCEPT !.at = at].event = op.event
           /\ [op EXCEPT !.at = at].row = op.row
           /\ [op EXCEPT !.at = at].wasRow = op.wasRow
<1>1. op \in Applied
  BY Zenon, OpShape
<1> QED
  BY Zenon, <1>1 DEF Op, Applied, Places

\* The members have the shape of a friend set.
LEMMA FriendsType ==
    ASSUME members \in Members
    PROVE  CoreFriendGrants \in Friends
BY Zenon, RecordAssumption DEF CoreFriendGrants, Friends, Members, Member

\* No pass under way is a state of a pass.
LEMMA NoPassType == NoPass \in [at: {"idle", "push", "pushing", "back"}, removed: Members]
BY Zenon DEF NoPass, Members

\* The row a grant writes.
LEMMA RowOfType ==
    ASSUME NEW e \in Event
    PROVE  /\ RowOf(e) \in Row /\ RowOf(e) # None
           /\ RowOf(e).last = e.created /\ RowOf(e).granted = e.created
           /\ RowOf(e).revoked = FALSE
<1>1. RowOf(e) \in Row
  BY Zenon DEF Event, Row, RowOf
<1> QED
  BY Zenon, <1>1, RecordAssumption DEF RowOf

\* What apply_grant changes.
LEMMA GrantStep ==
    ASSUME TypeOK, NEW q \in Requests, ApplyGrant(q), NEW e, e = ops[q].event
    PROVE  /\ e \in Events /\ e \in Event /\ e.device \in Devices /\ e.created \in Nat
           /\ rows[e.device] \in Row \cup {None}
           /\ rows[e.device] # None => rows[e.device].last < e.created
           /\ markers[e.device] # None => markers[e.device] < e.created
           /\ rows' = [rows EXCEPT ![e.device] = RowOf(e)]
           /\ members' \in Members
           /\ members'[e.device] # None /\ members'[e.recovery] # None
           /\ \A k \in Keys \ {e.device, e.recovery} : members'[k] = members[k]
           /\ ops' = [ops EXCEPT ![q] = [at |-> "push", event |-> e, row |-> RowOf(e),
                                         wasRow |-> rows[e.device], wasMembers |-> members]]
           /\ UNCHANGED <<markers, revoked, now>>
<1>1. e \in Events /\ e \in Event
  BY Zenon, OpShape, EventAssumption DEF ApplyGrant, TypeOK
<1>2. /\ e.device \in Devices /\ e.device \in Keys /\ e.recovery \in Keys
      /\ e.created \in Nat /\ e.owner \in Owners /\ e.limit \in Nat
  BY Zenon, <1>1 DEF Event, Keys
<1>3. rows[e.device] \in Row \cup {None} /\ markers[e.device] \in Nat \cup {None}
  BY Zenon, <1>2 DEF TypeOK, Rows
<1>4. ~Outdated(e)
  BY Zenon DEF ApplyGrant, Conflict
<1>5. /\ rows[e.device] # None => rows[e.device].last < e.created
      /\ markers[e.device] # None => markers[e.device] < e.created
  BY <1>2, <1>3, <1>4 DEF Outdated, Row
<1> DEFINE projected == [rows EXCEPT ![e.device] = RowOf(e)]
           recovery == IF KeyActive(projected, e.recovery)
                       THEN ActiveLimit(projected, e.recovery) ELSE e.limit
           device == [owner |-> e.owner, limit |-> e.limit]
           identity == [owner |-> e.owner, limit |-> recovery]
<1>6. projected \in Rows
  BY Zenon, <1>1, RowOfType DEF TypeOK, Rows
<1>7. recovery \in Nat
  <2> HIDE DEF projected
  <2> QED
    BY Zenon, <1>2, <1>6, ActiveLimitType DEF TypeOK
<1>8. device \in Member /\ identity \in Member
  BY Zenon, <1>2, <1>7 DEF Member
<1>9. members' = [members EXCEPT ![e.device] = device, ![e.recovery] = identity]
  BY Zenon DEF ApplyGrant
<1>10. /\ members' \in Members
       /\ members'[e.device] # None /\ members'[e.recovery] # None
       /\ \A k \in Keys \ {e.device, e.recovery} : members'[k] = members[k]
  <2> HIDE DEF device, identity
  <2> QED
    BY Zenon, <1>2, <1>8, <1>9, RecordAssumption DEF TypeOK, Members
<1> QED
  BY Zenon, <1>1, <1>2, <1>3, <1>5, <1>10 DEF ApplyGrant

\* What apply_revoke changes.
LEMMA RevokeStep ==
    ASSUME TypeOK, NEW q \in Requests, ApplyRevoke(q), NEW e, e = ops[q].event
    PROVE  /\ e \in Event /\ e.device \in Devices /\ e.created \in Nat
           /\ rows[e.device] \in Row \cup {None}
           /\ rows[e.device] # None =>
                /\ rows[e.device].last < e.created
                /\ rows'[e.device] \in Row /\ rows'[e.device].revoked
                /\ rows'[e.device].last = e.created
                /\ markers' = markers
           /\ rows[e.device] = None => rows' = rows /\ markers'[e.device] = e.created
           /\ markers[e.device] # None => markers[e.device] < e.created
           /\ \A d \in Devices \ {e.device} : rows'[d] = rows[d] /\ markers'[d] = markers[d]
           /\ revoked' = revoked \cup {e}
           /\ ops' = [ops EXCEPT ![q] = Idle]
           /\ UNCHANGED <<members, now>>
<1>1. e \in Event
  BY Zenon, OpShape, EventAssumption DEF ApplyRevoke, TypeOK
<1>2. e.device \in Devices /\ e.created \in Nat
  BY Zenon, <1>1 DEF Event
<1>3. rows[e.device] \in Row \cup {None} /\ markers[e.device] \in Nat \cup {None}
  BY Zenon, <1>2 DEF TypeOK, Rows
<1>4. /\ rows[e.device] # None => rows[e.device].last < e.created
      /\ markers[e.device] # None => markers[e.device] < e.created
  BY <1>2, <1>3 DEF Outdated, Row, ApplyRevoke
<1>5. CASE rows[e.device] # None
  <2> DEFINE row == [rows[e.device] EXCEPT !.revoked = TRUE, !.last = e.created]
  <2>1. row \in Row /\ row.revoked /\ row.last = e.created
    BY Zenon, <1>2, <1>3, <1>5 DEF Row
  <2>2. rows' = [rows EXCEPT ![e.device] = row] /\ markers' = markers
    BY Zenon, <1>5 DEF ApplyRevoke
  <2> HIDE DEF row
  <2>3. rows'[e.device] = row /\ \A d \in Devices \ {e.device} : rows'[d] = rows[d]
    BY Zenon, <1>2, <2>2 DEF TypeOK, Rows
  <2> QED
    BY Zenon, <1>1, <1>2, <1>3, <1>4, <1>5, <2>1, <2>2, <2>3 DEF ApplyRevoke
<1>6. CASE rows[e.device] = None
  BY Zenon, <1>1, <1>2, <1>3, <1>4, <1>6 DEF ApplyRevoke, TypeOK
<1> QED
  BY Zenon, <1>3, <1>5, <1>6

\* What a request that may still put its row back holds.
LEMMA WaitingType ==
    ASSUME TypeOK, NEW q \in Requests, ops[q].at \in Waiting
    PROVE  /\ ops[q].event \in Event /\ ops[q].event.device \in Devices
           /\ ops[q].row.last \in Nat
           /\ ops[q].wasRow # None => ops[q].wasRow.last \in Nat
<1>1. ops[q] \in Applied
  BY Zenon, OpShape DEF TypeOK, Waiting, Places
<1> QED
  BY Zenon, <1>1, EventAssumption DEF Applied, Row, Event

-----------------------------------------------------------------------------
(* The invariant.                                                            *)

\* Every step keeps the types.
LEMMA TypePreserved ==
    ASSUME TypeOK, [Next]_vars
    PROVE  TypeOK'
<1>1. ASSUME NEW q \in Requests, NEW e \in signed, VerifyEvent(q, e) PROVE TypeOK'
  <2>1. Verified(e) \in Op
    BY Zenon DEF TypeOK, Op, Events
  <2> QED
    BY Zenon, <1>1, <2>1 DEF VerifyEvent, TypeOK, tables
<1>2. ASSUME NEW q \in Requests, Refuse(q) PROVE TypeOK'
  BY Zenon, <1>2 DEF Refuse, TypeOK, tables, Op
<1>3. ASSUME NEW q \in Requests, ApplyGrant(q) PROVE TypeOK'
  <2> DEFINE e == ops[q].event
             op == [at |-> "push", event |-> e, row |-> RowOf(e), wasRow |-> rows[e.device],
                    wasMembers |-> members]
  <2>1. /\ e \in Events /\ e \in Event /\ rows[e.device] \in Row \cup {None}
        /\ rows' = [rows EXCEPT ![e.device] = RowOf(e)]
        /\ ops' = [ops EXCEPT ![q] = op]
        /\ members' \in Members
    BY Zenon, <1>3, GrantStep
  <2>2. RowOf(e) \in Row
    BY Zenon, <2>1, RowOfType
  <2>3. op \in Op
    BY Zenon, <2>1, <2>2 DEF Op, Applied, TypeOK
  <2>4. used' = used \cup {e} /\ UNCHANGED <<signed, now, markers, core, sweep, lock, pending,
                                             revoked, faults>>
    BY Zenon, <1>3 DEF ApplyGrant
  <2> HIDE DEF e, op
  <2> QED
    BY Zenon, <2>1, <2>2, <2>3, <2>4 DEF TypeOK, Rows
<1>4. ASSUME NEW q \in Requests, ApplyRevoke(q) PROVE TypeOK'
  <2> DEFINE e == ops[q].event
  <2>1. e \in Events /\ e \in Event
    BY Zenon, <1>4, OpShape, EventAssumption DEF ApplyRevoke, TypeOK
  <2>2. e.device \in Devices /\ e.created \in Nat
    BY Zenon, <2>1 DEF Event
  <2>3. rows' \in Rows
    <3>1. CASE rows[e.device] # None
      <4> DEFINE row == [rows[e.device] EXCEPT !.revoked = TRUE, !.last = e.created]
      <4>1. rows[e.device] \in Row
        BY Zenon, <2>2, <3>1 DEF TypeOK, Rows
      <4>2. row \in Row
        BY Zenon, <2>2, <4>1 DEF Row
      <4>3. rows' = [rows EXCEPT ![e.device] = row]
        BY Zenon, <1>4, <3>1 DEF ApplyRevoke
      <4> HIDE DEF row, e
      <4> QED
        BY Zenon, <4>2, <4>3 DEF TypeOK, Rows
    <3>2. CASE rows[e.device] = None
      BY Zenon, <1>4, <3>2 DEF ApplyRevoke, TypeOK
    <3> QED
      BY Zenon, <3>1, <3>2
  <2>4. markers' \in [Devices -> Nat \cup {None}]
    <3>1. \/ markers' = markers
          \/ markers' = [markers EXCEPT ![e.device] = e.created]
      BY Zenon, <1>4 DEF ApplyRevoke
    <3> QED
      BY Zenon, <2>2, <3>1 DEF TypeOK
  <2>5. /\ ops' = [ops EXCEPT ![q] = Idle]
        /\ used' = used \cup {e} /\ revoked' = revoked \cup {e}
        /\ UNCHANGED <<signed, now, members, core, sweep, lock, pending, faults>>
    BY Zenon, <1>4 DEF ApplyRevoke
  <2>6. ops' \in [Requests -> Op]
    BY Zenon, <2>5 DEF TypeOK, Op
  <2> HIDE DEF e
  <2> QED
    BY Zenon, <2>1, <2>3, <2>4, <2>5, <2>6 DEF TypeOK
<1>5. ASSUME NEW q \in Requests, PushStart(q) PROVE TypeOK'
  <2> DEFINE op == [ops[q] EXCEPT !.at = IF ops[q].at = "push" THEN "pushing" ELSE "repushing"]
  <2>1. ops[q] \in Op /\ ops[q].at \in Places
    BY Zenon, <1>5 DEF PushStart, TypeOK, Places
  <2>2. op \in Op
    BY Zenon, <2>1, OpMoves DEF Places
  <2>3. ops' = [ops EXCEPT ![q] = op]
    BY Zenon, <1>5 DEF PushStart
  <2>4. ops' \in [Requests -> Op]
    <3> HIDE DEF op
    <3> QED
      BY Zenon, <2>2, <2>3 DEF TypeOK
  <2> QED
    BY Zenon, <1>5, <2>4, FriendsType DEF PushStart, TypeOK, tables
<1>6. ASSUME NEW q \in Requests, PushDone(q) PROVE TypeOK'
  BY Zenon, <1>6 DEF PushDone, TypeOK, tables, Op
<1>7. ASSUME NEW q \in Requests, PushFails(q) PROVE TypeOK'
  <2>1. ops' \in [Requests -> Op]
    <3> DEFINE op == [ops[q] EXCEPT !.at = "revert"]
    <3>1. ops[q] \in Op /\ ops[q].at \in Places
      BY Zenon, <1>7 DEF PushFails, TypeOK, Places
    <3>2. op \in Op /\ Idle \in Op
      BY Zenon, <3>1, OpMoves DEF Places, Op
    <3>3. ops' = [ops EXCEPT ![q] = op] \/ ops' = [ops EXCEPT ![q] = Idle]
      BY Zenon, <1>7 DEF PushFails
    <3> HIDE DEF op
    <3> QED
      BY Zenon, <3>2, <3>3 DEF TypeOK
  <2> QED
    BY Zenon, <1>7, <2>1 DEF PushFails, TypeOK, tables, Fault, Faults
<1>8. ASSUME NEW q \in Requests, Revert(q) PROVE TypeOK'
  <2> DEFINE op == [ops[q] EXCEPT !.at = "repush"]
  <2>1. ops[q] \in Op /\ ops[q].at \in Places
    BY Zenon, <1>8 DEF Revert, TypeOK, Places
  <2>2. op \in Op
    BY Zenon, <2>1, OpMoves DEF Places
  <2>3. ops' = [ops EXCEPT ![q] = op]
    BY Zenon, <1>8 DEF Revert
  <2>4. ops' \in [Requests -> Op]
    <3> HIDE DEF op
    <3> QED
      BY <2>2, <2>3 DEF TypeOK
  <2>5. ops[q] \in Applied /\ ops[q].event \in Event
    BY Zenon, <2>1, OpShape, EventAssumption DEF Applied
  <2>6. rows' \in Rows
    BY Zenon, <1>8, <2>5 DEF Revert, TypeOK, Rows, Applied
  <2>7. members' \in Members
    <3>1. /\ ops[q].event.device \in Keys /\ ops[q].event.recovery \in Keys
          /\ ops[q].wasMembers \in Members
      BY Zenon, <2>5 DEF Event, Keys, Applied
    <3> QED
      BY Zenon, <1>8, <3>1 DEF Revert, TypeOK, Members
  <2> QED
    BY Zenon, <1>8, <2>4, <2>6, <2>7 DEF Revert, TypeOK
<1>9. ASSUME NEW q \in Requests, Hangup(q) PROVE TypeOK'
  <2>1. ops' \in [Requests -> Op]
    BY Zenon, <1>9 DEF Hangup, TypeOK, Op
  <2> QED
    BY Zenon, <1>9, <2>1 DEF Hangup, TypeOK, tables, Fault, Faults
<1>10. CASE Sweep
  <2>1. PICK moved \in SUBSET Ended :
            /\ members' = [k \in Keys |->
                    CASE k \in moved -> None
                      [] members[k] # None /\ KeyActive(rows, k) ->
                            [members[k] EXCEPT !.limit = ActiveLimit(rows, k)]
                      [] OTHER -> members[k]]
            /\ \E at \in {"push", "idle"} :
                sweep' = [at |-> at,
                          removed |-> [k \in Keys |-> IF k \in moved THEN members[k] ELSE None]]
            /\ UNCHANGED <<signed, now, rows, markers, used, core, ops, lock, pending, revoked, faults>>
    BY Zenon, <1>10 DEF Sweep
  <2>2. ASSUME NEW k \in Keys PROVE members'[k] \in Member \cup {None}
    <3>1. members[k] \in Member \cup {None}
      BY Zenon DEF TypeOK, Members
    <3>2. KeyActive(rows, k) => ActiveLimit(rows, k) \in Nat
      BY Zenon, ActiveLimitType DEF TypeOK
    <3>3. members[k] \in Member /\ KeyActive(rows, k) =>
            [members[k] EXCEPT !.limit = ActiveLimit(rows, k)] \in Member
      BY Zenon, <3>2 DEF Member
    <3> QED
      BY Zenon, <2>1, <3>1, <3>3
  <2>3. members' \in Members
    BY Zenon, <2>1, <2>2 DEF Members
  <2>4. [k \in Keys |-> IF k \in moved THEN members[k] ELSE None] \in Members
    BY Zenon DEF TypeOK, Members
  <2>5. sweep' \in [at: {"idle", "push", "pushing", "back"}, removed: Members]
    BY <2>1, <2>4
  <2> QED
    BY Zenon, <2>1, <2>3, <2>5 DEF TypeOK
<1>11. CASE SweepPushStart
  BY Zenon, <1>11, FriendsType DEF SweepPushStart, TypeOK, tables
<1>12. CASE SweepPushDone
  BY Zenon, <1>12, NoPassType DEF SweepPushDone, TypeOK, tables
<1>13. CASE SweepPushFails
  BY Zenon, <1>13 DEF SweepPushFails, TypeOK, tables, Fault, Faults
<1>14. CASE SweepBack
  BY Zenon, <1>14, NoPassType DEF SweepBack, TypeOK, tables, Members
<1>15. CASE Prune
  BY Zenon, <1>15 DEF Prune, TypeOK
<1>16. CASE Tick
  BY <1>16 DEF Tick, TypeOK, tables
<1>17. CASE Crash
  BY Zenon, <1>17, NoPassType, FriendsType DEF Crash, TypeOK, tables, Fault, Faults, Op
<1>18. CASE UNCHANGED vars
  BY Zenon, <1>18 DEF vars, tables, TypeOK
<1> QED
  BY Zenon, <1>1, <1>2, <1>3, <1>4, <1>5, <1>6, <1>7, <1>8, <1>9, <1>10, <1>11, <1>12, <1>13, <1>14,
     <1>15, <1>16, <1>17, <1>18
    DEF Next

\* Every step keeps the lock with the one that pushes.
LEMMA LockedPreserved ==
    ASSUME IInv, TypeOK', [Next]_vars
    PROVE  Locked'
<1>1. ASSUME NEW q \in Requests, NEW e \in signed, VerifyEvent(q, e) PROVE Locked'
  BY <1>1, RequestAssumption
    DEF VerifyEvent, tables, IInv, Locked, TypeOK, Pushing, Idle, Verified, NoPass
<1>2. ASSUME NEW q \in Requests, Refuse(q) PROVE Locked'
  BY Zenon, <1>2, RequestAssumption
    DEF Refuse, tables, IInv, Locked, TypeOK, Pushing, Idle, Verified, NoPass
<1>3. ASSUME NEW q \in Requests, ApplyGrant(q) PROVE Locked'
  BY Zenon, <1>3, RequestAssumption
    DEF ApplyGrant, tables, IInv, Locked, TypeOK, Pushing, Idle, Verified, NoPass
<1>4. ASSUME NEW q \in Requests, ApplyRevoke(q) PROVE Locked'
  BY Zenon, <1>4, RequestAssumption
    DEF ApplyRevoke, tables, IInv, Locked, TypeOK, Pushing, Idle, Verified, NoPass
<1>5. ASSUME NEW q \in Requests, PushStart(q) PROVE Locked'
  BY <1>5, RequestAssumption
    DEF PushStart, tables, IInv, Locked, TypeOK, Pushing, Idle, Verified, NoPass, Fault
<1>6. ASSUME NEW q \in Requests, PushDone(q) PROVE Locked'
  BY Zenon, <1>6, RequestAssumption
    DEF PushDone, tables, IInv, Locked, TypeOK, Pushing, Idle, Verified, NoPass, Fault
<1>7. ASSUME NEW q \in Requests, PushFails(q) PROVE Locked'
  BY <1>7, RequestAssumption
    DEF PushFails, tables, IInv, Locked, TypeOK, Pushing, Idle, Verified, NoPass, Fault
<1>8. ASSUME NEW q \in Requests, Revert(q) PROVE Locked'
  BY <1>8, RequestAssumption
    DEF Revert, tables, IInv, Locked, TypeOK, Pushing, Idle, Verified, NoPass
<1>9. ASSUME NEW q \in Requests, Hangup(q) PROVE Locked'
  BY Zenon, <1>9, RequestAssumption
    DEF Hangup, tables, IInv, Locked, TypeOK, Pushing, Idle, Verified, NoPass, Fault
<1>10. CASE Sweep
  BY <1>10, RequestAssumption
    DEF Sweep, tables, IInv, Locked, TypeOK, Pushing, Idle, Verified, NoPass
<1>11. CASE SweepPushStart
  BY Zenon, <1>11, RequestAssumption
    DEF SweepPushStart, tables, IInv, Locked, TypeOK, Pushing, Idle, Verified, NoPass, Fault
<1>12. CASE SweepPushDone
  BY Zenon, <1>12, RequestAssumption
    DEF SweepPushDone, tables, IInv, Locked, TypeOK, Pushing, Idle, Verified, NoPass, Fault
<1>13. CASE SweepPushFails
  BY Zenon, <1>13, RequestAssumption
    DEF SweepPushFails, tables, IInv, Locked, TypeOK, Pushing, Idle, Verified, NoPass, Fault
<1>14. CASE SweepBack
  BY Zenon, <1>14, RequestAssumption
    DEF SweepBack, tables, IInv, Locked, TypeOK, Pushing, Idle, Verified, NoPass
<1>15. CASE Prune
  BY Zenon, <1>15, RequestAssumption
    DEF Prune, tables, IInv, Locked, TypeOK, Pushing, Idle, Verified, NoPass
<1>16. CASE Tick
  BY Zenon, <1>16, RequestAssumption
    DEF Tick, tables, IInv, Locked, TypeOK, Pushing, Idle, Verified, NoPass
<1>17. CASE Crash
  BY Zenon, <1>17, RequestAssumption
    DEF Crash, tables, IInv, Locked, TypeOK, Pushing, Idle, Verified, NoPass, Fault
<1>18. CASE UNCHANGED vars
  BY Zenon, <1>18, RequestAssumption
    DEF vars, tables, IInv, Locked, TypeOK, Pushing, Idle, Verified, NoPass
<1> QED
  BY Zenon, <1>1, <1>2, <1>3, <1>4, <1>5, <1>6, <1>7, <1>8, <1>9, <1>10, <1>11, <1>12, <1>13, <1>14,
     <1>15, <1>16, <1>17, <1>18
    DEF Next

\* Nothing is put back before a push was refused.
LEMMA NotRefusedPreserved ==
    ASSUME IInv, TypeOK', [Next]_vars
    PROVE  NotRefused'
<1>1. ASSUME NEW q \in Requests, NEW e \in signed, VerifyEvent(q, e) PROVE NotRefused'
  BY Zenon, <1>1 DEF VerifyEvent, tables, IInv, NotRefused, TypeOK, Idle, Verified, NoPass
<1>2. ASSUME NEW q \in Requests, Refuse(q) PROVE NotRefused'
  BY Zenon, <1>2 DEF Refuse, tables, IInv, NotRefused, TypeOK, Idle, Verified, NoPass
<1>3. ASSUME NEW q \in Requests, ApplyGrant(q) PROVE NotRefused'
  BY Zenon, <1>3 DEF ApplyGrant, tables, IInv, NotRefused, TypeOK, Idle, Verified, NoPass
<1>4. ASSUME NEW q \in Requests, ApplyRevoke(q) PROVE NotRefused'
  BY Zenon, <1>4 DEF ApplyRevoke, tables, IInv, NotRefused, TypeOK, Idle, Verified, NoPass
<1>5. ASSUME NEW q \in Requests, PushStart(q) PROVE NotRefused'
  BY <1>5 DEF PushStart, tables, IInv, NotRefused, TypeOK, Idle, Verified, NoPass, Fault
<1>6. ASSUME NEW q \in Requests, PushDone(q) PROVE NotRefused'
  BY Zenon, <1>6 DEF PushDone, tables, IInv, NotRefused, TypeOK, Idle, Verified, NoPass, Fault
<1>7. ASSUME NEW q \in Requests, PushFails(q) PROVE NotRefused'
  BY Zenon, <1>7 DEF PushFails, tables, IInv, NotRefused, TypeOK, Idle, Verified, NoPass, Fault
<1>8. ASSUME NEW q \in Requests, Revert(q) PROVE NotRefused'
  BY Zenon, <1>8 DEF Revert, tables, IInv, NotRefused, TypeOK, Idle, Verified, NoPass
<1>9. ASSUME NEW q \in Requests, Hangup(q) PROVE NotRefused'
  BY Zenon, <1>9 DEF Hangup, tables, IInv, NotRefused, TypeOK, Idle, Verified, NoPass, Fault
<1>10. CASE Sweep
  BY <1>10 DEF Sweep, tables, IInv, NotRefused, TypeOK, Idle, Verified, NoPass
<1>11. CASE SweepPushStart
  BY Zenon, <1>11
    DEF SweepPushStart, tables, IInv, NotRefused, TypeOK, Idle, Verified, NoPass, Fault
<1>12. CASE SweepPushDone
  BY Zenon, <1>12 DEF SweepPushDone, tables, IInv, NotRefused, TypeOK, Idle, Verified, NoPass, Fault
<1>13. CASE SweepPushFails
  BY Zenon, <1>13
    DEF SweepPushFails, tables, IInv, NotRefused, TypeOK, Idle, Verified, NoPass, Fault
<1>14. CASE SweepBack
  BY Zenon, <1>14 DEF SweepBack, tables, IInv, NotRefused, TypeOK, Idle, Verified, NoPass
<1>15. CASE Prune
  BY Zenon, <1>15 DEF Prune, tables, IInv, NotRefused, TypeOK, Idle, Verified, NoPass
<1>16. CASE Tick
  BY Zenon, <1>16 DEF Tick, tables, IInv, NotRefused, TypeOK, Idle, Verified, NoPass
<1>17. CASE Crash
  BY Zenon, <1>17 DEF Crash, tables, IInv, NotRefused, TypeOK, Idle, Verified, NoPass, Fault
<1>18. CASE UNCHANGED vars
  BY Zenon, <1>18 DEF vars, tables, IInv, NotRefused, TypeOK, Idle, Verified, NoPass
<1> QED
  BY <1>1, <1>2, <1>3, <1>4, <1>5, <1>6, <1>7, <1>8, <1>9, <1>10, <1>11, <1>12, <1>13, <1>14,
     <1>15, <1>16, <1>17, <1>18
    DEF Next

\* Every step keeps what the core has not heard of on its way.
LEMMA UnderwayPreserved ==
    ASSUME IInv, TypeOK', [Next]_vars
    PROVE  Underway'
<1>1. ASSUME NEW q \in Requests, NEW e \in signed, VerifyEvent(q, e) PROVE Underway'
  BY <1>1, RequestAssumption
    DEF VerifyEvent, tables, IInv, NotRefused, Locked, Underway, TypeOK, Idle, Verified, NoPass,
        CoreFriendGrants, Pushing
<1>2. ASSUME NEW q \in Requests, Refuse(q) PROVE Underway'
  BY Zenon, <1>2, RequestAssumption
    DEF Refuse, tables, IInv, NotRefused, Locked, Underway, TypeOK, Idle, Verified, NoPass,
        CoreFriendGrants, Pushing
<1>3. ASSUME NEW q \in Requests, ApplyGrant(q) PROVE Underway'
  BY Zenon, <1>3, RequestAssumption
    DEF ApplyGrant, tables, IInv, NotRefused, Locked, Underway, TypeOK, Idle, Verified, NoPass,
        CoreFriendGrants, Pushing
<1>4. ASSUME NEW q \in Requests, ApplyRevoke(q) PROVE Underway'
  BY <1>4, RequestAssumption
    DEF ApplyRevoke, tables, IInv, NotRefused, Locked, Underway, TypeOK, Idle, Verified, NoPass,
        CoreFriendGrants, Pushing
<1>5. ASSUME NEW q \in Requests, PushStart(q) PROVE Underway'
  BY Zenon, <1>5, RequestAssumption
    DEF PushStart, tables, IInv, NotRefused, Locked, Underway, TypeOK, Idle, Verified, NoPass,
        CoreFriendGrants, Pushing, Fault
<1>6. ASSUME NEW q \in Requests, PushDone(q) PROVE Underway'
  BY Zenon, <1>6, RequestAssumption
    DEF PushDone, tables, IInv, NotRefused, Locked, Underway, TypeOK, Idle, Verified, NoPass,
        CoreFriendGrants, Pushing, Fault
<1>7. ASSUME NEW q \in Requests, PushFails(q) PROVE Underway'
  BY Zenon, <1>7, RequestAssumption
    DEF PushFails, tables, IInv, NotRefused, Locked, Underway, TypeOK, Idle, Verified, NoPass,
        CoreFriendGrants, Pushing, Fault
<1>8. ASSUME NEW q \in Requests, Revert(q) PROVE Underway'
  BY Zenon, <1>8, RequestAssumption
    DEF Revert, tables, IInv, NotRefused, Locked, Underway, TypeOK, Idle, Verified, NoPass,
        CoreFriendGrants, Pushing
<1>9. ASSUME NEW q \in Requests, Hangup(q) PROVE Underway'
  BY Zenon, <1>9, RequestAssumption
    DEF Hangup, tables, IInv, NotRefused, Locked, Underway, TypeOK, Idle, Verified, NoPass,
        CoreFriendGrants, Pushing, Fault
<1>10. CASE Sweep
  <2>1. sweep'.at = "push" \/ members' = members
    BY <1>10 DEF Sweep, MustPush
  <2>2. sweep.at = "idle" /\ UNCHANGED <<ops, lock, core, pending, faults>>
    BY Zenon, <1>10 DEF Sweep
  <2>3. CASE members' = members
    BY Zenon, <2>2, <2>3 DEF IInv, Underway, CoreFriendGrants
  <2> QED
    BY Zenon, <2>1, <2>3 DEF Underway
<1>11. CASE SweepPushStart
  BY Zenon, <1>11, RequestAssumption
    DEF SweepPushStart, tables, IInv, NotRefused, Locked, Underway, TypeOK, Idle, Verified,
        NoPass, CoreFriendGrants, Pushing, Fault
<1>12. CASE SweepPushDone
  BY Zenon, <1>12, RequestAssumption
    DEF SweepPushDone, tables, IInv, NotRefused, Locked, Underway, TypeOK, Idle, Verified,
        NoPass, CoreFriendGrants, Pushing, Fault
<1>13. CASE SweepPushFails
  BY Zenon, <1>13, RequestAssumption
    DEF SweepPushFails, tables, IInv, NotRefused, Locked, Underway, TypeOK, Idle, Verified,
        NoPass, CoreFriendGrants, Pushing, Fault
<1>14. CASE SweepBack
  BY Zenon, <1>14, RequestAssumption
    DEF SweepBack, tables, IInv, NotRefused, Locked, Underway, TypeOK, Idle, Verified, NoPass,
        CoreFriendGrants, Pushing
<1>15. CASE Prune
  BY Zenon, <1>15, RequestAssumption
    DEF Prune, tables, IInv, NotRefused, Locked, Underway, TypeOK, Idle, Verified, NoPass,
        CoreFriendGrants, Pushing
<1>16. CASE Tick
  BY Zenon, <1>16, RequestAssumption
    DEF Tick, tables, IInv, NotRefused, Locked, Underway, TypeOK, Idle, Verified, NoPass,
        CoreFriendGrants, Pushing
<1>17. CASE Crash
  BY Zenon, <1>17, RequestAssumption
    DEF Crash, tables, IInv, NotRefused, Locked, Underway, TypeOK, Idle, Verified, NoPass,
        CoreFriendGrants, Pushing, Fault
<1>18. CASE UNCHANGED vars
  BY Zenon, <1>18, RequestAssumption
    DEF vars, tables, IInv, NotRefused, Locked, Underway, TypeOK, Idle, Verified, NoPass,
        CoreFriendGrants, Pushing
<1> QED
  BY <1>1, <1>2, <1>3, <1>4, <1>5, <1>6, <1>7, <1>8, <1>9, <1>10, <1>11, <1>12, <1>13, <1>14,
     <1>15, <1>16, <1>17, <1>18
    DEF Next

\* Every step keeps the keys of active grants among the members.
LEMMA MembersPreserved ==
    ASSUME IInv, TypeOK', [Next]_vars
    PROVE  ActiveKeysAreMembers'
<1>1. ASSUME NEW q \in Requests, NEW e \in signed, VerifyEvent(q, e) PROVE ActiveKeysAreMembers'
  BY Zenon, <1>1
    DEF VerifyEvent, tables, IInv, NotRefused, TypeOK, ActiveKeysAreMembers, KeyActive,
        ActiveNaming, Naming, GrantActive
<1>2. ASSUME NEW q \in Requests, Refuse(q) PROVE ActiveKeysAreMembers'
  BY Zenon, <1>2
    DEF Refuse, tables, IInv, NotRefused, TypeOK, ActiveKeysAreMembers, KeyActive, ActiveNaming,
        Naming, GrantActive
<1>3. ASSUME NEW q \in Requests, ApplyGrant(q) PROVE ActiveKeysAreMembers'
  <2> DEFINE e == ops[q].event
  <2>1. /\ e.device \in Devices
        /\ rows' = [rows EXCEPT ![e.device] = RowOf(e)] /\ now' = now
        /\ members'[e.device] # None /\ members'[e.recovery] # None
        /\ \A k \in Keys \ {e.device, e.recovery} : members'[k] = members[k]
    BY Zenon, <1>3, GrantStep DEF IInv
  <2>2. faults' = faults /\ RowOf(e).recovery = e.recovery
    BY Zenon, <1>3 DEF ApplyGrant, RowOf
  <2> HIDE DEF e
  <2>3. ASSUME NEW k \in Keys, k \notin {e.device, e.recovery}, KeyActive(rows, k)'
        PROVE  KeyActive(rows, k)
    BY <2>1, <2>2, <2>3 DEF KeyActive, ActiveNaming, Naming, GrantActive, IInv, TypeOK, Rows
  <2> QED
    BY Zenon, <2>1, <2>2, <2>3 DEF IInv, ActiveKeysAreMembers
<1>4. ASSUME NEW q \in Requests, ApplyRevoke(q) PROVE ActiveKeysAreMembers'
  <2>1. \A d \in Devices : GrantActive(rows[d])' =>
            rows[d] # None /\ rows'[d] = rows[d] /\ GrantActive(rows[d])
    BY <1>4, RevokeStep DEF IInv, GrantActive
  <2>2. members' = members /\ faults' = faults
    BY Zenon, <1>4 DEF ApplyRevoke
  <2> QED
    BY Zenon, <2>1, <2>2 DEF IInv, ActiveKeysAreMembers, KeyActive, ActiveNaming, Naming
<1>5. ASSUME NEW q \in Requests, PushStart(q) PROVE ActiveKeysAreMembers'
  BY Zenon, <1>5
    DEF PushStart, tables, IInv, NotRefused, TypeOK, ActiveKeysAreMembers, KeyActive,
        ActiveNaming, Naming, GrantActive, Fault
<1>6. ASSUME NEW q \in Requests, PushDone(q) PROVE ActiveKeysAreMembers'
  BY Zenon, <1>6
    DEF PushDone, tables, IInv, NotRefused, TypeOK, ActiveKeysAreMembers, KeyActive,
        ActiveNaming, Naming, GrantActive, Fault
<1>7. ASSUME NEW q \in Requests, PushFails(q) PROVE ActiveKeysAreMembers'
  BY Zenon, <1>7
    DEF PushFails, tables, IInv, NotRefused, TypeOK, ActiveKeysAreMembers, KeyActive,
        ActiveNaming, Naming, GrantActive, Fault
<1>8. ASSUME NEW q \in Requests, Revert(q) PROVE ActiveKeysAreMembers'
  BY Zenon, <1>8
    DEF Revert, tables, IInv, NotRefused, TypeOK, ActiveKeysAreMembers, KeyActive, ActiveNaming,
        Naming, GrantActive
<1>9. ASSUME NEW q \in Requests, Hangup(q) PROVE ActiveKeysAreMembers'
  BY Zenon, <1>9
    DEF Hangup, tables, IInv, NotRefused, TypeOK, ActiveKeysAreMembers, KeyActive, ActiveNaming,
        Naming, GrantActive, Fault
<1>10. CASE Sweep
  <2>1. PICK moved \in SUBSET Ended :
            members' = [k \in Keys |->
                    CASE k \in moved -> None
                      [] members[k] # None /\ KeyActive(rows, k) ->
                            [members[k] EXCEPT !.limit = ActiveLimit(rows, k)]
                      [] OTHER -> members[k]]
    BY Zenon, <1>10 DEF Sweep
  <2>2. rows' = rows /\ now' = now /\ faults' = faults
    BY Zenon, <1>10 DEF Sweep
  <2>3. ASSUME NEW k \in Keys, KeyActive(rows, k), members[k] # None
        PROVE  members'[k] # None
    <3>1. k \notin moved
      BY Zenon, <2>3 DEF Ended
    <3>2. members'[k] = [members[k] EXCEPT !.limit = ActiveLimit(rows, k)]
      BY Zenon, <2>1, <2>3, <3>1
    <3>3. members[k] \in Member /\ ActiveLimit(rows, k) \in Nat
      BY Zenon, <2>3, ActiveLimitType DEF IInv, TypeOK, Members
    <3>4. members'[k] \in Member
      BY Zenon, <3>2, <3>3 DEF Member
    <3> QED
      BY Zenon, <3>4, RecordAssumption
  <2>4. \A k \in Keys : KeyActive(rows, k)' = KeyActive(rows, k)
    BY Zenon, <2>2 DEF KeyActive, ActiveNaming, Naming, GrantActive
  <2> QED
    BY Zenon, <2>2, <2>3, <2>4 DEF IInv, ActiveKeysAreMembers
<1>11. CASE SweepPushStart
  BY Zenon, <1>11
    DEF SweepPushStart, tables, IInv, NotRefused, TypeOK, ActiveKeysAreMembers, KeyActive,
        ActiveNaming, Naming, GrantActive, Fault
<1>12. CASE SweepPushDone
  BY Zenon, <1>12
    DEF SweepPushDone, tables, IInv, NotRefused, TypeOK, ActiveKeysAreMembers, KeyActive,
        ActiveNaming, Naming, GrantActive, Fault
<1>13. CASE SweepPushFails
  BY Zenon, <1>13
    DEF SweepPushFails, tables, IInv, NotRefused, TypeOK, ActiveKeysAreMembers, KeyActive,
        ActiveNaming, Naming, GrantActive, Fault
<1>14. CASE SweepBack
  BY Zenon, <1>14
    DEF SweepBack, tables, IInv, NotRefused, TypeOK, ActiveKeysAreMembers, KeyActive,
        ActiveNaming, Naming, GrantActive
<1>15. CASE Prune
  BY Zenon, <1>15
    DEF Prune, tables, IInv, NotRefused, TypeOK, ActiveKeysAreMembers, KeyActive, ActiveNaming,
        Naming, GrantActive
<1>16. CASE Tick
  <2>1. \A d \in Devices : rows[d] # None => rows[d].until \in Nat
    BY Zenon DEF IInv, TypeOK, Rows, Row
  <2> QED
    BY <1>16, <2>1 DEF Tick, tables, IInv, TypeOK, ActiveKeysAreMembers, KeyActive, ActiveNaming,
       Naming, GrantActive
<1>17. CASE Crash
  BY Zenon, <1>17
    DEF Crash, tables, IInv, NotRefused, TypeOK, ActiveKeysAreMembers, KeyActive, ActiveNaming,
        Naming, GrantActive, Fault
<1>18. CASE UNCHANGED vars
  BY Zenon, <1>18
    DEF vars, tables, IInv, NotRefused, TypeOK, ActiveKeysAreMembers, KeyActive, ActiveNaming,
        Naming, GrantActive
<1> QED
  BY <1>1, <1>2, <1>3, <1>4, <1>5, <1>6, <1>7, <1>8, <1>9, <1>10, <1>11, <1>12, <1>13, <1>14,
     <1>15, <1>16, <1>17, <1>18
    DEF Next

\* A step that leaves the rows, the markers and the revocations, and starts no
\* request's wait for its push.
Calm ==
    /\ UNCHANGED <<rows, markers, revoked>>
    /\ \A p \in Requests :
        ops'[p].at \in Waiting =>
            /\ ops[p].at \in Waiting
            /\ ops'[p].event = ops[p].event
            /\ ops'[p].row = ops[p].row /\ ops'[p].wasRow = ops[p].wasRow

\* Only a grant, a revocation and the undoing of a grant are not calm.
LEMMA CalmSteps ==
    ASSUME TypeOK, [Next]_vars
    PROVE  Calm \/ \E q \in Requests : ApplyGrant(q) \/ ApplyRevoke(q) \/ Revert(q)
<1> USE DEF Calm
<1>1. ASSUME ops' = ops, UNCHANGED <<rows, markers, revoked>> PROVE Calm
  BY Zenon, <1>1
<1>2. ASSUME NEW q \in Requests, NEW op, op.at \notin Waiting, ops' = [ops EXCEPT ![q] = op],
             UNCHANGED <<rows, markers, revoked>>
      PROVE  Calm
  BY Zenon, <1>2 DEF TypeOK
<1>3. ASSUME NEW q \in Requests, ops[q].at \in Places, NEW at \in Places,
             at \in Waiting => ops[q].at \in Waiting,
             ops' = [ops EXCEPT ![q] = [ops[q] EXCEPT !.at = at]],
             UNCHANGED <<rows, markers, revoked>>
      PROVE  Calm
  <2>1. ops[q] \in Op
    BY Zenon DEF TypeOK
  <2>2. PICK op : op = [ops[q] EXCEPT !.at = at]
    BY Zenon
  <2>3. op.at = at /\ op.event = ops[q].event /\ op.row = ops[q].row /\ op.wasRow = ops[q].wasRow
    BY Zenon, <1>3, <2>1, <2>2, OpMoves
  <2> QED
    BY Zenon, <1>3, <2>2, <2>3 DEF TypeOK
<1> HIDE DEF Calm
<1>4. Idle.at \notin Waiting /\ \A e : Verified(e).at \notin Waiting
  BY Zenon DEF Idle, Verified, Waiting
<1>5. ASSUME NEW q \in Requests, NEW e \in signed, VerifyEvent(q, e) PROVE Calm
  BY Zenon, <1>2, <1>4, <1>5 DEF VerifyEvent, tables
<1>6. ASSUME NEW q \in Requests, Refuse(q) PROVE Calm
  BY Zenon, <1>2, <1>4, <1>6 DEF Refuse, tables
<1>7. ASSUME NEW q \in Requests, PushStart(q) PROVE Calm
  <2>1. PICK at \in Places :
            /\ ops' = [ops EXCEPT ![q] = [ops[q] EXCEPT !.at = at]]
            /\ at \in Waiting => ops[q].at \in Waiting
    BY Zenon, <1>7 DEF PushStart, Places, Waiting
  <2> QED
    BY Zenon, <1>3, <1>7, <2>1 DEF PushStart, tables, Places
<1>8. ASSUME NEW q \in Requests, PushDone(q) PROVE Calm
  BY Zenon, <1>2, <1>4, <1>8 DEF PushDone, tables
<1>9. ASSUME NEW q \in Requests, PushFails(q) PROVE Calm
  <2>1. CASE ops[q].at = "pushing"
    <3>1. ops' = [ops EXCEPT ![q] = [ops[q] EXCEPT !.at = "revert"]]
      BY Zenon, <1>9, <2>1 DEF PushFails
    <3> QED
      BY Zenon, <1>3, <1>9, <2>1, <3>1 DEF PushFails, tables, Places, Waiting
  <2>2. CASE ops[q].at # "pushing"
    BY Zenon, <1>2, <1>4, <1>9, <2>2 DEF PushFails, tables
  <2> QED
    BY Zenon, <2>1, <2>2
<1>10. ASSUME NEW q \in Requests, Hangup(q) PROVE Calm
  BY Zenon, <1>2, <1>4, <1>10 DEF Hangup, tables
<1>11. CASE Sweep \/ SweepPushStart \/ SweepPushDone \/ SweepPushFails \/ SweepBack
  BY Zenon, <1>1, <1>11 DEF Sweep, SweepPushStart, SweepPushDone, SweepPushFails, SweepBack, tables
<1>12. CASE Prune \/ Tick \/ UNCHANGED vars
  BY Zenon, <1>1, <1>12 DEF Prune, Tick, vars, tables
<1>13. CASE Crash
  <2>1. \A p \in Requests : ops'[p] = Idle
    BY Zenon, <1>13 DEF Crash
  <2> QED
    BY Zenon, <1>4, <1>13, <2>1 DEF Crash, tables, Calm
<1> QED
  BY Zenon, <1>5, <1>6, <1>7, <1>8, <1>9, <1>10, <1>11, <1>12, <1>13 DEF Next

\* Every step keeps the accepted revocations in the rows and the markers.
LEMMA RememberedPreserved ==
    ASSUME IInv, TypeOK', [Next]_vars
    PROVE  Remembered'
<1>1. ASSUME NEW q \in Requests, ApplyGrant(q) PROVE Remembered'
  <2> DEFINE e == ops[q].event
  <2>1. /\ e \in Event /\ e.device \in Devices /\ e.created \in Nat
        /\ rows[e.device] \in Row \cup {None}
        /\ rows[e.device] # None => rows[e.device].last < e.created
        /\ markers[e.device] # None => markers[e.device] < e.created
        /\ rows' = [rows EXCEPT ![e.device] = RowOf(e)]
        /\ revoked' = revoked /\ markers' = markers
    BY Zenon, <1>1, GrantStep DEF IInv
  <2>2. /\ RowOf(e) # None
        /\ RowOf(e).last = e.created /\ RowOf(e).granted = e.created
    BY Zenon, <2>1, RowOfType
  <2> HIDE DEF e
  <2>3. SUFFICES ASSUME NEW r \in revoked PROVE Covers(rows'[r.device], markers', r)
    BY Zenon, <2>1 DEF Remembered
  <2>4. Covers(rows[r.device], markers, r) /\ r.device \in Devices /\ r.created \in Nat
    BY Zenon, EventAssumption DEF IInv, Remembered, TypeOK, Event
  <2>5. markers[r.device] \in Nat \cup {None}
    BY Zenon, <2>4 DEF IInv, TypeOK
  <2>6. CASE r.device = e.device
    <3>1. rows'[r.device] = RowOf(e)
      BY Zenon, <2>1, <2>6 DEF IInv, TypeOK, Rows
    <3>2. e.created > r.created
      BY <2>1, <2>4, <2>5, <2>6 DEF Covers, Row
    <3> QED
      BY <2>1, <2>2, <2>4, <3>1, <3>2 DEF Covers
  <2>7. CASE r.device # e.device
    BY Zenon, <2>1, <2>4, <2>7 DEF Covers, IInv, TypeOK, Rows
  <2> QED
    BY Zenon, <2>6, <2>7
<1>2. ASSUME NEW q \in Requests, ApplyRevoke(q) PROVE Remembered'
  <2> DEFINE e == ops[q].event
  <2>1. SUFFICES ASSUME NEW r \in revoked \cup {e} PROVE Covers(rows'[r.device], markers', r)
    BY Zenon, <1>2, RevokeStep DEF Remembered, IInv
  <2>2. r.device \in Devices /\ r.created \in Nat
    BY <1>2, RevokeStep, EventAssumption DEF IInv, TypeOK, Event
  <2>3. /\ rows[r.device] \in Row \cup {None} /\ markers[r.device] \in Nat \cup {None}
        /\ rows'[r.device] \in Row \cup {None} /\ markers'[r.device] \in Nat \cup {None}
    BY Zenon, <2>2 DEF IInv, TypeOK, Rows
  <2>4. r \in revoked => Covers(rows[r.device], markers, r)
    BY Zenon DEF IInv, Remembered
  <2>5. CASE r.device # e.device
    <3>1. rows'[r.device] = rows[r.device] /\ markers'[r.device] = markers[r.device]
      BY <1>2, <2>2, <2>5, RevokeStep DEF IInv
    <3> QED
      BY Zenon, <2>4, <2>5, <3>1 DEF Covers
  <2>6. CASE r.device = e.device /\ rows[e.device] # None
    <3>1. /\ rows[e.device] \in Row /\ rows[e.device].last < e.created /\ e.created \in Nat
          /\ rows'[e.device] \in Row /\ rows'[e.device].revoked
          /\ rows'[e.device].last = e.created
      BY Zenon, <1>2, <2>6, RevokeStep DEF IInv
    <3>2. r.created <= e.created
      BY <2>2, <2>4, <2>6, <3>1 DEF Covers, Row
    <3> QED
      BY Zenon, <2>2, <2>6, <3>1, <3>2, RecordAssumption DEF Covers
  <2>7. CASE r.device = e.device /\ rows[e.device] = None
    <3>1. /\ rows'[e.device] = None /\ markers'[e.device] = e.created /\ e.created \in Nat
          /\ markers[e.device] # None => markers[e.device] < e.created
      BY Zenon, <1>2, <2>7, RevokeStep DEF IInv
    <3>2. r.created <= e.created
      BY <2>2, <2>3, <2>4, <2>7, <3>1 DEF Covers
    <3> QED
      BY Zenon, <2>2, <2>7, <3>1, <3>2, NoneAssumption DEF Covers
  <2> QED
    BY Zenon, <2>5, <2>6, <2>7
<1>3. ASSUME NEW q \in Requests, Revert(q) PROVE Remembered'
  <2> DEFINE e == ops[q].event
  <2>1. /\ ops[q] \in Applied /\ ops[q].at \in Waiting
        /\ e \in Event /\ e.device \in Devices
    BY Zenon, <1>3, OpShape, EventAssumption
      DEF Revert, IInv, TypeOK, Places, Applied, Event, Waiting
  <2>2. markers' = markers /\ revoked' = revoked
    BY Zenon, <1>3 DEF Revert
  <2>3. CASE rows[e.device] # ops[q].row
    BY Zenon, <1>3, <2>2, <2>3 DEF Revert, IInv, Remembered, Covers
  <2>4. CASE rows[e.device] = ops[q].row
    <3>1. rows' = [rows EXCEPT ![e.device] = ops[q].wasRow]
      BY Zenon, <1>3, <2>4 DEF Revert
    <3>2. ops[q].row = RowOf(e)
      BY Zenon, <2>1 DEF IInv, Undoable, Harmless
    <3>3. SUFFICES ASSUME NEW r \in revoked PROVE Covers(rows'[r.device], markers', r)
      BY Zenon, <2>2 DEF Remembered
    <3>4. Covers(rows[r.device], markers, r) /\ r.device \in Devices /\ r.created \in Nat
      BY EventAssumption DEF IInv, Remembered, TypeOK, Event
    <3>5. CASE r.device = e.device
      <4>1. /\ ops[q].row # None /\ ~ops[q].row.revoked
            /\ ops[q].row.granted = ops[q].row.last /\ ops[q].row.last \in Nat
        BY Zenon, <2>1, <3>2, RowOfType DEF Event
      <4>2. ops[q].row.last > r.created
        BY Zenon, <2>4, <3>4, <3>5, <4>1 DEF Covers
      <4>3. Covers(ops[q].wasRow, markers, r)
        BY <2>1, <3>4, <3>5, <4>1, <4>2 DEF IInv, Undoable, Harmless
      <4>4. rows'[r.device] = ops[q].wasRow
        BY Zenon, <3>1, <3>4, <3>5 DEF IInv, TypeOK, Rows
      <4> QED
        BY Zenon, <2>2, <4>3, <4>4 DEF Covers
    <3>6. CASE r.device # e.device
      BY Zenon, <2>2, <3>1, <3>4, <3>6 DEF Covers, IInv, TypeOK, Rows
    <3> QED
      BY Zenon, <3>5, <3>6
  <2> QED
    BY Zenon, <2>3, <2>4
<1>4. CASE Calm
  BY Zenon, <1>4 DEF Calm, IInv, Remembered
<1> QED
  BY Zenon, <1>1, <1>2, <1>3, <1>4, CalmSteps DEF IInv

\* Every step keeps what a request may put back harmless.
LEMMA UndoablePreserved ==
    ASSUME IInv, TypeOK', [Next]_vars
    PROVE  Undoable'
<1>1. ASSUME NEW q \in Requests, ApplyGrant(q) PROVE Undoable'
  <2> DEFINE e == ops[q].event
             op == [at |-> "push", event |-> e, row |-> RowOf(e), wasRow |-> rows[e.device],
                    wasMembers |-> members]
  <2>1. /\ e \in Event /\ e.device \in Devices /\ e.created \in Nat
        /\ rows[e.device] # None => rows[e.device].last < e.created
        /\ rows' = [rows EXCEPT ![e.device] = RowOf(e)]
        /\ ops' = [ops EXCEPT ![q] = op]
        /\ revoked' = revoked /\ markers' = markers
    BY Zenon, <1>1, GrantStep DEF IInv
  <2>2. RowOf(e) # None /\ RowOf(e).last = e.created
    BY Zenon, <2>1, RowOfType
  <2>3. rows'[e.device] = RowOf(e) /\ \A d \in Devices \ {e.device} : rows'[d] = rows[d]
    BY Zenon, <2>1 DEF IInv, TypeOK, Rows
  <2>4. Harmless(op, rows', markers, revoked)
    BY <2>1, <2>2, <2>3 DEF Harmless, IInv, Remembered
  <2>5. ASSUME NEW p \in Requests, p # q, ops[p].at \in Waiting
        PROVE  Harmless(ops[p], rows', markers, revoked)
    <3>1. /\ Harmless(ops[p], rows, markers, revoked)
          /\ ops[p].event \in Event /\ ops[p].event.device \in Devices
          /\ ops[p].row.last \in Nat
      BY Zenon, <2>5, WaitingType DEF IInv, Undoable
    <3>2. CASE ops[p].event.device = e.device
      <4>1. rows[e.device].last \in Nat
        BY Zenon, <2>1, <3>1, <3>2 DEF Harmless, IInv, TypeOK, Rows, Row
      <4>2. ops[p].row.last <= e.created
        BY <2>1, <3>1, <3>2, <4>1 DEF Harmless
      <4> QED
        BY Zenon, <2>2, <2>3, <3>1, <3>2, <4>2 DEF Harmless
    <3>3. CASE ops[p].event.device # e.device
      BY Zenon, <2>3, <3>1, <3>3 DEF Harmless
    <3> QED
      BY Zenon, <3>2, <3>3
  <2> HIDE DEF op
  <2> QED
    BY Zenon, <2>1, <2>4, <2>5 DEF Undoable, IInv, TypeOK
<1>2. ASSUME NEW q \in Requests, ApplyRevoke(q) PROVE Undoable'
  <2> DEFINE e == ops[q].event
  <2>1. /\ ops' = [ops EXCEPT ![q] = Idle] /\ revoked' = revoked \cup {e}
        /\ e.device \in Devices /\ e.created \in Nat
    BY Zenon, <1>2, RevokeStep DEF IInv
  <2>2. \A p \in Requests : ops'[p].at \in Waiting => p # q /\ ops'[p] = ops[p]
    BY Zenon, <2>1 DEF IInv, TypeOK, Idle, Waiting
  <2>3. SUFFICES ASSUME NEW p \in Requests, ops[p].at \in Waiting
                 PROVE  Harmless(ops[p], rows', markers', revoked')
    BY Zenon, <2>2 DEF Undoable
  <2>4. /\ Harmless(ops[p], rows, markers, revoked)
        /\ ops[p].event.device \in Devices /\ ops[p].row.last \in Nat
    BY Zenon, <2>3, WaitingType DEF IInv, Undoable
  <2>5. ASSUME NEW r \in revoked, r.device = ops[p].event.device,
               Covers(ops[p].wasRow, markers, r)
        PROVE  Covers(ops[p].wasRow, markers', r)
    <3>1. r.device \in Devices /\ r.created \in Nat
      BY Zenon, EventAssumption DEF IInv, TypeOK, Event
    <3>2. markers[r.device] \in Nat \cup {None}
      BY Zenon, <3>1 DEF IInv, TypeOK
    <3>3. \/ markers'[r.device] = markers[r.device]
          \/ /\ r.device = e.device /\ markers'[r.device] = e.created
             /\ markers[e.device] # None => markers[e.device] < e.created
      BY <1>2, <3>1, RevokeStep DEF IInv
    <3> QED
      BY <2>1, <2>5, <3>1, <3>2, <3>3, NoneAssumption DEF Covers
  <2>6. CASE ops[p].event.device # e.device
    <3>1. rows'[ops[p].event.device] = rows[ops[p].event.device]
      BY <1>2, <2>4, <2>6, RevokeStep DEF IInv
    <3> QED
      BY Zenon, <2>1, <2>4, <2>5, <2>6, <3>1 DEF Harmless
  <2>7. CASE ops[p].event.device = e.device
    <3>1. rows[e.device] # None /\ ops[p].row.last <= rows[e.device].last
      BY Zenon, <2>4, <2>7 DEF Harmless
    <3>2. /\ rows[e.device] \in Row \cup {None}
          /\ rows[e.device] # None =>
                /\ rows[e.device].last < e.created
                /\ rows'[e.device] \in Row /\ rows'[e.device].last = e.created
      BY Zenon, <1>2, RevokeStep DEF IInv
    <3>3. rows[e.device].last \in Nat /\ rows'[e.device] # None
      BY Zenon, <3>1, <3>2, RecordAssumption DEF Row
    <3>4. ops[p].row.last < e.created
      BY <2>1, <2>4, <3>1, <3>2, <3>3
    <3>5. /\ rows'[ops[p].event.device] # None
          /\ ops[p].row.last <= rows'[ops[p].event.device].last
      BY <2>1, <2>4, <2>7, <3>1, <3>2, <3>3, <3>4
    <3>6. ASSUME NEW r \in revoked', r.device = ops[p].event.device
          PROVE  Covers(ops[p].wasRow, markers', r) \/ r.created > ops[p].row.last
      BY Zenon, <2>1, <2>4, <2>5, <3>4, <3>6 DEF Harmless
    <3> QED
      BY Zenon, <2>4, <3>5, <3>6 DEF Harmless
  <2> QED
    BY Zenon, <2>6, <2>7
<1>3. ASSUME NEW q \in Requests, Revert(q) PROVE Undoable'
  <2> DEFINE d == ops[q].event.device
  <2>1. /\ ops[q].at \in Waiting /\ ops[q].at \in Places
        /\ markers' = markers /\ revoked' = revoked
        /\ ops' = [ops EXCEPT ![q].at = "repush"]
    BY Zenon, <1>3 DEF Revert, Waiting, Places
  <2>2. \A p \in Requests : ops'[p].at \in Waiting => p # q /\ ops'[p] = ops[p]
    BY <2>1, OpMoves DEF IInv, TypeOK, Waiting, Places
  <2>3. SUFFICES ASSUME NEW p \in Requests, p # q, ops[p].at \in Waiting
                 PROVE  Harmless(ops[p], rows', markers', revoked')
    BY Zenon, <2>2 DEF Undoable
  <2>4. /\ Harmless(ops[p], rows, markers, revoked) /\ Harmless(ops[q], rows, markers, revoked)
        /\ ops[p].event.device \in Devices /\ ops[p].row.last \in Nat
        /\ d \in Devices /\ ops[q].row.last \in Nat
        /\ ops[q].wasRow # None => ops[q].wasRow.last \in Nat
        /\ ops[p].wasRow # None => ops[p].wasRow.last \in Nat
    BY Zenon, <2>1, <2>3, WaitingType DEF IInv, Undoable
  <2>5. CASE rows' = rows
    BY Zenon, <2>1, <2>4, <2>5
  <2>6. CASE ops[p].event.device # d /\ rows' = [rows EXCEPT ![d] = ops[q].wasRow]
    BY Zenon, <2>1, <2>4, <2>6 DEF Harmless, IInv, TypeOK, Rows
  <2>7. CASE /\ ops[p].event.device = d /\ rows[d] = ops[q].row
             /\ rows' = [rows EXCEPT ![d] = ops[q].wasRow]
    <3>1. After(p, q) \/ After(q, p)
      BY Zenon, <2>1, <2>3, <2>7 DEF IInv, Ordered
    <3>2. ~After(p, q)
      BY <2>4, <2>7 DEF After, Harmless
    <3>3. rows'[d] = ops[q].wasRow
      BY Zenon, <2>4, <2>7 DEF IInv, TypeOK, Rows
    <3> QED
      BY Zenon, <2>1, <2>4, <2>7, <3>1, <3>2, <3>3 DEF After, Harmless
  <2> QED
    BY Zenon, <1>3, <2>5, <2>6, <2>7 DEF Revert
<1>4. CASE Calm
  BY Zenon, <1>4 DEF Calm, IInv, Undoable, Harmless
<1> QED
  BY Zenon, <1>1, <1>2, <1>3, <1>4, CalmSteps DEF IInv

\* Every step keeps the requests for a device ordered.
LEMMA OrderedPreserved ==
    ASSUME IInv, TypeOK', [Next]_vars
    PROVE  Ordered'
<1>1. ASSUME NEW q \in Requests, ApplyGrant(q) PROVE Ordered'
  <2> DEFINE d == ops[q].event.device
  <2>1. /\ ops'[q].event.device = d /\ ops'[q].wasRow = rows[d]
        /\ \A p \in Requests \ {q} : ops'[p] = ops[p]
    BY <1>1, GrantStep DEF IInv, TypeOK
  <2>2. ASSUME NEW p \in Requests, p # q, ops[p].at \in Waiting, ops[p].event.device = d
        PROVE  After(q, p)'
    BY Zenon, <2>1, <2>2 DEF After, IInv, Undoable, Harmless
  <2>3. ASSUME NEW p \in Requests, NEW r \in Requests, p # q, r # q
        PROVE  After(p, r)' <=> After(p, r)
    BY Zenon, <2>1, <2>3 DEF After
  <2>4. SUFFICES ASSUME NEW p \in Requests, NEW r \in Requests, p # r,
                        ops'[p].at \in Waiting, ops'[r].at \in Waiting,
                        ops'[p].event.device = ops'[r].event.device
                 PROVE  After(p, r)' \/ After(r, p)'
    BY Zenon DEF Ordered
  <2>5. CASE p = q
    BY Zenon, <2>1, <2>2, <2>4, <2>5
  <2>6. CASE r = q
    BY Zenon, <2>1, <2>2, <2>4, <2>6
  <2>7. CASE p # q /\ r # q
    BY Zenon, <2>1, <2>3, <2>4, <2>7 DEF IInv, Ordered
  <2> QED
    BY Zenon, <2>5, <2>6, <2>7
<1>2. ASSUME NEW q \in Requests, ApplyRevoke(q) PROVE Ordered'
  <2>1. \A p \in Requests : ops'[p].at \in Waiting => ops'[p] = ops[p]
    BY <1>2, RevokeStep DEF IInv, TypeOK, Idle, Waiting
  <2> QED
    BY Zenon, <2>1 DEF IInv, Ordered, After
<1>3. ASSUME NEW q \in Requests, Revert(q) PROVE Ordered'
  <2>1. \A p \in Requests : ops'[p].at \in Waiting => ops'[p] = ops[p]
    <3>1. ops[q] \in Op /\ ops[q].at \in Places
      BY Zenon, <1>3 DEF Revert, IInv, TypeOK, Places
    <3>2. ops'[q].at = "repush" /\ \A p \in Requests \ {q} : ops'[p] = ops[p]
      BY <1>3, <3>1, OpMoves DEF Revert, IInv, TypeOK, Places
    <3> QED
      BY Zenon, <3>2 DEF Waiting
  <2> QED
    BY <2>1 DEF IInv, Ordered, After
<1>4. CASE Calm
  <2> SUFFICES ASSUME NEW p \in Requests, NEW r \in Requests, p # r,
                      ops'[p].at \in Waiting, ops'[r].at \in Waiting,
                      ops'[p].event.device = ops'[r].event.device
               PROVE  After(p, r)' \/ After(r, p)'
    BY Zenon DEF Ordered
  <2> QED
    BY Zenon, <1>4 DEF Calm, After, IInv, Ordered
<1> QED
  BY Zenon, <1>1, <1>2, <1>3, <1>4, CalmSteps DEF IInv

\* IInv is inductive.
THEOREM Invariance == Spec => []IInv
<1>1. Init => IInv
  <2> SUFFICES ASSUME Init PROVE IInv
    BY Zenon
  <2>1. TypeOK
    BY Zenon, NoPassType DEF Init, TypeOK, Rows, Members, Friends, Op
  <2>2. /\ Remembered /\ Undoable /\ Ordered /\ NotRefused
    BY Zenon DEF Init, Remembered, Undoable, Ordered, NotRefused, Waiting, Idle, NoPass
  <2>3. Locked
    BY Zenon, RequestAssumption DEF Init, Locked, Pushing, Idle, NoPass
  <2>4. Underway
    BY Zenon DEF Init, Underway, CoreFriendGrants
  <2>5. ActiveKeysAreMembers
    BY Zenon DEF Init, ActiveKeysAreMembers, KeyActive, ActiveNaming, Naming
  <2> QED
    BY Zenon, <2>1, <2>2, <2>3, <2>4, <2>5 DEF IInv
<1>2. IInv /\ [Next]_vars => IInv'
  <2> SUFFICES ASSUME IInv, [Next]_vars PROVE IInv'
    BY Zenon
  <2>1. TypeOK'
    BY Zenon, TypePreserved DEF IInv
  <2> QED
    BY Zenon, <2>1, LockedPreserved, NotRefusedPreserved, UnderwayPreserved, MembersPreserved,
       RememberedPreserved, UndoablePreserved, OrderedPreserved DEF IInv
<1> QED
  BY <1>1, <1>2, PTL DEF Spec

\* apply_grant, its undoing and the sweep keep the tables well formed.
THEOREM Typed == Spec => []TypeOK
<1>1. IInv => TypeOK
  BY Zenon DEF IInv
<1> QED
  BY <1>1, Invariance, PTL

\* No grant at or before an accepted revocation of its device is ever active
\* again, whatever apply_grant puts back after a refused push.
THEOREM RevocationStays == Spec => []RevocationHolds
<1>1. IInv => RevocationHolds
  <2> SUFFICES ASSUME IInv, NEW e \in revoked, GrantActive(rows[e.device])
               PROVE  rows[e.device].granted > e.created
    BY Zenon DEF RevocationHolds
  <2> QED
    BY Zenon DEF IInv, Remembered, Covers, GrantActive
<1> QED
  BY <1>1, Invariance, PTL

\* With no request and no pass under way and every push accepted, the core's
\* friend set is the trusted members.
THEOREM CoreFollows == Spec => []CoreFollowsMembers
<1>1. IInv => CoreFollowsMembers
  <2> SUFFICES ASSUME IInv, Quiet, faults \subseteq {"crashed"}
               PROVE  core = CoreFriendGrants
    BY Zenon DEF CoreFollowsMembers
  <2>1. sweep.at = "idle" /\ \A q \in Requests : ops[q].at = "idle"
    BY DEF Quiet, NoPass, Idle
  <2>2. lock = "free"
    BY Zenon, <2>1 DEF IInv, TypeOK, Locked, Pushing
  <2> QED
    BY Zenon, <2>1, <2>2 DEF IInv, Underway
<1> QED
  BY <1>1, Invariance, PTL

\* As long as no push was refused, sweep_locked takes no key out of the members
\* that an active grant names.
THEOREM ActiveStay == Spec => []ActiveKeysAreMembers
<1>1. IInv => ActiveKeysAreMembers
  BY Zenon DEF IInv
<1> QED
  BY <1>1, Invariance, PTL
=============================================================================
