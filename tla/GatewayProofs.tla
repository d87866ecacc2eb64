---------------------------- MODULE GatewayProofs ----------------------------
(***************************************************************************)
(* Proofs about two parts of the gateway: the group grants (GroupGrants),   *)
(* for any keepers, rooms, devices, requests, signed events and times, and  *)
(* the publisher (Publisher), for any relays, listings and times that       *)
(* Services::new allows.                                                    *)
(***************************************************************************)
EXTENDS GroupGrants, Publisher, TLAPS

-----------------------------------------------------------------------------
(* Group grants.  None of the properties is inductive: a row or a floor that *)
(* enforces them may be pruned from the database while the snapshot still    *)
(* has it, and the next commit drops it from the snapshot too.  IInv says    *)
(* what is left when that happens: the event it stood for is too old for     *)
(* anything it forbids to be in force.  A push is planned twice before its   *)
(* commit and other requests commit in between; IInv says what the holder of *)
(* policy_push may rely on meanwhile.                                        *)

Ids == Keepers \X GrantIds

\* A grant lives no longer than a floor is kept.
Timely(e) == e.expires <= e.created + Lifetime

\* What is accepted, or waits for the core, was signed and screened.
Screened ==
    /\ accepted \subseteq signed
    /\ \A q \in Requests :
        ops[q] # Idle => ops[q].event \in signed /\ Timely(ops[q].event)

\* Every row is a screened grant of its own id, and its device has a key row
\* unless it is revoked, with a ceiling if the grant has one.
RowSound(id, row, keys) ==
    /\ row.event.kind = "grant" /\ IdOf(row.event) = id
    /\ row.event \in signed /\ Timely(row.event)
    /\ ~row.event.revoked =>
        /\ keys[row.event.device] # None
        /\ keys[row.event.device].group = GroupOf(row.event)
        /\ row.event.bytes # None => keys[row.event.device].limit # None
RowsSound ==
    \A id \in Ids : snap.grants[id] # None => RowSound(id, snap.grants[id], snap.keys)

\* The database is the snapshot without some rows, and without floors that no
\* living grant can be covered by.
Pruned ==
    /\ db.keys = snap.keys
    /\ \A id \in Ids : db.grants[id] # None => db.grants[id] = snap.grants[id]
    /\ \A g \in Groups :
        \/ db.floors[g] = snap.floors[g]
        \/ db.floors[g] = None /\ snap.floors[g].created + Retention < now

\* An accepted event is recorded in the database, itself or through a newer one,
\* until its time is over.
GrantRemembered(e) ==
    \/ e.expires + Grace < now
    \/ /\ db.grants[IdOf(e)] # None
       /\ db.grants[IdOf(e)].event.created >= e.created
       /\ e.revoked => db.grants[IdOf(e)].event.revoked
       /\ db.grants[IdOf(e)].retain >= e.expires
ResetRemembered(e) ==
    \/ e.created + Retention < now
    \/ db.floors[GroupOf(e)] # None /\ db.floors[GroupOf(e)].created >= e.created
Remembered ==
    \A e \in accepted :
        /\ e.kind = "grant" => GrantRemembered(e)
        /\ e.kind = "reset" => ResetRemembered(e)

\* The core knows every key with a ceiling, and so does the set that is being
\* handed to it; a request that commits has told it the key it adds.
Uploads(e) == e.kind = "grant" /\ ~e.revoked /\ e.bytes # None
HasLimit(d) == snap.keys[d] # None /\ snap.keys[d].limit # None
CoreAhead ==
    /\ \A d \in Devices : HasLimit(d) => core[d] # None
    /\ lock # "free" => \A d \in Devices : HasLimit(d) => pending[d] # None
    /\ \A q \in Requests :
        /\ ops[q].at \in {"pushing", "commit"} => lock = q
        /\ ops[q].at = "pushing" /\ Uploads(ops[q].event) =>
            pending[ops[q].event.device] # None
        /\ ops[q].at = "commit" /\ Uploads(ops[q].event) =>
            core[ops[q].event.device] # None

IInv ==
    /\ TypeOK /\ Screened /\ RowsSound /\ Pruned /\ Remembered
    /\ OneGrantInForce /\ CoreAhead

-----------------------------------------------------------------------------
(* Events and tables.                                                        *)

\* The parts of an event.
LEMMA EventParts ==
    ASSUME NEW e \in Events
    PROVE  /\ IdOf(e) \in Ids /\ GroupOf(e) \in Groups
           /\ e.device \in Devices /\ e.created \in Nat /\ e.expires \in Nat
           /\ e.kind \in {"grant", "reset"} /\ e.revoked \in BOOLEAN
           /\ e.bytes \in Nat \cup {None} /\ e # None
BY Zenon, EventAssumption, NoneAssumption DEF Event, IdOf, GroupOf, Ids, Groups

\* The parts of the tables.
LEMMA TableParts ==
    ASSUME NEW t \in Tables
    PROVE  /\ \A id \in Ids : t.grants[id] # None =>
                /\ t.grants[id] \in Row /\ t.grants[id].event \in Events
                /\ t.grants[id].retain \in Nat
           /\ \A g \in Groups : t.floors[g] # None => t.floors[g] \in Events
           /\ \A d \in Devices : t.keys[d] # None =>
                /\ t.keys[d] \in GroupKey
                /\ t.keys[d].group \in Groups /\ t.keys[d].limit \in Nat \cup {None}
BY Zenon DEF Tables, Ids, Row, GroupKey

\* The row that a commit writes.
LEMMA RowWritten ==
    ASSUME NEW t \in Tables, NEW e \in Events
    PROVE  /\ RowOf(t, e) \in Row /\ RowOf(t, e) # None
           /\ RowOf(t, e).event = e
           /\ RowOf(t, e).retain >= e.expires
           /\ t.grants[IdOf(e)] # None => RowOf(t, e).retain >= t.grants[IdOf(e)].retain
<1>1. RowOf(t, e).event = e
  BY Zenon DEF RowOf
<1>2. /\ RowOf(t, e).retain \in Nat /\ RowOf(t, e).retain >= e.expires
      /\ t.grants[IdOf(e)] # None => RowOf(t, e).retain >= t.grants[IdOf(e)].retain
  BY EventParts, TableParts DEF RowOf
<1>3. RowOf(t, e).revoked \in Nat \cup {None}
  BY Zenon, EventParts, TableParts DEF RowOf, Row
<1>4. RowOf(t, e) \in Row
  BY Zenon, <1>1, <1>2, <1>3 DEF RowOf, Row
<1> QED
  BY Zenon, <1>1, <1>2, <1>4, NoneAssumption

-----------------------------------------------------------------------------
(* Commits.                                                                  *)

\* A reset writes one floor.
LEMMA ResetCommit ==
    ASSUME TypeOK, NEW e \in Events, e.kind = "reset", Commit(e)
    PROVE  /\ snap' = db' /\ accepted' = accepted \cup {e} /\ db' \in Tables
           /\ db'.grants = db.grants /\ db'.keys = db.keys
           /\ \A g \in Groups : db'.floors[g] = IF g = GroupOf(e) THEN e ELSE db.floors[g]
<1>1. db' = [db EXCEPT !.floors[GroupOf(e)] = e] /\ snap' = db' /\ accepted' = accepted \cup {e}
  BY Zenon DEF Commit
<1>2. GroupOf(e) \in Groups
  BY Zenon, EventParts
<1> QED
  BY Zenon, <1>1, <1>2 DEF TypeOK, Tables

\* The key row that a commit writes: the device keeps the group it has, and
\* keeps its ceiling unless the event carries one.
LEMMA KeyWritten ==
    ASSUME NEW keys \in [Devices -> GroupKey \cup {None}], NEW t, t.keys = keys,
           NEW e \in Events, e.kind = "grant",
           NEW new, new = WriteKey(keys, e.device, KeysAfter(t, e)[e.device])
    PROVE  /\ new \in [Devices -> GroupKey \cup {None}]
           /\ \A d \in Devices \ {e.device} : new[d] = keys[d]
           /\ e.revoked => new = keys
           /\ ~e.revoked =>
                /\ new[e.device] # None
                /\ new[e.device].group = IF keys[e.device] = None THEN GroupOf(e)
                                         ELSE keys[e.device].group
                /\ new[e.device].limit = IF e.bytes # None THEN e.bytes
                                         ELSE IF keys[e.device] = None THEN None
                                         ELSE keys[e.device].limit
<1> DEFINE d == e.device
           key == KeysAfter(t, e)[d]
<1>1. d \in Devices /\ e.bytes \in Nat \cup {None} /\ GroupOf(e) \in Groups /\ e.revoked \in BOOLEAN
  BY Zenon, EventParts
<1>2. CASE e.revoked
  <2>1. key = keys[d]
    BY Zenon, <1>2 DEF KeysAfter
  <2>2. new = keys
    BY Zenon, <1>1, <2>1 DEF WriteKey, GroupKey
  <2> QED
    BY Zenon, <1>2, <2>2
<1>3. CASE ~e.revoked
  <2>1. key = [group |-> GroupOf(e),
               limit |-> IF e.bytes # None THEN e.bytes
                         ELSE IF keys[d] = None THEN None ELSE keys[d].limit]
    BY Zenon, <1>1, <1>3 DEF KeysAfter
  <2>2. key \in GroupKey /\ key # None
    BY <1>1, <2>1, NoneAssumption DEF GroupKey
  <2>3. new = [keys EXCEPT ![d] = IF keys[d] = None THEN key ELSE [keys[d] EXCEPT !.limit = key.limit]]
    BY Zenon, <1>1, <2>2 DEF WriteKey
  <2>4. CASE keys[d] = None
    <3>1. new[d] = key
      BY Zenon, <1>1, <2>3, <2>4
    <3> HIDE DEF key
    <3> QED
      BY <1>1, <1>3, <2>1, <2>2, <2>3, <2>4, <3>1
  <2>5. CASE keys[d] # None
    <3>1. new[d] = [keys[d] EXCEPT !.limit = key.limit] /\ keys[d] \in GroupKey
      BY Zenon, <1>1, <2>3, <2>5
    <3>2. new[d] \in GroupKey /\ new[d].group = keys[d].group /\ new[d].limit = key.limit
      BY Zenon, <3>1, <2>2 DEF GroupKey
    <3> HIDE DEF key
    <3> QED
      BY Zenon, <1>1, <1>3, <2>1, <2>3, <2>5, <3>2, NoneAssumption
  <2> QED
    BY Zenon, <2>4, <2>5
<1> QED
  BY Zenon, <1>1, <1>2, <1>3

\* A grant writes its row and its device's key row.
LEMMA GrantCommit ==
    ASSUME TypeOK, db.keys = snap.keys, NEW e \in Events, e.kind = "grant", Commit(e)
    PROVE  /\ snap' = db' /\ accepted' = accepted \cup {e} /\ db' \in Tables
           /\ db'.floors = db.floors
           /\ db'.keys = WriteKey(db.keys, e.device, KeysAfter(snap, e)[e.device])
           /\ \A id \in Ids :
                db'.grants[id] = IF id = IdOf(e) THEN RowOf(snap, e) ELSE db.grants[id]
<1> DEFINE new == WriteKey(db.keys, e.device, KeysAfter(snap, e)[e.device])
<1>1. /\ db' = [db EXCEPT !.grants[IdOf(e)] = RowOf(snap, e),
                          !.keys = WriteKey(@, e.device, KeysAfter(snap, e)[e.device])]
      /\ snap' = db' /\ accepted' = accepted \cup {e}
  BY Zenon DEF Commit
<1>2. db' = [grants |-> [db.grants EXCEPT ![IdOf(e)] = RowOf(snap, e)],
             floors |-> db.floors, keys |-> new]
  BY Zenon, <1>1 DEF TypeOK, Tables
<1>3. IdOf(e) \in Ids /\ RowOf(snap, e) \in Row
  BY Zenon, EventParts, RowWritten DEF TypeOK
<1>4. new \in [Devices -> GroupKey \cup {None}]
  BY Zenon, KeyWritten DEF TypeOK, Tables
<1> HIDE DEF new
<1>5. db' \in Tables
  BY Zenon, <1>2, <1>3, <1>4 DEF TypeOK, Tables, Ids
<1>6. \A id \in Ids : db'.grants[id] = IF id = IdOf(e) THEN RowOf(snap, e) ELSE db.grants[id]
  BY Zenon, <1>2, <1>3 DEF TypeOK, Tables, Ids
<1> QED
  BY Zenon, <1>1, <1>2, <1>5, <1>6 DEF new

\* What was signed is an event.
LEMMA SignedEvents == TypeOK => signed \subseteq Events
BY Zenon DEF TypeOK, Events

\* A grant that is not over and was covered by a floor stays covered: a floor
\* gives way only to a later one, or when nothing it covers can be in force.
LEMMA StaysCovered ==
    ASSUME TypeOK, Pruned, NEW e \in Events, ~Covered(snap, e), Commit(e),
           NEW f \in Events, Timely(f), f.expires > now, Covered(snap, f)
    PROVE  Covered(db', f)
<1> DEFINE g == GroupOf(f)
<1>1. /\ g \in Groups /\ snap.floors[g] # None /\ snap.floors[g] \in Events
      /\ f.created <= snap.floors[g].created
  BY Zenon, EventParts, TableParts DEF TypeOK, Covered
<1>2. f.created \in Nat /\ f.expires \in Nat /\ snap.floors[g].created \in Nat /\ e.created \in Nat
  BY Zenon, <1>1, EventParts
<1>3. db.floors[g] = snap.floors[g]
  <2>1. ~(snap.floors[g].created + Retention < now)
    BY <1>1, <1>2, TimeAssumption, RetentionAssumption DEF Timely, TypeOK
  <2> QED
    BY Zenon, <1>1, <2>1 DEF Pruned
<1>4. CASE e.kind = "grant"
  BY Zenon, <1>1, <1>3, <1>4, GrantCommit DEF Covered, Pruned
<1>5. CASE e.kind = "reset"
  <2>1. CASE g = GroupOf(e)
    <3>1. db'.floors[g] = e /\ e # None
      BY Zenon, <1>1, <1>5, <2>1, ResetCommit, EventParts
    <3>2. snap.floors[g].created < e.created
      BY <1>1, <1>2, <2>1 DEF Covered
    <3> QED
      BY <1>1, <1>2, <3>1, <3>2 DEF Covered
  <2>2. CASE g # GroupOf(e)
    <3>1. db'.floors[g] = db.floors[g]
      BY Zenon, <1>1, <1>5, <2>2, ResetCommit
    <3> QED
      BY Zenon, <1>1, <1>3, <3>1 DEF Covered
  <2> QED
    BY Zenon, <2>1, <2>2
<1> QED
  BY Zenon, <1>4, <1>5, EventParts

\* A commit keeps the rows sound.
LEMMA CommitRows ==
    ASSUME TypeOK, RowsSound, Pruned, NEW e \in signed, Timely(e), Accepts(snap, e),
           Commit(e), signed' = signed
    PROVE  RowsSound'
<1>1. e \in Events
  BY Zenon, SignedEvents
<1>0. snap' = db'
  BY Zenon, <1>1, EventParts, ResetCommit, GrantCommit DEF Pruned
<1> SUFFICES ASSUME NEW id \in Ids, db'.grants[id] # None
             PROVE  RowSound(id, db'.grants[id], db'.keys)
  BY Zenon, <1>0 DEF RowsSound, RowSound
<1>2. CASE e.kind = "reset"
  BY Zenon, <1>1, <1>2, ResetCommit DEF RowsSound, Pruned
<1>3. CASE e.kind = "grant"
  <2> DEFINE d == e.device
             keys == db'.keys
  <2>1. /\ e.device \in Devices /\ e.revoked \in BOOLEAN /\ snap.keys = db.keys
        /\ db.keys \in [Devices -> GroupKey \cup {None}]
    BY Zenon, <1>1, EventParts DEF TypeOK, Tables, Pruned
  <2>2. /\ \A c \in Devices \ {d} : keys[c] = snap.keys[c]
        /\ e.revoked => keys = snap.keys
        /\ ~e.revoked =>
            /\ keys[d] # None
            /\ keys[d].group = IF snap.keys[d] = None THEN GroupOf(e) ELSE snap.keys[d].group
            /\ keys[d].limit = IF e.bytes # None THEN e.bytes
                               ELSE IF snap.keys[d] = None THEN None ELSE snap.keys[d].limit
    BY <1>1, <1>3, <2>1, GrantCommit, KeyWritten
  <2>3. ~e.revoked => keys[d].group = GroupOf(e)
    BY Zenon, <1>3, <2>1, <2>2 DEF Accepts, KeyConflict
  <2>4. CASE id = IdOf(e)
    <3>1. db'.grants[id] = RowOf(snap, e) /\ RowOf(snap, e).event = e
      BY Zenon, <1>1, <1>3, <2>1, <2>4, GrantCommit, RowWritten DEF TypeOK
    <3> QED
      BY Zenon, <1>1, <1>3, <2>2, <2>3, <2>4, <3>1 DEF RowSound
  <2>5. CASE id # IdOf(e)
    <3>1. db'.grants[id] = db.grants[id] /\ db.grants[id] = snap.grants[id]
      BY Zenon, <1>1, <1>3, <2>1, <2>5, GrantCommit DEF Pruned
    <3>2. RowSound(id, snap.grants[id], snap.keys) /\ snap.grants[id].event \in Events
      BY Zenon, <3>1, TableParts DEF RowsSound, TypeOK
    <3>3. snap.grants[id].event.device \in Devices
      BY Zenon, <3>2, EventParts
    <3> QED
      BY <2>1, <2>2, <3>1, <3>2, <3>3 DEF RowSound
  <2> QED
    BY Zenon, <2>4, <2>5
<1> QED
  BY Zenon, <1>1, <1>2, <1>3, EventParts

\* A commit keeps every accepted event remembered, and remembers its own.
LEMMA CommitRemembered ==
    ASSUME TypeOK, Screened, Pruned, Remembered, NEW e \in signed, Accepts(snap, e),
           Commit(e), signed' = signed, now' = now
    PROVE  Remembered'
<1>1. e \in Events
  BY Zenon, SignedEvents
<1>2. accepted' = accepted \cup {e} /\ accepted \subseteq Events
  BY Zenon, <1>1, EventParts, ResetCommit, GrantCommit, SignedEvents DEF Pruned, Screened
<1> SUFFICES ASSUME NEW f \in accepted \cup {e}
             PROVE  /\ f.kind = "grant" => GrantRemembered(f)'
                    /\ f.kind = "reset" => ResetRemembered(f)'
  BY Zenon, <1>2 DEF Remembered
<1>3. f \in Events /\ f.created \in Nat /\ f.expires \in Nat /\ e.created \in Nat
  BY Zenon, <1>1, <1>2, EventParts
<1>4. ASSUME f.kind = "grant"
      PROVE  GrantRemembered(f)'
  <2>1. CASE e.kind = "reset"
    BY Zenon, <1>1, <1>4, <2>1, ResetCommit DEF Remembered, GrantRemembered
  <2>2. CASE e.kind = "grant" /\ IdOf(f) = IdOf(e)
    <3>1. db'.grants[IdOf(f)] = RowOf(snap, e)
      BY Zenon, <1>1, <1>3, <2>2, GrantCommit, EventParts DEF Pruned
    <3>2. /\ RowOf(snap, e) # None /\ RowOf(snap, e).event = e /\ RowOf(snap, e).retain \in Nat
          /\ RowOf(snap, e).retain >= e.expires
          /\ snap.grants[IdOf(e)] # None => RowOf(snap, e).retain >= snap.grants[IdOf(e)].retain
      BY Zenon, <1>1, RowWritten DEF TypeOK, Row
    <3>3. CASE f = e
      BY <1>3, <3>1, <3>2, <3>3 DEF GrantRemembered
    <3>4. CASE f # e /\ ~(f.expires + Grace < now)
      <4>1. /\ db.grants[IdOf(e)] # None
            /\ db.grants[IdOf(e)].event.created >= f.created
            /\ f.revoked => db.grants[IdOf(e)].event.revoked
            /\ db.grants[IdOf(e)].retain >= f.expires
        BY Zenon, <1>4, <2>2, <3>4 DEF Remembered, GrantRemembered
      <4>2. db.grants[IdOf(e)] = snap.grants[IdOf(e)] /\ IdOf(e) \in Ids
        BY Zenon, <1>1, <4>1, EventParts DEF Pruned
      <4>3. /\ snap.grants[IdOf(e)].retain \in Nat
            /\ snap.grants[IdOf(e)].event.created \in Nat
        BY Zenon, <4>1, <4>2, TableParts, EventParts DEF TypeOK
      <4>4. /\ e.created > snap.grants[IdOf(e)].event.created
            /\ snap.grants[IdOf(e)].event.revoked => e.revoked
        BY Zenon, <2>2, <4>1, <4>2 DEF Accepts
      <4>5. RowOf(snap, e).event.created >= f.created
        BY <1>3, <3>2, <4>1, <4>2, <4>3, <4>4
      <4>6. RowOf(snap, e).retain >= f.expires
        BY <1>3, <3>2, <4>1, <4>2, <4>3
      <4>7. f.revoked => RowOf(snap, e).event.revoked
        BY Zenon, <3>2, <4>1, <4>2, <4>4
      <4> QED
        BY Zenon, <3>1, <3>2, <4>5, <4>6, <4>7 DEF GrantRemembered
    <3>5. CASE f.expires + Grace < now
      BY Zenon, <3>5 DEF GrantRemembered
    <3> QED
      BY Zenon, <3>3, <3>4, <3>5
  <2>3. CASE e.kind = "grant" /\ IdOf(f) # IdOf(e)
    <3>1. db'.grants[IdOf(f)] = db.grants[IdOf(f)] /\ f # e
      BY Zenon, <1>1, <1>3, <2>3, GrantCommit, EventParts DEF Pruned
    <3> QED
      BY Zenon, <1>4, <3>1 DEF Remembered, GrantRemembered
  <2> QED
    BY Zenon, <1>1, <2>1, <2>2, <2>3, EventParts
<1>5. ASSUME f.kind = "reset"
      PROVE  ResetRemembered(f)'
  <2>1. CASE e.kind = "grant"
    <3>1. db'.floors = db.floors /\ f # e
      BY Zenon, <1>1, <1>5, <2>1, GrantCommit DEF Pruned
    <3> QED
      BY Zenon, <1>5, <3>1 DEF Remembered, ResetRemembered
  <2>2. CASE e.kind = "reset" /\ GroupOf(f) = GroupOf(e)
    <3>1. db'.floors[GroupOf(f)] = e /\ e # None
      BY Zenon, <1>1, <1>3, <2>2, ResetCommit, EventParts
    <3>2. CASE f = e
      BY <1>3, <3>1, <3>2 DEF ResetRemembered
    <3>3. CASE f # e /\ ~(f.created + Retention < now)
      <4>1. db.floors[GroupOf(e)] # None /\ db.floors[GroupOf(e)].created >= f.created
        BY Zenon, <1>5, <2>2, <3>3 DEF Remembered, ResetRemembered
      <4>2. db.floors[GroupOf(e)] = snap.floors[GroupOf(e)] /\ GroupOf(e) \in Groups
        BY Zenon, <1>1, <4>1, EventParts DEF Pruned
      <4>3. snap.floors[GroupOf(e)].created \in Nat
        BY Zenon, <4>1, <4>2, TableParts, EventParts DEF TypeOK
      <4>4. ~(e.created <= snap.floors[GroupOf(e)].created)
        BY Zenon, <4>1, <4>2 DEF Accepts, Covered
      <4> QED
        BY <1>3, <3>1, <4>1, <4>2, <4>3, <4>4 DEF ResetRemembered
    <3>4. CASE f.created + Retention < now
      BY Zenon, <3>4 DEF ResetRemembered
    <3> QED
      BY Zenon, <3>2, <3>3, <3>4
  <2>3. CASE e.kind = "reset" /\ GroupOf(f) # GroupOf(e)
    <3>1. db'.floors[GroupOf(f)] = db.floors[GroupOf(f)] /\ f # e
      BY Zenon, <1>1, <1>3, <2>3, ResetCommit, EventParts
    <3> QED
      BY Zenon, <1>5, <3>1 DEF Remembered, ResetRemembered
  <2> QED
    BY Zenon, <1>1, <2>1, <2>2, <2>3, EventParts
<1> QED
  BY Zenon, <1>4, <1>5

\* A commit leaves no device with two grants in force.
LEMMA CommitOneGrant ==
    ASSUME TypeOK, RowsSound, Pruned, OneGrantInForce, NEW e \in signed, Timely(e),
           Accepts(snap, e), Commit(e), now' = now
    PROVE  OneGrantInForce'
<1>1. e \in Events /\ snap' = db' /\ ~Covered(snap, e)
  BY Zenon, SignedEvents, EventParts, ResetCommit, GrantCommit DEF Pruned, Accepts
<1>2. ASSUME NEW i \in Ids, Active(i)', ~(e.kind = "grant" /\ i = IdOf(e))
      PROVE  Active(i) /\ db'.grants[i] = snap.grants[i]
  <2>1. db'.grants[i] = db.grants[i] /\ db'.grants[i] # None
    BY Zenon, <1>1, <1>2, ResetCommit, GrantCommit, EventParts DEF Pruned, Active
  <2>2. db.grants[i] = snap.grants[i] /\ snap.grants[i] # None
    BY Zenon, <2>1 DEF Pruned
  <2> DEFINE f == snap.grants[i].event
  <2>3. ~f.revoked /\ f.expires > now /\ ~Covered(db', f)
    BY Zenon, <1>1, <1>2, <2>1, <2>2 DEF Active, IsActive
  <2>4. f \in Events /\ Timely(f)
    BY Zenon, <2>2, TableParts DEF RowsSound, RowSound, TypeOK
  <2>5. ~Covered(snap, f)
    BY Zenon, <1>1, <2>3, <2>4, StaysCovered
  <2> QED
    BY Zenon, <2>1, <2>2, <2>3, <2>5 DEF Active, IsActive
<1>3. ASSUME e.kind = "grant", NEW i \in Ids, i # IdOf(e), Active(i)', Active(IdOf(e))'
      PROVE  db'.grants[i].event.device # e.device
  <2>1. db'.grants[IdOf(e)].event = e
    BY <1>1, <1>3, GrantCommit, RowWritten, EventParts DEF TypeOK, Pruned
  <2>2. ~e.revoked
    BY Zenon, <1>1, <1>3, <2>1 DEF Active, IsActive
  <2>3. Active(i) /\ db'.grants[i] = snap.grants[i]
    BY Zenon, <1>2, <1>3
  <2>4. IdOf(snap.grants[i].event) = i /\ snap.grants[i] \in RowsIn(snap)
    BY Zenon, <2>3 DEF RowsSound, RowSound, RowsIn, Active, Ids
  <2> QED
    BY Zenon, <1>3, <2>2, <2>3, <2>4 DEF Accepts, RowsFor, Active
<1> SUFFICES ASSUME NEW i \in Ids, NEW j \in Ids, Active(i)', Active(j)',
                    db'.grants[i].event.device = db'.grants[j].event.device
             PROVE  i = j
  BY Zenon, <1>1 DEF OneGrantInForce, Ids
<1>4. CASE e.kind = "grant" /\ (i = IdOf(e) \/ j = IdOf(e))
  <2>1. db'.grants[IdOf(e)].event = e
    BY <1>1, <1>4, GrantCommit, RowWritten, EventParts DEF TypeOK, Pruned
  <2> QED
    BY Zenon, <1>3, <1>4, <2>1
<1>5. CASE ~(e.kind = "grant" /\ (i = IdOf(e) \/ j = IdOf(e)))
  BY Zenon, <1>2, <1>5 DEF OneGrantInForce, Ids
<1> QED
  BY Zenon, <1>4, <1>5

\* The friend set of the key table, and of the table an event would make.
LEMMA Projected ==
    ASSUME TypeOK, NEW e \in Events, NEW d \in Devices
    PROVE  /\ HasLimit(d) <=> FriendGrants(snap.keys)[d] # None
           /\ FriendGrants(KeysAfter(snap, e))[d] # None
                <=> HasLimit(d) \/ (Uploads(e) /\ d = e.device)
<1>1. HasLimit(d) <=> FriendGrants(snap.keys)[d] # None
  BY Zenon DEF FriendGrants, HasLimit
<1>2. /\ e.device \in Devices /\ e.kind \in {"grant", "reset"} /\ e.revoked \in BOOLEAN
      /\ snap.keys \in [Devices -> GroupKey \cup {None}]
      /\ e.bytes \in Nat \cup {None} /\ GroupOf(e) \in Groups
  BY Zenon, EventParts DEF TypeOK, Tables
<1>3. CASE e.kind = "reset" \/ e.revoked
  BY Zenon, <1>1, <1>3 DEF KeysAfter, Uploads
<1>4. CASE ~(e.kind = "reset" \/ e.revoked)
  <2> DEFINE key == [group |-> GroupOf(e),
                     limit |-> IF e.bytes # None THEN e.bytes
                               ELSE IF snap.keys[e.device] = None THEN None
                               ELSE snap.keys[e.device].limit]
  <2>1. KeysAfter(snap, e) = [snap.keys EXCEPT ![e.device] = key]
    BY Zenon, <1>4 DEF KeysAfter
  <2>2. CASE d = e.device
    <3>1. key \in GroupKey
      BY Zenon, <1>2, TableParts DEF GroupKey, TypeOK
    <3>2. FriendGrants(KeysAfter(snap, e))[d] = key.limit
      BY Zenon, <1>2, <2>1, <2>2, <3>1, NoneAssumption DEF FriendGrants
    <3>3. key.limit # None <=> HasLimit(d) \/ e.bytes # None
      BY Zenon, <1>2, <2>2 DEF HasLimit
    <3> HIDE DEF key
    <3> QED
      BY Zenon, <1>1, <1>2, <1>4, <2>2, <3>2, <3>3 DEF Uploads
  <2>3. CASE d # e.device
    BY Zenon, <1>1, <1>2, <2>1, <2>3 DEF FriendGrants
  <2> QED
    BY Zenon, <2>2, <2>3
<1> QED
  BY Zenon, <1>1, <1>3, <1>4

\* A commit takes no ceiling away, and gives one only to its own device.
LEMMA CommitLimits ==
    ASSUME TypeOK, Pruned, NEW e \in signed, Commit(e), NEW d \in Devices
    PROVE  HasLimit(d)' <=> HasLimit(d) \/ (Uploads(e) /\ d = e.device)
<1>1. e \in Events /\ e.kind \in {"grant", "reset"} /\ e.device \in Devices
  BY Zenon, SignedEvents, EventParts
<1>2. CASE e.kind = "reset"
  BY Zenon, <1>1, <1>2, ResetCommit DEF HasLimit, Uploads, Pruned
<1>3. CASE e.kind = "grant"
  <2> DEFINE keys == snap'.keys
  <2>1. /\ \A c \in Devices \ {e.device} : keys[c] = snap.keys[c]
        /\ e.revoked => keys = snap.keys
        /\ ~e.revoked =>
            /\ keys[e.device] # None
            /\ keys[e.device].limit = IF e.bytes # None THEN e.bytes
                                      ELSE IF snap.keys[e.device] = None THEN None
                                      ELSE snap.keys[e.device].limit
    <3>1. /\ snap.keys = db.keys /\ db.keys \in [Devices -> GroupKey \cup {None}]
          /\ keys = WriteKey(db.keys, e.device, KeysAfter(snap, e)[e.device])
      BY Zenon, <1>1, <1>3, GrantCommit DEF TypeOK, Tables, Pruned
    <3> QED
      BY <1>1, <1>3, <3>1, KeyWritten
  <2> HIDE DEF keys
  <2>2. HasLimit(d)' <=> keys[d] # None /\ keys[d].limit # None
    BY Zenon DEF HasLimit, keys
  <2> QED
    BY Zenon, <1>1, <1>3, <2>1, <2>2 DEF HasLimit, Uploads
<1> QED
  BY Zenon, <1>1, <1>2, <1>3

-----------------------------------------------------------------------------
(* Steps.                                                                    *)

\* A commit, with what the request holds, keeps the invariant.
LEMMA CommitStep ==
    ASSUME IInv, NEW e \in signed, Timely(e), Accepts(snap, e), Commit(e),
           signed' = signed, now' = now
    PROVE  /\ db' \in Tables /\ snap' \in Tables /\ accepted' \subseteq signed
           /\ accepted' \subseteq Events
           /\ RowsSound' /\ Pruned' /\ Remembered' /\ OneGrantInForce'
<1>1. e \in Events /\ accepted \subseteq Events
  BY Zenon, SignedEvents DEF IInv, Screened
<1>2. snap' = db' /\ db' \in Tables /\ accepted' = accepted \cup {e}
  BY Zenon, <1>1, EventParts, ResetCommit, GrantCommit DEF IInv, Pruned
<1>3. RowsSound' /\ Remembered' /\ OneGrantInForce'
  BY Zenon, CommitRows, CommitRemembered, CommitOneGrant DEF IInv
<1>4. Pruned'
  BY Zenon, <1>2 DEF Pruned
<1> QED
  BY Zenon, <1>1, <1>2, <1>3, <1>4 DEF IInv, Screened

\* A post that needs no push keeps the invariant.
LEMMA PostCommitStep ==
    ASSUME IInv, NEW q \in Requests, NEW e \in signed, PostCommit(q, e)
    PROVE  IInv'
<1>1. /\ Accepts(snap, e) /\ Commit(e) /\ ~ChangesFriends(e) /\ e \in Events
      /\ UNCHANGED <<signed, now, core, ops, lock, pending, restarts>>
  BY Zenon, SignedEvents DEF PostCommit, IInv
<1>2. Timely(e)
  <2>1. e.expires > e.created /\ e.expires - e.created <= Lifetime
    BY Zenon DEF PostCommit, Screen
  <2> QED
    BY <1>1, <2>1, EventParts, TimeAssumption DEF Timely
<1>3. /\ db' \in Tables /\ snap' \in Tables /\ accepted' \subseteq signed
      /\ accepted' \subseteq Events
      /\ RowsSound' /\ Pruned' /\ Remembered' /\ OneGrantInForce'
  BY Zenon, <1>1, <1>2, CommitStep
<1>4. TypeOK' /\ Screened'
  BY Zenon, <1>1, <1>3 DEF IInv, TypeOK, Screened
<1>5. ASSUME NEW d \in Devices
      PROVE  HasLimit(d)' <=> HasLimit(d)
  BY Zenon, <1>1, CommitLimits, Projected DEF IInv, ChangesFriends
<1>6. CoreAhead'
  BY Zenon, <1>1, <1>5 DEF IInv, CoreAhead
<1> QED
  BY Zenon, <1>3, <1>4, <1>6 DEF IInv

\* A commit after a push keeps it.
LEMMA PushCommitStep ==
    ASSUME IInv, NEW q \in Requests, PushCommit(q)
    PROVE  IInv'
<1> DEFINE e == ops[q].event
<1>1. /\ ops[q].at = "commit" /\ Accepts(snap, e) /\ Commit(e)
      /\ ops' = [ops EXCEPT ![q] = Idle] /\ lock' = "free"
      /\ UNCHANGED <<signed, now, core, pending, restarts>>
  BY Zenon DEF PushCommit
<1>2. ops[q] # Idle /\ e \in signed /\ Timely(e)
  BY <1>1 DEF Idle, IInv, Screened
<1>3. /\ db' \in Tables /\ snap' \in Tables /\ accepted' \subseteq signed
      /\ accepted' \subseteq Events
      /\ RowsSound' /\ Pruned' /\ Remembered' /\ OneGrantInForce'
  BY Zenon, <1>1, <1>2, CommitStep
<1>4. \A p \in Requests : ops'[p] = IF p = q THEN Idle ELSE ops[p]
  BY Zenon, <1>1 DEF IInv, TypeOK
<1>5. TypeOK'
  BY Zenon, <1>1, <1>3 DEF IInv, TypeOK
<1>6. Screened'
  BY <1>1, <1>3, <1>4 DEF IInv, Screened
<1>7. CoreAhead'
  <2>1. \A d \in Devices : HasLimit(d)' => core'[d] # None
    BY Zenon, <1>1, <1>2, CommitLimits DEF IInv, CoreAhead
  <2>2. \A p \in Requests : ~(ops'[p].at \in {"pushing", "commit"})
    BY <1>1, <1>4 DEF IInv, CoreAhead, Idle
  <2> QED
    BY Zenon, <1>1, <2>1, <2>2 DEF CoreAhead
<1> QED
  BY Zenon, <1>3, <1>5, <1>6, <1>7 DEF IInv

\* Steps that leave the tables alone.
LEMMA TablesKept ==
    ASSUME IInv, UNCHANGED <<signed, now, db, snap, accepted>>
    PROVE  /\ RowsSound' /\ Pruned' /\ Remembered' /\ OneGrantInForce'
           /\ \A d \in Devices : HasLimit(d)' <=> HasLimit(d)
<1>1. RowsSound' /\ Pruned'
  BY Zenon DEF IInv, RowsSound, RowSound, Pruned
<1>2. Remembered'
  BY Zenon DEF IInv, Remembered, GrantRemembered, ResetRemembered
<1>3. OneGrantInForce'
  BY Zenon DEF IInv, OneGrantInForce, Active, IsActive
<1> QED
  BY Zenon, <1>1, <1>2, <1>3 DEF HasLimit

\* A post that needs a push queues for it.
LEMMA PostPushStep ==
    ASSUME IInv, NEW q \in Requests, NEW e \in signed, PostPush(q, e)
    PROVE  IInv'
<1>1. /\ e \in Events /\ ops' = [ops EXCEPT ![q] = [at |-> "push", event |-> e]]
      /\ UNCHANGED <<signed, now, db, snap, core, lock, pending, accepted, restarts>>
  BY Zenon, SignedEvents DEF PostPush, IInv
<1>2. Timely(e)
  <2>1. e.expires > e.created /\ e.expires - e.created <= Lifetime
    BY Zenon DEF PostPush, Screen
  <2> QED
    BY <1>1, <2>1, EventParts, TimeAssumption DEF Timely
<1>3. \A p \in Requests : ops'[p] = IF p = q THEN [at |-> "push", event |-> e] ELSE ops[p]
  BY Zenon, <1>1 DEF IInv, TypeOK
<1>4. TypeOK'
  BY Zenon, <1>1 DEF IInv, TypeOK
<1>5. Screened'
  BY <1>1, <1>2, <1>3 DEF IInv, Screened
<1>6. CoreAhead'
  BY <1>1, <1>3, TablesKept DEF IInv, CoreAhead
<1> QED
  BY Zenon, <1>1, <1>4, <1>5, <1>6, TablesKept DEF IInv

\* The push lock is taken, and the set it will hand over has every known key.
LEMMA PushStartStep ==
    ASSUME IInv, NEW q \in Requests, PushStart(q)
    PROVE  IInv'
<1> DEFINE e == ops[q].event
           next == IF KeysAfter(snap, e) = snap.keys THEN "commit" ELSE "pushing"
<1>1. /\ ops[q].at = "push" /\ lock = "free" /\ lock' = q
      /\ pending' = FriendGrants(KeysAfter(snap, e))
      /\ ops' = [ops EXCEPT ![q].at = next]
      /\ UNCHANGED <<signed, now, db, snap, core, accepted, restarts>>
  BY Zenon DEF PushStart
<1>2. ops[q] # Idle /\ e \in Events /\ e \in signed /\ Timely(e)
  BY <1>1, SignedEvents DEF Idle, IInv, Screened
<1>3. \A p \in Requests :
        ops'[p] = IF p = q THEN [at |-> next, event |-> e] ELSE ops[p]
  <2>1. ops[q] \in [at: {"push", "pushing", "commit"}, event: Events]
    BY Zenon, <1>2 DEF IInv, TypeOK
  <2> QED
    BY <1>1, <2>1 DEF IInv, TypeOK
<1>4. ops'[q] # Idle /\ ops'[q].event = e /\ ops'[q].at = next /\ next \in {"commit", "pushing"}
  BY <1>3 DEF Idle
<1> HIDE DEF next
<1>5. pending' \in Friends
  <2>1. KeysAfter(snap, e) \in [Devices -> GroupKey \cup {None}]
    BY Zenon, <1>2, EventParts, TableParts DEF KeysAfter, IInv, TypeOK, Tables, GroupKey
  <2> QED
    BY Zenon, <1>1, <2>1 DEF FriendGrants, Friends, GroupKey
<1>6. TypeOK'
  BY Zenon, <1>1, <1>2, <1>3, <1>4, <1>5 DEF IInv, TypeOK
<1>7. Screened'
  BY <1>1, <1>2, <1>3, <1>4 DEF IInv, Screened
<1>8. CoreAhead'
  <2>1. ASSUME NEW d \in Devices
        PROVE  /\ HasLimit(d)' => core'[d] # None /\ pending'[d] # None
               /\ Uploads(e) /\ d = e.device => pending'[d] # None
    BY Zenon, <1>1, <1>2, TablesKept, Projected DEF IInv, CoreAhead
  <2>2. ASSUME next = "commit", Uploads(e)
        PROVE  core'[e.device] # None
    <3>1. KeysAfter(snap, e) = snap.keys
      BY Zenon, <2>2 DEF next
    <3>2. HasLimit(e.device) /\ e.device \in Devices
      BY Zenon, <1>2, <2>2, <3>1, EventParts, Projected DEF IInv
    <3> QED
      BY Zenon, <1>1, <3>2 DEF IInv, CoreAhead
  <2>3. \A p \in Requests \ {q} : ~(ops'[p].at \in {"pushing", "commit"})
    BY Zenon, <1>1, <1>3, RequestAssumption DEF IInv, CoreAhead
  <2>4. e.device \in Devices
    BY Zenon, <1>2, EventParts
  <2> QED
    BY Zenon, <1>1, <1>4, <2>1, <2>2, <2>3, <2>4 DEF CoreAhead
<1> QED
  BY Zenon, <1>1, <1>6, <1>7, <1>8, TablesKept DEF IInv

\* The core has the set.
LEMMA PushDoneStep ==
    ASSUME IInv, NEW q \in Requests, PushDone(q)
    PROVE  IInv'
<1>1. /\ ops[q].at = "pushing" /\ core' = pending /\ ops' = [ops EXCEPT ![q].at = "commit"]
      /\ UNCHANGED <<signed, now, db, snap, lock, pending, accepted, restarts>>
  BY Zenon DEF PushDone
<1>2. ops[q] # Idle /\ ops[q] \in [at: {"push", "pushing", "commit"}, event: Events]
  BY <1>1 DEF Idle, IInv, TypeOK
<1>3. \A p \in Requests :
        ops'[p] = IF p = q THEN [at |-> "commit", event |-> ops[q].event] ELSE ops[p]
  BY <1>1, <1>2 DEF IInv, TypeOK
<1>4. TypeOK'
  BY Zenon, <1>1, <1>2, <1>3 DEF IInv, TypeOK
<1>5. Screened'
  BY <1>1, <1>2, <1>3 DEF IInv, Screened
<1>6. CoreAhead'
  <2>1. lock = q /\ lock # "free"
    BY Zenon, <1>1, RequestAssumption DEF IInv, CoreAhead
  <2>2. \A d \in Devices : HasLimit(d)' => core'[d] # None /\ pending'[d] # None
    BY Zenon, <1>1, <2>1, TablesKept DEF IInv, CoreAhead
  <2>3. \A p \in Requests \ {q} : ~(ops'[p].at \in {"pushing", "commit"})
    BY Zenon, <1>3, <2>1 DEF IInv, CoreAhead
  <2>4. ops'[q].at = "commit" /\ (Uploads(ops'[q].event) => core'[ops'[q].event.device] # None)
    BY <1>1, <1>3 DEF IInv, CoreAhead
  <2> QED
    BY Zenon, <1>1, <2>1, <2>2, <2>3, <2>4 DEF CoreAhead
<1> QED
  BY Zenon, <1>1, <1>4, <1>5, <1>6, TablesKept DEF IInv

\* A push is given up.
LEMMA PushAbandonedStep ==
    ASSUME IInv, NEW q \in Requests, PushAbandoned(q)
    PROVE  IInv'
<1>1. /\ ops' = [ops EXCEPT ![q] = Idle] /\ lock' = IF lock = q THEN "free" ELSE lock
      /\ UNCHANGED <<signed, now, db, snap, core, pending, accepted, restarts>>
  BY Zenon DEF PushAbandoned
<1>2. \A p \in Requests : ops'[p] = IF p = q THEN Idle ELSE ops[p]
  BY Zenon, <1>1 DEF IInv, TypeOK
<1>3. TypeOK'
  BY Zenon, <1>1 DEF IInv, TypeOK
<1>4. Screened'
  BY <1>1, <1>2 DEF IInv, Screened
<1>5. CoreAhead'
  BY <1>1, <1>2, TablesKept DEF IInv, CoreAhead, Idle
<1> QED
  BY Zenon, <1>1, <1>3, <1>4, <1>5, TablesKept DEF IInv

\* A device grant's push takes the lock and hands over the set it read.
LEMMA DevicePushSteps ==
    ASSUME IInv, DevicePushStart \/ DevicePushDone
    PROVE  IInv'
<1>1. UNCHANGED <<signed, now, db, snap, ops, accepted, restarts>>
  BY Zenon DEF DevicePushStart, DevicePushDone
<1>2. FriendGrants(snap.keys) \in Friends
  BY Zenon, TableParts DEF FriendGrants, Friends, IInv, TypeOK
<1>3. TypeOK' /\ Screened'
  BY Zenon, <1>1, <1>2 DEF DevicePushStart, DevicePushDone, IInv, TypeOK, Screened
<1>4. \A d \in Devices : HasLimit(d)' => core'[d] # None
  BY Zenon, <1>1, TablesKept DEF DevicePushStart, DevicePushDone, IInv, CoreAhead
<1>5. lock' # "free" => \A d \in Devices : HasLimit(d)' => pending'[d] # None
  BY Zenon, <1>1, TablesKept DEF DevicePushStart, DevicePushDone, HasLimit, FriendGrants
<1>6. \A q \in Requests : ~(ops'[q].at \in {"pushing", "commit"})
  BY Zenon, <1>1, RequestAssumption DEF DevicePushStart, DevicePushDone, IInv, CoreAhead
<1>7. CoreAhead'
  BY Zenon, <1>4, <1>5, <1>6 DEF CoreAhead
<1> QED
  BY Zenon, <1>1, <1>3, <1>7, TablesKept DEF IInv

\* Pruning forgets a row or a floor only when its time is over.
LEMMA PruneStep ==
    ASSUME IInv, Prune
    PROVE  IInv'
<1>1. UNCHANGED <<signed, now, snap, core, ops, lock, pending, accepted, restarts>>
  BY Zenon DEF Prune
<1> DEFINE grants == [id \in DOMAIN db.grants |->
                        IF db.grants[id] # None /\ db.grants[id].retain + Grace < now
                        THEN None ELSE db.grants[id]]
           floors == [g \in DOMAIN db.floors |->
                        IF db.floors[g] # None /\ db.floors[g].created + Retention < now
                        THEN None ELSE db.floors[g]]
<1>2. db' = [grants |-> grants, floors |-> floors, keys |-> db.keys]
  BY Zenon DEF Prune, IInv, TypeOK, Tables
<1>3. /\ DOMAIN db.grants = Ids /\ DOMAIN db.floors = Groups
      /\ grants \in [Ids -> Row \cup {None}] /\ floors \in [Groups -> Events \cup {None}]
  BY Zenon DEF IInv, TypeOK, Tables, Ids
<1>4. /\ \A id \in Ids : db'.grants[id] =
            IF db.grants[id] # None /\ db.grants[id].retain + Grace < now
            THEN None ELSE db.grants[id]
      /\ \A g \in Groups : db'.floors[g] =
            IF db.floors[g] # None /\ db.floors[g].created + Retention < now
            THEN None ELSE db.floors[g]
      /\ db'.keys = db.keys /\ db' \in Tables
  BY Zenon, <1>2, <1>3 DEF IInv, TypeOK, Tables, Ids
<1>5. TypeOK' /\ Screened'
  BY Zenon, <1>1, <1>4 DEF IInv, TypeOK, Screened
<1>6. RowsSound' /\ OneGrantInForce'
  BY Zenon, <1>1 DEF IInv, RowsSound, RowSound, OneGrantInForce, Active, IsActive
<1>7. Pruned'
  BY Zenon, <1>1, <1>4 DEF IInv, Pruned
<1>8. Remembered'
  <2> SUFFICES ASSUME NEW e \in accepted
               PROVE  /\ e.kind = "grant" => GrantRemembered(e)'
                      /\ e.kind = "reset" => ResetRemembered(e)'
    BY Zenon, <1>1 DEF Remembered
  <2>1. /\ e \in Events /\ IdOf(e) \in Ids /\ GroupOf(e) \in Groups
        /\ e.created \in Nat /\ e.expires \in Nat /\ now \in Nat
    BY Zenon, EventParts DEF IInv, TypeOK
  <2>2. db.grants[IdOf(e)] # None => db.grants[IdOf(e)].retain \in Nat
    BY Zenon, <2>1, TableParts DEF IInv, TypeOK
  <2>3. db.floors[GroupOf(e)] # None => db.floors[GroupOf(e)].created \in Nat
    BY Zenon, <2>1, TableParts, EventParts DEF IInv, TypeOK
  <2>4. e.kind = "grant" => GrantRemembered(e)'
    BY <1>1, <1>4, <2>1, <2>2, TimeAssumption DEF IInv, Remembered, GrantRemembered
  <2>5. e.kind = "reset" => ResetRemembered(e)'
    BY <1>1, <1>4, <2>1, <2>3, TimeAssumption DEF IInv, Remembered, ResetRemembered
  <2> QED
    BY Zenon, <2>4, <2>5
<1>9. CoreAhead'
  BY Zenon, <1>1 DEF IInv, CoreAhead, HasLimit
<1> QED
  BY Zenon, <1>5, <1>6, <1>7, <1>8, <1>9 DEF IInv

\* Time only ends grants.
LEMMA TickStep ==
    ASSUME IInv, Tick
    PROVE  IInv'
<1>1. /\ now' = now + 1 /\ now \in Nat
      /\ UNCHANGED <<signed, db, snap, core, ops, lock, pending, accepted, restarts>>
  BY Zenon DEF Tick, IInv, TypeOK
<1>2. TypeOK' /\ Screened' /\ RowsSound'
  <2>1. TypeOK'
    BY <1>1 DEF IInv, TypeOK
  <2>2. Screened'
    BY Zenon, <1>1 DEF IInv, Screened
  <2>3. RowsSound'
    BY Zenon, <1>1 DEF IInv, RowsSound, RowSound
  <2> QED
    BY Zenon, <2>1, <2>2, <2>3
<1>3. Pruned'
  <2>1. \A g \in Groups : snap.floors[g] # None => snap.floors[g].created \in Nat
    BY Zenon, TableParts, EventParts DEF IInv, TypeOK
  <2> QED
    BY <1>1, <2>1, TimeAssumption DEF IInv, Pruned
<1>4. Remembered'
  <2>1. \A e \in accepted : e.created \in Nat /\ e.expires \in Nat
    BY Zenon, EventParts DEF IInv, TypeOK
  <2> QED
    BY <1>1, <2>1, TimeAssumption DEF IInv, Remembered, GrantRemembered, ResetRemembered
<1>5. OneGrantInForce'
  <2>1. ASSUME NEW id \in Ids, Active(id)'
        PROVE  Active(id)
    <3>1. snap.grants[id] # None /\ snap.grants[id].event.expires \in Nat
      BY Zenon, <1>1, <2>1, TableParts, EventParts DEF Active, IInv, TypeOK
    <3> QED
      BY <1>1, <2>1, <3>1 DEF Active, IsActive
  <2> QED
    BY Zenon, <1>1, <2>1 DEF IInv, OneGrantInForce, Ids
<1>6. CoreAhead'
  BY Zenon, <1>1 DEF IInv, CoreAhead, HasLimit
<1> QED
  BY Zenon, <1>2, <1>3, <1>4, <1>5, <1>6 DEF IInv

\* A restart loads the database.
LEMMA RestartStep ==
    ASSUME IInv, Restart
    PROVE  IInv'
<1>1. /\ snap' = db /\ core' = FriendGrants(db.keys) /\ lock' = "free"
      /\ ops' = [q \in Requests |-> Idle] /\ restarts' = restarts + 1
      /\ UNCHANGED <<signed, now, db, pending, accepted>>
  BY Zenon DEF Restart
<1>2. FriendGrants(db.keys) \in Friends
  BY Zenon, TableParts DEF FriendGrants, Friends, IInv, TypeOK
<1>3. TypeOK' /\ Screened'
  BY <1>1, <1>2 DEF IInv, TypeOK, Screened
<1>4. RowsSound' /\ Pruned'
  BY Zenon, <1>1 DEF IInv, RowsSound, RowSound, Pruned
<1>5. Remembered'
  BY Zenon, <1>1 DEF IInv, Remembered, GrantRemembered, ResetRemembered
<1>6. OneGrantInForce'
  <2>1. ASSUME NEW id \in Ids, Active(id)'
        PROVE  Active(id) /\ db.grants[id] = snap.grants[id]
    <3>1. db.grants[id] # None /\ db.grants[id] = snap.grants[id]
      BY Zenon, <1>1, <2>1 DEF Active, IInv, Pruned
    <3> DEFINE f == snap.grants[id].event
    <3>2. /\ f \in Events /\ Timely(f) /\ GroupOf(f) \in Groups
          /\ f.created \in Nat /\ f.expires \in Nat
      BY Zenon, <3>1, TableParts, EventParts DEF IInv, TypeOK, RowsSound, RowSound
    <3>3. ~f.revoked /\ f.expires > now /\ ~Covered(db, f)
      BY Zenon, <1>1, <2>1, <3>1 DEF Active, IsActive
    <3>4. ~Covered(snap, f)
      <4> SUFFICES ASSUME Covered(snap, f)
                   PROVE  FALSE
        BY Zenon
      <4>1. /\ snap.floors[GroupOf(f)] # None /\ f.created <= snap.floors[GroupOf(f)].created
            /\ snap.floors[GroupOf(f)].created \in Nat
        BY Zenon, <3>2, TableParts, EventParts DEF Covered, IInv, TypeOK
      <4>2. ~(snap.floors[GroupOf(f)].created + Retention < now)
        BY <3>2, <3>3, <4>1, TimeAssumption, RetentionAssumption DEF Timely, IInv, TypeOK
      <4>3. db.floors[GroupOf(f)] = snap.floors[GroupOf(f)]
        BY Zenon, <3>2, <4>2 DEF IInv, Pruned
      <4> QED
        BY Zenon, <3>3, <4>1, <4>3 DEF Covered
    <3> QED
      BY Zenon, <3>1, <3>3, <3>4 DEF Active, IsActive
  <2> QED
    BY <1>1, <2>1 DEF IInv, OneGrantInForce, Ids
<1>7. CoreAhead'
  <2>1. \A d \in Devices : HasLimit(d)' => core'[d] # None
    BY Zenon, <1>1 DEF HasLimit, FriendGrants
  <2> QED
    BY Zenon, <1>1, <2>1 DEF CoreAhead, Idle
<1> QED
  BY Zenon, <1>3, <1>4, <1>5, <1>6, <1>7 DEF IInv

-----------------------------------------------------------------------------
(* The invariant, and what follows from it.                                  *)

\* The tables start empty, with nothing known to the core.
LEMMA InitIInv == Init => IInv
<1> SUFFICES ASSUME Init
             PROVE  IInv
  BY Zenon
<1>1. Empty \in Tables
  BY Zenon DEF Empty, Tables
<1>2. /\ \A id \in Ids : Empty.grants[id] = None
      /\ \A g \in Groups : Empty.floors[g] = None
      /\ \A d \in Devices : Empty.keys[d] = None
  BY Zenon DEF Empty, Ids
<1>3. TypeOK /\ Screened
  BY Zenon, <1>1 DEF Init, TypeOK, Screened, Friends
<1>4. RowsSound /\ Pruned /\ Remembered /\ OneGrantInForce
  BY Zenon, <1>2 DEF Init, RowsSound, Pruned, Remembered, OneGrantInForce, Active, Ids
<1>5. CoreAhead
  BY Zenon, <1>2 DEF Init, CoreAhead, HasLimit, Idle
<1> QED
  BY Zenon, <1>3, <1>4, <1>5 DEF IInv

\* Every step keeps the invariant.
LEMMA NextIInv == IInv /\ [Next]_vars => IInv'
<1> SUFFICES ASSUME IInv, [Next]_vars
             PROVE  IInv'
  BY Zenon
<1>1. ASSUME NEW q \in Requests, NEW e \in signed, PostCommit(q, e) \/ PostPush(q, e)
      PROVE  IInv'
  BY Zenon, <1>1, PostCommitStep, PostPushStep
<1>2. ASSUME NEW q \in Requests,
             PushStart(q) \/ PushDone(q) \/ PushAbandoned(q) \/ PushCommit(q)
      PROVE  IInv'
  BY Zenon, <1>2, PushStartStep, PushDoneStep, PushAbandonedStep, PushCommitStep
<1>3. CASE DevicePushStart \/ DevicePushDone
  BY Zenon, <1>3, DevicePushSteps
<1>4. CASE Prune
  BY Zenon, <1>4, PruneStep
<1>5. CASE Tick
  BY <1>5, TickStep
<1>6. CASE Restart
  BY <1>6, RestartStep
<1>7. CASE UNCHANGED vars
  <2>1. UNCHANGED <<signed, now, db, snap, core, ops, lock, pending, accepted, restarts>>
    BY Zenon, <1>7 DEF vars
  <2>2. TypeOK' /\ Screened'
    BY Zenon, <2>1 DEF IInv, TypeOK, Screened
  <2>3. CoreAhead'
    BY Zenon, <2>1, TablesKept DEF IInv, CoreAhead
  <2> QED
    BY Zenon, <2>1, <2>2, <2>3, TablesKept DEF IInv
<1> QED
  BY Zenon, <1>1, <1>2, <1>3, <1>4, <1>5, <1>6, <1>7 DEF Next

\* IInv holds throughout: the tables and the database agree up to pruning, every
\* accepted event is remembered until its time is over, and the core is ahead of
\* the key table.
THEOREM Invariance == Spec => []IInv
BY InitIInv, NextIInv, PTL DEF Spec

\* A row in force is a screened grant of its own id that is not over.
LEMMA InForce ==
    ASSUME IInv, NEW id \in Ids, Active(id)
    PROVE  LET f == snap.grants[id].event IN
           /\ f \in Events /\ f \in signed /\ f.kind = "grant" /\ IdOf(f) = id
           /\ Timely(f) /\ ~f.revoked /\ f.expires > now /\ ~Covered(snap, f)
           /\ f.created \in Nat /\ f.expires \in Nat /\ f.device \in Devices
           /\ now \in Nat /\ snap.grants[id] # None
BY Zenon, TableParts, EventParts DEF IInv, TypeOK, RowsSound, RowSound, Active, IsActive

\* Rule 10 (evaluate_group_event, prune): an accepted version of a grant id rules
\* out every older one for good, and a revocation every other, whatever is pruned,
\* reloaded or posted late.  Once its row may be gone, KeeperAssumption and the
\* clock rule the older versions out.
THEOREM NewestVersion == Spec => []NewestVersionRules
<1>1. IInv => NewestVersionRules
  <2> SUFFICES ASSUME IInv, NEW e \in accepted, e.kind = "grant", Active(IdOf(e))
               PROVE  /\ snap.grants[IdOf(e)].event.created >= e.created
                      /\ ~e.revoked
    BY Zenon DEF NewestVersionRules
  <2> DEFINE f == snap.grants[IdOf(e)].event
  <2>1. /\ e \in Events /\ e \in signed /\ IdOf(e) \in Ids
        /\ e.created \in Nat /\ e.expires \in Nat
    BY Zenon, EventParts DEF IInv, TypeOK, Screened
  <2>2. /\ f \in Events /\ f \in signed /\ f.kind = "grant" /\ IdOf(f) = IdOf(e)
        /\ ~f.revoked /\ f.expires > now /\ f.created \in Nat /\ f.expires \in Nat
        /\ now \in Nat /\ snap.grants[IdOf(e)] # None
    BY Zenon, <2>1, InForce
  <2>3. CASE e.expires + Grace < now
    <3>1. f.keeper = e.keeper /\ f.grant = e.grant
      BY Zenon, <2>2 DEF IdOf
    <3>2. ~(f.expires <= e.expires)
      BY <2>1, <2>2, <2>3, TimeAssumption
    <3>3. ~(f.created < e.created \/ e.revoked)
      BY Zenon, <2>1, <2>2, <3>1, <3>2, KeeperAssumption DEF IInv, TypeOK
    <3> QED
      BY <2>1, <2>2, <3>3
  <2>4. CASE ~(e.expires + Grace < now)
    <3>1. /\ db.grants[IdOf(e)] # None
          /\ db.grants[IdOf(e)].event.created >= e.created
          /\ e.revoked => db.grants[IdOf(e)].event.revoked
      BY Zenon, <2>4 DEF IInv, Remembered, GrantRemembered
    <3>2. db.grants[IdOf(e)] = snap.grants[IdOf(e)]
      BY Zenon, <2>1, <3>1 DEF IInv, Pruned
    <3> QED
      BY Zenon, <2>2, <3>1, <3>2
  <2> QED
    BY Zenon, <2>3, <2>4
<1> QED
  BY <1>1, Invariance, PTL

\* Rule 9 (GroupRows::covered, prune): an accepted reset ends every grant of its
\* group signed at or before it, for good, although its floor is pruned once no
\* such grant can be alive.
THEOREM ResetFinal == Spec => []ResetIsFinal
<1>1. IInv => ResetIsFinal
  <2> SUFFICES ASSUME IInv, NEW e \in accepted, NEW id \in Ids, e.kind = "reset",
                      Active(id), GroupOf(snap.grants[id].event) = GroupOf(e)
               PROVE  snap.grants[id].event.created > e.created
    BY Zenon DEF ResetIsFinal, Ids
  <2> DEFINE f == snap.grants[id].event
             g == GroupOf(e)
  <2>1. e \in Events /\ g \in Groups /\ e.created \in Nat
    BY Zenon, EventParts DEF IInv, TypeOK
  <2>2. /\ Timely(f) /\ f.expires > now /\ ~Covered(snap, f)
        /\ f.created \in Nat /\ f.expires \in Nat /\ now \in Nat
    BY Zenon, InForce
  <2>3. CASE e.created + Retention < now
    BY <2>1, <2>2, <2>3, TimeAssumption, RetentionAssumption DEF Timely
  <2>4. CASE ~(e.created + Retention < now)
    <3>1. db.floors[g] # None /\ db.floors[g].created >= e.created
      BY Zenon, <2>4 DEF IInv, Remembered, ResetRemembered
    <3>2. db.floors[g] = snap.floors[g]
      BY Zenon, <2>1, <3>1 DEF IInv, Pruned
    <3>3. snap.floors[g].created \in Nat
      BY Zenon, <2>1, <3>1, <3>2, TableParts, EventParts DEF IInv, TypeOK
    <3>4. ~(f.created <= snap.floors[g].created)
      BY Zenon, <2>2, <3>1, <3>2 DEF Covered
    <3> QED
      BY <2>1, <2>2, <3>1, <3>2, <3>3, <3>4
  <2> QED
    BY Zenon, <2>3, <2>4
<1> QED
  BY <1>1, Invariance, PTL

\* Rule 11 (evaluate_group_event, commit_group_plan): no device has two grants in
\* force, however posts, pushes, prunes and restarts interleave.
THEOREM OneInForce == Spec => []OneGrantInForce
<1>1. IInv => OneGrantInForce
  BY Zenon DEF IInv
<1> QED
  BY <1>1, Invariance, PTL

\* "the gate never admits a key the core has not been told about" (post_group_event,
\* push_core_policy): a grant in force that may upload names a key the core knows.
THEOREM CoreKnows == Spec => []CoreKnowsUploaders
<1>1. IInv => CoreKnowsUploaders
  <2> SUFFICES ASSUME IInv, NEW id \in Ids, Active(id), snap.grants[id].event.bytes # None
               PROVE  core[snap.grants[id].event.device] # None
    BY Zenon DEF CoreKnowsUploaders, Ids
  <2>1. /\ snap.grants[id].event.device \in Devices /\ ~snap.grants[id].event.revoked
        /\ snap.grants[id] # None
    BY Zenon, InForce
  <2>2. HasLimit(snap.grants[id].event.device)
    BY Zenon, <2>1 DEF IInv, RowsSound, RowSound, HasLimit
  <2> QED
    BY Zenon, <2>1, <2>2 DEF IInv, CoreAhead
<1> QED
  BY <1>1, Invariance, PTL

\* Rule 8 (screen of the key table, write_key): every grant in force names the
\* group that its device's key row, and so its claims, are in.
THEOREM OneGroup == Spec => []OneGroupPerDevice
<1>1. IInv => OneGroupPerDevice
  <2> SUFFICES ASSUME IInv, NEW id \in Ids, Active(id)
               PROVE  /\ snap.keys[snap.grants[id].event.device] # None
                      /\ snap.keys[snap.grants[id].event.device].group
                            = GroupOf(snap.grants[id].event)
    BY Zenon DEF OneGroupPerDevice, Ids
  <2>1. ~snap.grants[id].event.revoked /\ snap.grants[id] # None
    BY Zenon, InForce
  <2> QED
    BY Zenon, <2>1 DEF IInv, RowsSound, RowSound
<1> QED
  BY <1>1, Invariance, PTL

\* SELF_DELETE_GRACE (prune, in_grace): the row of an accepted grant stays in the
\* database and in the snapshot until Grace after its end.
THEOREM GraceKept == Spec => []GraceRemembered
<1>1. IInv => GraceRemembered
  <2> SUFFICES ASSUME IInv, NEW e \in accepted, e.kind = "grant", now <= e.expires + Grace
               PROVE  db.grants[IdOf(e)] # None /\ snap.grants[IdOf(e)] # None
    BY Zenon DEF GraceRemembered
  <2>1. IdOf(e) \in Ids /\ e.expires \in Nat /\ now \in Nat
    BY Zenon, EventParts DEF IInv, TypeOK
  <2>2. db.grants[IdOf(e)] # None
    BY <2>1, TimeAssumption DEF IInv, Remembered, GrantRemembered
  <2> QED
    BY Zenon, <2>1, <2>2 DEF IInv, Pruned
<1> QED
  BY <1>1, Invariance, PTL

-----------------------------------------------------------------------------
(* The publisher.  Its invariant says when an attempt is made, and, for a    *)
(* first run, how old the newest announcement may be at each of its places.  *)

Running == Working \cup {"sleep"}
Attempting == {"sign", "signing", "deliver"}

\* Everything that was signed is in force for Ttl, and what goes to the relays
\* is the journal's.
Dated(e) == e.expires = e.created + Ttl
Signed ==
    /\ \A r \in Relays : relays[r] # Unset => Dated(relays[r])
    /\ \A s \in sent : Dated(s[2])
    /\ task.event # Unset => Dated(task.event)
    /\ task.at \in {"deliver", "withdrawDeliver"} => task.event = journal

\* While the clock waits for the work, a poll's attempt is made at the time it
\* is due, Gap after the journal's.
Paced ==
    /\ task.at \in {"sleep", "poll"} /\ journal # Unset =>
         task.last # Unset /\ (prompt => journal.created <= task.last)
    /\ task.at \in Attempting => task.last # Unset
    /\ prompt /\ task.at \in Attempting => task.last = clock
    /\ prompt /\ task.at \in {"sign", "signing"} /\ journal # Unset =>
         journal.created + Gap <= task.last
    /\ prompt /\ task.at \in {"signing", "deliver"} => task.event.created = task.last

\* Nothing was sent yet.
Silent == sent = {} /\ \A r \in Relays : relays[r] = Unset

\* Some relay serves an announcement of t - d or later, or none serves any and
\* all that are on their way are.
Recent(served, coming, t, d) ==
    \/ \E r \in Relays : served[r] # Unset /\ served[r].created + d >= t
    \/ /\ \A r \in Relays : served[r] = Unset
       /\ \A s \in coming : s[2].created + d >= t
Since(t, d) == Recent(relays, sent, t, d)

\* How old the newest announcement may be at each place of a first run.
Aging ==
    /\ task.last = Unset => Silent
    /\ task.last # Unset => task.last <= clock
    /\ task.at = "sleep" /\ task.last # Unset /\ ~task.failed =>
         Since(task.last, 0) /\ clock < task.last + Heartbeat
    /\ task.at = "poll" /\ task.last # Unset /\ ~task.failed =>
         Since(task.last, 0) /\ clock <= task.last + Heartbeat
    /\ task.at = "sleep" /\ task.last # Unset /\ task.failed =>
         /\ Since(task.last, Heartbeat)
         /\ clock < task.last + Gap \/ (Since(task.last, 0) /\ clock <= task.last + Heartbeat)
    /\ task.at = "poll" /\ task.last # Unset /\ task.failed =>
         /\ Since(task.last, Heartbeat)
         /\ clock <= task.last + Gap \/ (Since(task.last, 0) /\ clock <= task.last + Heartbeat + 1)
    /\ task.at \in Attempting =>
         Since(clock, IF task.failed THEN Heartbeat + Gap ELSE Heartbeat)
    /\ task.failed => failures = 1

\* The first run of a publisher, on a clock that is not set back, with at most
\* one failure.
FirstRun == prompt /\ starts = 1 /\ setBacks = 0 /\ failures <= 1 /\ task.at \in Running

Before == starts = 0 => journal = Unset /\ Silent /\ task = Off

PubInv ==
    /\ PubTypeOK /\ JournalLeads /\ Signed /\ Paced /\ Before
    /\ FirstRun => Aging

TaskRecord == [at: {"off", "sleep"} \cup Working \cup Withdrawing,
               last: Nat \cup {Unset}, fingerprint: Listings \cup {Unset},
               current: Listings \cup {Unset}, failed: BOOLEAN, event: Announcement \cup {Unset}]

-----------------------------------------------------------------------------
(* Types.                                                                    *)

\* A snapshot is an announcement of this moment.
LEMMA Snapshots ==
    ASSUME PubTypeOK, NEW w \in BOOLEAN
    PROVE  Snapshot(w) \in Announcement /\ Snapshot(w).created = clock
           /\ Dated(Snapshot(w)) /\ Snapshot(w) # Unset
BY PubTimeAssumption, UnsetAssumption DEF PubTypeOK, Snapshot, Announcement, Dated

\* A task that is not running.
LEMMA OffTask ==
    Off \in TaskRecord /\ Off.at = "off" /\ Off.last = Unset /\ Off.event = Unset /\ ~Off.failed
BY Zenon DEF Off, TaskRecord

\* What becomes of the task when it starts, is stopped, has withdrawn or dies.
LEMMA Turns ==
    ASSUME PubTypeOK
    PROVE  /\ Start => /\ task' \in TaskRecord /\ task'.at = "poll" /\ task'.event = Unset
                       /\ task'.last = (IF journal = Unset THEN Unset ELSE journal.created)
                       /\ ~task'.failed
           /\ Stop => task' \in TaskRecord /\ task'.at = "withdraw" /\ task'.event = Unset
           /\ WithdrawEnd \/ PublisherDies =>
                task' \in TaskRecord /\ task'.at = "off" /\ task'.event = Unset
<1>1. ASSUME Start
      PROVE  /\ task' \in TaskRecord /\ task'.at = "poll" /\ task'.event = Unset
             /\ task'.last = (IF journal = Unset THEN Unset ELSE journal.created)
             /\ ~task'.failed
  BY Zenon, <1>1, OffTask DEF PubTypeOK, Announcement, Start, TaskRecord, Working
<1>2. ASSUME Stop
      PROVE  task' \in TaskRecord /\ task'.at = "withdraw" /\ task'.event = Unset
  BY Zenon, <1>2, OffTask DEF Stop, TaskRecord, Withdrawing
<1>3. ASSUME WithdrawEnd \/ PublisherDies
      PROVE  task' \in TaskRecord /\ task'.at = "off" /\ task'.event = Unset
  BY Zenon, <1>3, OffTask DEF WithdrawEnd, PublisherDies
<1> QED
  BY Zenon, <1>1, <1>2, <1>3

\* The task, the journal, the relays and the counters keep their types.
LEMMA TypeStep ==
    ASSUME PubTypeOK, [PubNext]_pubVars
    PROVE  PubTypeOK'
<1> USE DEF PubTypeOK
<1>1. CASE Start
  <2>1. task' \in TaskRecord /\ task'.at = "poll" /\ task'.event = Unset
    BY Zenon, <1>1, Turns
  <2> QED
    BY <1>1, <2>1 DEF Start, world, TaskRecord, Working
<1>2. CASE Poll
  BY Zenon, <1>2 DEF Poll, world, Working, Withdrawing
<1>3. CASE SignStart
  BY Zenon, <1>3, Snapshots DEF SignStart, world, Working, Withdrawing
<1>4. CASE Save
  BY Zenon, <1>4 DEF Save, world, Working, Withdrawing
<1>5. CASE Delivered
  BY Zenon, <1>5 DEF Delivered, world, Working, Withdrawing
<1>6. CASE Refused
  BY Zenon, <1>6 DEF Refused, WorkEnds, world, Working, Withdrawing
<1>7. CASE WorkFails
  <2>1. task' \in TaskRecord /\ task'.at = "sleep" /\ task'.event = Unset
    BY Zenon, <1>7 DEF WorkFails, WorkEnds, TaskRecord
  <2> QED
    BY <1>7, <2>1 DEF WorkFails, world, TaskRecord
<1>8. CASE \E r \in Relays : Send(r)
  BY <1>8 DEF Send, world
<1>9. CASE Stop
  BY Zenon, <1>9, Turns DEF Stop, TaskRecord, world
<1>10. CASE WithdrawStart
  BY Zenon, <1>10, Snapshots DEF WithdrawStart, world, Working, Withdrawing
<1>11. CASE WithdrawSave
  BY Zenon, <1>11 DEF WithdrawSave, world, Working, Withdrawing
<1>12. CASE WithdrawEnd \/ PublisherDies
  <2>1. task' \in TaskRecord /\ task'.at = "off" /\ task'.event = Unset
    BY Zenon, <1>12, Turns
  <2> QED
    BY Zenon, <1>12, <2>1 DEF WithdrawEnd, PublisherDies, world, TaskRecord
<1>13. CASE \E r \in Relays, e \in {s[2] : s \in sent} : Receive(r, e)
  BY <1>13 DEF Receive
<1>14. CASE \E r \in Relays, e \in {s[2] : s \in sent} : Lose(r, e)
  BY <1>14 DEF Lose, world
<1>15. CASE Change
  BY <1>15 DEF Change
<1>16. CASE Minute
  BY <1>16 DEF Minute, Working, Withdrawing
<1>17. CASE SetBack
  BY <1>17 DEF SetBack
<1>18. CASE UNCHANGED pubVars
  BY Zenon, <1>18 DEF pubVars, world
<1> QED
  BY Zenon, <1>1, <1>2, <1>3, <1>4, <1>5, <1>6, <1>7, <1>8, <1>9, <1>10, <1>11, <1>12, <1>13,
     <1>14, <1>15, <1>16, <1>17, <1>18 DEF PubNext

-----------------------------------------------------------------------------
(* The journal.                                                              *)

\* What is signed is in force for Ttl, and what is delivered is the journal's.
LEMMA SignedStep ==
    ASSUME PubTypeOK, Signed, [PubNext]_pubVars
    PROVE  Signed'
<1> USE DEF PubTypeOK, Signed
<1>1. CASE Start \/ Stop \/ WithdrawEnd \/ PublisherDies
  <2>1. task'.at \in {"poll", "withdraw", "off"} /\ task'.event = Unset
    BY Zenon, <1>1, Turns
  <2> QED
    BY Zenon, <1>1, <2>1 DEF Start, Stop, WithdrawEnd, PublisherDies, world, Dated
<1>2. CASE Poll
  BY Zenon, <1>2 DEF Poll, world, Dated
<1>3. CASE SignStart
  BY Zenon, <1>3, Snapshots DEF SignStart, world, Dated
<1>4. CASE Save
  BY Zenon, <1>4 DEF Save, world, Dated
<1>5. CASE Delivered \/ Refused \/ WorkFails
  BY Zenon, <1>5 DEF Delivered, Refused, WorkFails, WorkEnds, world, Dated
<1>6. CASE \E r \in Relays : Send(r)
  BY <1>6 DEF Send, world, Dated
<1>7. CASE WithdrawStart
  BY Zenon, <1>7, Snapshots DEF WithdrawStart, world, Dated
<1>8. CASE WithdrawSave
  BY Zenon, <1>8 DEF WithdrawSave, world, Dated
<1>9. CASE \E r \in Relays, e \in {s[2] : s \in sent} : Receive(r, e)
  BY <1>9 DEF Receive, Dated
<1>10. CASE \E r \in Relays, e \in {s[2] : s \in sent} : Lose(r, e)
  BY Zenon, <1>10 DEF Lose, world, Dated
<1>11. CASE Change \/ SetBack
  BY Zenon, <1>11 DEF Change, SetBack, Dated
<1>12. CASE Minute
  BY Zenon, <1>12 DEF Minute, Dated
<1>13. CASE UNCHANGED pubVars
  BY Zenon, <1>13 DEF pubVars, world, Dated
<1> QED
  BY Zenon, <1>1, <1>2, <1>3, <1>4, <1>5, <1>6, <1>7, <1>8, <1>9, <1>10, <1>11, <1>12, <1>13
     DEF PubNext

\* No relay has or gets an announcement that the journal does not lead.
LEMMA LeadStep ==
    ASSUME PubTypeOK, Signed, JournalLeads, [PubNext]_pubVars
    PROVE  JournalLeads'
<1> USE DEF PubTypeOK, Signed, JournalLeads
<1>1. CASE Save \/ WithdrawSave
  BY <1>1 DEF Save, WithdrawSave, Acceptable, world, Announcement
<1>2. CASE \E r \in Relays : Send(r)
  BY <1>2, UnsetAssumption DEF Send, world, Announcement
<1>3. CASE \E r \in Relays, e \in {s[2] : s \in sent} : Receive(r, e)
  BY <1>3 DEF Receive, Announcement
<1>4. CASE \E r \in Relays, e \in {s[2] : s \in sent} : Lose(r, e)
  <2>1. sent' \subseteq sent /\ UNCHANGED <<journal, relays>>
    BY <1>4 DEF Lose, world
  <2> QED
    BY Zenon, <2>1
<1>5. CASE UNCHANGED <<journal, relays, sent>>
  BY Zenon, <1>5
<1> QED
  BY Zenon, <1>1, <1>2, <1>3, <1>4, <1>5
     DEF PubNext, Start, Poll, SignStart, Delivered, Refused, WorkFails, Stop, WithdrawStart,
         WithdrawEnd, PublisherDies, Change, Minute, SetBack, world, pubVars

-----------------------------------------------------------------------------
(* The pace.                                                                 *)

\* An attempt is made when it is due, and at that time.
LEMMA PacedStep ==
    ASSUME PubTypeOK, Signed, Paced, [PubNext]_pubVars
    PROVE  Paced'
<1> USE PubTimeAssumption, UnsetAssumption DEF PubTypeOK, Paced, Attempting
<1>1. CASE Start \/ Stop \/ WithdrawEnd \/ PublisherDies
  <2>1. \/ task'.at \in {"withdraw", "off"}
        \/ task'.at = "poll" /\ (journal # Unset => task'.last = journal.created)
    BY Zenon, <1>1, Turns
  <2> QED
    BY <1>1, <2>1 DEF Start, Stop, WithdrawEnd, PublisherDies, world, Announcement
<1>2. CASE Poll
  BY <1>2 DEF Poll, Due, world, Announcement
<1>3. CASE SignStart
  BY Zenon, <1>3, Snapshots DEF SignStart, world
<1>4. CASE Save
  BY Zenon, <1>4 DEF Save, world, Announcement
<1>5. CASE Delivered
  BY <1>5 DEF Delivered, world, Announcement, Signed
<1>6. CASE Refused \/ WorkFails
  <2>1. task.at \in Working /\ task'.at = "sleep" /\ task'.last = task.last
    BY Zenon, <1>6 DEF Refused, WorkFails, WorkEnds, Working
  <2>2. prompt' = prompt /\ journal' = journal
    BY Zenon, <1>6 DEF Refused, WorkFails, world
  <2> QED
    BY <2>1, <2>2 DEF Working, Announcement, Signed
<1>7. CASE WithdrawStart \/ WithdrawSave
  BY Zenon, <1>7 DEF WithdrawStart, WithdrawSave, world
<1>8. CASE Minute \/ SetBack
  BY <1>8 DEF Minute, SetBack, Working
<1>9. CASE UNCHANGED <<prompt, clock, journal, task>>
  BY Zenon, <1>9
<1> QED
  BY Zenon, <1>1, <1>2, <1>3, <1>4, <1>5, <1>6, <1>7, <1>8, <1>9
     DEF PubNext, Send, Receive, Lose, Change, world, pubVars

\* A signature that reaches the journal is Gap after the one before.
LEMMA SpacedNow ==
    ASSUME PubTypeOK, Paced, [PubNext]_pubVars
    PROVE  SpacedStep
BY Zenon
  DEF PubNext, PubTypeOK, Paced, Attempting, SpacedStep, Start, Poll, SignStart, Save, Delivered, Refused,
       WorkFails, Stop, WithdrawStart, WithdrawSave, WithdrawEnd, PublisherDies, Send, Receive,
       Lose, Change, Minute, SetBack, world, pubVars

-----------------------------------------------------------------------------
(* The age of what the relays serve.                                         *)

\* An announcement that is recent enough at one time is at another.
LEMMA SinceWeaker ==
    ASSUME PubTypeOK, NEW t \in Nat, NEW d \in Nat, NEW u \in Nat, NEW e \in Nat,
           Since(t, d), u + d <= t + e
    PROVE  Since(u, e)
<1>1. CASE \E r \in Relays : relays[r] # Unset /\ relays[r].created + d >= t
  BY <1>1 DEF PubTypeOK, Announcement, Since, Recent
<1>2. CASE /\ \A r \in Relays : relays[r] = Unset
           /\ \A s \in sent : s[2].created + d >= t
  <2>1. \A s \in sent : s[2].created + e >= u
    BY <1>2 DEF PubTypeOK, Announcement
  <2> QED
    BY Zenon, <1>2, <2>1 DEF Since, Recent
<1> QED
  BY Zenon, <1>1, <1>2 DEF Since, Recent

\* A relay keeps the newest, so none becomes older by what is sent, lost or
\* received.
LEMMA SinceKept ==
    ASSUME PubTypeOK, NEW t \in Nat, NEW d \in Nat, Since(t, d),
           \/ UNCHANGED <<relays, sent>>
           \/ \E r \in Relays : Send(r) /\ task.event \in Announcement /\ task.event.created + d >= t
           \/ \E r \in Relays, e \in {s[2] : s \in sent} : Receive(r, e) \/ Lose(r, e)
    PROVE  Since(t, d)'
<1>1. CASE UNCHANGED <<relays, sent>>
  BY Zenon, <1>1 DEF Since, Recent
<1>2. CASE \E r \in Relays : Send(r) /\ task.event \in Announcement /\ task.event.created + d >= t
  BY <1>2 DEF Send, world, Since, Recent
<1>3. ASSUME NEW r \in Relays, NEW e \in {s[2] : s \in sent}, Lose(r, e)
      PROVE  Since(t, d)'
  BY Zenon, <1>3 DEF Lose, world, Since, Recent
<1>4. ASSUME NEW r \in Relays, NEW e \in {s[2] : s \in sent}, Receive(r, e)
      PROVE  Since(t, d)'
  <2>1. e \in Announcement /\ <<r, e>> \in sent
    BY Zenon, <1>4 DEF PubTypeOK, Receive
  <2>2. /\ relays' = [relays EXCEPT ![r] = IF @ = Unset \/ @.created < e.created THEN e ELSE @]
        /\ relays'[r] = IF relays[r] = Unset \/ relays[r].created < e.created THEN e ELSE relays[r]
    BY Zenon, <1>4 DEF PubTypeOK, Receive
  <2>3. CASE \E q \in Relays : relays[q] # Unset /\ relays[q].created + d >= t
    <3>1. PICK q \in Relays : relays[q] # Unset /\ relays[q].created + d >= t
      BY Zenon, <2>3
    <3>2. relays'[q] # Unset /\ relays'[q].created + d >= t
      BY <2>1, <2>2, <3>1, UnsetAssumption DEF PubTypeOK, Announcement
    <3> QED
      BY Zenon, <3>2 DEF Since, Recent
  <2>4. CASE /\ \A q \in Relays : relays[q] = Unset
             /\ \A s \in sent : s[2].created + d >= t
    <3>1. relays'[r] # Unset /\ relays'[r].created + d >= t
      BY Zenon, <2>1, <2>2, <2>4, UnsetAssumption
    <3> QED
      BY Zenon, <3>1 DEF Since, Recent
  <2> QED
    BY Zenon, <2>3, <2>4 DEF Since, Recent
<1> QED
  BY Zenon, <1>1, <1>2, <1>3, <1>4

\* Before anything is sent, nothing is too old.
LEMMA SilentSince ==
    ASSUME Silent, NEW t, NEW d
    PROVE  Since(t, d)
BY Zenon DEF Silent, Since, Recent

\* Before its first start a publisher has signed nothing.
LEMMA BeforeStep ==
    ASSUME PubTypeOK, Before, [PubNext]_pubVars
    PROVE  Before'
<1>1. starts' = starts \/ Start
  BY Zenon DEF PubNext, Poll, SignStart, Save, Delivered, Refused, WorkFails, Stop, WithdrawStart,
       WithdrawSave, WithdrawEnd, PublisherDies, Send, Receive, Lose, Change, Minute, SetBack,
       world, pubVars
<1> SUFFICES ASSUME starts' = 0 PROVE journal' = Unset /\ Silent' /\ task' = Off
  BY Zenon DEF Before
<1>2. starts = 0 /\ ~Start
  BY <1>1 DEF PubTypeOK, Start
<1>3. task = Off /\ task.at = "off" /\ sent = {}
  BY Zenon, <1>2, OffTask DEF Before, Silent
<1>4. Change \/ Minute \/ SetBack \/ UNCHANGED pubVars
  BY Zenon, <1>2, <1>3 DEF PubNext, Poll, SignStart, Save, Delivered, Refused, WorkFails, Stop,
       WithdrawStart, WithdrawSave, WithdrawEnd, PublisherDies, Send, Receive, Lose, Working, Withdrawing
<1>5. UNCHANGED <<journal, relays, sent, task>>
  BY Zenon, <1>3, <1>4 DEF Change, Minute, SetBack, world, pubVars
<1> QED
  BY Zenon, <1>2, <1>5 DEF Before, Silent

-----------------------------------------------------------------------------
(* A first run.                                                              *)

\* A first run goes on from a first run, or begins.
LEMMA RunsOn ==
    ASSUME PubTypeOK, [PubNext]_pubVars, FirstRun', ~Start
    PROVE  FirstRun
<1>1. UNCHANGED <<prompt, starts>>
  BY Zenon DEF PubNext, Poll, SignStart, Save, Delivered, Refused, WorkFails, Stop, WithdrawStart,
       WithdrawSave, WithdrawEnd, PublisherDies, Send, Receive, Lose, Change, Minute, SetBack,
       world, pubVars
<1>2. setBacks' = setBacks \/ setBacks' = setBacks + 1
  BY Zenon DEF PubNext, Poll, SignStart, Save, Delivered, Refused, WorkFails, Stop, WithdrawStart,
       WithdrawSave, WithdrawEnd, PublisherDies, Send, Receive, Lose, Change, Minute, SetBack,
       world, pubVars
<1>3. failures' = failures \/ failures' = failures + 1
  BY Zenon DEF PubNext, Poll, SignStart, Save, Delivered, Refused, WorkFails, Stop, WithdrawStart,
       WithdrawSave, WithdrawEnd, PublisherDies, Send, Receive, Lose, Change, Minute, SetBack,
       world, pubVars
<1>4. task.at \in Running
  <2>1. CASE task.at \in Running
    BY Zenon, <2>1
  <2>2. CASE task.at \in Withdrawing \cup {"off"}
    <3>1. \/ task' = task \/ WithdrawStart \/ WithdrawSave \/ WithdrawEnd
      BY Zenon, <2>2 DEF PubNext, Poll, SignStart, Save, Delivered, Refused, WorkFails, Stop,
           PublisherDies, Send, Receive, Lose, Change, Minute, SetBack, Withdrawing, Working,
           world, pubVars
    <3>2. task'.at \in Withdrawing \cup {"off"}
      BY Zenon, <2>2, <3>1, Turns DEF PubTypeOK, WithdrawStart, WithdrawSave, Withdrawing
    <3> QED
      BY Zenon, <3>2 DEF FirstRun, Running, Working, Withdrawing
  <2> QED
    BY Zenon, <2>1, <2>2 DEF PubTypeOK, Running
<1> QED
  BY <1>1, <1>2, <1>3, <1>4 DEF PubTypeOK, FirstRun

\* A poll begins an attempt when one is due, and then what the relays serve is no
\* older than a heartbeat, or a heartbeat and Gap after a failure.
LEMMA AgingPoll ==
    ASSUME PubInv, FirstRun, Aging, Poll
    PROVE  Aging'
<1> USE PubTimeAssumption, UnsetAssumption
<1> DEFINE l == task.last
<1>1. UNCHANGED <<relays, sent, clock, failures>> /\ task.at = "poll"
  BY Zenon DEF Poll, world
<1>2. clock \in Nat /\ l \in Nat \cup {Unset} /\ task.failed \in BOOLEAN /\ PubTypeOK
  BY Zenon DEF PubInv, PubTypeOK
<1>3. CASE Due(task.fingerprint # node)
  <2>1. /\ task'.at = "sign" /\ task'.last = clock /\ task'.failed = task.failed
    BY Zenon, <1>3 DEF Poll, PubInv, PubTypeOK
  <2>2. Since(clock, IF task.failed THEN Heartbeat + Gap ELSE Heartbeat)
    <3>1. CASE l = Unset
      BY Zenon, <3>1, SilentSince DEF Aging
    <3>2. CASE l # Unset /\ ~task.failed
      <4>1. l \in Nat /\ Since(l, 0) /\ clock <= l + Heartbeat
        BY Zenon, <1>1, <1>2, <3>2 DEF Aging
      <4>2. Heartbeat \in Nat /\ 0 \in Nat /\ clock + 0 <= l + Heartbeat
        BY <1>2, <4>1
      <4>3. Since(clock, Heartbeat)
        BY Zenon, <1>2, <4>1, <4>2, SinceWeaker
      <4> QED
        BY Zenon, <3>2, <4>3
    <3>3. CASE l # Unset /\ task.failed
      <4>1. /\ l \in Nat /\ Since(l, Heartbeat)
            /\ clock <= l + Gap \/ (Since(l, 0) /\ clock <= l + Heartbeat + 1)
        BY Zenon, <1>1, <1>2, <3>3 DEF Aging
      <4>2. Since(clock, Heartbeat + Gap)
        <5>1. CASE clock <= l + Gap
          <6>1. Heartbeat \in Nat /\ Heartbeat + Gap \in Nat
            OBVIOUS
          <6>2. clock + Heartbeat <= l + (Heartbeat + Gap)
            BY <1>2, <4>1, <5>1, <6>1
          <6> QED
            BY Zenon, <1>2, <4>1, <6>1, <6>2, SinceWeaker
        <5>2. CASE Since(l, 0) /\ clock <= l + Heartbeat + 1
          <6>1. 0 \in Nat /\ Heartbeat + Gap \in Nat
            OBVIOUS
          <6>2. clock + 0 <= l + (Heartbeat + Gap)
            BY <1>2, <4>1, <5>2
          <6> QED
            BY Zenon, <1>2, <4>1, <5>2, <6>1, <6>2, SinceWeaker
        <5> QED
          BY Zenon, <4>1, <5>1, <5>2
      <4> QED
        BY Zenon, <3>3, <4>2
    <3> QED
      BY Zenon, <3>1, <3>2, <3>3
  <2> QED
    BY <1>1, <1>2, <2>1, <2>2 DEF Aging, Since, Attempting
<1>4. CASE ~Due(task.fingerprint # node)
  <2>1. task'.at = "sleep" /\ task'.last = l /\ task'.failed = task.failed
    BY Zenon, <1>4 DEF Poll, PubInv, PubTypeOK
  <2>2. l \in Nat /\ l <= clock /\ clock < l + Heartbeat /\ (task.failed => clock < l + Gap)
    BY <1>2, <1>4 DEF Due, Aging
  <2> QED
    BY Zenon, <1>1, <1>2, <2>1, <2>2 DEF Aging, Since, Attempting
<1> QED
  BY Zenon, <1>3, <1>4

\* Whatever else happens, the first run keeps its announcements fresh.
LEMMA AgingStep ==
    ASSUME PubInv, [PubNext]_pubVars, FirstRun'
    PROVE  Aging'
<1> USE PubTimeAssumption, UnsetAssumption
<1>1. CASE Start
  <2>1. starts = 0
    BY <1>1 DEF PubInv, PubTypeOK, FirstRun, Start
  <2>2. journal = Unset /\ Silent
    BY Zenon, <2>1 DEF PubInv, Before
  <2>3. task'.at = "poll" /\ task'.last = Unset /\ ~task'.failed
    BY Zenon, <1>1, <2>2, Turns DEF PubInv
  <2>4. Silent'
    BY Zenon, <1>1, <2>2 DEF Start, world, Silent
  <2> QED
    BY Zenon, <2>3, <2>4 DEF Aging, Attempting
<1> SUFFICES ASSUME ~Start PROVE Aging'
  BY Zenon, <1>1
<1>2. FirstRun /\ Aging /\ PubTypeOK /\ prompt
  BY Zenon, RunsOn DEF PubInv, FirstRun
<1>3. clock \in Nat /\ task.last \in Nat \cup {Unset} /\ task.failed \in BOOLEAN /\ failures \in Nat
  BY Zenon, <1>2 DEF PubTypeOK
<1>4. CASE Poll
  BY Zenon, <1>2, <1>4, AgingPoll
<1>5. CASE SignStart \/ Save
  BY Zenon, <1>2, <1>3, <1>5 DEF SignStart, Save, PubTypeOK, world, Aging, Since, Attempting, Silent
<1>6. CASE Delivered
  <2>1. /\ UNCHANGED <<relays, sent, clock, failures>>
        /\ task'.at = "sleep" /\ task'.last = task.last /\ ~task'.failed
    BY Zenon, <1>2, <1>6 DEF Delivered, PubTypeOK, world
  <2>2. task.last = clock /\ task.event.created = clock
    BY Zenon, <1>2, <1>6 DEF Delivered, PubInv, Paced, Attempting
  <2>3. PICK r \in Relays : relays[r] = task.event
    BY Zenon, <1>6 DEF Delivered
  <2>4. task.event \in Announcement /\ task.event # Unset
    BY Zenon, <1>2, <1>6 DEF Delivered, PubTypeOK
  <2>5. Since(clock, 0)
    BY <1>3, <2>2, <2>3, <2>4 DEF Since, Recent
  <2> QED
    BY <1>3, <2>1, <2>2, <2>5 DEF Aging, Since, Attempting
<1>7. CASE Refused
  <2>1. CASE task.at = "sign" /\ ~AfterJournal
    BY <1>2, <1>3, <2>1 DEF AfterJournal, PubInv, Paced, Attempting, PubTypeOK, Announcement
  <2>2. CASE task.at = "signing" /\ ~Acceptable(task.event)
    BY <1>2, <1>3, <2>2 DEF Acceptable, PubInv, Paced, Signed, Dated, Attempting, PubTypeOK, Announcement
  <2> QED
    BY Zenon, <1>7, <2>1, <2>2 DEF Refused
<1>8. CASE WorkFails
  <2>1. /\ UNCHANGED <<relays, sent, clock>> /\ failures' = failures + 1
        /\ task'.at = "sleep" /\ task'.last = task.last /\ task'.failed
    BY Zenon, <1>2, <1>8 DEF WorkFails, WorkEnds, PubTypeOK, world
  <2>2. failures = 0 /\ ~task.failed
    BY <1>2, <1>3, <2>1 DEF FirstRun, Aging
  <2>3. CASE task.at = "poll"
    <3>1. CASE task.last = Unset
      BY <1>2, <2>1, <2>2, <2>3, <3>1 DEF Aging, Silent, Attempting
    <3>2. CASE task.last # Unset
      <4>1. task.last \in Nat /\ Since(task.last, 0) /\ clock <= task.last + Heartbeat /\ task.last <= clock
        BY Zenon, <1>2, <1>3, <2>2, <2>3, <3>2 DEF Aging
      <4>2. Heartbeat \in Nat /\ 0 \in Nat /\ task.last + 0 <= task.last + Heartbeat
        BY <4>1
      <4>3. Since(task.last, Heartbeat)
        BY Zenon, <1>2, <4>1, <4>2, SinceWeaker
      <4> QED
        BY <1>3, <2>1, <2>2, <3>2, <4>1, <4>3 DEF Aging, Since, Attempting
    <3> QED
      BY Zenon, <3>1, <3>2
  <2>4. CASE task.at \in Attempting
    <3>1. task.last = clock /\ Since(clock, Heartbeat)
      BY Zenon, <1>2, <2>2, <2>4 DEF PubInv, Paced, Aging
    <3> QED
      BY <1>3, <2>1, <2>2, <3>1 DEF Aging, Since, Attempting
  <2> QED
    BY Zenon, <1>8, <2>3, <2>4 DEF WorkFails, Working, Attempting
<1>9. CASE Minute
  BY <1>2, <1>3, <1>9 DEF Minute, PubTypeOK, FirstRun, Running, Working, Aging, Since, Silent, Attempting
<1>10. CASE Change \/ UNCHANGED pubVars
  BY Zenon, <1>2, <1>10 DEF Change, pubVars, world, Aging, Since, Silent
<1>11. CASE SetBack
  BY <1>2, <1>11 DEF SetBack, FirstRun
<1>12. CASE Stop \/ WithdrawStart \/ WithdrawSave \/ WithdrawEnd \/ PublisherDies
  <2>1. task'.at \in Withdrawing \cup {"off"}
    BY Zenon, <1>2, <1>12, Turns DEF PubTypeOK, WithdrawStart, WithdrawSave, Withdrawing
  <2> QED
    BY Zenon, <2>1 DEF FirstRun, Running, Working, Withdrawing
<1>13. CASE \/ \E r \in Relays : Send(r)
            \/ \E r \in Relays, e \in {s[2] : s \in sent} : Receive(r, e) \/ Lose(r, e)
  <2>1. UNCHANGED <<clock, task>> /\ (failures' = failures \/ failures' = failures + 1)
    BY Zenon, <1>13 DEF Send, Receive, Lose, world
  <2>2. task.last = Unset => Silent'
    <3>1. task.last = Unset => ~\E r \in Relays : Send(r)
      BY Zenon, <1>2, <1>3 DEF FirstRun, Running, Working, PubInv, Paced, Attempting, Send
    <3>2. task.last = Unset => sent = {}
      BY Zenon, <1>2 DEF Aging, Silent
    <3> QED
      BY Zenon, <1>13, <3>1, <3>2
  <2>3. ASSUME NEW t \in Nat, NEW d \in Nat, Since(t, d), t <= clock
        PROVE  Since(t, d)'
    <3>1. \A r \in Relays : Send(r) => task.event \in Announcement /\ task.event.created + d >= t
      BY <1>2, <1>3, <2>3 DEF FirstRun, Running, Working, PubInv, Paced, Attempting, Send, PubTypeOK
    <3> QED
      BY Zenon, <1>2, <1>13, <2>3, <3>1, SinceKept
  <2>4. task.failed => failures' = 1
    BY <1>2, <1>3, <2>1 DEF FirstRun, Aging
  <2> QED
    BY <1>2, <1>3, <2>1, <2>2, <2>3, <2>4 DEF Aging, Since, Attempting
<1> QED
  BY Zenon, <1>4, <1>5, <1>6, <1>7, <1>8, <1>9, <1>10, <1>11, <1>12, <1>13 DEF PubNext

-----------------------------------------------------------------------------
(* The results.                                                              *)

\* The invariant holds throughout.
THEOREM PubInvariance == PubSpec => []PubInv
<1>1. PubInit => PubInv
  <2> SUFFICES ASSUME PubInit PROVE PubInv
    BY Zenon
  <2>1. PubTypeOK
    BY OffTask DEF PubInit, PubTypeOK, TaskRecord
  <2>2. task.at = "off" /\ task.event = Unset
    BY Zenon, OffTask DEF PubInit
  <2>3. JournalLeads /\ Signed /\ Paced
    BY Zenon, <2>2 DEF PubInit, JournalLeads, Signed, Paced, Attempting
  <2>4. Before /\ ~FirstRun
    BY Zenon, <2>2 DEF PubInit, Before, Silent, FirstRun, Running, Working
  <2> QED
    BY Zenon, <2>1, <2>3, <2>4 DEF PubInv
<1>2. PubInv /\ [PubNext]_pubVars => PubInv'
  BY Zenon, TypeStep, SignedStep, LeadStep, PacedStep, BeforeStep, AgingStep DEF PubInv
<1> QED
  BY <1>1, <1>2, PTL DEF PubSpec

\* "Persist the exact signed watermark before relay I/O" (Journal::save), and one
\* failure does not let the announcement lapse (due, Services::new): what the
\* relays have is in the journal, and a running node's stays in force.
THEOREM StaysAnnounced == PubSpec => []Announced
<1>1. PubInv => Announced
  <2> SUFFICES ASSUME PubInv PROVE FreshThroughOneFailure
    BY Zenon DEF PubInv, Announced
  <2> SUFFICES ASSUME Heartbeat + Gap < Ttl, FirstRun,
                      NEW q \in Relays, relays[q] # Unset
               PROVE  \E r \in Relays : relays[r] # Unset /\ relays[r].expires > clock
    BY Zenon DEF FreshThroughOneFailure, FirstRun, Running
  <2>1. Aging /\ PubTypeOK /\ Signed
    BY Zenon DEF PubInv
  <2>2. clock \in Nat /\ task.last \in Nat \cup {Unset} /\ task.failed \in BOOLEAN
    BY Zenon, <2>1 DEF PubTypeOK
  <2>3. ASSUME NEW t \in Nat, NEW d \in Nat, Since(t, d), clock < t + Ttl - d
        PROVE  \E r \in Relays : relays[r] # Unset /\ relays[r].expires > clock
    <3>1. PICK r \in Relays : relays[r] # Unset /\ relays[r].created + d >= t
      BY Zenon, <2>3 DEF Since, Recent
    <3>2. relays[r].expires = relays[r].created + Ttl /\ relays[r].created \in Nat
      BY Zenon, <2>1, <3>1 DEF Signed, Dated, PubTypeOK, Announcement
    <3> QED
      BY <2>2, <2>3, <3>1, <3>2, PubTimeAssumption
  <2>4. task.last # Unset
    BY Zenon, <2>1 DEF Aging, Silent
  <2>5. CASE task.at \in {"sleep", "poll"}
    BY <2>1, <2>2, <2>3, <2>4, <2>5, PubTimeAssumption DEF Aging
  <2>6. CASE task.at \in Attempting
    BY <2>1, <2>2, <2>3, <2>6, PubTimeAssumption DEF Aging
  <2> QED
    BY Zenon, <2>5, <2>6 DEF FirstRun, Running, Working, Attempting
<1> QED
  BY <1>1, PubInvariance, PTL

\* "Restarting must not bypass the five-minute publication limit" (due, Journal):
\* two announcements are signed at least Gap apart.
THEOREM AnnouncementsSpaced == PubSpec => Spaced
<1>1. PubInv /\ [PubNext]_pubVars => [SpacedStep]_pubVars
  BY Zenon, SpacedNow DEF PubInv
<1> QED
  BY <1>1, PubInvariance, PTL DEF PubSpec, Spaced
=============================================================================
