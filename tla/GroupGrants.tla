---------------------------- MODULE GroupGrants ----------------------------
(***************************************************************************)
(* Group grants of crates/wildbloomd/src/grants: group.rs accepts signed   *)
(* kind 27541 events (grants, renewals, revocations, resets) in any order  *)
(* from any number of concurrent requests, group_db.rs keeps them, and a   *)
(* grant that adds an upload key or changes its ceiling is pushed to the   *)
(* core before it is committed.                                            *)
(*                                                                         *)
(* `db` is group-grants.sqlite3 and `snap` the snapshot in memory: every   *)
(* commit reloads it, maintenance prunes the database alone.  GroupState:: *)
(* updates is held only to plan and to commit, so a plan with its commit   *)
(* is one step; Inner::policy_push is held across the push.                *)
(*                                                                         *)
(* The keepers' rate budget and the budget for refused posts only refuse a *)
(* post, which leaves every variable as it is; they are not modelled, and  *)
(* neither is a database that fails between a commit and the reload.       *)
(***************************************************************************)
EXTENDS GroupConstants, Naturals

CONSTANTS
    Keepers,     \* enrolled keepers
    Rooms,
    GrantIds,
    Authorities, \* owner, friend, service and device-grant keys
    Signings,    \* the sets of events the keepers may have signed
    Lifetime,    \* group_event::MAX_GRANT_SECONDS
    Retention,   \* group_db::FLOOR_RETENTION
    Grace,       \* group_db::SELF_DELETE_GRACE
    Skew,        \* FUTURE_SKEW
    MaxNow,      \* bound on the clock
    MaxRestarts  \* bound on restarts

Groups == Keepers \X Rooms
Events == UNION Signings

\* `n` tells apart two events that agree in everything else.
Event == [kind: {"grant", "reset"}, keeper: Keepers, room: Rooms, grant: GrantIds,
          device: Devices, created: Nat, expires: Nat, bytes: Nat \cup {None},
          revoked: BOOLEAN, n: Nat]

ASSUME EventAssumption == Events \subseteq Event
ASSUME TimeAssumption ==
    Lifetime \in Nat /\ Retention \in Nat /\ Grace \in Nat /\ Skew \in Nat
ASSUME BoundAssumption == MaxNow \in Nat /\ MaxRestarts \in Nat
\* A floor is kept for as long as a grant can live (both are 90 days).
ASSUME RetentionAssumption == Lifetime <= Retention
ASSUME RequestAssumption == "free" \notin Requests /\ "device" \notin Requests

\* What a keeper signs (docs/GROUP-GRANTS.md 4.5): a later version of a grant id
\* never expires before an earlier one, and a revocation never before any.
ASSUME KeeperAssumption ==
    \A signing \in Signings : \A e, f \in signing :
        /\ e.kind = "grant" /\ f.kind = "grant"
        /\ e.keeper = f.keeper /\ e.grant = f.grant
        /\ e.created < f.created \/ f.revoked
        => e.expires <= f.expires

VARIABLES
    signed,    \* the events there are to post
    now,
    db,        \* grants, floors and keys on disk
    snap,      \* the same, as loaded in memory
    core,      \* the core's friend set: each key's byte ceiling
    ops,       \* the requests waiting for, or holding, policy_push
    lock,      \* who holds policy_push
    pending,   \* the friend set its holder is handing to the core
    accepted,  \* history: the events committed so far
    restarts

vars == <<signed, now, db, snap, core, ops, lock, pending, accepted, restarts>>

GroupOf(e) == <<e.keeper, e.room>>
IdOf(e) == <<e.keeper, e.grant>>

Row == [event: Events, retain: Nat, revoked: Nat \cup {None}]
GroupKey == [group: Groups, limit: Nat \cup {None}]
Tables == [grants: [Keepers \X GrantIds -> Row \cup {None}],
           floors: [Groups -> Events \cup {None}],
           keys: [Devices -> GroupKey \cup {None}]]
Idle == [at |-> "idle", event |-> None]

ASSUME NoneAssumption == None \notin Nat \cup Events \cup Groups \cup Row \cup GroupKey
Friends == [Devices -> Nat \cup {None}]

TypeOK ==
    /\ signed \in Signings
    /\ now \in Nat
    /\ db \in Tables
    /\ snap \in Tables
    /\ core \in Friends
    /\ ops \in [Requests -> {Idle} \cup [at: {"push", "pushing", "commit"}, event: Events]]
    /\ lock \in Requests \cup {"free", "device"}
    /\ pending \in Friends
    /\ accepted \subseteq Events
    /\ restarts \in Nat

Empty == [grants |-> [id \in Keepers \X GrantIds |-> None],
          floors |-> [g \in Groups |-> None],
          keys |-> [d \in Devices |-> None]]

Init ==
    /\ signed \in Signings
    /\ now = 0
    /\ db = Empty /\ snap = Empty
    /\ core = [d \in Devices |-> None]
    /\ ops = [q \in Requests |-> Idle]
    /\ lock = "free"
    /\ pending = [d \in Devices |-> None]
    /\ accepted = {}
    /\ restarts = 0

-----------------------------------------------------------------------------
(* Reading the tables.                                                       *)

RowsIn(t) == {t.grants[id] : id \in Keepers \X GrantIds} \ {None}
RowsFor(t, d) == {row \in RowsIn(t) : row.event.device = d}

\* GroupRows::covered: at or before the group's reset floor.
Covered(t, e) ==
    /\ t.floors[GroupOf(e)] # None
    /\ e.created <= t.floors[GroupOf(e)].created

IsActive(t, row) ==
    /\ ~row.event.revoked
    /\ row.event.expires > now
    /\ ~Covered(t, row.event)

\* GroupRows::ended_at: the first of revocation, covering reset and expiration.
EndedAt(t, row) ==
    LET ends == ({row.revoked} \ {None})
                \cup (IF Covered(t, row.event) THEN {t.floors[GroupOf(row.event)].created} ELSE {})
                \cup (IF row.event.expires <= now THEN {row.event.expires} ELSE {})
    IN IF ends = {} THEN None ELSE CHOOSE end \in ends : \A other \in ends : end <= other

\* GroupRows::in_grace, for one row.
InGrace(t, row) == EndedAt(t, row) # None /\ now < EndedAt(t, row) + Grace

\* group_friend_grants: every key that ever had an upload grant.
FriendGrants(keys) ==
    [d \in Devices |-> IF keys[d] = None THEN None ELSE keys[d].limit]

-----------------------------------------------------------------------------
(* Rules 1 to 11 and the plan.                                               *)

\* group_event::parse and screen_group_event: rules that need no node state.
Screen(e) ==
    /\ e.expires > e.created
    /\ e.expires - e.created <= Lifetime
    /\ e.created <= now + Skew
    /\ e.expires > now

\* Rule 8: a device is one kind of key, in one group.
KeyConflict(t, e) ==
    \/ e.device \in Authorities
    \/ t.keys[e.device] # None /\ t.keys[e.device].group # GroupOf(e)
    \/ \E row \in RowsFor(t, e.device) : GroupOf(row.event) # GroupOf(e)

\* Mutant: a grant newer than its revocation is accepted.
AcceptsRevived(t, e) ==
    /\ ~Covered(t, e)
    /\ e.kind = "grant" =>
        /\ ~KeyConflict(t, e)
        /\ t.grants[IdOf(e)] # None =>
            LET row == t.grants[IdOf(e)] IN
            /\ row.event.room = e.room /\ row.event.device = e.device
            /\ e.created > row.event.created
        /\ \/ e.revoked
           \/ \A row \in RowsFor(t, e.device) :
                IdOf(row.event) = IdOf(e) \/ ~IsActive(t, row)
\* evaluate_group_event, rules 9 to 11 after rule 8: an event that changes the
\* tables.  A refused event and a replay of the current one change nothing.
Accepts(t, e) ==
    /\ ~Covered(t, e)
    /\ e.kind = "grant" =>
        /\ ~KeyConflict(t, e)
        /\ t.grants[IdOf(e)] # None =>
            LET row == t.grants[IdOf(e)] IN
            /\ row.event.room = e.room /\ row.event.device = e.device
            /\ e.created > row.event.created
            /\ row.event.revoked => e.revoked
        /\ \/ e.revoked
           \/ \A row \in RowsFor(t, e.device) :
                IdOf(row.event) = IdOf(e) \/ ~IsActive(t, row)

\* The row a grant writes: retained for the latest expiration seen, revoked at
\* the first revocation.
RowOf(t, e) ==
    LET row == t.grants[IdOf(e)] IN
    [event |-> e,
     retain |-> IF row # None /\ row.retain > e.expires THEN row.retain ELSE e.expires,
     revoked |-> IF ~e.revoked THEN None
                 ELSE IF row # None /\ row.revoked # None THEN row.revoked ELSE e.created]

\* A key joins its group on its first active grant and keeps the ceiling of the
\* newest one that carried an upload scope.
KeysAfter(t, e) ==
    IF e.kind = "reset" \/ e.revoked THEN t.keys
    ELSE [t.keys EXCEPT ![e.device] =
            [group |-> GroupOf(e),
             limit |-> IF e.bytes # None THEN e.bytes
                       ELSE IF @ = None THEN None ELSE @.limit]]

\* group_db::write_key: a key that is there already keeps its group.
WriteKey(keys, d, key) ==
    [keys EXCEPT ![d] = IF @ = None \/ key = None THEN key ELSE [@ EXCEPT !.limit = key.limit]]

\* commit_group_plan: planned on the snapshot, written to the database, which
\* is then loaded again.
Commit(e) ==
    /\ db' = IF e.kind = "reset"
             THEN [db EXCEPT !.floors[GroupOf(e)] = e]
             ELSE [db EXCEPT !.grants[IdOf(e)] = RowOf(snap, e),
                             !.keys = WriteKey(@, e.device, KeysAfter(snap, e)[e.device])]
    /\ snap' = db'
    /\ accepted' = accepted \cup {e}

ChangesFriends(e) == FriendGrants(KeysAfter(snap, e)) # FriendGrants(snap.keys)

-----------------------------------------------------------------------------
(* post_group_event.                                                         *)

PostCommit(q, e) ==
    /\ ops[q] = Idle
    /\ Screen(e)
    /\ Accepts(snap, e)
    /\ ~ChangesFriends(e)
    /\ Commit(e)
    /\ UNCHANGED <<signed, now, core, ops, lock, pending, restarts>>

\* The core must hear of the key first: give up the update lock and queue.
PostPush(q, e) ==
    /\ ops[q] = Idle
    /\ Screen(e)
    /\ Accepts(snap, e)
    /\ ChangesFriends(e)
    /\ ops' = [ops EXCEPT ![q] = [at |-> "push", event |-> e]]
    /\ UNCHANGED <<signed, now, db, snap, core, lock, pending, accepted, restarts>>

\* policy_push is free: plan again, and project the friend set if the key row
\* still changes.
PushStart(q) ==
    LET e == ops[q].event IN
    /\ ops[q].at = "push"
    /\ lock = "free"
    /\ Accepts(snap, e)
    /\ lock' = q
    /\ pending' = FriendGrants(KeysAfter(snap, e))
    /\ ops' = [ops EXCEPT ![q].at =
                IF KeysAfter(snap, e) = snap.keys THEN "commit" ELSE "pushing"]
    /\ UNCHANGED <<signed, now, db, snap, core, accepted, restarts>>

\* Mutant: policy_push is released before the commit.
PushDoneUnlocked(q) ==
    /\ ops[q].at = "pushing"
    /\ core' = pending
    /\ ops' = [ops EXCEPT ![q].at = "commit"]
    /\ lock' = "free"
    /\ UNCHANGED <<signed, now, db, snap, pending, accepted, restarts>>
\* AppState::set_friend_grants replaces the core's friend set.
PushDone(q) ==
    /\ ops[q].at = "pushing"
    /\ core' = pending
    /\ ops' = [ops EXCEPT ![q].at = "commit"]
    /\ UNCHANGED <<signed, now, db, snap, lock, pending, accepted, restarts>>

\* The event no longer lands, the core refuses the set, or the client hangs up
\* and the request is dropped at an await: the grant is not recorded.
PushAbandoned(q) ==
    /\ ops[q] # Idle
    /\ ops' = [ops EXCEPT ![q] = Idle]
    /\ lock' = IF lock = q THEN "free" ELSE lock
    /\ UNCHANGED <<signed, now, db, snap, core, pending, accepted, restarts>>

\* Mutant: the plan made before the push is committed.
PushCommitOldPlan(q) ==
    /\ ops[q].at = "commit"
    /\ Commit(ops[q].event)
    /\ ops' = [ops EXCEPT ![q] = Idle]
    /\ lock' = "free"
    /\ UNCHANGED <<signed, now, core, pending, restarts>>
\* Back under the update lock: plan a third time, and commit.
PushCommit(q) ==
    /\ ops[q].at = "commit"
    /\ Accepts(snap, ops[q].event)
    /\ Commit(ops[q].event)
    /\ ops' = [ops EXCEPT ![q] = Idle]
    /\ lock' = "free"
    /\ UNCHANGED <<signed, now, core, pending, restarts>>

\* push_core_policy of the device grants: reads the friend set once it holds
\* policy_push, and hands it to the core, which may refuse it.
DevicePushStart ==
    /\ lock = "free"
    /\ lock' = "device"
    /\ pending' = FriendGrants(snap.keys)
    /\ UNCHANGED <<signed, now, db, snap, core, ops, accepted, restarts>>

DevicePushDone ==
    /\ lock = "device"
    /\ core' \in {core, pending}
    /\ lock' = "free"
    /\ UNCHANGED <<signed, now, db, snap, ops, pending, accepted, restarts>>

-----------------------------------------------------------------------------
(* Maintenance, time and restarts.                                           *)

\* Mutant: floors are forgotten at once.
PruneFloors ==
    /\ db' = [db EXCEPT
        !.grants = [id \in DOMAIN @ |->
            IF @[id] # None /\ @[id].retain + Grace < now THEN None ELSE @[id]],
        !.floors = [g \in DOMAIN @ |->
            IF @[g] # None /\ @[g].created < now THEN None ELSE @[g]]]
    /\ UNCHANGED <<signed, now, snap, core, ops, lock, pending, accepted, restarts>>
\* group_db::prune: the database alone, never the snapshot.
Prune ==
    /\ db' = [db EXCEPT
        !.grants = [id \in DOMAIN @ |->
            IF @[id] # None /\ @[id].retain + Grace < now THEN None ELSE @[id]],
        !.floors = [g \in DOMAIN @ |->
            IF @[g] # None /\ @[g].created + Retention < now THEN None ELSE @[g]]]
    /\ UNCHANGED <<signed, now, snap, core, ops, lock, pending, accepted, restarts>>

Tick ==
    /\ now < MaxNow
    /\ now' = now + 1
    /\ UNCHANGED <<signed, db, snap, core, ops, lock, pending, accepted, restarts>>

\* enable_group loads the tables; the core is configured with their friend set.
Restart ==
    /\ restarts < MaxRestarts
    /\ restarts' = restarts + 1
    /\ snap' = db
    /\ core' = FriendGrants(db.keys)
    /\ ops' = [q \in Requests |-> Idle]
    /\ lock' = "free"
    /\ UNCHANGED <<signed, now, db, pending, accepted>>

Next ==
    \/ \E q \in Requests, e \in signed : PostCommit(q, e) \/ PostPush(q, e)
    \/ \E q \in Requests :
        PushStart(q) \/ PushDone(q) \/ PushAbandoned(q) \/ PushCommit(q)
    \/ DevicePushStart \/ DevicePushDone
    \/ Prune \/ Tick \/ Restart

Spec == Init /\ [][Next]_vars

-----------------------------------------------------------------------------
(* Properties.                                                               *)

Active(id) == snap.grants[id] # None /\ IsActive(snap, snap.grants[id])

\* Rule 10: once a version of a grant id has been accepted, no older version is
\* ever in force again, and once a revocation has, none is: not after the
\* record is pruned, not after a restart, however late an old event is posted.
NewestVersionRules ==
    \A e \in accepted :
        e.kind = "grant" /\ Active(IdOf(e)) =>
            /\ snap.grants[IdOf(e)].event.created >= e.created
            /\ ~e.revoked

\* Rule 9: once a reset has been accepted, no grant of its group signed at or
\* before it is ever in force again, although the floor is forgotten later.
ResetIsFinal ==
    \A e \in accepted, id \in Keepers \X GrantIds :
        e.kind = "reset" /\ Active(id) /\ GroupOf(snap.grants[id].event) = GroupOf(e) =>
            snap.grants[id].event.created > e.created

\* Rule 11: no device has two grants in force, although concurrent posts plan
\* before a push and commit after it.
OneGrantInForce ==
    \A i, j \in Keepers \X GrantIds :
        Active(i) /\ Active(j)
            /\ snap.grants[i].event.device = snap.grants[j].event.device => i = j

\* Rule 8: a key stays in one group for good, and every grant in force for a
\* device names the group its claims are in.
OneGroupPerDevice ==
    \A id \in Keepers \X GrantIds :
        Active(id) =>
            LET e == snap.grants[id].event IN
            snap.keys[e.device] # None /\ snap.keys[e.device].group = GroupOf(e)

\* "the gate never admits a key the core has not been told about": every grant
\* in force that may upload names a key of the core's friend set.
CoreKnowsUploaders ==
    \A id \in Keepers \X GrantIds :
        Active(id) /\ snap.grants[id].event.bytes # None =>
            core[snap.grants[id].event.device] # None

\* A device can delete its own claims for Grace after its grant ends: in_grace
\* still finds the row, whatever was posted or pruned since.
GraceRemembered ==
    \A e \in accepted :
        e.kind = "grant" /\ now <= e.expires + Grace =>
            db.grants[IdOf(e)] # None /\ snap.grants[IdOf(e)] # None
=============================================================================
