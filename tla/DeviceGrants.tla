---------------------------- MODULE DeviceGrants ----------------------------
(***************************************************************************)
(* Device grants of crates/wildbloomd/src/grants/mod.rs: owners' signed    *)
(* grant and revoke events, the rows and the trusted members in            *)
(* device-grants.sqlite3, and the pushes that make the core follow them.   *)
(*                                                                         *)
(* An event is verified before Inner::updates is taken.  That lock is held *)
(* by a grant or revocation only between two awaits, and by a whole sweep, *)
(* so each is one step; what the sweep does to the claims is the business  *)
(* of Claims, and here a pass moves out any of the ended keys.             *)
(* Inner::policy_push is held across a push, which reads the members when  *)
(* it has the lock and may be refused by the core.  The owners are those   *)
(* of one configuration.                                                   *)
(***************************************************************************)
EXTENDS Naturals, FiniteSets

CONSTANTS
    Devices,
    Recoveries,  \* recovery identities
    Owners,
    Reserved,    \* friend, service, keeper and group keys, which no grant may name
    Signings,    \* sets of events, one of which the owners have signed
    Requests,    \* concurrent requests of owners
    Skew,        \* seconds an event may be ahead of the clock
    MaxNow,      \* bound on the clock
    MaxFaults,   \* bound on the kinds of fault, each of which happens once
    None

Keys == Devices \cup Recoveries

Event == [kind: {"grant", "revoke"}, device: Devices, recovery: Recoveries, owner: Owners,
          limit: Nat, until: Nat, created: Nat, expires: Nat]

Events == UNION Signings
\* A refused push, a request dropped with its connection, a crash.
Faults == {"refused", "dropped", "crashed"}

ASSUME EventAssumption == Events \subseteq Event
ASSUME BoundAssumption == {Skew, MaxNow, MaxFaults} \subseteq Nat
ASSUME NoneAssumption == None \notin Nat /\ None \notin Keys /\ None \notin Event
ASSUME DevicesAssumption == IsFiniteSet(Devices)
ASSUME RequestAssumption == Requests \cap {"free", "sweep"} = {}

VARIABLES
    signed,    \* the events there are
    now,
    rows,      \* device_grants
    markers,   \* revocation_markers
    members,   \* core_members
    used,      \* used_events
    core,      \* the core's friend set: each key's ceiling
    ops,       \* the requests past their verification
    sweep,     \* the maintenance pass past its commit
    lock,      \* who holds policy_push
    pending,   \* the friend set its holder is handing to the core
    revoked,   \* history: the revocations accepted
    faults

tables == <<rows, markers, members, used>>
vars == <<signed, now, rows, markers, members, used, core, ops, sweep, lock, pending, revoked,
          faults>>

Row == [recovery: Recoveries, owner: Owners, limit: Nat, until: Nat, granted: Nat,
        last: Nat, revoked: BOOLEAN]
Member == [owner: Owners, limit: Nat]
ASSUME RecordAssumption == None \notin Row /\ None \notin Member

Friends == [Keys -> Nat \cup {None}]
Rows == [Devices -> Row \cup {None}]
Members == [Keys -> Member \cup {None}]

Idle == [at |-> "idle", event |-> None, row |-> None, wasRow |-> None, wasMembers |-> None]
Verified(e) ==
    [at |-> "verified", event |-> e, row |-> None, wasRow |-> None, wasMembers |-> None]
NoPass == [at |-> "idle", removed |-> [k \in Keys |-> None]]

Applied == [at: {"push", "pushing", "revert", "repush", "repushing"}, event: Events, row: Row,
            wasRow: Row \cup {None}, wasMembers: Members]
Op == {Idle} \cup {Verified(e) : e \in Events} \cup Applied

TypeOK ==
    /\ signed \in Signings
    /\ now \in Nat
    /\ rows \in Rows /\ members \in Members
    /\ markers \in [Devices -> Nat \cup {None}]
    /\ used \subseteq Events /\ revoked \subseteq Events
    /\ core \in Friends /\ pending \in Friends
    /\ ops \in [Requests -> Op]
    /\ sweep \in [at: {"idle", "push", "pushing", "back"}, removed: Members]
    /\ lock \in Requests \cup {"free", "sweep"}
    /\ faults \subseteq Faults

Init ==
    /\ signed \in Signings
    /\ now = 0
    /\ rows = [d \in Devices |-> None] /\ markers = [d \in Devices |-> None]
    /\ members = [k \in Keys |-> None] /\ used = {}
    /\ core = [k \in Keys |-> None] /\ pending = core
    /\ ops = [q \in Requests |-> Idle] /\ sweep = NoPass /\ lock = "free"
    /\ revoked = {} /\ faults = {}

Fault(kind) ==
    /\ kind \notin faults /\ Cardinality(faults) < MaxFaults
    /\ faults' = faults \cup {kind}

-----------------------------------------------------------------------------
(* Reading the rows.                                                         *)

GrantActive(row) == row # None /\ ~row.revoked /\ row.until > now

Naming(table, k) == {d \in Devices : table[d] # None /\ (d = k \/ table[d].recovery = k)}

ActiveNaming(table, k) == {d \in Naming(table, k) : GrantActive(table[d])}
KeyActive(table, k) == ActiveNaming(table, k) # {}

\* The largest active grant that names the key.
ActiveLimit(table, k) ==
    CHOOSE n \in {table[d].limit : d \in ActiveNaming(table, k)} :
        \A d \in ActiveNaming(table, k) : table[d].limit <= n

\* A newer event was accepted for the device, with or without a row.
Outdated(e) ==
    \/ rows[e.device] # None /\ e.created <= rows[e.device].last
    \/ markers[e.device] # None /\ e.created <= markers[e.device]

CoreFriendGrants ==
    [k \in Keys |-> IF members[k] = None THEN None ELSE members[k].limit]

\* event::verify, the part that depends on the clock.
Verify(e) ==
    /\ e.created <= now + Skew /\ e.expires > now
    /\ e.kind = "grant" => e.until > now

Conflict(e) ==
    \/ \E k \in {e.device, e.recovery} :
        \/ k \in Reserved
        \/ members[k] # None /\ members[k].owner # e.owner
    \/ \E d \in Devices \ {e.device} :
        /\ rows[d] # None
        /\ \/ rows[d].recovery = e.device \/ d = e.recovery
           \/ rows[d].recovery = e.recovery /\ rows[d].owner # e.owner
    \/ Outdated(e)

-----------------------------------------------------------------------------
(* apply_grant and apply_revoke.                                             *)

RowOf(e) ==
    [recovery |-> e.recovery, owner |-> e.owner, limit |-> e.limit, until |-> e.until,
     granted |-> e.created, last |-> e.created, revoked |-> FALSE]

VerifyEvent(q, e) ==
    /\ ops[q] = Idle
    /\ Verify(e)
    /\ ops' = [ops EXCEPT ![q] = Verified(e)]
    /\ UNCHANGED <<signed, now, tables, core, sweep, lock, pending, revoked, faults>>

\* A conflict is answered with nothing changed.
Refuse(q) ==
    /\ ops[q].at = "verified"
    /\ ops[q].event \in used
       \/ IF ops[q].event.kind = "grant" THEN Conflict(ops[q].event) ELSE Outdated(ops[q].event)
    /\ ops' = [ops EXCEPT ![q] = Idle]
    /\ UNCHANGED <<signed, now, tables, core, sweep, lock, pending, revoked, faults>>

\* Checked and committed under the update lock; the core is told afterwards.
ApplyGrant(q) ==
    LET e == ops[q].event
        projected == [rows EXCEPT ![e.device] = RowOf(e)]
        recovery == IF KeyActive(projected, e.recovery)
                    THEN ActiveLimit(projected, e.recovery) ELSE e.limit
    IN
    /\ ops[q].at = "verified" /\ e.kind = "grant"
    /\ ~Conflict(e) /\ e \notin used
    /\ used' = used \cup {e}
    /\ rows' = projected
    /\ members' = [members EXCEPT ![e.device] = [owner |-> e.owner, limit |-> e.limit],
                                  ![e.recovery] = [owner |-> e.owner, limit |-> recovery]]
    /\ ops' = [ops EXCEPT ![q] = [at |-> "push", event |-> e, row |-> RowOf(e),
                                  wasRow |-> rows[e.device], wasMembers |-> members]]
    /\ UNCHANGED <<signed, now, markers, core, sweep, lock, pending, revoked, faults>>

\* push_core_policy reads the members when it has the lock.
PushStart(q) ==
    /\ ops[q].at \in {"push", "repush"}
    /\ lock = "free"
    /\ lock' = q
    /\ pending' = CoreFriendGrants
    /\ ops' = [ops EXCEPT ![q].at = IF @ = "push" THEN "pushing" ELSE "repushing"]
    /\ UNCHANGED <<signed, now, tables, core, sweep, revoked, faults>>
PushDone(q) ==
    /\ ops[q].at \in {"pushing", "repushing"}
    /\ core' = pending
    /\ lock' = "free"
    /\ ops' = [ops EXCEPT ![q] = Idle]
    /\ UNCHANGED <<signed, now, tables, sweep, pending, revoked, faults>>
PushFails(q) ==
    /\ ops[q].at \in {"pushing", "repushing"}
    /\ Fault("refused")
    /\ lock' = "free"
    /\ ops' = [ops EXCEPT ![q] = IF @.at = "pushing" THEN [@ EXCEPT !.at = "revert"] ELSE Idle]
    /\ UNCHANGED <<signed, now, tables, core, sweep, pending, revoked>>

\* Mutant: the row is put back whatever happened meanwhile.
RevertAlways(q) ==
    LET op == ops[q]
        d == op.event.device
        r == op.event.recovery
    IN
    /\ op.at = "revert"
    /\ rows' = [rows EXCEPT ![d] = op.wasRow]
    /\ members' = [members EXCEPT ![d] = op.wasMembers[d], ![r] = op.wasMembers[r]]
    /\ ops' = [ops EXCEPT ![q].at = "repush"]
    /\ UNCHANGED <<signed, now, markers, used, core, sweep, lock, pending, revoked, faults>>
\* Put the row and the two members back, unless the row was replaced meanwhile.
Revert(q) ==
    LET op == ops[q]
        d == op.event.device
        r == op.event.recovery
    IN
    /\ op.at = "revert"
    /\ IF rows[d] = op.row
       THEN /\ rows' = [rows EXCEPT ![d] = op.wasRow]
            /\ members' = [members EXCEPT ![d] = op.wasMembers[d], ![r] = op.wasMembers[r]]
       ELSE UNCHANGED <<rows, members>>
    /\ ops' = [ops EXCEPT ![q].at = "repush"]
    /\ UNCHANGED <<signed, now, markers, used, core, sweep, lock, pending, revoked, faults>>

\* The client hangs up, and the request is dropped where it waits.
Hangup(q) ==
    /\ ops[q] # Idle
    /\ Fault("dropped")
    /\ lock' = IF lock = q THEN "free" ELSE lock
    /\ ops' = [ops EXCEPT ![q] = Idle]
    /\ UNCHANGED <<signed, now, tables, core, sweep, pending, revoked>>

\* The claims move later, in a pass; a device without a row leaves a marker.
ApplyRevoke(q) ==
    LET e == ops[q].event IN
    /\ ops[q].at = "verified" /\ e.kind = "revoke"
    /\ ~Outdated(e) /\ e \notin used
    /\ used' = used \cup {e}
    /\ IF rows[e.device] # None
       THEN /\ rows' = [rows EXCEPT ![e.device] = [@ EXCEPT !.revoked = TRUE, !.last = e.created]]
            /\ UNCHANGED markers
       ELSE /\ markers' = [markers EXCEPT ![e.device] = e.created]
            /\ UNCHANGED rows
    /\ revoked' = revoked \cup {e}
    /\ ops' = [ops EXCEPT ![q] = Idle]
    /\ UNCHANGED <<signed, now, members, core, sweep, lock, pending, faults>>

-----------------------------------------------------------------------------
(* Maintenance.                                                              *)

Ended == {k \in Keys : members[k] # None /\ ~KeyActive(rows, k)}

\* Mutant: a pass that only adjusted ceilings does not push.
MustPushMoved(moved, next) == moved # {}
MustPush(moved, next) == moved # {} \/ next # members

\* sweep_locked: the ended keys whose claims could be moved leave the members,
\* and the others take the ceiling of their largest active grant.
Sweep ==
    \E moved \in SUBSET Ended :
        LET next == [k \in Keys |->
                CASE k \in moved -> None
                  [] members[k] # None /\ KeyActive(rows, k) ->
                        [members[k] EXCEPT !.limit = ActiveLimit(rows, k)]
                  [] OTHER -> members[k]]
        IN
        /\ sweep.at = "idle"
        /\ members' = next
        /\ sweep' = [at |-> IF MustPush(moved, next) THEN "push" ELSE "idle",
                     removed |-> [k \in Keys |-> IF k \in moved THEN members[k] ELSE None]]
        /\ UNCHANGED <<signed, now, rows, markers, used, core, ops, lock, pending, revoked, faults>>

SweepPushStart ==
    /\ sweep.at = "push"
    /\ lock = "free"
    /\ lock' = "sweep"
    /\ pending' = CoreFriendGrants
    /\ sweep' = [sweep EXCEPT !.at = "pushing"]
    /\ UNCHANGED <<signed, now, tables, core, ops, revoked, faults>>
SweepPushDone ==
    /\ sweep.at = "pushing"
    /\ core' = pending
    /\ lock' = "free"
    /\ sweep' = NoPass
    /\ UNCHANGED <<signed, now, tables, ops, pending, revoked, faults>>
SweepPushFails ==
    /\ sweep.at = "pushing"
    /\ Fault("refused")
    /\ lock' = "free"
    /\ sweep' = [sweep EXCEPT !.at = "back"]
    /\ UNCHANGED <<signed, now, tables, core, ops, pending, revoked>>

\* The keys that left are put back, unless they were granted again meanwhile.
SweepBack ==
    /\ sweep.at = "back"
    /\ members' = [k \in Keys |-> IF members[k] = None THEN sweep.removed[k] ELSE members[k]]
    /\ sweep' = NoPass
    /\ UNCHANGED <<signed, now, rows, markers, used, core, ops, lock, pending, revoked, faults>>

\* The maintenance task prunes when its pass is over.
Prune ==
    /\ sweep.at = "idle"
    /\ used' = {e \in used : e.expires >= now}
    /\ UNCHANGED <<signed, now, rows, markers, members, core, ops, sweep, lock, pending, revoked, faults>>

Tick ==
    /\ now < MaxNow
    /\ now' = now + 1
    /\ UNCHANGED <<signed, tables, core, ops, sweep, lock, pending, revoked, faults>>

\* At start the core is configured with the members.
Crash ==
    /\ Fault("crashed")
    /\ core' = CoreFriendGrants
    /\ ops' = [q \in Requests |-> Idle] /\ sweep' = NoPass /\ lock' = "free"
    /\ UNCHANGED <<signed, now, tables, pending, revoked>>

Next ==
    \/ \E q \in Requests, e \in signed : VerifyEvent(q, e)
    \/ \E q \in Requests :
        \/ Refuse(q) \/ ApplyGrant(q) \/ ApplyRevoke(q)
        \/ PushStart(q) \/ PushDone(q) \/ PushFails(q) \/ Revert(q) \/ Hangup(q)
    \/ Sweep \/ SweepPushStart \/ SweepPushDone \/ SweepPushFails \/ SweepBack
    \/ Prune \/ Tick \/ Crash

Spec == Init /\ [][Next]_vars

-----------------------------------------------------------------------------
(* Properties.                                                               *)

\* "A captured, never-submitted older grant therefore cannot undo a later
\* revocation": whatever is posted, reverted or forgotten afterwards, no grant
\* signed at or before an accepted revocation of its device is active.
RevocationHolds ==
    \A e \in revoked :
        GrantActive(rows[e.device]) => rows[e.device].granted > e.created

\* Every key an active grant names is one of the members the core is told of,
\* as long as no refused push had to be undone: no sweep takes a recovery identity
\* out while one of its grants is active.
ActiveKeysAreMembers ==
    "refused" \notin faults => \A k \in Keys : KeyActive(rows, k) => members[k] # None

Quiet == sweep = NoPass /\ \A q \in Requests : ops[q] = Idle

\* "the last push always carries every change committed before it began": when
\* no request and no pass is under way, and no push was refused or dropped, the
\* core trusts exactly the members.
CoreFollowsMembers ==
    Quiet /\ faults \subseteq {"crashed"} => core = CoreFriendGrants
=============================================================================
