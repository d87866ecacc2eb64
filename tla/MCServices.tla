----------------------------- MODULE MCServices -----------------------------
(***************************************************************************)
(* The services that keep copies and the desktop application around them,  *)
(* on small instances: a repair coordinator (Replicas), enrolling (Enrol), *)
(* repair pools (PoolRepair, extended, with Coding) and their management   *)
(* in the desktop (Pools), the node's process (NodeManager), and the       *)
(* window and the tray (Window).                                           *)
(***************************************************************************)
EXTENDS PoolRepair

CONSTANTS r1

VARIABLES
    which,  \* the part that runs
    pools_now, saved, work, procs, entries, slot, pools_task, pools_op,
    review, seen, pools_changes,
    case,
    file, disk, mem, handoff, copies_held, copies_at, p, stopped, signer,
    copies_now, credit, reads, copies_changes,
    source, enr_held, enr_up, origin, enr_now, ledger, history, policies,
    coord, enr_at, r, proofs, crashes, enr_changes,
    settings, manager_status, children, alive, manager_op, waiting, told,
    torTask, torQueue, nodeTask, nodeQueue, timer, manager_changes,
    index, win_status, win_task, events, asked, window, tray, win_changes,
    asks

\* Two of three parts, one with a spare, or two copies on three nodes; and
\* receipts that must be refused.
Pool(mode, k, n, copies, targets, group) ==
    [mode |-> mode, required |-> k, total |-> n, copies |-> copies, targets |-> targets, group |-> group]
Pooled == {
    Pool("erasure", 2, 3, 1, <<<<1, 2>>, <<3>>, <<4>>>>, <<1, 2, 3, 4>>),
    Pool("erasure", 2, 3, 1, <<<<1, 2>>, <<3>>, <<4>>>>, <<1, 2, 3, 3>>),
    Pool("replicas", 1, 1, 2, <<<<1, 2, 3>>>>, <<1, 2, 3, 4>>),
    Pool("replicas", 1, 1, 2, <<<<1>>>>, <<1, 2, 3, 4>>)}

TwoBytes == <<87, 150>>

\* Codes of up to six parts, and the parts that are left.
Codes ==
    {c \in [k: 2..5, n: 3..6, chosen: {SetToSortSeq(s, <) : s \in SUBSET (1..6)}] :
        c.k < c.n /\ Len(c.chosen) = c.k /\ \A i \in DOMAIN c.chosen : c.chosen[i] <= c.n}
CodeInit == case = None
CodeNext == case = None /\ case' \in Codes

\* The troubles a status may show.
Calm == [first_run |-> FALSE, node |-> "ok", keychain |-> "ok", folder |-> "on", approval |-> "active",
         configured |-> TRUE, failed_checks |-> 0, full |-> FALSE, key_list |-> "ok", confirmed |-> TRUE]
Alarms == {
    [Calm EXCEPT !.first_run = TRUE], [Calm EXCEPT !.node = "stopped"], [Calm EXCEPT !.keychain = "unavailable"],
    [Calm EXCEPT !.folder = "unavailable"], [Calm EXCEPT !.folder = "too_many"], [Calm EXCEPT !.approval = "expired"],
    [Calm EXCEPT !.approval = "ending"], [Calm EXCEPT !.configured = FALSE, !.approval = "none"],
    [Calm EXCEPT !.failed_checks = 3], [Calm EXCEPT !.full = TRUE], [Calm EXCEPT !.key_list = "failed"],
    [Calm EXCEPT !.confirmed = FALSE], [Calm EXCEPT !.approval = "expired", !.full = TRUE, !.failed_checks = 3]}
Synced(online) == [local |-> "ok", online |-> online, share |-> "none", held |-> FALSE]

Pools == INSTANCE Pools WITH
    Receipts <- {r1}, Shared <- {r1}, MAX_POOLS <- 1,
    MaxProcs <- 2, MaxNow <- 1, MaxChanges <- 1,
    now <- pools_now, task <- pools_task, op <- pools_op, changes <-
    pools_changes

Copies == INSTANCE Replicas WITH
    Targets <- <<"source", "a", "b">>, Owners <- {"a", "b"},
    Group <- [t \in {"source", "a", "b"} |-> t], Blobs <- <<"small", "large">>,
    Size <- [b \in {"small", "large"} |-> IF b = "small" THEN 1 ELSE 2],
    Desired <- 2, Mirrors <- 2, Verification <- 10, MaxChanges <- 1, MaxNow <- 1,
    held <- copies_held, at <- copies_at, now <- copies_now, changes <-
    copies_changes

Enr == INSTANCE Enrol WITH
    Blobs <- {<<0, 0>>, <<0, 1>>}, Archives <- {"a", "b"},
    MaxBlobs <- 1, Ttl <- 2, Renew <- 2, MaxNow <- 1, MaxChanges <- 1,
    held <- enr_held, up <- enr_up, now <- enr_now, at <- enr_at, changes
    <- enr_changes

Manager == INSTANCE NodeManager WITH
    MaxGen <- 2, MaxChanges <- 1,
    status <- manager_status, op <- manager_op, changes <- manager_changes

Win == INSTANCE Window WITH
    Ids <- {1, 2}, Tasks <- {"mirror", "owner"}, Mirror <- "mirror",
    Changes <- {Synced("ok"), Synced("waiting")}, Troubles <- Alarms,
    Turns <- {[Calm EXCEPT !.full = TRUE]}, MaxChanges <- 2, MaxAsks <- 1,
    status <- win_status, task <- win_task, changes <- win_changes

\* The parts' variables, and what they are in a behaviour of another part.
PoolsVars == <<pools_now, saved, work, procs, entries, slot, pools_task, pools_op,
               review, seen, pools_changes>>
RepairVars == vars
CodeVars == <<case>>
CopiesVars == <<file, disk, mem, handoff, copies_held, copies_at, p, stopped, signer,
                copies_now, credit, reads, copies_changes>>
EnrVars == <<source, enr_held, enr_up, origin, enr_now, ledger, history, policies,
             coord, enr_at, r, proofs, crashes, enr_changes>>
ManagerVars == <<settings, manager_status, children, alive, manager_op, waiting, told,
                 torTask, torQueue, nodeTask, nodeQueue, timer, manager_changes>>
WinVars == <<index, win_status, win_task, events, asked, window, tray, win_changes,
             asks>>

NoPools ==
    /\ pools_now = None /\ saved = None /\ work = None /\ procs = None
    /\ entries = None /\ slot = None /\ pools_task = None
    /\ pools_op = None /\ review = None /\ seen = None
    /\ pools_changes = None
NoRepair ==
    /\ manifest = None /\ check = None /\ stored = None /\ up = None
    /\ authority = None /\ willing = None /\ pass = None /\ report = None
    /\ moved = None /\ changes = None
NoCode ==
    /\ case = None
NoCopies ==
    /\ file = None /\ disk = None /\ mem = None /\ handoff = None
    /\ copies_held = None /\ copies_at = None /\ p = None /\ stopped = None
    /\ signer = None /\ copies_now = None /\ credit = None /\ reads = None
    /\ copies_changes = None
NoEnr ==
    /\ source = None /\ enr_held = None /\ enr_up = None /\ origin = None
    /\ enr_now = None /\ ledger = None /\ history = None /\ policies = None
    /\ coord = None /\ enr_at = None /\ r = None /\ proofs = None
    /\ crashes = None /\ enr_changes = None
NoManager ==
    /\ settings = None /\ manager_status = None /\ children = None
    /\ alive = None /\ manager_op = None /\ waiting = None /\ told = None
    /\ torTask = None /\ torQueue = None /\ nodeTask = None
    /\ nodeQueue = None /\ timer = None /\ manager_changes = None
NoWin ==
    /\ index = None /\ win_status = None /\ win_task = None
    /\ events = None /\ asked = None /\ window = None /\ tray = None
    /\ win_changes = None /\ asks = None

\* The parts do not interact: a behaviour is one of one part.
OneInit ==
    \/ which = "pools" /\ Pools!Init /\ NoRepair /\ NoCode /\ NoCopies /\ NoEnr /\ NoManager /\ NoWin
    \/ which = "repair" /\ Init /\ NoPools /\ NoCode /\ NoCopies /\ NoEnr /\ NoManager /\ NoWin
    \/ which = "code" /\ CodeInit /\ NoPools /\ NoRepair /\ NoCopies /\ NoEnr /\ NoManager /\ NoWin
    \/ which = "replicas" /\ Copies!Init /\ NoPools /\ NoRepair /\ NoCode /\ NoEnr /\ NoManager /\ NoWin
    \/ which = "enrol" /\ Enr!Init /\ NoPools /\ NoRepair /\ NoCode /\ NoCopies /\ NoManager /\ NoWin
    \/ which = "node" /\ Manager!Init /\ NoPools /\ NoRepair /\ NoCode /\ NoCopies /\ NoEnr /\ NoWin
    \/ which = "window" /\ Win!Init /\ NoPools /\ NoRepair /\ NoCode /\ NoCopies /\ NoEnr /\ NoManager

OneNext ==
    \/ which = "pools" /\ Pools!Next /\ UNCHANGED <<which, RepairVars, CodeVars, CopiesVars, EnrVars, ManagerVars, WinVars>>
    \/ which = "repair" /\ Next /\ UNCHANGED <<which, PoolsVars, CodeVars, CopiesVars, EnrVars, ManagerVars, WinVars>>
    \/ which = "code" /\ CodeNext /\ UNCHANGED <<which, PoolsVars, RepairVars, CopiesVars, EnrVars, ManagerVars, WinVars>>
    \/ which = "replicas" /\ Copies!Next /\ UNCHANGED <<which, PoolsVars, RepairVars, CodeVars, EnrVars, ManagerVars, WinVars>>
    \/ which = "enrol" /\ Enr!Next /\ UNCHANGED <<which, PoolsVars, RepairVars, CodeVars, CopiesVars, ManagerVars, WinVars>>
    \/ which = "node" /\ Manager!Next /\ UNCHANGED <<which, PoolsVars, RepairVars, CodeVars, CopiesVars, EnrVars, WinVars>>
    \/ which = "window" /\ Win!Next /\ UNCHANGED <<which, PoolsVars, RepairVars, CodeVars, CopiesVars, EnrVars, ManagerVars>>

all == <<which, PoolsVars, RepairVars, CodeVars, CopiesVars, EnrVars, ManagerVars, WinVars>>

Fair ==
    /\ WF_PoolsVars(which = "pools" /\ Pools!Supervise) /\ WF_PoolsVars(which = "pools" /\ Pools!Continue)
    /\ WF_RepairVars(which = "repair" /\ Step)
    /\ WF_CopiesVars(which = "replicas" /\ Copies!Coordinator) /\ WF_CopiesVars(which = "replicas" /\ Copies!owner_signs)
    /\ WF_EnrVars(which = "enrol" /\ Enr!Run) /\ WF_EnrVars(which = "enrol" /\ Enr!pass) /\ WF_EnrVars(which = "enrol" /\ Enr!archives_up)
    /\ WF_ManagerVars(which = "node" /\ Manager!Operation)
    /\ \A g \in Manager!Gens : WF_ManagerVars(which = "node" /\ Manager!Task(g)) /\ WF_ManagerVars(which = "node" /\ Manager!Times(g)) /\ WF_ManagerVars(which = "node" /\ Manager!node_says(g))
    /\ \A t \in {"mirror", "owner"} : WF_WinVars(which = "window" /\ Win!Says(t))
    /\ WF_WinVars(which = "window" /\ Win!mirror_pass("mirror")) /\ WF_WinVars(which = "window" /\ Win!drop_status)
    /\ WF_WinVars(which = "window" /\ Win!mergeStatus) /\ WF_WinVars(which = "window" /\ Win!deliver)

OneSpec == OneInit /\ [][OneNext]_all /\ Fair

-----------------------------------------------------------------------------
\* Replicas, PoolRepair, Coding and Enrol: what is reported as kept was read, and
\* stays under a policy.  A verified copy was read since, within the pass's
\* budget and under a policy that a crash cannot make forgotten, and every write
\* is covered by a signature of its own; a protected pool was read back part by
\* part, what was uploaded to it is what the receipt signs, and it outlives the
\* losses its margin allows; from any k parts, every part is what the polynomial
\* through them says, so that the parts regenerated are the ones that were lost;
\* every archived blob is in one live archive policy, and none is left close to
\* its expiry.
ReportedIsKept ==
    /\ which = "replicas" =>
        Copies!Evidence /\ Copies!WithinBudget /\ Copies!Committed /\ Copies!SignedOnce
    /\ which = "repair" => Evidence /\ UploadsReal /\ Survives
    /\ (which = "code" /\ case # None) =>
        transform(case.k, case.n, case.chosen) = Interpolation(case.n, case.chosen)
    /\ which = "enrol" => Enr!Covered /\ Enr!Renewed

\* Pools, NodeManager and Window: what the desktop shows of its processes and
\* files is so.  "Stopped" means that no process of the desktop's runs, a report
\* is not one of an earlier run, "Online" is the current start's own node beside
\* one Tor, and "all files have two copies" is said only when the index knows
\* so, by the tray and the window alike.
ShownIsSo ==
    /\ which = "pools" => Pools!StoppedIsStopped /\ Pools!ReportOfRun
    /\ which = "node" => Manager!ReadyIsOwn /\ Manager!OneTor
    /\ which = "window" => Win!GoodIsTrue /\ Win!SameOrder

\* No step does what nothing entitles it to: a clean-up removes what the window
\* showed and no more, no part is uploaded by a check or without authority, the
\* recorded policy never goes back, a blob is archived only once its archives
\* were read.
Entitled ==
    [][ /\ which = "pools" => Pools!OnlyReviewedStep
        /\ which = "repair" => OnlyWithAuthorityStep
        /\ which = "replicas" => Copies!NeverBackStep
        /\ which = "enrol" => Enr!ArchivedWhenReadStep ]_all

\* Pools: once a stop is asked for, the process ends.
PoolStops == (which = "pools" /\ Pools!Stopping) ~> (which = "pools" => Pools!Stopped)

\* PoolRepair: a recoverable pool comes back to its protection.
RepairRestores ==
    <>[](which = "repair" /\ Steady /\ Recoverable /\ pass.at # "over")
        => <>(which = "repair" /\ Protected)

\* Replicas: every blob is scanned again and again.
Rotates ==
    \A b \in {"small", "large"} :
        <>[](which = "replicas" /\ Copies!Runs) => []<>(which = "replicas" /\ Copies!Scans(b))

\* Replicas: a blob some node keeps ends up in the groups asked for.
Repaired ==
    \A b \in {"small", "large"} :
        <>[](which = "replicas" /\ Copies!Runs /\ Copies!Somewhere(b)) => <>[](which = "replicas" /\ Copies!Protected(b))

\* Enrol: every blob that can be read is archived in the end.
Placed == <>[](which = "enrol" /\ Enr!Placeable) => <>[](which = "enrol" /\ Enr!AllArchived)

\* NodeManager: a node that has ended does not stay "Online".
DeathShows == (which = "node" /\ Manager!DeadNode) ~> (which = "node" => ~Manager!Ready)

\* NodeManager: a start comes to an end that is shown or told.
Settles == (which = "node" /\ Manager!Starting) ~> (which = "node" => Manager!Settled)

\* Window: a window that asks comes to show the index's rows.
Refreshed == (which = "window" /\ Win!Asked) ~> (which = "window" => Win!Shown \/ ~Win!AtRest)

\* Window: the tray comes to say what is.
TraySettles == <>[](which = "window" => Win!TrayTrue)

\* What was lost is restored and what was begun ends: a recoverable pool, every
\* blob some node keeps and every blob that can be enrolled come to their
\* protection, and a stop, a start, a death, a refresh and the tray are settled.
Completes ==
    /\ RepairRestores /\ Rotates /\ Repaired /\ Placed
    /\ PoolStops /\ DeathShows /\ Settles /\ Refreshed /\ TraySettles
=============================================================================
