------------------------------- MODULE Pools -------------------------------
(***************************************************************************)
(* The desktop's owner pools (desktop/src-tauri/src/pools.rs and            *)
(* pool_cleanup.rs, ui/pools.js): imported receipts, the one owner process  *)
(* the desktop supervises, its report, the files an interrupted process     *)
(* leaves, and their reviewed removal.  A CLI owner service may work in the *)
(* same directory; the desktop may crash.                                   *)
(*                                                                          *)
(* A process is the repair service of pool_repair.rs, seen from outside: it *)
(* takes the directory's lock, refuses to start on leftovers, writes its    *)
(* report after each pass, and ends when it is told to, or is killed.       *)
(***************************************************************************)
EXTENDS Naturals, FiniteSets

CONSTANTS
    None,
    Receipts,
    Shared,     \* the receipts that a CLI owner service is set up for too
    MAX_POOLS,
    MaxProcs,   \* processes, over all receipts
    MaxNow,     \* the clock, in seconds
    MaxChanges  \* crashes, kills, expiries and edits by hand

VARIABLES
    now,
    saved,   \* the receipts that are on disk
    work,    \* for each receipt, its work directory: the report and the pass folders
    procs,   \* the processes: what each was started for and how far it is
    entries, \* PoolManager.entries, None for a receipt that is not there
    slot,    \* PoolManager.active
    task,    \* the task that supervises the process of the slot
    op,      \* the command that holds the operation lock across a wait
    review,  \* PoolManager.cleanup_review
    seen,    \* the review the window shows
    changes

memory == <<entries, slot, task, op, review, seen>>
vars == <<now, saved, work, procs, memory, changes>>

Procs == 1..MaxProcs
Bounded == changes < MaxChanges /\ changes' = changes + 1

NoEntry == [phase |-> "stopped", started |-> None, report |-> None, stale |-> {}]
NoWork == [report |-> None, passes |-> {}]

Launched == {n \in Procs : procs[n] # None}
Alive == {n \in Launched : procs[n].at \in {"new", "pass", "sleep"}}

\* The lock of a work directory is held while a process is past its start.
Locked(id) == \E n \in Alive : procs[n].id = id /\ procs[n].at # "new"

-----------------------------------------------------------------------------
(* Receipts *)

import_pool(id) ==
    /\ op = None /\ id \notin saved /\ entries[id] = None
    /\ Cardinality({i \in Receipts : entries[i] # None}) < MAX_POOLS
    /\ saved' = saved \cup {id} /\ entries' = [entries EXCEPT ![id] = NoEntry]
    /\ seen' = None
    /\ UNCHANGED <<now, work, procs, slot, task, op, review, changes>>

\* Mutant: the slot counts as free as soon as a stop was asked for.
require_stopped_Asked(ids) == slot # None => (slot.id \in ids => slot.done \/ slot.stop)

\* require_stopped for any of these receipts
require_stopped(ids) == slot # None => (slot.id \in ids => slot.done)

\* The slot of a process that has ended is given up on the way.
Retired(ids) == IF slot = None THEN None ELSE IF slot.id \in ids /\ slot.done THEN None ELSE slot

\* The work directory stays.
remove_pool(id) ==
    /\ op = None /\ require_stopped({id}) /\ entries[id] # None
    /\ saved' = saved \ {id} /\ entries' = [entries EXCEPT ![id] = None]
    /\ slot' = Retired({id}) /\ seen' = None
    /\ UNCHANGED <<now, work, procs, task, op, review, changes>>

-----------------------------------------------------------------------------
(* A run *)

\* validate_run: a repair needs the owner's consent and a signer.
validate_run(check, consent) == check \/ consent

\* start_pool up to the verification of the receipt, which it waits for.
start_pool(id, check, consent) ==
    /\ op = None /\ require_stopped(Receipts) /\ entries[id] # None /\ validate_run(check, consent)
    /\ Cardinality(Launched) < MaxProcs
    /\ slot' = Retired(Receipts) /\ review' = None /\ seen' = None
    /\ op' = [cmd |-> "start", id |-> id, check |-> check, at |-> "inspect", stale |-> {}]
    /\ UNCHANGED <<now, saved, work, procs, entries, task, changes>>

inspect_fails ==
    /\ op # None /\ op.cmd = "start" /\ op.at = "inspect"
    /\ Bounded /\ op' = None
    /\ UNCHANGED <<now, saved, work, procs, entries, slot, task, review, seen>>

\* Mutant: the report of the run before is left.
Cleared_Not(id) == work[id].report

Cleared(id) == None

\* The last observation is removed; `stale' is not in the code: the processes
\* that had ended by then.
clear_report ==
    /\ op # None /\ op.cmd = "start" /\ op.at = "inspect"
    /\ work' = [work EXCEPT ![op.id].report = Cleared(op.id)]
    /\ op' = [op EXCEPT !.at = "spawn", !.stale = Launched \ Alive]
    /\ UNCHANGED <<now, saved, procs, entries, slot, task, review, seen, changes>>

\* arguments: a check neither signs nor reconstructs.
arguments(id, check, by) == [id |-> id, check |-> check, by |-> by, at |-> "new", told |-> FALSE]

\* The process, its slot and its entry.
spawn ==
    /\ op # None /\ op.cmd = "start" /\ op.at = "spawn"
    /\ Cardinality(Launched) < MaxProcs
    /\ LET n == Cardinality(Launched) + 1
       IN /\ procs' = [procs EXCEPT ![n] = arguments(op.id, op.check, "desktop")]
          /\ slot' = [id |-> op.id, n |-> n, stop |-> FALSE, done |-> FALSE]
    /\ entries' = [entries EXCEPT ![op.id] =
                      [phase |-> IF op.check THEN "checking" ELSE "repairing",
                       started |-> now, report |-> None, stale |-> op.stale]]
    /\ task' = "wait" /\ op' = None
    /\ UNCHANGED <<now, saved, work, review, seen, changes>>

spawn_fails ==
    /\ op # None /\ op.cmd = "start" /\ op.at = "spawn"
    /\ Bounded /\ op' = None
    /\ UNCHANGED <<now, saved, work, procs, entries, slot, task, review, seen>>

valid_report(id) ==
    /\ work[id].report # None
    /\ work[id].report.at <= now /\ work[id].report.at >= entries[id].started

\* pool_status: what the window is shown, every two seconds.
pool_status(id) ==
    /\ entries[id] # None /\ entries[id].started # None /\ valid_report(id)
    /\ entries' = [entries EXCEPT ![id].report = work[id].report]
    /\ UNCHANGED <<now, saved, work, procs, slot, task, op, review, seen, changes>>

-----------------------------------------------------------------------------
(* The supervising task *)

Ends(p, how) == [p EXCEPT !.at = how, !.check = FALSE, !.told = FALSE]

Gone(n) == procs[n].at \in {"ok", "fail", "killed"}

\* The process ended by itself.
child_exits ==
    /\ task = "wait" /\ Gone(slot.n)
    /\ task' = IF procs[slot.n].at = "ok" THEN "ended" ELSE "failed"
    /\ UNCHANGED <<now, saved, work, procs, entries, slot, op, review, seen, changes>>

\* It is told to stop.
stop_seen ==
    /\ task = "wait" /\ slot.stop
    /\ procs' = [procs EXCEPT ![slot.n].told = ~Gone(slot.n)]
    /\ task' = "stopping"
    /\ UNCHANGED <<now, saved, work, entries, slot, op, review, seen, changes>>

stop_exits ==
    /\ task = "stopping" /\ Gone(slot.n)
    /\ task' = "ended"
    /\ UNCHANGED <<now, saved, work, procs, entries, slot, op, review, seen, changes>>

Killed(p) == IF p.at \in {"ok", "fail"} THEN p ELSE Ends(p, "killed")

\* Mutant: a process that does not listen is waited for.
stop_kills_Never == FALSE /\ UNCHANGED vars

\* Five seconds are over: it is killed, and what it was doing is left.
stop_kills ==
    /\ task = "stopping" /\ ~Gone(slot.n)
    /\ procs' = [procs EXCEPT ![slot.n] = Killed(@)]
    /\ task' = "ended"
    /\ UNCHANGED <<now, saved, work, entries, slot, op, review, seen, changes>>

\* The entry is written, if the receipt is still there,
task_writes ==
    /\ task \in {"ended", "failed"}
    /\ entries' = IF entries[slot.id] = None THEN entries
                  ELSE [entries EXCEPT ![slot.id].phase = IF task = "failed" THEN "attention" ELSE "stopped"]
    /\ task' = "written"
    /\ UNCHANGED <<now, saved, work, procs, slot, op, review, seen, changes>>

\* and then the slot is free.
task_done ==
    /\ task = "written"
    /\ slot' = [slot EXCEPT !.done = TRUE] /\ task' = "none"
    /\ UNCHANGED <<now, saved, work, procs, entries, op, review, seen, changes>>

\* PoolManager::stop
stop_pool ==
    /\ op = None /\ slot # None
    /\ slot' = [slot EXCEPT !.stop = TRUE]
    /\ op' = [cmd |-> "stop", id |-> slot.id, check |-> FALSE, at |-> "done", stale |-> {}]
    /\ seen' = None
    /\ UNCHANGED <<now, saved, work, procs, entries, task, review, changes>>

stop_done ==
    /\ op # None /\ op.cmd = "stop" /\ slot.done
    /\ slot' = None /\ op' = None
    /\ UNCHANGED <<now, saved, work, procs, entries, task, review, seen, changes>>

\* Seven seconds are over: the stop is still pending.
stop_pending ==
    /\ op # None /\ op.cmd = "stop" /\ ~slot.done
    /\ Bounded /\ op' = None
    /\ UNCHANGED <<now, saved, work, procs, entries, slot, task, review, seen>>

-----------------------------------------------------------------------------
(* Interrupted files *)

\* pool_cleanup::lock
lock(id) == ~Locked(id)

\* cleanup_work: only an imported receipt has one.
cleanup_work(id) == entries[id] # None

\* pool_cleanup::review: the folders with their files' names, sizes and times
Reviewed(id) == [id |-> id, passes |-> work[id].passes]

\* The window keeps what it shows.
review_pool_cleanup(id) ==
    /\ op = None /\ require_stopped({id}) /\ cleanup_work(id) /\ lock(id)
    /\ review' = Reviewed(id)
    /\ seen' = review' /\ slot' = Retired({id})
    /\ UNCHANGED <<now, saved, work, procs, entries, task, op, changes>>

\* Mutant: the folders are removed by their names.
Unchanged_Names(id) == {p.n : p \in review.passes} = {p.n : p \in work[id].passes}

\* pool_cleanup::clear looks again first.
Unchanged(id) == review = Reviewed(id)

clear(id) == IF lock(id) /\ Unchanged(id) THEN [work EXCEPT ![id].passes = {}] ELSE work

\* The window offers it for a review with files in it; the review is spent.
clear_pool_cleanup ==
    /\ op = None /\ seen # None /\ seen.passes # {} /\ review # None
    /\ review' = None /\ seen' = None
    /\ LET id == review.id
       IN IF seen.id = id /\ require_stopped({id}) /\ cleanup_work(id)
          THEN slot' = Retired({id}) /\ work' = clear(id)
          ELSE UNCHANGED <<slot, work>>
    /\ UNCHANGED <<now, saved, procs, entries, task, op, changes>>

\* The window's selection, or a field of it, changes.
revoke ==
    /\ seen # None /\ seen' = None
    /\ UNCHANGED <<now, saved, work, procs, entries, slot, task, op, review, changes>>

-----------------------------------------------------------------------------
(* The processes *)

\* A CLI owner service is started on the same directory.
cli_starts(id) ==
    /\ id \in Shared /\ Cardinality(Launched) < MaxProcs
    /\ procs' = [procs EXCEPT ![Cardinality(Launched) + 1] = arguments(id, FALSE, "cli")]
    /\ UNCHANGED <<now, saved, work, memory, changes>>

\* pool_repair.rs run: the lock, no leftovers, then the first pass.
proc_starts(n) ==
    /\ n \in Alive /\ procs[n].at = "new"
    /\ LET id == procs[n].id
       IN IF Locked(id) \/ work[id].passes # {}
          THEN procs' = [procs EXCEPT ![n] = Ends(@, "fail")] /\ UNCHANGED work
          ELSE /\ procs' = [procs EXCEPT ![n].at = "pass"]
               /\ work' = [work EXCEPT ![id].passes = {[n |-> n, v |-> 0]}]
    /\ UNCHANGED <<now, saved, memory, changes>>

\* The pass folder is removed with its files; the report is written.
proc_reports(n) ==
    /\ n \in Alive /\ procs[n].at = "pass"
    /\ work' = [work EXCEPT ![procs[n].id] = [report |-> [n |-> n, at |-> now], passes |-> {}]]
    /\ IF procs[n].check THEN \E out \in {"ok", "fail"} : procs' = [procs EXCEPT ![n] = Ends(@, out)]
       ELSE procs' = [procs EXCEPT ![n].at = "sleep"]
    /\ UNCHANGED <<now, saved, memory, changes>>

\* The interval is over.
proc_wakes(n) ==
    /\ n \in Alive /\ procs[n].at = "sleep" /\ Bounded
    /\ procs' = [procs EXCEPT ![n].at = "pass"]
    /\ work' = [work EXCEPT ![procs[n].id].passes = {[n |-> n, v |-> 0]}]
    /\ UNCHANGED <<now, saved, memory>>

\* A pass that is given up takes its folder with it.
Dropped(n) == [work EXCEPT ![procs[n].id].passes = {p \in @ : p.n # n}]

\* A line or the end of its input: it stops at once.
proc_stops(n) ==
    /\ n \in Alive /\ procs[n].told /\ procs[n].at # "new"
    /\ procs' = [procs EXCEPT ![n] = Ends(@, "ok")] /\ work' = Dropped(n)
    /\ UNCHANGED <<now, saved, memory, changes>>

\* Its authority expires.
proc_expires(n) ==
    /\ n \in Alive /\ procs[n].at # "new" /\ Bounded
    /\ procs' = [procs EXCEPT ![n] = Ends(@, "fail")] /\ work' = Dropped(n)
    /\ UNCHANGED <<now, saved, memory>>

\* It is killed from outside and leaves its folder.
proc_killed(n) ==
    /\ n \in Alive /\ Bounded
    /\ procs' = [procs EXCEPT ![n] = Ends(@, "killed")]
    /\ UNCHANGED <<now, saved, work, memory>>

\* Somebody works on a leftover file by hand.
by_hand(id) ==
    /\ ~Locked(id) /\ work[id].passes # {} /\ Bounded
    /\ work' = [work EXCEPT ![id].passes = {[p EXCEPT !.v = 1 - @] : p \in @}]
    /\ UNCHANGED <<now, saved, procs, memory>>

\* load: the receipts that are saved
load == [id \in Receipts |-> IF id \in saved THEN NoEntry ELSE None]

\* The desktop crashes and is started again: the receipts are loaded, and its
\* process reads the end of its input.
crash ==
    /\ Bounded
    /\ procs' = [n \in Procs |-> IF n \in Alive /\ procs[n].by = "desktop"
                                 THEN [procs[n] EXCEPT !.by = "abandoned", !.told = TRUE] ELSE procs[n]]
    /\ entries' = load
    /\ slot' = None /\ task' = "none" /\ op' = None /\ review' = None /\ seen' = None
    /\ UNCHANGED <<now, saved, work>>

tick == now < MaxNow /\ now' = now + 1 /\ UNCHANGED <<saved, work, procs, memory, changes>>

Init ==
    /\ now = 0 /\ saved \in {{}, Shared}
    /\ work = [id \in Receipts |-> NoWork] /\ procs = [n \in Procs |-> None]
    /\ entries = load
    /\ slot = None /\ task = "none" /\ op = None /\ review = None /\ seen = None
    /\ changes = 0

Supervise == child_exits \/ stop_seen \/ stop_exits \/ stop_kills \/ task_writes \/ task_done

Command ==
    \/ \E id \in Receipts :
          \/ import_pool(id) \/ remove_pool(id) \/ start_pool(id, TRUE, FALSE) \/ start_pool(id, FALSE, TRUE)
          \/ review_pool_cleanup(id) \/ pool_status(id)
    \/ stop_pool \/ clear_pool_cleanup \/ revoke

Continue == clear_report \/ spawn \/ stop_done

Process(n) == proc_starts(n) \/ proc_reports(n) \/ proc_wakes(n) \/ proc_stops(n) \/ proc_expires(n) \/ proc_killed(n)

Next ==
    \/ Command \/ Continue \/ Supervise \/ tick \/ crash
    \/ inspect_fails \/ spawn_fails \/ stop_pending
    \/ \E id \in Receipts : cli_starts(id) \/ by_hand(id)
    \/ \E n \in Procs : Process(n)

\* The task and the command that waits go on; a process need not.
Spec == Init /\ [][Next]_vars /\ WF_vars(Supervise) /\ WF_vars(Continue)

-----------------------------------------------------------------------------
(* Properties *)

Stopping == slot # None /\ slot.stop
Stopped == slot # None => slot.done

\* At most MAX_POOLS receipts are managed, each one saved; a slot that is not
\* free has its task.
TypeOK ==
    /\ Cardinality({i \in Receipts : entries[i] # None}) <= MAX_POOLS
    /\ \A id \in Receipts : entries[id] # None <=> id \in saved
    /\ task \in {"none", "wait", "stopping", "ended", "failed", "written"}
    /\ task # "none" <=> (slot # None /\ ~slot.done)
    /\ review # None => review.id \in Receipts
    /\ seen # None => seen = review

\* "Stopped" means stopped: while a process that this desktop started runs,
\* the slot is its, it is the only one, and its receipt is still there and says
\* so (start_pool, its task, require_stopped).
StoppedIsStopped ==
    \A n \in Alive : procs[n].by = "desktop" =>
        /\ slot # None /\ slot.n = n /\ ~slot.done
        /\ entries[slot.id] # None /\ entries[slot.id].phase \in {"checking", "repairing"}

\* A report that is shown was not made by a process that had ended before the
\* run began, not even in the same second (start_pool: "so a new run never
\* presents stale success").
ReportOfRun ==
    \A id \in Receipts : entries[id] # None =>
        (entries[id].report # None => entries[id].report.n \notin entries[id].stale)

\* What goes from a folder was shown to the owner.
OnlyReviewedStep ==
    \A id \in Receipts : \A p \in work[id].passes :
       ((\A q \in work'[id].passes : q.n # p.n) /\ procs'[p.n] = procs[p.n]) =>
           seen # None /\ seen.id = id /\ p \in seen.passes /\ ~Locked(id)

\* Folders that disappear without their own process's doing are exactly the
\* ones the window showed, unchanged, and no process works in the directory
\* (pool_cleanup::clear).
OnlyReviewed == [][OnlyReviewedStep]_vars

\* Once a stop is asked for, the process ends, whether it listens or not
\* (the kill after five seconds).
StopEnds == Stopping ~> Stopped
=============================================================================
