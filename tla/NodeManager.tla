---------------------------- MODULE NodeManager ----------------------------
(***************************************************************************)
(* The desktop's node manager (desktop/src-tauri/src/main.rs): one status,  *)
(* the handles of the Tor and node processes, the start operation under its *)
(* lock, and the tasks that outlive it: one that reads each process's       *)
(* output, and the fifteen minute timer of a Tor start.                     *)
(*                                                                          *)
(* Every start has a generation.  A task of an older generation may still   *)
(* be between two steps when a newer start has taken over.  A handle is the *)
(* generation of the process it is for.                                     *)
(***************************************************************************)
EXTENDS Naturals, Sequences, FiniteSets

CONSTANTS
    None,
    MaxGen,     \* starts
    MaxChanges  \* deaths of processes and failures to start one

VARIABLES
    settings, \* the settings file's transport, or "bad"
    status,   \* RuntimeStatus
    children, \* the handles of Children
    alive,    \* the processes that run
    op,       \* where the start operation is
    waiting,  \* the starts that wait for the lock: "setup" or "command"
    told,     \* the last start's error was given to the command's caller
    torTask, torQueue,   \* for each generation: the Tor task and its unread events
    nodeTask, nodeQueue, \* the same for the node
    timer,    \* for each generation: the Tor start's timer
    changes

tasks == <<torTask, nodeTask, timer>>
queues == <<torQueue, nodeQueue>>
vars == <<settings, status, children, alive, op, waiting, told, tasks, queues, changes>>

Gens == 1..MaxGen
Bounded == changes < MaxChanges /\ changes' = changes + 1

-----------------------------------------------------------------------------
(* The status and the handles *)

\* Mutant: the phase of an older generation is shown too.
set_phase_Any(g, phase, port) == [status EXCEPT !.phase = phase, !.port = port]

\* set_phase: only the current generation is heard.
set_phase(g, phase, port) ==
    IF status.gen = g THEN [status EXCEPT !.phase = phase, !.port = port] ELSE status

set_error(g) == set_phase(g, "error", None)

generation_is_current(g) == status.gen = g

NoChildren == [tor |-> None, node |-> None]

\* Mutant: Tor is left running.
stop_children_Node == {<<"node", children.node>>}

\* The processes that stop_children kills.
stop_children == {<<"tor", children.tor>>, <<"node", children.node>>}

\* A process that ends is the last event of its output.
Ended(killed, kind, queue) ==
    [g \in Gens |-> IF <<kind, g>> \in killed \cap alive THEN Append(queue[g], "end") ELSE queue[g]]

Kill(killed) ==
    /\ alive' = alive \ killed
    /\ torQueue' = Ended(killed, "tor", torQueue)
    /\ nodeQueue' = Ended(killed, "node", nodeQueue)

StopChildren == Kill(stop_children) /\ children' = NoChildren

-----------------------------------------------------------------------------
(* A start *)

save_settings ==
    /\ status.gen + Len(waiting) < MaxGen
    /\ \E t \in {"tor", "direct"} : settings' = t
    /\ waiting' = Append(waiting, "command")
    /\ UNCHANGED <<status, children, alive, op, told, tasks, queues, changes>>

restart_node ==
    /\ status.gen + Len(waiting) < MaxGen
    /\ waiting' = Append(waiting, "command")
    /\ UNCHANGED <<settings, status, children, alive, op, told, tasks, queues, changes>>

\* start_runtime takes the lock and stops what runs.
begin ==
    /\ op = "idle" /\ waiting # <<>>
    /\ StopChildren
    /\ op' = "stopped" /\ told' = FALSE
    /\ UNCHANGED <<settings, status, waiting, tasks, changes>>

\* The start ends with an error; at launch nobody waits for it, and it is
\* shown for whatever generation the status then has.
Fails(st) ==
    /\ op' = "idle" /\ waiting' = Tail(waiting)
    /\ status' = IF Head(waiting) = "setup" THEN [st EXCEPT !.phase = "error", !.port = None] ELSE st
    /\ told' = (Head(waiting) = "command")

NextStatus == [gen |-> status.gen + 1, phase |-> "starting", port |-> None]

\* read_settings and validate_settings, then the next generation.
next_generation ==
    /\ op = "stopped"
    /\ IF settings = "bad"
       THEN Fails(status)
       ELSE /\ status' = NextStatus
            /\ op' = settings /\ UNCHANGED <<waiting, told>>
    /\ UNCHANGED <<settings, children, alive, tasks, queues, changes>>

Started == op' = "idle" /\ waiting' = Tail(waiting) /\ UNCHANGED told

\* Mutant: no timer is set.
Timer_None(g) == UNCHANGED timer

Timer(g) == timer' = [timer EXCEPT ![g] = "armed"]

\* start_tor_runtime
start_tor_runtime(ok) ==
    /\ op = "tor"
    /\ LET g == status.gen
       IN IF ok
          THEN /\ alive' = alive \cup {<<"tor", g>>} /\ children' = [children EXCEPT !.tor = g]
               /\ torTask' = [torTask EXCEPT ![g] = "wait"] /\ Timer(g)
               /\ status' = set_phase(g, "starting", None)
               /\ Started /\ UNCHANGED changes
          ELSE /\ Bounded /\ Fails(status)
               /\ UNCHANGED <<alive, children, torTask, timer>>
    /\ UNCHANGED <<settings, nodeTask, queues>>

\* start_node_sidecar past its check: the node runs, its handle takes the
\* place of what was there, and its task begins.
Sidecar(g) ==
    /\ alive' = alive \cup {<<"node", g>>} /\ children' = [children EXCEPT !.node = g]
    /\ nodeTask' = [nodeTask EXCEPT ![g] = "run"]
    /\ status' = set_phase(g, "starting", g)

start_direct(ok) ==
    /\ op = "direct"
    /\ IF ok THEN Sidecar(status.gen) /\ Started /\ UNCHANGED changes
       ELSE Bounded /\ Fails(status) /\ UNCHANGED <<alive, children, nodeTask>>
    /\ UNCHANGED <<settings, torTask, timer, queues>>

-----------------------------------------------------------------------------
(* The Tor task *)

\* Tor has bootstrapped: the task waits for the onion service's name.
tor_bootstrapped(g) ==
    /\ torTask[g] = "wait" /\ torQueue[g] # <<>> /\ Head(torQueue[g]) = "100%"
    /\ torTask' = [torTask EXCEPT ![g] = "hostname"]
    /\ torQueue' = [torQueue EXCEPT ![g] = Tail(@)]
    /\ UNCHANGED <<settings, status, children, alive, op, waiting, told, nodeTask, nodeQueue, timer, changes>>

\* The name is there or not in thirty seconds; start_node_sidecar looks at the
\* generation first.
wait_for_onion_hostname(g, ok) ==
    /\ torTask[g] = "hostname"
    /\ IF ok
       THEN /\ torTask' = [torTask EXCEPT ![g] = IF generation_is_current(g) THEN "spawn" ELSE "started"]
            /\ UNCHANGED <<status, changes>>
       ELSE /\ torTask' = [torTask EXCEPT ![g] = "started"]
            /\ status' = set_error(g) /\ Bounded
    /\ UNCHANGED <<settings, children, alive, op, waiting, told, queues, nodeTask, timer>>

start_node_sidecar(g, ok) ==
    /\ torTask[g] = "spawn"
    /\ torTask' = [torTask EXCEPT ![g] = "started"]
    /\ IF ok THEN Sidecar(g) /\ UNCHANGED changes
       ELSE status' = set_error(g) /\ Bounded /\ UNCHANGED <<alive, children, nodeTask>>
    /\ UNCHANGED <<settings, op, waiting, told, queues, timer>>

\* Tor has ended: the task does too.
tor_terminated(g) ==
    /\ torTask[g] \in {"wait", "started"} /\ torQueue[g] # <<>> /\ Head(torQueue[g]) = "end"
    /\ torTask' = [torTask EXCEPT ![g] = "over"]
    /\ torQueue' = [torQueue EXCEPT ![g] = Tail(@)]
    /\ status' = set_error(g)
    /\ UNCHANGED <<settings, children, alive, op, waiting, told, nodeTask, nodeQueue, timer, changes>>

-----------------------------------------------------------------------------
(* The node's task *)

node_ready(g) ==
    /\ nodeTask[g] = "run" /\ nodeQueue[g] # <<>> /\ Head(nodeQueue[g]) = "ready"
    /\ nodeQueue' = [nodeQueue EXCEPT ![g] = Tail(@)]
    /\ nodeTask' = [nodeTask EXCEPT ![g] = "ready"]
    /\ status' = set_phase(g, "ready", g)
    /\ UNCHANGED <<settings, children, alive, op, waiting, told, torTask, torQueue, timer, changes>>

\* Mutant: only a node that was never ready is reported.
Terminated_Early(g) == IF nodeTask[g] = "run" THEN set_error(g) ELSE status

Terminated(g) == set_error(g)

node_terminated(g) ==
    /\ nodeTask[g] \in {"run", "ready"} /\ nodeQueue[g] # <<>> /\ Head(nodeQueue[g]) = "end"
    /\ nodeQueue' = [nodeQueue EXCEPT ![g] = Tail(@)]
    /\ nodeTask' = [nodeTask EXCEPT ![g] = "over"]
    /\ status' = Terminated(g)
    /\ UNCHANGED <<settings, children, alive, op, waiting, told, torTask, torQueue, timer, changes>>

-----------------------------------------------------------------------------
(* The timer *)

\* Fifteen minutes are over: the status is read,
timer_fires(g) ==
    /\ timer[g] = "armed"
    /\ timer' = [timer EXCEPT ![g] = IF generation_is_current(g) /\ status.phase = "starting" THEN "late" ELSE "over"]
    /\ UNCHANGED <<settings, status, children, alive, op, waiting, told, torTask, nodeTask, queues, changes>>

\* then the error is shown,
timer_error(g) ==
    /\ timer[g] = "late" /\ timer' = [timer EXCEPT ![g] = "stop"]
    /\ status' = set_error(g)
    /\ UNCHANGED <<settings, children, alive, op, waiting, told, torTask, nodeTask, queues, changes>>

\* then the processes are stopped, whoever's they are by now.
timer_stops(g) ==
    /\ timer[g] = "stop" /\ timer' = [timer EXCEPT ![g] = "over"]
    /\ StopChildren
    /\ UNCHANGED <<settings, status, op, waiting, told, torTask, nodeTask, changes>>

-----------------------------------------------------------------------------
(* The processes *)

tor_boots(g) ==
    /\ <<"tor", g>> \in alive /\ torTask[g] = "wait" /\ torQueue[g] = <<>>
    /\ torQueue' = [torQueue EXCEPT ![g] = Append(@, "100%")]
    /\ UNCHANGED <<settings, status, children, alive, op, waiting, told, tasks, nodeQueue, changes>>

\* The node says once that it is ready.
node_says(g) ==
    /\ <<"node", g>> \in alive /\ nodeTask[g] = "run" /\ nodeQueue[g] = <<>>
    /\ nodeQueue' = [nodeQueue EXCEPT ![g] = Append(@, "ready")]
    /\ UNCHANGED <<settings, status, children, alive, op, waiting, told, tasks, torQueue, changes>>

dies(proc) ==
    /\ proc \in alive /\ Bounded
    /\ Kill({proc})
    /\ UNCHANGED <<settings, status, children, op, waiting, told, tasks>>

\* At launch the node starts by itself when there are settings.
Init ==
    /\ settings \in {"tor", "direct", "bad"}
    /\ status = [gen |-> 0, phase |-> "setup", port |-> None]
    /\ children = NoChildren /\ alive = {} /\ op = "idle" /\ waiting = <<"setup">> /\ told = FALSE
    /\ torTask = [g \in Gens |-> "none"] /\ nodeTask = torTask /\ timer = torTask
    /\ torQueue = [g \in Gens |-> <<>>] /\ nodeQueue = torQueue
    /\ changes = 0

Operation == begin \/ next_generation \/ start_tor_runtime(TRUE) \/ start_direct(TRUE)

Task(g) ==
    \/ tor_bootstrapped(g) \/ wait_for_onion_hostname(g, TRUE) \/ start_node_sidecar(g, TRUE) \/ tor_terminated(g)
    \/ node_ready(g) \/ node_terminated(g)

Times(g) == timer_fires(g) \/ timer_error(g) \/ timer_stops(g)

Faults ==
    \/ start_tor_runtime(FALSE) \/ start_direct(FALSE)
    \/ \E g \in Gens : wait_for_onion_hostname(g, FALSE) \/ start_node_sidecar(g, FALSE) \/ dies(<<"tor", g>>) \/ dies(<<"node", g>>)

Next ==
    \/ save_settings \/ restart_node \/ Operation \/ Faults
    \/ \E g \in Gens : Task(g) \/ Times(g) \/ tor_boots(g) \/ node_says(g)

\* The tasks run, the timer runs out and a node says that it is ready or ends;
\* Tor may never bootstrap.
Spec ==
    /\ Init /\ [][Next]_vars /\ WF_vars(Operation)
    /\ \A g \in Gens : WF_vars(Task(g)) /\ WF_vars(Times(g)) /\ WF_vars(node_says(g))

-----------------------------------------------------------------------------
(* Properties *)

Ready == status.phase = "ready"
DeadNode == Ready /\ <<"node", status.gen>> \notin alive
Starting == status.phase = "starting"
Settled == ~Starting \/ told

TypeOK ==
    /\ status.phase \in {"setup", "starting", "ready", "error"} /\ status.gen \in 0..MaxGen
    /\ alive \subseteq {"tor", "node"} \X Gens
    /\ op \in {"idle", "stopped", "tor", "direct"}
    /\ status.port # None => (status.port = status.gen /\ nodeTask[status.gen] # "none")

\* "Online" is the current start's own node: it has said that it is ready, and
\* the port shown is its port, whatever older tasks still have to say
\* (set_phase).
ReadyIsOwn == status.phase = "ready" => (status.port = status.gen /\ nodeTask[status.gen] \in {"ready", "over"})

\* At most one Tor process runs, over restarts, late timers and deaths; a
\* second one could not open the data directory (start_runtime, stop_children).
OneTor == Cardinality({g \in Gens : <<"tor", g>> \in alive}) <= 1

\* A node that has ended does not stay "Online" (CommandEvent::Terminated).
DeathShows == DeadNode ~> ~Ready

\* A start comes to an end: the node is ready, an error is shown, or the
\* command that asked for it was given the error (the fifteen minute timer).
Settles == Starting ~> Settled
=============================================================================
