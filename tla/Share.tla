-------------------------------- MODULE Share --------------------------------
(***************************************************************************)
(* Sharing one kept file (desktop/src-tauri/src/drop/share.rs, pairing.rs,  *)
(* relay.rs, and the shares and deletes of index.rs).  A share is a copy    *)
(* under a fresh key on the online node; a flow makes it, opens a pairing   *)
(* on a relay, sends the recipient the copy's address and key once both     *)
(* have compared words, and listens for the download.  Stop, the sheet's    *)
(* closing, a node change, Remove and the timed sweep end shares while a    *)
(* flow or another of them waits on the network.                            *)
(***************************************************************************)
EXTENDS Naturals, FiniteSets

CONSTANTS
    Nodes, None,
    MaxCopies,  \* shared copies made
    MaxChanges  \* owner's commands, failures and crashes

Copies == 1..MaxCopies

VARIABLES
    node,      \* the online node in use
    file,      \* the file is kept
    share,     \* the file's share record
    keys,      \* the share keys in the keychain
    queue,     \* queued deletions: the copy, and whether they wait for its time
    blobs,     \* the shared copies on the nodes
    at,        \* the node of each copy
    flow,      \* the share flow
    jobs,      \* deletions that wait for the node's answer
    stranded,  \* copies that only the node's owner can delete
    due,       \* copies whose deletion time has come
    told,      \* copies whose address and key went to a recipient
    sent,      \* copies whose recipient sent the receipt
    released,  \* sent copies that the owner ended, the recipient has, or whose
               \* deletion had begun when they were sent
    changes

index == <<node, file, share, queue>>
history == <<told, sent, released>>
nodes == <<at, stranded>>
vars == <<index, keys, blobs, nodes, flow, jobs, due, history, changes>>

Live == {"open", "sent", "stop_pending"}
Record == [copy: Copies, node: Nodes, state: Live \cup {"ended", "owner_only"}]

\* A flow at each wait of run_share; "pending" is the copy no record names yet.
Flow(a) == [at |-> a, again |-> FALSE, copy |-> 0, pending |-> 0, previous |-> None, node |-> node]

TypeOK ==
    /\ node \in Nodes /\ file \in BOOLEAN /\ share \in Record \cup {None}
    /\ keys \subseteq Copies /\ queue \subseteq [copy: Copies, later: BOOLEAN]
    /\ blobs \subseteq Copies /\ at \in [Copies -> Nodes \cup {None}] /\ due \subseteq Copies /\ stranded \subseteq Copies
    /\ flow # None =>
         flow.at \in {"making", "uploading", "pairing", "words", "checking",
                      "sending", "receipt", "listening", "deleting"}
    /\ \A j \in jobs : j.record \in Record /\ j.then \in {"stay"} \cup Nodes
    /\ released \subseteq sent /\ sent \subseteq told

Init ==
    /\ node \in Nodes /\ file = TRUE /\ share = None /\ keys = {} /\ queue = {} /\ blobs = {}
    /\ at = [c \in Copies |-> None] /\ flow = None /\ jobs = {} /\ due = {} /\ stranded = {}
    /\ told = {} /\ sent = {} /\ released = {} /\ changes = 0

Bounded == changes < MaxChanges /\ changes' = changes + 1

-----------------------------------------------------------------------------
(* Index *)

Item(c, later) == [copy |-> c, later |-> later]

\* queue_share_delete: a deletion queued twice keeps the earlier time.
queue_share_delete(q, c, later) ==
    (q \ {Item(c, TRUE), Item(c, FALSE)}) \cup {Item(c, later /\ Item(c, FALSE) \notin q)}

Queued(q) == {i.copy : i \in q}

As(record, state) == [record EXCEPT !.state = state]

-----------------------------------------------------------------------------
(* The flow *)

\* stop_share_task and clean_up: the flow's task ends where it waits, and the
\* copy that it was still making goes, from the keychain and from the node or
\* into the queue.
clean_up(deleted) ==
    LET p == IF flow = None THEN {} ELSE {flow.pending} \ {0}
    IN /\ keys' = keys \ p
       /\ blobs' = IF deleted THEN blobs \ p ELSE blobs
       /\ queue' = IF deleted THEN queue ELSE queue \cup {Item(c, FALSE) : c \in p \cap blobs}

\* A flow takes the place of a running one.
share_start(again, deleted) ==
    /\ Bounded /\ file
    /\ clean_up(deleted)
    /\ flow' = [Flow("making") EXCEPT !.again = again, !.previous = share]
    /\ UNCHANGED <<node, file, share, nodes, jobs, due, history>>

\* Mutant: a copy that was sent is sent again.
reusable_copy_Sent == share # None /\ share.state \in {"open", "sent"} /\ share.node = node

\* reusable_copy: never sent, on this node, and still there.
reusable_copy == share # None /\ share.state = "open" /\ share.node = node

share_reuses ==
    /\ flow # None /\ flow.at = "making" /\ flow.again /\ reusable_copy
    /\ share.copy \in keys \cap blobs
    /\ flow' = [flow EXCEPT !.at = "pairing", !.copy = share.copy]
    /\ UNCHANGED <<index, keys, blobs, nodes, jobs, due, history, changes>>

\* make_share_copy up to the upload: the slot names the copy before its key
\* is stored.
make_share_copy(c) ==
    /\ flow # None /\ flow.at = "making" /\ at[c] = None /\ \A d \in 1..(c - 1) : at[d] # None
    /\ ~(flow.again /\ reusable_copy /\ share.copy \in keys \cap blobs)
    /\ keys' = keys \cup {c} /\ at' = [at EXCEPT ![c] = flow.node] /\ UNCHANGED stranded
    /\ flow' = [flow EXCEPT !.at = "uploading", !.pending = c]
    /\ UNCHANGED <<index, blobs, jobs, due, history, changes>>

share_fails ==
    /\ flow # None /\ flow.at = "uploading" /\ Bounded
    /\ keys' = keys \ {flow.pending} /\ flow' = None
    /\ UNCHANGED <<index, blobs, nodes, jobs, due, history>>

\* Mutant: a sent copy goes when a new one replaces it.
NotBefore_Now(old) == FALSE

\* A sent copy keeps the deletion time that its recipient was told.
NotBefore(old) == old.state = "sent"

\* The upload is there: the copy replaces an older one, and the record names it.
share_records ==
    LET c == flow.pending
        old == flow.previous
        replaces == IF old = None THEN FALSE ELSE old.state \in Live /\ old.copy # c
    IN /\ flow # None /\ flow.at = "uploading"
       /\ blobs' = blobs \cup {c}
       /\ queue' = IF replaces THEN queue_share_delete(queue, old.copy, NotBefore(old)) ELSE queue
       /\ keys' = IF replaces THEN keys \ {old.copy} ELSE keys
       /\ share' = [copy |-> c, node |-> flow.node, state |-> "open"]
       /\ flow' = [flow EXCEPT !.at = "pairing", !.copy = c, !.pending = 0]
       /\ UNCHANGED <<node, file, nodes, jobs, due, history, changes>>

\* open_pairing: a grant from the node's issuer and a session on the relay.
open_pairing ==
    /\ flow # None /\ flow.at = "pairing" /\ flow' = [flow EXCEPT !.at = "words"]
    /\ UNCHANGED <<index, keys, blobs, nodes, jobs, due, history, changes>>

\* pair: the recipient gave the words, and both see the check words.
pair ==
    /\ flow # None /\ flow.at = "words" /\ flow' = [flow EXCEPT !.at = "checking"]
    /\ UNCHANGED <<index, keys, blobs, nodes, jobs, due, history, changes>>

\* share_verify: the owner says whether the check words match.
share_verify(matches) ==
    /\ flow # None /\ flow.at = "checking"
    /\ flow' = IF matches THEN [flow EXCEPT !.at = "sending"] ELSE None
    /\ UNCHANGED <<index, keys, blobs, nodes, jobs, due, history, changes>>

\* The pairing ends early: no grant, refused, expired, wrong words.
share_ends ==
    /\ flow # None /\ flow.at \in {"making", "pairing", "words", "checking", "receipt", "listening"} /\ flow' = None
    /\ UNCHANGED <<index, keys, blobs, nodes, jobs, due, history, changes>>

\* Relay::send: a write whose answer was lost is written again, and may have
\* landed although an error is returned.
send(landed, ok) ==
    /\ flow # None /\ flow.at = "sending" /\ (ok => landed)
    /\ told' = IF landed THEN told \cup {flow.copy} ELSE told
    /\ flow' = IF ok THEN [flow EXCEPT !.at = "receipt"] ELSE None
    /\ UNCHANGED <<index, keys, blobs, nodes, jobs, due, sent, released, changes>>

\* The deletions under way, of a closed sheet's copy among them.
Deleting == Queued(queue) \cup {j.record.copy : j \in jobs}

\* The receipt arrives: the share is sent.
pair_and_send ==
    /\ flow # None /\ flow.at = "receipt"
    /\ share' = [copy |-> flow.copy, node |-> flow.node, state |-> "sent"]
    /\ sent' = sent \cup {flow.copy}
    /\ released' = released \cup ({flow.copy} \cap Deleting)
    /\ flow' = [flow EXCEPT !.at = "listening"]
    /\ UNCHANGED <<node, file, queue, keys, blobs, nodes, jobs, due, told, changes>>

\* record_download: the reply confirms the download of the copy of the record;
\* it is then deleted or kept, as the settings said when it was sent.
record_download(keep) ==
    /\ flow # None /\ flow.at = "listening"
    /\ IF IF share = None THEN FALSE ELSE share.copy = flow.copy /\ share.state = "sent"
       THEN /\ released' = released \cup {flow.copy}
            /\ flow' = IF keep THEN None ELSE [flow EXCEPT !.at = "deleting", !.previous = share]
       ELSE flow' = None /\ UNCHANGED released
    /\ UNCHANGED <<index, keys, blobs, nodes, jobs, due, told, sent, changes>>

-----------------------------------------------------------------------------
(* Ending shares *)

\* Mutant: a deletion that is only queued counts as done.
EndedState_Queued(deleted) == "ended"

EndedState(deleted) == IF deleted THEN "ended" ELSE "stop_pending"

\* delete_share_copy once the node answered, or did not: it writes the record
\* that it was given.
delete_share_copy(record, keep, deleted) ==
    /\ blobs' = IF deleted THEN blobs \ {record.copy} ELSE blobs
    /\ queue' = IF deleted THEN queue ELSE queue_share_delete(queue, record.copy, FALSE)
    /\ keys' = keys \ {record.copy}
    /\ share' = IF keep THEN As(record, EndedState(deleted)) ELSE None

deletion_ends(j, deleted) ==
    /\ j \in jobs /\ jobs' = jobs \ {j}
    /\ delete_share_copy(j.record, j.keep, deleted)
    /\ node' = IF j.then = "stay" THEN node ELSE j.then
    /\ UNCHANGED <<file, nodes, flow, due, history>>

deletion_answered(j) == deletion_ends(j, TRUE) /\ UNCHANGED changes

deletion_fails(j) == deletion_ends(j, FALSE) /\ Bounded

\* The deletion after a confirmed download is part of the flow.
flow_deletes(deleted) ==
    /\ flow # None /\ flow.at = "deleting" /\ flow' = None
    /\ delete_share_copy(flow.previous, TRUE, deleted)
    /\ IF deleted THEN UNCHANGED changes ELSE Bounded
    /\ UNCHANGED <<node, file, nodes, jobs, due, history>>

Deletes(record, keep, then) == jobs \cup {[record |-> record, keep |-> keep, then |-> then]}

\* The flow stops, and the share of the record is ended if it is in states.
Ends(states, keep, then, deleted) ==
    /\ Bounded /\ Cardinality(jobs) < 2
    /\ clean_up(deleted) /\ flow' = None
    /\ share # None /\ share.state \in states
    /\ jobs' = Deletes(share, keep, then)
    /\ UNCHANGED <<node, file, share, nodes, due, told, sent>>

\* Mutant: closing the sheet of a sent share deletes the copy too.
share_cancel_states_All == {"open", "sent"}

share_cancel_states == {"open"}

share_cancel(deleted) == Ends(share_cancel_states, FALSE, "stay", deleted) /\ UNCHANGED released

stop_sharing(deleted) ==
    /\ Ends(Live, TRUE, "stay", deleted)
    /\ released' = released \cup (sent \cap {share.copy})

\* end_shares_before_node_change, then the change.
set_online_node(n, deleted) ==
    /\ n # node
    /\ \/ /\ Ends(Live, TRUE, n, deleted)
          /\ released' = released \cup (sent \cap {share.copy})
       \/ /\ Bounded /\ (share # None => share.state \notin Live)
          /\ IF share = None THEN UNCHANGED <<keys, blobs, queue, flow>> ELSE clean_up(deleted) /\ flow' = None
          /\ node' = n
          /\ UNCHANGED <<file, share, nodes, jobs, due, history>>

\* remove_row: the flow ends, the deletion is queued and the row goes with its
\* record.
remove_row(deleted) ==
    LET live == IF share = None THEN FALSE ELSE share.state \in Live
        p == IF flow = None THEN {} ELSE {flow.pending} \ {0}
    IN /\ Bounded /\ file /\ file' = FALSE /\ share' = None /\ flow' = None
       /\ keys' = keys \ (p \cup IF live THEN {share.copy} ELSE {})
       /\ blobs' = IF deleted THEN blobs \ p ELSE blobs
       /\ LET q == IF deleted THEN queue ELSE queue \cup {Item(c, FALSE) : c \in p \cap blobs}
          IN queue' = IF live THEN queue_share_delete(q, share.copy, FALSE) ELSE q
       /\ released' = IF live THEN released \cup (sent \cap {share.copy}) ELSE released
       /\ UNCHANGED <<node, nodes, jobs, due, told, sent>>

-----------------------------------------------------------------------------
(* The mirror's deletions and sweep, and crashes *)

time_comes(c) ==
    /\ c \in sent \ due /\ due' = due \cup {c}
    /\ UNCHANGED <<index, keys, blobs, nodes, flow, jobs, history, changes>>

\* run_pending_deletes: the node deleted it; or the approval there has ended
\* and only the node's owner can (mark_owner_only).
run_pending_deletes(i) ==
    /\ i \in queue /\ (i.later => i.copy \in due)
    /\ queue' = queue \ {i} /\ blobs' = blobs \ {i.copy}
    /\ UNCHANGED <<node, file, share, keys, nodes, flow, jobs, due, history, changes>>

mark_owner_only(i) ==
    /\ i \in queue /\ (i.later => i.copy \in due) /\ Bounded
    /\ queue' = queue \ {i} /\ stranded' = stranded \cup {i.copy}
    /\ share' = IF IF share = None THEN FALSE ELSE share.copy = i.copy /\ share.state # "ended"
                THEN As(share, "owner_only") ELSE share
    /\ UNCHANGED <<node, file, keys, blobs, at, flow, jobs, due, history>>

\* sweep_shares: a sent copy at its time, a stop whose deletion is done, an
\* ended record after a day.
sweep_due ==
    /\ share # None /\ share.state = "sent" /\ share.copy \in due /\ Cardinality(jobs) < 2
    /\ jobs' = Deletes(share, TRUE, "stay")
    /\ UNCHANGED <<index, keys, blobs, nodes, flow, due, history, changes>>

\* Mutant: a pending stop is settled without a look at the queue.
Settled_Always == TRUE

\* Mutant: the look at the queue is the wrong way round.
Settled_Queued == share.copy \in Queued(queue)

Settled == share.copy \notin Queued(queue)

sweep_stopped ==
    /\ share # None /\ share.state = "stop_pending" /\ Settled
    /\ share' = As(share, "ended")
    /\ UNCHANGED <<node, file, queue, keys, blobs, nodes, flow, jobs, due, history, changes>>

sweep_ended ==
    /\ share # None /\ share.state \in {"ended", "owner_only"} /\ share' = None
    /\ UNCHANGED <<node, file, queue, keys, blobs, nodes, flow, jobs, due, history, changes>>

\* A crash and the next start: an unsent copy goes (recover_open_shares).
Crash ==
    /\ Bounded /\ flow' = None
    /\ jobs' = IF IF share = None THEN FALSE ELSE share.state = "open"
               THEN {[record |-> share, keep |-> FALSE, then |-> "stay"]} ELSE {}
    /\ UNCHANGED <<index, keys, blobs, nodes, due, history>>

Flows ==
    \/ share_reuses \/ share_records \/ open_pairing \/ pair \/ share_ends \/ pair_and_send
    \/ \E c \in Copies : make_share_copy(c)
    \/ \E matches \in BOOLEAN : share_verify(matches)
    \/ \E landed, ok \in BOOLEAN : send(landed, ok)
    \/ \E keep \in BOOLEAN : record_download(keep)
    \/ flow_deletes(TRUE)

Mirrors == (\E i \in queue : run_pending_deletes(i)) \/ sweep_due \/ sweep_stopped \/ sweep_ended

Next ==
    \/ Flows \/ Mirrors \/ share_fails \/ Crash \/ flow_deletes(FALSE)
    \/ \E j \in jobs : deletion_answered(j) \/ deletion_fails(j)
    \/ \E deleted \in BOOLEAN :
         \/ \E again \in BOOLEAN : share_start(again, deleted)
         \/ share_cancel(deleted) \/ stop_sharing(deleted) \/ remove_row(deleted)
         \/ \E n \in Nodes : set_online_node(n, deleted)
    \/ \E i \in queue : mark_owner_only(i)
    \/ \E c \in Copies : time_comes(c)

\* Every wait of a flow has a deadline, and the mirror's loop goes on.
Spec ==
    /\ Init /\ [][Next]_vars
    /\ WF_vars(Flows) /\ WF_vars(Mirrors) /\ WF_vars(\E j \in jobs : deletion_answered(j))
    /\ \A c \in Copies : WF_vars(time_comes(c))

-----------------------------------------------------------------------------
(* Properties *)

StopPending == share # None /\ share.state = "stop_pending"

\* No copy that was sent and is not due goes.
SentStaysStep ==
    \A c \in sent \ (due \cup released) : c \in blobs => c \in blobs'

\* A sent copy stays until the time its recipient was told, unless the owner
\* ends it, the recipient has it or its deletion began before it was sent
\* (run_share, share_cancel, recover_open_shares).
SentStays == [][SentStaysStep]_vars

\* A row that shows "sharing ended" has no copy left on a node
\* (delete_share_copy, sweep_shares).
EndedIsGone == share # None => (share.state = "ended" => share.copy \notin blobs)

\* A copy that was sent is never sent again: its recipient was told when it is
\* deleted (reusable_copy).
SentOnce == flow # None => (flow.at = "sending" => flow.copy \notin sent)

\* A stop that could not be done at once is done (sweep_shares,
\* run_pending_deletes).
StopEnds == StopPending ~> ~StopPending
=============================================================================
