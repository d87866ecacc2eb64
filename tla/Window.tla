------------------------------- MODULE Window -------------------------------
(***************************************************************************)
(* What the owner of Wildbloom Drop is shown: the rows and the status made *)
(* from the index (desktop/src-tauri/src/drop/engine.rs), the tray's line  *)
(* (status.rs), the window's line and rows (desktop/ui/drop.js), and the   *)
(* events and answers that carry one to the other.                         *)
(*                                                                         *)
(* Words and dates are left out: a line is named as resolveStatus names    *)
(* it.  An event is a reading of the index that is sent later, by tasks on *)
(* several threads; events reach the window in the order in which they are *)
(* sent, the answer to drop_status at any time.                            *)
(***************************************************************************)
EXTENDS Naturals, Sequences, FiniteSets

CONSTANTS
    None,
    Ids,        \* rows
    Tasks,      \* tasks of the engine that change rows and say so,
    Mirror,     \* among them the mirror loop
    Changes,    \* what a row may become while the window is open: FileRecords
    Troubles,   \* statuses,
    Turns,      \* those it may take while the window is open
    MaxChanges, \* bound on changes of the index and the status
    MaxAsks     \* bound on refreshes of the window after the first

VARIABLES
    index,   \* the rows of the index
    status,  \* what status() reads, besides the rows
    task,    \* what each task still has to send
    events,  \* sent and not yet delivered
    asked,   \* refreshStatus: whether it is asked or answered, and the answer
    window,  \* what the window holds: its rows and its status
    tray,    \* what the line at the tray was resolved from
    changes, asks

vars == <<index, status, task, events, asked, window, tray, changes, asks>>

-----------------------------------------------------------------------------
(* Rows *)

RowStates == {"encrypting", "queued", "copying", "two_copies", "no_online", "waiting", "failed", "missing_online",
              "online_full", "missing_local", "restoring", "shared", "stop_pending", "sharing_ended",
              "share_owner_only", "unreadable", "not_kept", "held"}

LocalStates == {"encrypting", "pending", "ok", "missing", "restoring", "unreadable", "not_kept"}
OnlineStates == {"none", "queued", "copying", "ok", "waiting", "failed", "missing", "full"}

\* A share's record; "ended" counts for a day, and so does a stranded copy.
ShareStates == {"none", "open", "sent", "stop_pending", "owner_only", "ended", "stranded"}

FileRecord == [local: LocalStates, online: OnlineStates, share: ShareStates, held: BOOLEAN]

\* The answer of the first case whose condition holds.
First(cases) == LET from[i \in DOMAIN cases] == IF cases[i][1] THEN cases[i][2] ELSE from[i + 1] IN from[1]

\* Mutant: a missing local copy shows only when nothing is shared.
row_for_Shared(f) == First(<<
    <<f.held /\ f.local # "not_kept", "held">>,
    <<f.local = "not_kept", "not_kept">>,
    <<f.local = "restoring", "restoring">>,
    <<f.local \in {"encrypting", "pending"}, "encrypting">>,
    <<f.local = "unreadable", "unreadable">>,
    <<f.online = "none", "no_online">>,
    <<f.online \in {"queued", "copying", "waiting", "failed"}, f.online>>,
    <<f.online = "missing", "missing_online">>,
    <<f.online = "full", "online_full">>,
    <<f.share = "sent", "shared">>,
    <<f.local = "missing", "missing_local">>,
    <<f.share = "stop_pending", "stop_pending">>,
    <<f.share \in {"owner_only", "stranded"}, "share_owner_only">>,
    <<f.share = "ended", "sharing_ended">>,
    <<TRUE, "two_copies">> >>)

\* row_for: the one state a row is shown in.
row_for(f) == First(<<
    <<f.held /\ f.local # "not_kept", "held">>,
    <<f.local = "not_kept", "not_kept">>,
    <<f.local = "restoring", "restoring">>,
    <<f.local \in {"encrypting", "pending"}, "encrypting">>,
    <<f.local = "unreadable", "unreadable">>,
    <<f.online = "none", "no_online">>,
    <<f.online \in {"queued", "copying", "waiting", "failed"}, f.online>>,
    <<f.online = "missing", "missing_online">>,
    <<f.online = "full", "online_full">>,
    <<f.local = "missing", "missing_local">>,
    <<f.share = "sent", "shared">>,
    <<f.share = "stop_pending", "stop_pending">>,
    <<f.share \in {"owner_only", "stranded"}, "share_owner_only">>,
    <<f.share = "ended", "sharing_ended">>,
    <<TRUE, "two_copies">> >>)

Present(table) == {id \in Ids : table[id] # None}

rows(table) == [id \in Ids |-> IF table[id] = None THEN None ELSE row_for(table[id])]

-----------------------------------------------------------------------------
(* The line *)

Count(shown, states) == Cardinality({id \in Ids : shown[id] \in states})

TWO_COPIES == {"two_copies", "shared", "sharing_ended", "stop_pending", "share_owner_only"}

\* Mutant: a copy that went missing is not a failure.
FAILED_Copying == {"failed"}

FAILED == {"failed", "missing_online"}
BUSY == {"encrypting", "queued", "copying"}

\* status.rs resolve.
resolve(st, shown) ==
    LET count == Cardinality(Present(shown)) - Count(shown, {"not_kept"})
    IN First(<<
        <<st.first_run, "first">>,
        <<st.node # "ok", "node">>,
        <<st.keychain = "unavailable", "keychain">>,
        <<st.folder = "unavailable", "folder-unavailable">>,
        <<st.folder = "too_many", "folder-too-many">>,
        <<Count(shown, {"held"}) > 0, "held">>,
        <<st.approval = "expired", "expired">>,
        <<st.configured /\ st.failed_checks > 2, "unreachable">>,
        <<st.full, "full">>,
        <<Count(shown, {"failed", "missing_online"}) > 0, "failed">>,
        <<st.key_list = "failed", "keylist">>,
        <<Count(shown, {"not_kept"}) > 0, "not-kept">>,
        <<Count(shown, {"encrypting", "queued", "copying"}) > 0, "copying">>,
        <<~st.configured, "no-online">>,
        <<st.approval = "ending", "ends">>,
        <<~st.confirmed, "recovery">>,
        <<count >= 1, "good">>,
        <<TRUE, "empty">> >>)

TwoCopies(shown) == Count(shown, TWO_COPIES)

\* drop.js resolveStatus, and renderStatusLine, which leaves the line alone
\* during the first run.
resolveStatus(st, shown) ==
    LET count == Cardinality(Present(shown)) - Count(shown, {"not_kept"})
    IN First(<<
        <<st.first_run, "first">>,
        <<st.node # "ok", "node">>,
        <<st.keychain = "unavailable", "keychain">>,
        <<st.folder = "unavailable", "folder-unavailable">>,
        <<st.folder = "too_many", "folder-too-many">>,
        <<Count(shown, {"held"}) > 0, "held">>,
        <<st.approval = "expired", "expired">>,
        <<st.configured /\ st.failed_checks > 2, "unreachable">>,
        <<st.full, "full">>,
        <<Count(shown, FAILED) > 0, "failed">>,
        <<st.key_list = "failed", "keylist">>,
        <<Count(shown, {"not_kept"}) > 0, "not-kept">>,
        <<Count(shown, BUSY) > 0, "copying">>,
        <<~st.configured, "no-online">>,
        <<st.approval = "ending", "ends">>,
        <<~st.confirmed, "recovery">>,
        <<count >= 1 /\ TwoCopies(shown) = count, "good">>,
        <<count >= 1, "partial">>,
        <<TRUE, "empty">> >>)

Calm == [first_run |-> FALSE, node |-> "ok", keychain |-> "ok", folder |-> "on", approval |-> "active",
         configured |-> TRUE, failed_checks |-> 0, full |-> FALSE, key_list |-> "ok", confirmed |-> TRUE]

Statuses == [first_run: BOOLEAN, node: {"ok", "stopped"}, keychain: {"ok", "unavailable"},
             folder: {"off", "on", "unavailable", "too_many"}, approval: {"none", "active", "ending", "expired"},
             configured: BOOLEAN, failed_checks: 0..3, full: BOOLEAN, key_list: {"ok", "failed"}, confirmed: BOOLEAN]

-----------------------------------------------------------------------------
(* The engine's tasks *)

Idle == [at |-> "idle", id |-> None, row |-> None, told |-> None]

Data == [st |-> status, index |-> index]

Bounded == changes < MaxChanges /\ changes' = changes + 1

\* A task writes a row, or deletes it (upload_online, remove_row) ...
set_row(t) ==
    /\ task[t].at = "idle" /\ Bounded
    /\ \E id \in Present(index), to \in Changes \cup {None} :
          /\ index' = [index EXCEPT ![id] = to] /\ index' # index
          /\ task' = [task EXCEPT ![t] = [Idle EXCEPT !.at = IF to = None THEN "read" ELSE "changed",
                                                     !.id = id, !.row = "removed"]]
    /\ UNCHANGED <<status, events, asked, window, tray, asks>>

\* ... or what the status is made from (check_online, refresh_grant).
set_status(t) ==
    /\ task[t].at = "idle" /\ Bounded
    /\ status' \in Turns
    /\ task' = [task EXCEPT ![t].at = "status"]
    /\ UNCHANGED <<index, events, asked, window, tray, asks>>

\* Mutant: a pass says nothing when nothing was due.
mirror_pass_Due(t) ==
    /\ task[t].at = "idle" /\ events = <<>> /\ Count(rows(index), BUSY) > 0
    /\ task' = [task EXCEPT ![t].at = "status"]
    /\ UNCHANGED <<index, status, events, asked, window, tray, changes, asks>>

\* Every pass of the mirror loop ends with the status; between two, half a
\* minute apart, the window gets what was sent.
mirror_pass(t) ==
    /\ task[t].at = "idle" /\ events = <<>>
    /\ task' = [task EXCEPT ![t].at = "status"]
    /\ UNCHANGED <<index, status, events, asked, window, tray, changes, asks>>

\* emit_row reads the row, if it is still there, ...
emit_row(t) ==
    /\ task[t].at = "changed"
    /\ LET f == index[task[t].id] IN
       task' = [task EXCEPT ![t].at = IF f = None THEN "status" ELSE "read",
                            ![t].row = IF f = None THEN None ELSE row_for(f)]
    /\ UNCHANGED <<index, status, events, asked, window, tray, changes, asks>>

\* ... and sends it; emit_removed reads nothing.
emit_file(t) ==
    /\ task[t].at = "read"
    /\ events' = Append(events, [kind |-> "file", id |-> task[t].id, row |-> task[t].row])
    /\ task' = [task EXCEPT ![t] = [Idle EXCEPT !.at = "status"]]
    /\ UNCHANGED <<index, status, asked, window, tray, changes, asks>>

\* emit_status: the status and the line, read ...
read_status(t) ==
    /\ task[t].at = "status"
    /\ task' = [task EXCEPT ![t] = [Idle EXCEPT !.at = "told", !.told = Data]]
    /\ UNCHANGED <<index, status, events, asked, window, tray, changes, asks>>

\* ... and sent to the window and the tray.
emit_status(t) ==
    /\ task[t].at = "told"
    /\ events' = Append(events, [kind |-> "status", st |-> task[t].told.st])
    /\ tray' = task[t].told
    /\ task' = [task EXCEPT ![t] = Idle]
    /\ UNCHANGED <<index, status, asked, window, changes, asks>>

-----------------------------------------------------------------------------
(* The window *)

NotAsked == [at |-> "no", st |-> Calm, rows |-> None]

\* refreshStatus, when a sheet closes or the owner tries again ...
refreshStatus ==
    /\ asked.at = "no" /\ asks < MaxAsks
    /\ asked' = [asked EXCEPT !.at = "asked"] /\ asks' = asks + 1
    /\ UNCHANGED <<index, status, task, events, window, tray, changes>>

\* ... is answered with a snapshot ...
drop_status ==
    /\ asked.at = "asked"
    /\ asked' = [at |-> "answered", st |-> status, rows |-> rows(index)]
    /\ UNCHANGED <<index, status, task, events, window, tray, changes, asks>>

syncRows(list) == list

\* ... which replaces what the window holds.
mergeStatus ==
    /\ asked.at = "answered"
    /\ window' = [st |-> asked.st, rows |-> syncRows(asked.rows)]
    /\ asked' = NotAsked
    /\ UNCHANGED <<index, status, task, events, tray, changes, asks>>

upsertRow(e) == IF e.row = "removed" THEN None ELSE e.row

\* drop://file and drop://status.
deliver ==
    /\ events # <<>>
    /\ LET e == Head(events) IN
       window' = IF e.kind = "file" THEN [window EXCEPT !.rows[e.id] = upsertRow(e)] ELSE [window EXCEPT !.st = e.st]
    /\ events' = Tail(events)
    /\ UNCHANGED <<index, status, task, asked, tray, changes, asks>>

-----------------------------------------------------------------------------
One == CHOOSE id \in Ids : TRUE

\* Any row beside a common one, and any trouble, at rest; or an ordinary start
\* with the window loaded.
Init ==
    /\ \/ /\ \E f \in FileRecord, others \in Changes \cup {None} :
                /\ index = [id \in Ids |-> IF id = One THEN f ELSE others]
                /\ status \in {Calm} \cup (IF f.share = "none" /\ ~f.held THEN Troubles ELSE {})
          /\ changes = MaxChanges /\ asks = MaxAsks
       \/ /\ \E f \in Changes : index = [id \in Ids |-> f]
          /\ status = Calm /\ changes = 0 /\ asks = 0
    /\ task = [t \in Tasks |-> Idle] /\ events = <<>> /\ asked = NotAsked
    /\ window = [st |-> status, rows |-> rows(index)]
    /\ tray = Data

Says(t) == emit_row(t) \/ emit_file(t) \/ read_status(t) \/ emit_status(t)
Next ==
    \/ \E t \in Tasks : set_row(t) \/ set_status(t) \/ Says(t)
    \/ mirror_pass(Mirror) \/ refreshStatus \/ drop_status \/ mergeStatus \/ deliver

\* The tasks and the mirror loop go on; answers and events arrive.
Spec ==
    /\ Init /\ [][Next]_vars
    /\ \A t \in Tasks : WF_vars(Says(t))
    /\ WF_vars(mirror_pass(Mirror)) /\ WF_vars(drop_status) /\ WF_vars(mergeStatus) /\ WF_vars(deliver)

-----------------------------------------------------------------------------
(* Properties *)

TypeOK ==
    /\ \A id \in Ids : index[id] # None => index[id] \in FileRecord
    /\ status \in Statuses
    /\ window.rows \in [Ids -> RowStates \cup {None}]

\* The window says that all files have two copies only when the index knows
\* of both copies of every file it keeps (drop.js: "it says "all" only when
\* every row is").
GoodIsTrue ==
    resolveStatus(status, rows(index)) = "good" =>
        \A id \in Present(index) : index[id].local = "ok" /\ index[id].online = "ok"

\* From the same data the tray and the window say the same, but that the tray
\* says "all" where the window counts (status.rs, resolveStatus).
SameOrder ==
    LET said == resolve(status, rows(index))
        shown == resolveStatus(status, rows(index))
    IN said # shown => (said = "good" /\ shown = "partial")

AtRest == (\A t \in Tasks : task[t].at \in {"idle", "status", "told"}) /\ \A i \in DOMAIN events : events[i].kind # "file"
Shown == window.rows = rows(index)
Asked == asked.at = "asked" /\ AtRest
TrayTrue == tray = Data

\* Whatever overtook what before, a window that asks when nothing is on its
\* way comes to show the index's rows (syncRows), unless they change again.
Refreshed == Asked ~> (Shown \/ ~AtRest)

\* Emissions of two tasks may overtake each other, and the tray be left with
\* the older line; the next pass of the mirror loop puts it right.
TraySettles == <>[]TrayTrue
=============================================================================
