-------------------------------- MODULE Drop --------------------------------
(***************************************************************************)
(* The files Wildbloom Drop keeps on one computer                          *)
(* (desktop/src-tauri/src/drop/engine.rs, mirror.rs, index.rs): a file is  *)
(* encrypted into the outbox, put on the local node, mirrored to the       *)
(* online node, copied back when a copy is lost, and removed.              *)
(*                                                                         *)
(* The index and the keychain outlive a crash; the tasks and removed_ids   *)
(* do not.  A task is cut at its awaits and, since the runtime has several *)
(* threads, between two calls that another task can come between.  An      *)
(* envelope is named by its file's id: each is sealed under a fresh key,   *)
(* so no two have the same hash.  Clock readings (back-off, the 6-hourly   *)
(* check) are choices, and the folder and the key list have modules of     *)
(* their own; shared copies have one too.                                  *)
(***************************************************************************)
EXTENDS Naturals, FiniteSets

CONSTANTS
    Ids,        \* file ids, drawn at random and never used again
    Edits,      \* the ids of edits of a file that is kept already
    Origins,    \* online nodes
    None,
    MaxRemovals,\* bound on files removed when the owner removes one
    MaxTroubles \* bound on crashes, outages, refusals, lost copies, failed
                \* calls and changes of the online node

ASSUME BoundsAssumption == {MaxRemovals, MaxTroubles} \subseteq Nat
ASSUME EditsAssumption == Edits \subseteq Ids

VARIABLES
    rows,      \* the index: files
    copies,    \* the index: online_copies
    deletes,   \* the index: deletes
    stones,    \* the index: removed (tombstones)
    url,       \* the index: online_url
    approval,  \* the index: the approval kept for that node
    keys,      \* file keys in the keychain
    outbox,    \* envelopes in the outbox
    running,   \* the app runs
    gone,      \* Engine::removed_ids
    enc,       \* where each encrypt_and_keep is
    mirror,    \* where the mirror loop is
    back,      \* where each copy back is
    removing,  \* where each remove_row is
    reachable, \* OnlineRuntime::reachable
    stored,    \* what each node stores
    up,        \* nodes that answer
    granted,   \* online nodes whose approval of this computer is active
    asked,     \* history: files whose removal has begun
    edited,    \* history: for a version removed as superseded, the one that replaced it
    cut,       \* history: files whose encryption a crash cut off
    unused,    \* ids not drawn yet
    troubles   \* crashes, faults and changes of the online node so far

index == <<rows, copies, deletes, stones, url, approval>>
disk == <<keys, outbox>>
memory == <<running, gone, enc, mirror, back, removing, reachable>>
world == <<stored, up, granted>>
history == <<asked, edited, cut, unused>>
vars == <<index, disk, memory, world, history, troubles>>

Nodes == {"local"} \cup Origins
LocalStates == {"encrypting", "pending", "ok", "missing", "restoring", "unreadable"}
OnlineStates == {"none", "queued", "copying", "ok", "waiting", "failed", "missing", "full"}

FileRecord == [local: LocalStates, online: OnlineStates, sha: BOOLEAN, linked: BOOLEAN,
               prev: Ids \cup {None}]

ASSUME NoneAssumption == None \notin Ids \cup Nodes \cup FileRecord

TypeOK ==
    /\ rows \in [Ids -> FileRecord \cup {None}]
    /\ copies \subseteq Ids \X Origins
    /\ deletes \subseteq Nodes \X Ids
    /\ url \in Origins \cup {None} /\ approval \in {"none", "active", "revoked"}
    /\ {stones, keys, outbox, gone, asked, cut, unused} \subseteq SUBSET Ids
    /\ {running, reachable} \subseteq BOOLEAN
    /\ enc \in [Ids -> {"idle", "queued", "sealing", "keeping", "recording", "sending", "sent"}]
    /\ back \in [Ids -> {"idle", "copying"}]
    /\ removing \in [Ids -> [at: {"idle", "queue"}, sha: BOOLEAN]]
    /\ mirror.at \in {"rest", "locals", "sending", "due", "copying", "copied"}
    /\ edited \in [Ids -> Ids \cup {None}]
    /\ stored \in [Nodes -> SUBSET Ids] /\ up \subseteq Nodes /\ granted \subseteq Origins

Idle == [at |-> "idle", sha |-> FALSE]
Rest == [at |-> "rest", todo |-> {}, id |-> None, node |-> None]

\* A file from the folder that every node has.
KeptRow == [local |-> "ok", online |-> IF url = None THEN "none" ELSE "ok", sha |-> TRUE,
            linked |-> TRUE, prev |-> None]

\* Nothing is kept and a file will come, or files are kept and one will be
\* edited.
Init ==
    /\ url \in Origins \cup {None}
    /\ granted = IF url = None THEN {} ELSE {url}
    /\ approval = IF url = None THEN "none" ELSE "active"
    /\ unused \in {Edits, Ids \ Edits}
    /\ LET kept == IF unused = Edits THEN Ids \ Edits ELSE {}
       IN /\ rows = [id \in Ids |-> IF id \in kept THEN KeptRow ELSE None]
          /\ copies = kept \X granted
          /\ keys = kept
          /\ stored = [n \in Nodes |-> IF n \in {"local", url} THEN kept ELSE {}]
    /\ deletes = {} /\ stones = {} /\ outbox = {}
    /\ running = TRUE /\ gone = {} /\ reachable = TRUE /\ up = Nodes
    /\ enc = [id \in Ids |-> "idle"] /\ back = [id \in Ids |-> "idle"]
    /\ removing = [id \in Ids |-> Idle] /\ mirror = Rest
    /\ asked = {} /\ cut = {} /\ edited = [id \in Ids |-> None]
    /\ troubles = 0

Fault == troubles < MaxTroubles /\ troubles' = troubles + 1

-----------------------------------------------------------------------------
(* The index: each update changes only a row that is there. *)

file(id) == rows[id] # None

files == {id \in Ids : file(id)}

set_envelope(id, table) == IF file(id) THEN [table EXCEPT ![id].sha = TRUE] ELSE table

set_local(id, state) == IF file(id) THEN [rows EXCEPT ![id].local = state] ELSE rows

set_online(id, state) == IF file(id) THEN [rows EXCEPT ![id].online = state] ELSE rows

delete_file(id) ==
    /\ rows' = [rows EXCEPT ![id] = None]
    /\ copies' = {c \in copies : c[1] # id}

queue_delete(nodes, id) == nodes \X {id}

finish_delete(d) == deletes \ {d}

add_online_copy(id, origin) == copies \cup {<<id, origin>>}

online_copies(id) == {o \in Origins : <<id, o>> \in copies}

add_tombstone(id) == stones \cup {id}

-----------------------------------------------------------------------------
(* Nodes *)

local_endpoint == "local" \in up

online_endpoint == url # None

approval_active == approval = "active"

\* What a node answers to a health check, a PUT, a HEAD, a DELETE and a
\* question about this computer's grant; where an upload's bytes come from.
health(node) == node \in up

upload(node, id) == [stored EXCEPT ![node] = @ \cup {id}]

head(node, id) == id \in stored[node]

delete(node, id) == [stored EXCEPT ![node] = @ \ {id}]

grant_status(node) == IF node \in granted THEN "active" ELSE "revoked"

file_body(id) == id \in outbox

relay_body(id) == head("local", id)

writable_online == approval_active /\ online_endpoint

was_removed(id) == id \in gone \/ ~file(id)

\* refresh_grant: only the node's own answer ends or renews the approval.
refresh_grant ==
    IF health(url) /\ approval # "none" THEN grant_status(url) ELSE approval

-----------------------------------------------------------------------------
(* New files *)

queue_new_file(id, linked, prev) ==
    /\ running
    /\ id \in unused /\ unused' = unused \ {id}
    /\ rows' = [i \in Ids |->
                  IF i = id
                  THEN [local |-> "encrypting", online |-> IF online_endpoint THEN "queued" ELSE "none",
                        sha |-> FALSE, linked |-> linked, prev |-> prev]
                  ELSE IF i = prev THEN [rows[i] EXCEPT !.linked = FALSE] ELSE rows[i]]
    /\ enc' = [enc EXCEPT ![id] = "queued"]
    /\ UNCHANGED <<copies, deletes, stones, url, approval, disk, running, gone, mirror, back,
                   removing, reachable, world, asked, edited, cut,
                   troubles>>

\* A file dropped on the window.
add_paths(id) == id \notin Edits /\ queue_new_file(id, FALSE, None)

\* A file found in the folder: new, or an edit of the version prev, which
\* lets go of its link.
import_folder_file(id) ==
    \E prev \in {p \in files : rows[p].linked /\ rows[p].local # "encrypting"}
                \cup (IF id \in Edits THEN {} ELSE {None}) :
        queue_new_file(id, TRUE, prev)

\* encrypt_queue: one file is encrypted at a time.
encrypt_queue_free == \A i \in Ids : enc[i] \in {"idle", "queued", "sending", "sent"}

Enc(id, from, to) == running /\ enc[id] = from /\ enc' = [enc EXCEPT ![id] = to]

\* The row shows that the file must be added again.
EncFails(id) == rows' = set_local(id, "unreadable")

encrypt_begin(id) ==
    /\ encrypt_queue_free
    /\ Enc(id, "queued", IF file(id) THEN "sealing" ELSE "idle")
    /\ UNCHANGED <<index, disk, running, gone, mirror, back, removing, reachable,
                   world, history, troubles>>

\* The envelope is a temporary file until it is persisted, and no key is
\* stored yet: nothing is left of a file removed meanwhile.
encrypt_sealed(id) ==
    /\ \/ Enc(id, "sealing", IF was_removed(id) THEN "idle" ELSE "keeping") /\ UNCHANGED <<rows, troubles>>
       \/ Enc(id, "sealing", "idle") /\ ~was_removed(id) /\ Fault /\ EncFails(id)
    /\ UNCHANGED <<copies, deletes, stones, url, approval, disk, running, gone, mirror, back,
                   removing, reachable, world, history>>

\* Mutant: the second look at removed_ids is left out.
encrypt_keep_Blind(id) ==
    /\ Enc(id, "keeping", "recording") /\ keys' = keys \cup {id} /\ outbox' = outbox \cup {id}
    /\ UNCHANGED <<index, running, gone, mirror, back, removing, reachable, world, history, troubles>>

\* set_file_key, persist and the second look: for a file removed since the
\* first one both go again.  Either call may fail.
encrypt_keep(id) ==
    /\ \/ /\ Enc(id, "keeping", IF was_removed(id) THEN "idle" ELSE "recording")
          /\ keys' = IF was_removed(id) THEN keys \ {id} ELSE keys \cup {id}
          /\ outbox' = IF was_removed(id) THEN outbox \ {id} ELSE outbox \cup {id}
          /\ UNCHANGED <<rows, troubles>>
       \/ /\ Enc(id, "keeping", "idle") /\ Fault
          /\ EncFails(id) /\ keys' = keys \ {id} /\ UNCHANGED outbox
    /\ UNCHANGED <<copies, deletes, stones, url, approval, running, gone, mirror, back, removing,
                   reachable, world, history>>

\* Mutant: an edit replaces the old version as soon as it is encrypted.
encrypt_record_Early(id) ==
    /\ Enc(id, "recording", "sending")
    /\ rows' = IF file(id) THEN [rows EXCEPT ![id].sha = TRUE, ![id].local = "pending"] ELSE rows
    /\ LET old == IF file(id) THEN {rows[id].prev} \cap files ELSE {}
       IN /\ removing' = [p \in Ids |-> IF p \in old THEN [at |-> "queue", sha |-> rows[p].sha] ELSE removing[p]]
          /\ asked' = asked \cup old
          /\ edited' = [p \in Ids |-> IF p \in old THEN id ELSE edited[p]]
    /\ UNCHANGED <<copies, deletes, stones, url, approval, disk, running, gone, mirror, back,
                   reachable, world, cut, unused, troubles>>

\* set_envelope, set_media_type and set_local; the key list's entry is
\* KeyList's business.  The turn ends here.
encrypt_record(id) ==
    /\ Enc(id, "recording", "sending")
    /\ rows' = set_envelope(id, set_local(id, "pending"))
    /\ UNCHANGED <<copies, deletes, stones, url, approval, disk, running, gone, mirror, back,
                   removing, reachable, world, history, troubles>>

-----------------------------------------------------------------------------
(* The local node *)

\* complete_edit: the version that a kept edit replaces is removed.
Superseded(id) ==
    IF file(id) THEN {rows[id].prev} \cap {p \in files : removing[p].at = "idle"} ELSE {}

complete_edit(id) ==
    /\ removing' = [p \in Ids |-> IF p \in Superseded(id) THEN [at |-> "queue", sha |-> rows[p].sha]
                                  ELSE removing[p]]
    /\ asked' = asked \cup Superseded(id)
    /\ edited' = [p \in Ids |-> IF p \in Superseded(id) THEN id ELSE edited[p]]

\* upload_local, up to the request: the outbox file is open from here.
CanPut(id) == file(id) /\ rows[id].sha /\ local_endpoint /\ file_body(id)

\* upload_local, the answer.
Put(id) ==
    /\ local_endpoint
    /\ stored' = upload("local", id)
    /\ rows' = set_local(id, "ok")
    /\ outbox' = outbox \ {id}
    /\ IF online_endpoint THEN UNCHANGED <<removing, asked, edited>> ELSE complete_edit(id)
    /\ UNCHANGED <<copies, deletes, stones, url, approval, keys, running, gone, back,
                   reachable, up, granted, cut, unused, troubles>>

PutFails ==
    /\ ~local_endpoint
    /\ UNCHANGED <<index, disk, running, gone, back, removing, reachable, world,
                   history, troubles>>

encrypt_upload(id) ==
    \/ /\ Enc(id, "sending", IF CanPut(id) THEN "sent" ELSE "idle")
       /\ UNCHANGED <<index, disk, running, gone, mirror, back, removing, reachable,
                      world, history, troubles>>
    \/ Enc(id, "sent", "idle") /\ (Put(id) \/ PutFails) /\ UNCHANGED mirror

-----------------------------------------------------------------------------
(* The mirror loop *)

Mirror(from, to) == running /\ mirror.at = from /\ mirror' = to

Pending == {i \in files : rows[i].local = "pending"}

\* Envelopes waiting for the local node come first.
mirror_pass ==
    /\ Pending # {}
    /\ Mirror("rest", [Rest EXCEPT !.at = "locals", !.todo = Pending])
    /\ UNCHANGED <<index, disk, running, gone, enc, back, removing, reachable, world, history, troubles>>

mirror_upload_local ==
    \/ \E id \in mirror.todo :
         /\ Mirror("locals", IF CanPut(id)
                             THEN [mirror EXCEPT !.at = "sending", !.todo = @ \ {id}, !.id = id]
                             ELSE [mirror EXCEPT !.todo = @ \ {id}])
         /\ UNCHANGED <<index, disk, running, gone, enc, back, removing, reachable,
                        world, history, troubles>>
    \/ /\ Mirror("sending", [mirror EXCEPT !.at = "locals", !.id = None])
       /\ Put(mirror.id) \/ PutFails
       /\ UNCHANGED enc

\* A failed copy is due when its back-off is over.
Due ==
    {i \in files : /\ rows[i].sha /\ rows[i].local \notin {"unreadable", "encrypting"}
                   /\ rows[i].online \in {"queued", "waiting", "failed"}}

BackingOff == {i \in Due : rows[i].online = "failed"}

\* The next file of the pass; after the last the loop rests.
NextDue(todo) == IF todo = {} THEN Rest ELSE [Rest EXCEPT !.at = "due", !.todo = todo]

\* Without an approval the files wait; otherwise each is copied in turn.
mirror_due(due) ==
    /\ mirror.todo = {} /\ mirror.at \in {"rest", "locals"}
    /\ mirror.at = "rest" => Pending = {} /\ due # {}
    /\ Mirror(mirror.at, IF writable_online THEN NextDue(due) ELSE Rest)
    /\ rows' = IF writable_online \/ ~online_endpoint THEN rows
               ELSE [i \in Ids |-> IF i \in due THEN [rows[i] EXCEPT !.online = "waiting"] ELSE rows[i]]
    /\ mirror.at = "rest" => mirror' # mirror \/ rows' # rows
    /\ UNCHANGED <<copies, deletes, stones, url, approval, disk, running, gone, enc, back, removing,
                   reachable, world, history, troubles>>

\* What is sent: the local node's copy, or the outbox file.
Body(id) == IF rows[id].local = "ok" /\ local_endpoint THEN relay_body(id) ELSE file_body(id)

upload_online ==
    \E id \in mirror.todo :
      LET next == NextDue(mirror.todo \ {id})
      IN /\ IF file(id) /\ rows[id].sha /\ writable_online
            THEN IF Body(id)
                 THEN /\ Mirror("due", [at |-> "copying", todo |-> mirror.todo \ {id}, id |-> id, node |-> url])
                      /\ rows' = set_online(id, "copying")
                 ELSE Mirror("due", next) /\ rows' = set_online(id, "failed")
            ELSE Mirror("due", next) /\ UNCHANGED rows
         /\ UNCHANGED <<copies, deletes, stones, url, approval, disk, running, gone, enc, back,
                        removing, reachable, world, history, troubles>>

\* The node has the whole body.
upload_lands ==
    /\ Mirror("copying", [mirror EXCEPT !.at = "copied"])
    /\ mirror.node \in up \cap granted
    /\ stored' = upload(mirror.node, mirror.id)
    /\ UNCHANGED <<index, disk, running, gone, enc, back, removing, reachable, up,
                   granted, history, troubles>>

\* HEAD confirms it.
upload_confirmed ==
    /\ Mirror("copied", NextDue(mirror.todo))
    /\ health(mirror.node)
    /\ IF head(mirror.node, mirror.id)
       THEN /\ rows' = set_online(mirror.id, "ok")
            /\ copies' = add_online_copy(mirror.id, mirror.node)
            /\ complete_edit(mirror.id)
       ELSE rows' = set_online(mirror.id, "failed") /\ UNCHANGED <<copies, removing, asked, edited>>
    /\ UNCHANGED <<deletes, stones, url, approval, disk, running, gone, enc, back,
                   reachable, world, cut, unused, troubles>>

\* No answer, no approval, no space, or anything else.
upload_fails ==
    /\ mirror.at \in {"copying", "copied"} /\ Mirror(mirror.at, NextDue(mirror.todo))
    /\ \/ /\ ~health(mirror.node)
          /\ rows' = set_online(mirror.id, "waiting") /\ reachable' = FALSE
          /\ UNCHANGED <<approval, troubles>>
       \/ /\ mirror.at = "copying" /\ mirror.node \in up \ granted
          /\ rows' = set_online(mirror.id, "waiting") /\ approval' = refresh_grant
          /\ UNCHANGED <<reachable, troubles>>
       \/ /\ mirror.at = "copying" /\ Fault
          /\ \E s \in {"full", "failed"} : rows' = set_online(mirror.id, s)
          /\ UNCHANGED <<approval, reachable>>
    /\ UNCHANGED <<copies, deletes, stones, url, disk, running, gone, enc, back, removing, world, history>>

-----------------------------------------------------------------------------
(* Checks of the nodes *)

\* check_copies: only a node's answer says that a copy is missing.
check_copies(id, node) ==
    /\ running /\ file(id) /\ rows[id].sha
    /\ health(node) /\ ~head(node, id)
    /\ \/ node = "local" /\ rows[id].local = "ok" /\ rows' = set_local(id, "missing")
       \/ node = url /\ rows[id].online = "ok" /\ rows' = set_online(id, "missing")
    /\ UNCHANGED <<copies, deletes, stones, url, approval, disk, memory, world, history, troubles>>

Requeued(states) ==
    [i \in Ids |-> IF file(i) /\ rows[i].online \in states THEN [rows[i] EXCEPT !.online = "queued"]
                   ELSE rows[i]]

\* A node that comes back is tried again at once.
check_online ==
    /\ running /\ online_endpoint
    /\ reachable' = health(url)
    /\ rows' = IF health(url) /\ ~reachable THEN Requeued({"waiting", "failed"}) ELSE rows
    /\ UNCHANGED <<copies, deletes, stones, url, approval, disk, running, gone, enc, mirror, back,
                   removing, world, history, troubles>>

\* "Try again" for one file or for all of them.
retry ==
    /\ running
    /\ rows' = Requeued({"failed", "missing", "waiting", "full"}) /\ rows' # rows
    /\ UNCHANGED <<copies, deletes, stones, url, approval, disk, memory, world, history, troubles>>

copy_back(id) ==
    /\ running /\ file(id) /\ rows[id].local = "missing" /\ back[id] = "idle"
    /\ rows' = set_local(id, "restoring")
    /\ back' = [back EXCEPT ![id] = "copying"]
    /\ UNCHANGED <<copies, deletes, stones, url, approval, disk, running, gone, enc, mirror,
                   removing, reachable, world, history, troubles>>

\* The online node's copy is streamed into the local node.
copy_online_to_local(id) ==
    LET copied == file(id) /\ health(url) /\ local_endpoint /\ head(url, id)
    IN /\ running /\ back[id] = "copying"
       /\ back' = [back EXCEPT ![id] = "idle"]
       /\ stored' = IF copied THEN upload("local", id) ELSE stored
       /\ rows' = set_local(id, IF copied THEN "ok" ELSE "missing")
       /\ UNCHANGED <<copies, deletes, stones, url, approval, disk, running, gone, enc, mirror,
                      removing, reachable, up, granted, history, troubles>>

-----------------------------------------------------------------------------
(* The online node and its approval *)

requeue_all_online ==
    [i \in Ids |-> IF file(i) /\ rows[i].local # "unreadable" THEN [rows[i] EXCEPT !.online = "queued"]
                   ELSE rows[i]]

set_online_node(node) ==
    /\ running /\ node # url /\ Fault
    /\ url' = node
    /\ approval' = "none"
    /\ IF node = None
       THEN /\ rows' = [i \in Ids |-> IF file(i) THEN [rows[i] EXCEPT !.online = "none"] ELSE rows[i]]
            /\ UNCHANGED reachable
       ELSE rows' = requeue_all_online /\ reachable' = TRUE
    /\ UNCHANGED <<copies, deletes, stones, disk, running, gone, enc, mirror, back, removing, world, history>>

\* The 6-hourly look at the approval.
check_grant ==
    /\ running /\ approval' = refresh_grant /\ approval' # approval
    /\ UNCHANGED <<rows, copies, deletes, stones, url, disk, memory, world, history, troubles>>

\* run_approval: the owner's signer approves and the node takes the grant.
approve_device ==
    /\ running /\ health(url) /\ approval # "active"
    /\ granted' = granted \cup {url} /\ approval' = "active"
    /\ UNCHANGED <<rows, copies, deletes, stones, url, disk, running, gone, enc, mirror, back,
                   removing, reachable, stored, up, history, troubles>>

-----------------------------------------------------------------------------
(* Removal *)

\* remove_row reads the row ...
Begin(ids) ==
    /\ removing' = [i \in Ids |-> IF i \in ids THEN [at |-> "queue", sha |-> rows[i].sha]
                                  ELSE removing[i]]
    /\ asked' = asked \cup ids

remove(id) ==
    /\ running /\ file(id) /\ removing[id].at = "idle"
    /\ Cardinality(asked \cup {id}) <= MaxRemovals
    /\ Begin({id})
    /\ UNCHANGED <<index, disk, running, gone, enc, mirror, back, reachable, world,
                   edited, cut, unused, troubles>>

\* ... marks it for an encryption still running, queues the deletions of the
\* copies that this computer's key claims ...
Queued(ids) ==
    deletes \cup UNION {queue_delete({"local"} \cup online_copies(i), i) :
                          i \in {j \in ids : removing[j].sha}}

\* ... makes the tombstone durable before the key goes, which the keychain may
\* refuse, and deletes the outbox file and the row last.
remove_row(id) ==
    /\ running /\ removing[id].at = "queue"
    /\ removing' = [removing EXCEPT ![id] = Idle]
    /\ gone' = gone \cup {id}
    /\ deletes' = Queued({id})
    /\ stones' = add_tombstone(id)
    /\ \/ keys' = keys \ {id} /\ outbox' = outbox \ {id} /\ delete_file(id) /\ UNCHANGED troubles
       \/ Fault /\ UNCHANGED <<rows, copies, disk>>
    /\ UNCHANGED <<url, approval, running, enc, mirror, back, reachable, world, history>>

\* Mutant: a row whose key is gone already is taken to be removed.
apply_key_list_Keyed ==
    LET left == {i \in files \cap stones \cap keys : removing[i].at = "idle"}
    IN /\ running /\ left # {}
       /\ Begin(left)
       /\ UNCHANGED <<index, disk, running, gone, enc, mirror, back, reachable, world, edited, cut,
                      unused, troubles>>

\* The key list is reconciled with the tombstones and applied to the rows: a
\* row that a cut-off removal left is removed again.  A sync runs after every
\* start and change, a pull whenever the online node answers.
apply_key_list ==
    LET left == {i \in files \cap stones : removing[i].at = "idle"}
    IN /\ running /\ left # {}
       /\ Begin(left)
       /\ UNCHANGED <<index, disk, running, gone, enc, mirror, back, reachable, world, edited, cut, unused,
                      troubles>>

\* run_pending_deletes: a node answers (a copy already gone counts) and the
\* deletion is finished in the index, unless the answer is lost.
delete_answered(d) ==
    /\ running /\ d \in deletes
    /\ health(d[1]) /\ (d[1] # "local" => d[1] \in granted)
    /\ stored' = delete(d[1], d[2])
    /\ \/ deletes' = finish_delete(d) /\ UNCHANGED troubles
       \/ Fault /\ UNCHANGED deletes
    /\ UNCHANGED <<rows, copies, stones, url, approval, disk, memory, up, granted, history>>

\* Refused, and the node says the approval has ended: its claims are the
\* owner's now.
delete_refused(d) ==
    /\ running /\ d \in deletes
    /\ d[1] # "local" /\ health(d[1]) /\ grant_status(d[1]) # "active"
    /\ deletes' = finish_delete(d)
    /\ UNCHANGED <<rows, copies, stones, url, approval, disk, memory, world, history, troubles>>

-----------------------------------------------------------------------------
(* Crashes, restarts and the nodes *)

\* A crash ends every task.  It cuts a removal off after its deletions are
\* queued, after its tombstone or after its key is gone, and an encryption
\* after its key is stored.
Crash ==
    /\ running /\ Fault
    /\ running' = FALSE /\ gone' = {} /\ reachable' = TRUE
    /\ enc' = [id \in Ids |-> "idle"] /\ back' = [id \in Ids |-> "idle"]
    /\ removing' = [id \in Ids |-> Idle] /\ mirror' = Rest
    /\ cut' = cut \cup {id \in Ids : enc[id] # "idle"}
    /\ \E queued \in SUBSET {id \in Ids : removing[id].at = "queue"},
          stored_key \in SUBSET {id \in Ids : enc[id] = "keeping"} :
         \E tomb \in SUBSET queued : \E key \in SUBSET tomb :
           /\ deletes' = Queued(queued)
           /\ stones' = stones \cup tomb
           /\ keys' = (keys \cup stored_key) \ key
    /\ UNCHANGED <<rows, copies, url, approval, outbox, world, asked, edited, unused>>

CutOffImports == {i \in files : rows[i].local = "encrypting" /\ rows[i].linked}

\* Mutant: an upload that a crash cut off stays "copying".
Recovered_Copying(i) ==
    LET r == rows[i]
    IN CASE r.local = "encrypting" -> [r EXCEPT !.local = "unreadable"]
         [] r.local = "restoring" -> [r EXCEPT !.local = "missing"]
         [] OTHER -> r

\* forget_cut_off_import gives an edit's link back to the version it was
\* replacing; the other rows show what was left undone.
Recovered(i) ==
    LET r == rows[i]
    IN CASE r.local = "encrypting" -> [r EXCEPT !.local = "unreadable"]
         [] r.local = "restoring" -> [r EXCEPT !.local = "missing"]
         [] r.online = "copying" /\ r.local \notin {"encrypting", "restoring"} ->
              [r EXCEPT !.online = "queued"]
         [] OTHER -> r

\* Mutant: start keeps the envelopes of rows that the local node has, not those
\* that wait for it.
Unsent_None == {i \in outbox : file(i) /\ rows[i].local = "ok"}

\* sweep_orphan_outbox keeps what still waits for the local node.
Unsent == {i \in outbox : file(i) /\ rows[i].local = "pending"}

start ==
    LET back_to == {rows[i].prev : i \in CutOffImports} \ {None}
    IN /\ ~running /\ running' = TRUE
       /\ rows' = [i \in Ids |->
                     IF ~file(i) \/ i \in CutOffImports THEN None
                     ELSE IF i \in back_to THEN [Recovered(i) EXCEPT !.linked = TRUE]
                     ELSE Recovered(i)]
       /\ copies' = {c \in copies : c[1] \notin CutOffImports}
       /\ keys' = keys \ CutOffImports
       /\ outbox' = Unsent
       /\ UNCHANGED <<deletes, stones, url, approval, gone, enc, mirror, back, removing,
                      reachable, world, history, troubles>>

node_changes ==
    /\ \/ \E n \in Nodes : /\ up' = (up \ {n}) \cup ({n} \ up)
                           /\ IF n \in up THEN Fault ELSE UNCHANGED troubles
                           /\ UNCHANGED <<stored, granted>>
       \/ \E o \in granted : granted' = granted \ {o} /\ Fault /\ UNCHANGED <<stored, up>>
       \/ \E n \in Nodes : \E id \in stored[n] :   \* one of the copies of a file is lost
            /\ id \in outbox \/ \E m \in Nodes \ {n} : id \in stored[m]
            /\ Fault /\ stored' = [stored EXCEPT ![n] = @ \ {id}] /\ UNCHANGED <<up, granted>>
    /\ UNCHANGED <<index, disk, memory, history>>

EncryptStep(id) ==
    \/ encrypt_begin(id) \/ encrypt_sealed(id) \/ encrypt_keep(id) \/ encrypt_record(id)
    \/ encrypt_upload(id)

MirrorStep ==
    \/ mirror_pass \/ mirror_upload_local \/ upload_online \/ upload_lands
    \/ upload_confirmed \/ upload_fails

Next ==
    \/ \E id \in Ids : \/ add_paths(id) \/ import_folder_file(id) \/ EncryptStep(id)
                     \/ copy_back(id) \/ copy_online_to_local(id) \/ remove(id) \/ remove_row(id)
    \/ MirrorStep \/ \E waiting \in SUBSET BackingOff : mirror_due(Due \ waiting)
    \/ \E id \in Ids, n \in Nodes : check_copies(id, n)
    \/ check_online \/ retry \/ check_grant \/ approve_device \/ \E n \in Origins \cup {None} : set_online_node(n)
    \/ apply_key_list
    \/ \E d \in deletes : delete_answered(d) \/ delete_refused(d)
    \/ Crash \/ start \/ node_changes

\* The tasks run, the workers loop and the app is started again; a back-off
\* comes to its end.
Fairness ==
    /\ WF_vars(start) /\ WF_vars(apply_key_list) /\ WF_vars(MirrorStep)
    /\ SF_vars(mirror_due(Due))
    /\ \A id \in Ids : WF_vars(EncryptStep(id)) /\ WF_vars(remove_row(id))

Spec == Init /\ [][Next]_vars /\ Fairness

-----------------------------------------------------------------------------
(* Properties *)

\* The key and an envelope of a file are there.
Readable(id) ==
    /\ file(id) /\ rows[id].sha /\ id \in keys
    /\ id \in outbox \/ \E n \in Nodes : id \in stored[n]

status ==
    [id \in Ids |-> IF id \in asked THEN IF file(id) THEN "asked" ELSE "gone"
                    ELSE IF Readable(id) THEN "kept" ELSE "new"]

Abstract == INSTANCE Kept

\* Whatever crashes, uploads, copies back and deletions do, a file that was
\* kept can be read back until its removal begins (encrypt_and_keep,
\* upload_local, copy_back, remove_row, start), as Kept promises.
KeptUntilRemoved == Abstract!Spec

\* A file removed while it was being encrypted leaves no key behind
\* (encrypt_and_keep looks at removed_ids twice), unless the app ended while
\* its encryption ran.
RemovedKeyGone ==
    \A id \in Ids : (id \in stones /\ ~file(id) /\ enc[id] = "idle" /\ id \notin cut) => id \notin keys

\* The version an edit replaces is only removed once the edit can be read
\* back from a node (complete_edit), or is being removed itself: the owner
\* always has one of the two.
EditSafe ==
    [][\A p, id \in Ids : (edited[p] # id /\ edited'[p] = id) =>
           (id \in asked \/ (Readable(id)' /\ \E n \in Nodes : id \in stored'[n]))]_vars

\* A removal whose tombstone is durable is finished, after a crash or a
\* keychain that failed: the next key list sync takes the row up again.
RemovalFinishes ==
    \A id \in Ids : (id \in stones) ~> ~file(id)

\* A queued file reaches the online node (mirror_pass, upload_online), as
\* long as both nodes answer, the approval lasts, there is a copy here to send
\* and its removal has not begun.
Mirrored ==
    \A id \in Ids :
        (file(id) /\ rows[id].online = "queued") ~>
            (~file(id) \/ id \in asked \/ rows[id].online \in {"ok", "none", "full"}
               \/ rows[id].local \in {"unreadable", "missing", "restoring"}
               \/ id \notin outbox \cup stored["local"]
               \/ ~({"local", url} \subseteq up) \/ ~writable_online \/ url \notin granted)

\* What was begun finishes: removals whose tombstone is durable, and uploads.
Finishes == RemovalFinishes /\ Mirrored
=============================================================================
