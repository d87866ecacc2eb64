------------------------------- MODULE KeyList -------------------------------
(***************************************************************************)
(* The key list that the owner's computers share through the online node   *)
(* (desktop/src-tauri/src/drop/keysync.rs, device.rs): a sealed list of     *)
(* the kept files and of the removed ones.  Each computer seals its own    *)
(* list, merges the copies it finds, uploads the result and deletes the    *)
(* copies that the result replaces; a pull merges without publishing.      *)
(* Syncs and pulls of one computer take turns (the keysync lock), hold the *)
(* in-memory list only while they merge, and race the owner's additions    *)
(* and removals and the other computers.                                   *)
(*                                                                         *)
(* An entry never changes, so a list is its seq, the ids of its entries    *)
(* and the ids of its tombstones.                                          *)
(***************************************************************************)
EXTENDS Naturals, FiniteSets, FiniteSetsExt

CONSTANTS
    Computers, Ids, None, Bad,
    Owner,        \* the computer that each file is added on
    Kept,         \* the files that are there, and online, at the start
    MaxSeq,       \* no list is sealed past this
    MaxChanges    \* additions, removals, crashes, outages and old copies

ASSUME IdsAssumption == Owner \in [Ids -> Computers] /\ Kept \subseteq Ids
ASSUME BoundAssumption == MaxSeq \in Nat /\ MaxChanges \in Nat

VARIABLES
    rows,      \* the files of each computer's index that have an envelope and a key
    stones,    \* the index's tombstones
    removing,  \* removals that wait for the in-memory list
    file,      \* the sealed copy on disk: a list, None or Bad
    last_seen, \* LAST_SEEN_SEQ
    slot,      \* the list in memory
    own,       \* KEY_LIST_ONLINE_SHA
    deletes,   \* queued deletions of copies
    pulled,    \* copies already merged
    pending, wake,
    task,      \* the sync or pull under way
    copies,    \* the sealed lists on the online node
    blobs,     \* the files on the online node
    ever,      \* every list that was on the online node
    changes    \* how much has happened

index == <<rows, stones, last_seen, own, deletes, pending>>
memory == <<removing, slot, pulled, wake, task>>
node == <<copies, blobs, ever>>
vars == <<index, file, memory, node, changes>>

\* from_canonical_json: no id is both an entry and a tombstone.
List == {l \in [seq: 0..MaxSeq, files: SUBSET Ids, removed: SUBSET Ids] : l.files \cap l.removed = {}}
Copy == [by: Computers, list: List]
Idle == [at |-> "idle"]

ASSUME RecordAssumption == None \notin List \cup Copy /\ Bad \notin List /\ None # Bad

\* What a sync or a pull holds at each of its steps.
Task ==
    {Idle} \cup [at: {"list"}, list: List, sealed: BOOLEAN]
    \cup [at: {"upload"}, list: List, away: SUBSET Copy]
    \cup [at: {"deletes"}, list: List]
    \cup [at: {"read"}, opened: (SUBSET Copy) \ {{}}]

TypeOK ==
    /\ rows \in [Computers -> SUBSET Ids] /\ stones \in [Computers -> SUBSET Ids]
    /\ removing \in [Computers -> SUBSET Ids]
    /\ file \in [Computers -> List \cup {None, Bad}]
    /\ last_seen \in [Computers -> 0..MaxSeq] /\ slot \in [Computers -> List \cup {None}]
    /\ own \in [Computers -> Copy \cup {None}]
    /\ deletes \in [Computers -> SUBSET Copy] /\ pulled \in [Computers -> SUBSET Copy]
    /\ pending \in [Computers -> BOOLEAN] /\ wake \in [Computers -> BOOLEAN]
    /\ task \in [Computers -> Task]
    /\ copies \subseteq Copy /\ blobs \subseteq Ids /\ ever \subseteq Copy

Init ==
    /\ rows = [c \in Computers |-> {i \in Kept : Owner[i] = c}] /\ stones = [c \in Computers |-> {}]
    /\ removing = [c \in Computers |-> {}] /\ file = [c \in Computers |-> None]
    /\ last_seen = [c \in Computers |-> 0] /\ slot = [c \in Computers |-> None]
    /\ own = [c \in Computers |-> None] /\ deletes = [c \in Computers |-> {}]
    /\ pulled = [c \in Computers |-> {}] /\ pending = [c \in Computers |-> FALSE]
    /\ wake = [c \in Computers |-> \E i \in Kept : Owner[i] = c] /\ task = [c \in Computers |-> Idle]
    /\ copies = {} /\ blobs = Kept /\ ever = {} /\ changes = 0

Bounded == changes < MaxChanges /\ changes' = changes + 1

-----------------------------------------------------------------------------
(* KeyList (device.rs) *)

new == [seq |-> 0, files |-> {}, removed |-> {}]

\* An id that has a tombstone is never added again.
insert(l, ids) == [l EXCEPT !.files = @ \cup (ids \ l.removed)]

remove(l, ids) == [seq |-> l.seq, files |-> l.files \ ids, removed |-> l.removed \cup ids]

\* The same entries and tombstones, whatever the seq.
same_content(a, b) == a.files = b.files /\ a.removed = b.removed

seal(l) == [l EXCEPT !.seq = @ + 1]

\* Mutant: a tombstone only counts in the copy that holds it.
merge_Own(lists) ==
    [seq |-> Max({l.seq : l \in lists}), files |-> UNION {l.files : l \in lists},
     removed |-> (UNION {l.removed : l \in lists}) \ UNION {l.files : l \in lists}]

\* Tombstones are unioned and remove their entries from every copy; the seq
\* is the highest of all.
merge(lists) ==
    [seq |-> Max({l.seq : l \in lists}),
     files |-> (UNION {l.files : l \in lists}) \ UNION {l.removed : l \in lists},
     removed |-> UNION {l.removed : l \in lists}]

-----------------------------------------------------------------------------
(* One computer's list *)

\* The in-memory list is locked from the start of a sync until it is sealed,
\* and while a pull merges (one step here).
locked(c) == task[c].at = "list"

\* Mutant: removals that the index recorded are not applied.
reconcile_key_list_Rows(c, l) == insert(l, rows[c])

\* The recorded removals, then every row with a key; a row whose removal has
\* begun has none.
reconcile_key_list(c, l) == insert(remove(l, stones[c]), rows[c] \ removing[c])

\* load_key_list fails on a copy that cannot be opened or is older than one
\* already seen.
Unloadable(c) ==
    IF slot[c] # None THEN FALSE
    ELSE IF file[c] = Bad THEN TRUE
    ELSE IF file[c] = None THEN FALSE ELSE file[c].seq < last_seen[c]

load_key_list(c) ==
    IF slot[c] # None THEN slot[c]
    ELSE reconcile_key_list(c, IF file[c] = None THEN new ELSE file[c])

\* seal_locally: the sealed copy and its seq on this computer.
seal_locally(c, l) ==
    /\ l.seq < MaxSeq
    /\ file' = [file EXCEPT ![c] = seal(l)]
    /\ last_seen' = [last_seen EXCEPT ![c] = l.seq + 1]

\* sync_key_list up to the network: durable on this computer first.
sync_begin(c) ==
    LET l == reconcile_key_list(c, IF Unloadable(c) THEN new ELSE load_key_list(c))
    IN /\ task[c] = Idle /\ wake[c]
       /\ wake' = [wake EXCEPT ![c] = FALSE]
       /\ IF l.seq >= last_seen[c]
          THEN /\ seal_locally(c, l)
               /\ slot' = [slot EXCEPT ![c] = seal(l)]
               /\ task' = [task EXCEPT ![c] = [at |-> "list", list |-> seal(l), sealed |-> TRUE]]
          ELSE /\ task' = [task EXCEPT ![c] = [at |-> "list", list |-> l, sealed |-> FALSE]]
               /\ UNCHANGED <<file, last_seen, slot>>
       /\ UNCHANGED <<rows, stones, own, deletes, pending, removing, pulled, node, changes>>

\* What the merge of the online copies makes of this computer's list.
Merged(c, found) ==
    LET l == task[c].list
        m == merge({l} \cup {k.list : k \in found})
    IN IF found # {} /\ m.seq >= last_seen[c] /\ m # l THEN [list |-> m, sealed |-> FALSE]
       ELSE [list |-> l, sealed |-> task[c].sealed]

Behind(c, l) == l.seq < last_seen[c]

\* The online copies are read and merged, and the result is sealed; a list
\* behind the last one seen waits for the copies.  The lock on the list ends.
sync_merge(c, found) ==
    LET m == Merged(c, found)
        out == IF m.sealed THEN m.list ELSE seal(m.list)
    IN /\ task[c].at = "list"
       /\ IF Behind(c, m.list)
          THEN /\ task' = [task EXCEPT ![c] = Idle]
               /\ pending' = [pending EXCEPT ![c] = TRUE]
               /\ UNCHANGED <<file, last_seen, slot>>
          ELSE /\ IF m.sealed THEN UNCHANGED <<file, last_seen>> ELSE seal_locally(c, m.list)
               /\ slot' = [slot EXCEPT ![c] = out]
               /\ task' = [task EXCEPT ![c] = [at |-> "upload", list |-> out, away |-> found]]
               /\ UNCHANGED pending
       /\ UNCHANGED <<rows, stones, own, deletes, removing, pulled, wake, node>>

sync_reads(c) == sync_merge(c, copies) /\ UNCHANGED changes

sync_reads_nothing(c) == sync_merge(c, {}) /\ Bounded

\* Mutant: the copies that were merged go before the upload is known to be good.
Replaced_Early(c, ok) == task[c].away \cup ({own[c]} \ {None})

\* Once the new copy is stored, the ones it replaces are deleted.
Replaced(c, ok) == IF ok THEN task[c].away \cup ({own[c]} \ {None}) ELSE {}

sync_upload(c, ok) ==
    LET copy == [by |-> c, list |-> task[c].list]
    IN /\ task[c].at = "upload"
       /\ copies' = IF ok THEN copies \cup {copy} ELSE copies
       /\ ever' = ever \cup copies'
       /\ own' = IF ok THEN [own EXCEPT ![c] = copy] ELSE own
       /\ deletes' = [deletes EXCEPT ![c] = @ \cup (Replaced(c, ok) \ {copy})]
       /\ pending' = [pending EXCEPT ![c] = ~ok]
       /\ task' = [task EXCEPT ![c] = [at |-> "deletes", list |-> task[c].list]]
       /\ IF ok THEN UNCHANGED changes ELSE Bounded
       /\ UNCHANGED <<rows, stones, last_seen, file, removing, slot, pulled, wake, blobs>>

\* Mutant: a file removed here is not told from one that never was here.
Adoptable_Again(c, l) == {i \in l.files \ rows[c] : i \in blobs}

\* Entries without a row or a tombstone here, whose online copy is there.
Adoptable(c, l) == {i \in l.files \ (rows[c] \cup stones[c]) : i \in blobs}

\* apply_key_list: a tombstone removes its row, an entry gets one.
apply_key_list(c, l) ==
    LET gone == (l.removed \cap rows[c]) \ removing[c]
    IN /\ rows' = [rows EXCEPT ![c] = (@ \ gone) \cup Adoptable(c, l)]
       /\ stones' = [stones EXCEPT ![c] = @ \cup gone]

\* run_pending_deletes; the copies go now or, after a restart, later.
run_pending_deletes(c) == copies' = copies \ deletes[c] /\ deletes' = [deletes EXCEPT ![c] = {}]

sync_end(c) ==
    /\ task[c].at = "deletes"
    /\ run_pending_deletes(c) /\ apply_key_list(c, task[c].list)
    /\ slot' = [slot EXCEPT ![c] = remove(@, stones'[c] \ stones[c])]
    /\ task' = [task EXCEPT ![c] = Idle]
    /\ UNCHANGED <<last_seen, own, pending, file, removing, pulled, wake, blobs, ever, changes>>

\* The copies that may count as the newest of those a pull read: of two with the
\* same number, the one the node names last.
newest(opened) == {k \in opened : \A j \in opened : j.list.seq <= k.list.seq}

\* A pull publishes only what this computer has and the newest copy lacks.
Publishes(now, merged, latest) == ~same_content(merged, now) /\ ~same_content(merged, latest)

\* pull_key_list: the copies that were not merged yet are read.
pull_begin(c) ==
    LET found == copies \ (pulled[c] \cup {own[c]})
    IN /\ task[c] = Idle /\ found # {}
       /\ task' = [task EXCEPT ![c] = [at |-> "read", opened |-> found]]
       /\ UNCHANGED <<index, file, removing, slot, pulled, wake, node, changes>>

\* They are merged: adopted when the newest says everything, published when
\* this computer adds something; then applied.  A list that cannot be loaded
\* is left to the next sync.
pull_merge(c, latest) ==
    LET opened == task[c].opened
        now == load_key_list(c)
        merged == merge({now} \cup {k.list : k \in opened})
        adds == ~same_content(merged, now)
        publish == Publishes(now, merged, latest)
        result == IF adds THEN merged ELSE now
    IN /\ task' = [task EXCEPT ![c] = Idle]
       /\ IF Unloadable(c)
          THEN /\ wake' = [wake EXCEPT ![c] = TRUE]
               /\ UNCHANGED <<index, file, slot, pulled>>
          ELSE /\ IF adds /\ ~publish /\ latest.seq > last_seen[c]
                  THEN /\ file' = [file EXCEPT ![c] = latest]
                       /\ last_seen' = [last_seen EXCEPT ![c] = latest.seq]
                  ELSE UNCHANGED <<file, last_seen>>
               /\ pending' = [pending EXCEPT ![c] = @ \/ publish]
               /\ wake' = [wake EXCEPT ![c] = @ \/ publish]
               /\ pulled' = [pulled EXCEPT ![c] = @ \cup opened]
               /\ apply_key_list(c, result)
               /\ slot' = [slot EXCEPT ![c] = remove(result, stones'[c] \ stones[c])]
               /\ UNCHANGED <<own, deletes>>
       /\ UNCHANGED <<removing, node, changes>>
pull_end(c) == task[c].at = "read" /\ \E k \in newest(task[c].opened) : pull_merge(c, k.list)

\* A pull always applies the list, so an entry whose file was not online yet
\* is looked at again.
pull_applies(c) ==
    /\ task[c] = Idle /\ copies \subseteq pulled[c] \cup {own[c]} /\ ~Unloadable(c)
    /\ apply_key_list(c, load_key_list(c))
    /\ slot' = [slot EXCEPT ![c] = remove(load_key_list(c), stones'[c] \ stones[c])]
    /\ UNCHANGED <<last_seen, own, deletes, pending, file, removing, pulled, wake, task, node, changes>>

\* A pending list is synced again on the next mirror pass.
mirror_wakes(c) ==
    /\ pending[c] /\ ~wake[c] /\ task[c] = Idle /\ wake' = [wake EXCEPT ![c] = TRUE]
    /\ UNCHANGED <<index, file, removing, slot, pulled, task, node, changes>>

-----------------------------------------------------------------------------
(* The owner, and what goes wrong *)

\* encrypt_and_keep ends: the row, its key and its entry.
add(i) ==
    LET c == Owner[i]
    IN /\ Bounded /\ i \notin rows[c] \cup stones[c] /\ ~locked(c)
       /\ rows' = [rows EXCEPT ![c] = @ \cup {i}]
       /\ slot' = [slot EXCEPT ![c] = IF Unloadable(c) THEN None ELSE insert(load_key_list(c), {i})]
       /\ wake' = [wake EXCEPT ![c] = TRUE]
       /\ UNCHANGED <<stones, last_seen, own, deletes, pending, file, removing, pulled, task, node>>

upload(i) ==
    /\ i \in rows[Owner[i]] \ removing[Owner[i]] /\ i \notin blobs
    /\ blobs' = blobs \cup {i}
    /\ UNCHANGED <<index, file, memory, copies, ever, changes>>

\* remove_row: the tombstone, then the key; the in-memory list and the row
\* wait for the lock.
remove_begin(c, i) ==
    /\ Bounded /\ i \in rows[c] \ removing[c]
    /\ stones' = [stones EXCEPT ![c] = @ \cup {i}]
    /\ removing' = [removing EXCEPT ![c] = @ \cup {i}]
    /\ UNCHANGED <<rows, last_seen, own, deletes, pending, file, slot, pulled, wake, task, node>>

remove_end(c, i) ==
    /\ i \in removing[c] /\ ~locked(c)
    /\ rows' = [rows EXCEPT ![c] = @ \ {i}]
    /\ removing' = [removing EXCEPT ![c] = @ \ {i}]
    /\ slot' = IF slot[c] = None THEN slot ELSE [slot EXCEPT ![c] = remove(@, {i})]
    /\ wake' = [wake EXCEPT ![c] = TRUE]
    /\ blobs' = IF Owner[i] = c THEN blobs \ {i} ELSE blobs
    /\ UNCHANGED <<stones, last_seen, own, deletes, pending, file, pulled, task, copies, ever, changes>>

\* The computer that put the online copy there deletes it once the tombstone
\* reaches it.
unclaim(i) ==
    /\ i \in blobs /\ i \in stones[Owner[i]] \ rows[Owner[i]]
    /\ blobs' = blobs \ {i}
    /\ UNCHANGED <<index, file, memory, copies, ever, changes>>

\* A crash and the next start, with the sealed copy as it was or damaged: a
\* removal that was cut off after its tombstone is finished by apply_key_list.
Crash(c) ==
    /\ Bounded
    /\ slot' = [slot EXCEPT ![c] = None] /\ pulled' = [pulled EXCEPT ![c] = {}]
    /\ removing' = [removing EXCEPT ![c] = {}]
    /\ wake' = [wake EXCEPT ![c] = TRUE] /\ task' = [task EXCEPT ![c] = Idle]
    /\ \E kept \in {file[c], Bad} : file' = [file EXCEPT ![c] = IF file[c] = None THEN None ELSE kept]
    /\ UNCHANGED <<index, node>>

\* The node brings an old copy back.
old_copy ==
    /\ Bounded /\ \E k \in ever \ copies : copies' = copies \cup {k}
    /\ UNCHANGED <<index, file, memory, blobs, ever>>

Syncs(c) ==
    \/ sync_begin(c) \/ sync_reads(c) \/ sync_upload(c, TRUE) \/ sync_end(c)

Pulls(c) == pull_begin(c) \/ pull_end(c) \/ pull_applies(c)

Next ==
    \/ \E c \in Computers : \/ Syncs(c) \/ Pulls(c) \/ mirror_wakes(c)
                            \/ sync_reads_nothing(c) \/ sync_upload(c, FALSE) \/ Crash(c)
    \/ \E i \in Ids : add(i) \/ upload(i) \/ unclaim(i)
    \/ \E c \in Computers, i \in Ids : remove_begin(c, i) \/ remove_end(c, i)
    \/ old_copy

\* The workers of every computer run and the online copies are uploaded.
Fairness ==
    /\ \A c \in Computers : WF_vars(Syncs(c)) /\ SF_vars(sync_begin(c)) /\ SF_vars(Pulls(c)) /\ WF_vars(mirror_wakes(c))
    /\ \A i \in Ids : WF_vars(upload(i)) /\ WF_vars(unclaim(i))
    /\ \A c \in Computers, i \in Ids : SF_vars(remove_end(c, i))

Spec == Init /\ [][Next]_vars /\ Fairness

-----------------------------------------------------------------------------
(* Properties *)

\* No computer takes back what it recorded as removed.
NotBackStep ==
    \A c \in Computers : rows'[c] \cap (stones[c] \ rows[c]) = {}

\* A removed file never comes back on a computer that recorded its removal,
\* whatever copies the node offers (has_tombstone in apply_key_list, merge).
NotBack == [][NotBackStep]_vars

\* What was published stays published: an entry that was in an online copy is
\* in one, and in none that is left only once some computer recorded its
\* removal (sync_key_list deletes a copy only after storing one that has all
\* it says).
StaysPublished ==
    \A k \in ever : \A i \in k.list.files :
        \/ \E j \in copies : i \in j.list.files
        \/ \E c \in Computers : i \in stones[c]

\* The sequence numbers seen and kept only grow.
SeqGrowsStep ==
    \A c \in Computers : last_seen'[c] >= last_seen[c]
      /\ (file'[c] # file[c] => file'[c] = Bad \/ file'[c].seq > last_seen[c])

\* No list is sealed at a seq that was already seen here (the rollback check
\* in sync_key_list).
SeqGrows == [][SeqGrowsStep]_vars

\* The sealed copy of c is lost and the node holds no copy as new as the last
\* one seen: c waits for one, and publishes nothing (the rollback check).
Stranded(c) == Unloadable(c) /\ \A k \in copies : k.list.seq < last_seen[c]

SomeStranded == \E c \in Computers : Stranded(c)

InAgreement ==
    LET gone == UNION {stones[d] : d \in Computers}
        all == UNION {rows[d] : d \in Computers}
    IN \A c \in Computers : rows[c] = all \ gone

\* Every computer comes to have the files that were added and not removed,
\* and no other, unless one lost its sealed list before the node had it
\* (keysync_loop, apply_key_list).
Agree == <>[]SomeStranded \/ <>[]InAgreement
=============================================================================
