------------------------------- MODULE Folder -------------------------------
(***************************************************************************)
(* The Wildbloom folder (desktop/src-tauri/src/drop/watch.rs, folder.rs,   *)
(* layout.rs): a readable copy of every kept file, which the owner changes *)
(* while a pass looks at it.  A pass scans the folder, infers deletions,   *)
(* takes in edits and new files, settles duplicates, renames what lost its *)
(* place and places what is missing; the owner may act between any two of  *)
(* its steps.  Removals by the owner or by another computer, and turning   *)
(* the folder on and off, wait for the pass (folder_lock); an encryption   *)
(* and the end of an edit do not.                                          *)
(*                                                                         *)
(* A file is its content and a stamp: together they stand for size and     *)
(* modification time.  The folder is flat; the k-th name that a clash      *)
(* gives the name n is <<n, k>>.  Times only matter as "held still for     *)
(* SETTLE", which settle makes true.                                       *)
(***************************************************************************)
EXTENDS Naturals, FiniteSets

CONSTANTS
    Names, Contents, None,
    Kept,        \* the content each name has when the model starts
    MaxId,       \* rows that are ever made
    MaxConflict, \* names a clash may give
    BrakeAny, BrakeFloor,
    MaxLosses,   \* times the folder's disk goes away
    MaxChanges   \* bound on what the owner, other computers and the disk do

ASSUME FolderAssumption ==
    /\ {MaxId, MaxConflict, BrakeAny, BrakeFloor, MaxLosses, MaxChanges} \subseteq Nat
    /\ Kept \in [Names -> Contents] /\ IsFiniteSet(Names) /\ Cardinality(Names) <= MaxId

VARIABLES
    rows,    \* the index's rows by id; ids grow with the time of adding
    made,    \* rows made so far
    held,    \* the index's held deletions
    enabled, \* the folder is on
    recent,  \* removal_window: deletions released in the last ten minutes
    missing, edits, candidates,   \* PassState
    pass,    \* where the pass is and what it found
    disk,    \* the files in the folder
    there,   \* "on", or the root is "gone", or an "empty" folder without the marker stands there
    trash,   \* files moved to the Trash
    taken,   \* history: files that a row was linked to
    strayed, \* history: rows missing or held whose file a pass really found gone
    losses, changes  \* what came from outside the engine so far

index == <<rows, made, held, enabled>>
memory == <<recent, missing, edits, candidates>>
folder == <<disk, there>>
bounds == <<losses, changes>>
vars == <<index, memory, pass, folder, trash, taken, strayed, bounds>>

Ids == 1..MaxId
Places == Names \X (0..MaxConflict)
File == [c: Contents, t: {0, 1}]
FileRecord ==
    [path: Places, plain: Contents, sealed: Contents \cup {None},
     local: {"encrypting", "ok", "unreadable"},
     link: Places \cup {None}, seen: File, prev: Ids \cup {None}, here: BOOLEAN]
Seen == [file: File, old: BOOLEAN] \cup {None}

ASSUME NoneAssumption ==
    None \notin Contents \cup Places \cup Ids \cup File \cup FileRecord \cup [file: File, old: BOOLEAN]

Pass ==
    [at: {"idle", "links", "edits", "new", "duplicates", "settled", "rename", "place"},
     scan: [Places -> File \cup {None}], edited: SUBSET [id: Ids, row: FileRecord],
     arrived: SUBSET Places, plan: [Ids -> Places \cup {None}], todo: SUBSET Ids,
     placing: Ids \cup {None}]

Nothing == [at |-> "idle", scan |-> [p \in Places |-> None], edited |-> {}, arrived |-> {},
            plan |-> [i \in Ids |-> None], todo |-> {}, placing |-> None]

TypeOK ==
    /\ rows \in [Ids -> FileRecord \cup {None}] /\ made \in 0..MaxId
    /\ held \subseteq Ids /\ enabled \in BOOLEAN /\ recent \in Nat
    /\ missing \in [Ids -> {"no", "once", "settled"}]
    /\ edits \in [Ids -> Seen] /\ candidates \in [Places -> Seen]
    /\ pass \in Pass
    /\ disk \in [Places -> File \cup {None}] /\ there \in {"on", "gone", "empty"}
    /\ trash \subseteq File /\ taken \subseteq File /\ strayed \subseteq Ids
    /\ losses \in 0..MaxLosses /\ changes \in 0..MaxChanges

Init ==
    LET first == CHOOSE f \in [1..Cardinality(Names) -> Names] : \A n \in Names : \E i \in DOMAIN f : f[i] = n
        row(i) == [path |-> <<first[i], 0>>, plain |-> Kept[first[i]], sealed |-> Kept[first[i]],
                   local |-> "ok", link |-> <<first[i], 0>>, seen |-> [c |-> Kept[first[i]], t |-> 0],
                   prev |-> None, here |-> TRUE]
    IN /\ made = Cardinality(Names)
       /\ rows = [i \in Ids |-> IF i <= made THEN row(i) ELSE None]
       /\ disk = [p \in Places |-> IF p[2] = 0 THEN [c |-> Kept[p[1]], t |-> 0] ELSE None]
       /\ taken = {[c |-> Kept[n], t |-> 0] : n \in Names}
       /\ held = {} /\ enabled = TRUE /\ recent = 0
       /\ missing = [i \in Ids |-> "no"] /\ edits = [i \in Ids |-> None]
       /\ candidates = [p \in Places |-> None]
       /\ pass = Nothing /\ there = "on" /\ trash = {}
       /\ strayed = {}
       /\ losses = 0 /\ changes = 0

Bounded == changes < MaxChanges /\ changes' = changes + 1 /\ UNCHANGED losses

-----------------------------------------------------------------------------
(* The index and the layout *)

live == {i \in Ids : rows[i] # None}

linked == {i \in live : rows[i].link # None}

linked_to(p) == {i \in linked : rows[i].link = p}

\* A version that a live edit at the same path replaces has no place; the
\* others are placed in the order they were added, and the earlier keeps the
\* clean name.
hidden == {i \in live : \E j \in live \ {i} : rows[j].prev = i /\ rows[j].path = rows[i].path}

conflict_name(p, busy) ==
    LET free == {k \in (p[2] + 1)..MaxConflict : <<p[1], k>> \notin busy}
    IN IF free = {} THEN None ELSE <<p[1], CHOOSE k \in free : \A j \in free : k <= j>>

give_place(so_far, n) ==
    LET p == rows[n].path
        winner == {i \in 1..(n - 1) : so_far.placed[i] = p}
        busy == {so_far.placed[i] : i \in 1..(n - 1)}
    IN IF winner = {} THEN [so_far EXCEPT !.placed[n] = p]
       ELSE IF \E w \in winner : rows[w].plain = rows[n].plain
       THEN [so_far EXCEPT !.duplicates[n] = CHOOSE w \in winner : TRUE]
       ELSE [so_far EXCEPT !.placed[n] = conflict_name(p, busy)]

\* The rows get their places one after another; L[n] holds the one layout of
\* the first n.
layout ==
    LET shown == live \ hidden
        L[n \in 0..MaxId] ==
          IF n = 0 THEN {[placed |-> [i \in Ids |-> None], duplicates |-> [i \in Ids |-> None]]}
          ELSE IF n \in shown THEN {give_place(so_far, n) : so_far \in L[n - 1]}
          ELSE L[n - 1]
    IN CHOOSE l \in L[MaxId] : TRUE

\* The place of each row, None if it has none.
placed == [i \in Ids |-> IF layout.placed[i] \in Places THEN layout.placed[i] ELSE None]

duplicates == layout.duplicates

\* The root holds this folder's marker.
available == there = "on"

\* What is at a place: an unmounted folder shows nothing, and a root that is
\* gone tells nothing.
stat(p) == IF there = "gone" THEN "unknown" ELSE IF there = "empty" \/ disk[p] = None THEN "missing" ELSE "present"

\* Linked rows whose file is not at its place, whether the folder can be seen or not.
away == {i \in linked : disk[rows[i].link] = None}

matches(i) == stat(rows[i].link) = "present" /\ disk[rows[i].link] = rows[i].seen

\* Rows without the ones in ids; what the pass remembers of them goes too.
Without(ids) == [i \in Ids |-> IF i \in ids THEN None ELSE rows[i]]

-----------------------------------------------------------------------------
(* The pass *)

\* A pass without its folder, or while it is off, forgets what it saw.
scan_without ==
    /\ pass.at = "idle" /\ (~enabled \/ ~available)
    /\ missing' = [i \in Ids |-> "no"] /\ edits' = [i \in Ids |-> None]
    /\ candidates' = IF enabled THEN candidates ELSE [p \in Places |-> None]
    /\ UNCHANGED <<index, recent, pass, folder, trash, taken, bounds, strayed>>

\* A scan that stopped at the item limit only forgets what was missing.
scan_truncated ==
    /\ pass.at = "idle" /\ enabled /\ available /\ Bounded
    /\ missing' = [i \in Ids |-> "no"]
    /\ UNCHANGED <<index, recent, edits, candidates, pass, folder, trash, taken, strayed>>

\* The regular files under the root, with their stamps.
walk == disk

\* folder_pass up to the second look at the marker.
scan ==
    /\ pass.at = "idle" /\ enabled /\ available
    /\ pass' = [Nothing EXCEPT !.at = "links", !.scan = walk]
    /\ UNCHANGED <<index, memory, folder, trash, taken, bounds, strayed>>

\* Held rows whose file is back are looked at again as every linked row is.
Back == {i \in held \cap linked : stat(rows[i].link) = "present"}

checks == {i \in linked : i \in held => i \in Back}

\* A file counts once it is the same as on an earlier pass at least SETTLE
\* ago.
settled(seen, file) == IF seen # None THEN seen.old /\ seen.file = file ELSE FALSE

\* A file seen for the first time, or changed since, starts to settle.
remember(seen, file) == IF seen # None /\ seen.file = file THEN seen ELSE [file |-> file, old |-> FALSE]

Changed == {i \in checks : stat(rows[i].link) = "present" /\ ~matches(i)}

edited == {i \in Changed : settled(edits[i], disk[rows[i].link]) /\ rows[i].local # "encrypting"}

importing == \E i \in linked : rows[i].local = "encrypting"

\* Mutant: one miss is enough.
infer_missing_Once ==
    {i \in checks : stat(rows[i].link) = "missing" /\ ~importing}

\* A linked file counts as deleted when two scans at least SETTLE apart
\* missed it and no import is being encrypted.
infer_missing ==
    {i \in checks : stat(rows[i].link) = "missing" /\ ~importing /\ missing[i] = "settled"}

still_missing ==
    [i \in Ids |-> IF i \notin checks \/ stat(rows[i].link) # "missing" THEN "no"
                   ELSE IF importing \/ missing[i] # "no" THEN missing[i] ELSE "once"]

\* Its content is still in the folder: a linked file with the same plaintext
\* as last seen, or a file nobody knows with its size and time.
still_here(i) ==
    \/ \E j \in checks : matches(j) /\ rows[j].plain = rows[i].plain
    \/ \E p \in Places : pass.scan[p] = rows[i].seen /\ linked_to(p) = {}

moved_held == {i \in (held \cap linked) \ Back : stat(rows[i].link) = "missing" /\ still_here(i)}

losing == {i \in infer_missing : ~still_here(i)}

pending == {i \in Ids : still_missing[i] # "no" /\ i \notin infer_missing /\ ~still_here(i)}

\* Mutant: deletions that still settle are not counted.
brake_Inferred ==
    LET total == recent + Cardinality(losing)
        base == Cardinality(checks) + recent
    IN held \ (Back \cup moved_held) # {} \/ total >= BrakeAny \/ (total >= BrakeFloor /\ total * 2 >= base)

\* The mass-removal brake holds the deletions of this pass.
brake ==
    LET total == recent + Cardinality(losing) + Cardinality(pending)
        base == Cardinality(checks) + recent
    IN held \ (Back \cup moved_held) # {} \/ total >= BrakeAny \/ (total >= BrakeFloor /\ total * 2 >= base)

\* Mutant: a file where an entry belongs is taken for that entry's.
Found_Waiting ==
    {p \in Places : pass.scan[p] # None /\ linked_to(p) = {} /\ \A i \in live : rows[i].path # p}

\* Files that no row is linked to.
Found == {p \in Places : pass.scan[p] # None /\ linked_to(p) = {}}

\* Linked files: unchanged, changed or missing.  The rows of deletions that
\* are released, and of moved files, go; the edits and the new files that
\* held still are the rest of the pass.
links ==
    LET release == moved_held \cup (infer_missing \ losing) \cup (IF brake THEN {} ELSE losing)
    IN /\ pass.at = "links"
       /\ rows' = Without(release)
       /\ held' = (held \ (Back \cup release)) \cup (IF brake THEN losing ELSE {})
       /\ recent' = IF brake THEN recent ELSE recent + Cardinality(losing)
       /\ missing' = [i \in Ids |-> IF i \in release THEN "no" ELSE still_missing[i]]
       /\ edits' = [i \in Ids |-> IF i \in Changed THEN remember(edits[i], disk[rows[i].link]) ELSE None]
       /\ candidates' = [p \in Places |->
                           IF p \in Found /\ ~settled(candidates[p], pass.scan[p])
                           THEN remember(candidates[p], pass.scan[p]) ELSE None]
       /\ pass' = [pass EXCEPT !.at = "edits",
                     !.edited = {[id |-> i, row |-> rows[i]] : i \in edited},
                     !.arrived = {p \in Found : settled(candidates[p], pass.scan[p])}]
       /\ strayed' = {i \in Ids : /\ missing'[i] # "no" \/ i \in held'
                                  /\ i \in away \/ (i \in strayed /\ (missing[i] # "no" \/ i \in held))}
       /\ UNCHANGED <<made, enabled, folder, trash, taken, bounds>>

\* import_folder_file: a new row linked to the file, which the encryption
\* reads later.  Once MaxId rows were made it fails, as it does without room.
New(p, path, prev) ==
    [path |-> path, plain |-> disk[p].c, sealed |-> None, local |-> "encrypting", link |-> p,
     seen |-> disk[p], prev |-> prev, here |-> TRUE]

\* The same content only moves the link on; new content is a new row that
\* replaces the old one.
take_in_edit ==
    \E e \in pass.edited :
      LET p == e.row.link   \* in the order of the rows
      IN /\ pass.at = "edits" /\ \A f \in pass.edited : e.id <= f.id
         /\ pass' = [pass EXCEPT !.edited = @ \ {e}]
         /\ IF stat(p) = "present"
            THEN /\ edits' = [edits EXCEPT ![e.id] = None]
                 /\ taken' = taken \cup {disk[p]}
                 /\ IF disk[p].c = e.row.plain
                    THEN /\ rows' = IF e.id \in live THEN [rows EXCEPT ![e.id].link = p, ![e.id].seen = disk[p]] ELSE rows
                         /\ UNCHANGED made
                    ELSE IF made = MaxId THEN UNCHANGED <<rows, made>>
                    ELSE /\ made' = made + 1
                         /\ rows' = [i \in Ids |-> IF i = made' THEN New(p, e.row.path, e.id)
                                                   ELSE IF i = e.id /\ i \in live THEN [rows[i] EXCEPT !.link = None]
                                                   ELSE rows[i]]
            ELSE UNCHANGED <<rows, made, edits, taken>>
         /\ UNCHANGED <<held, enabled, recent, missing, candidates, folder, trash, bounds, strayed>>

same_content(i, c) == rows[i].plain = c

\* A new file is linked to the row already placed there when its content is
\* the same, and taken in otherwise.
take_in_new ==
    \E p \in pass.arrived :
      LET waiting == {i \in live \ linked : pass.plan[i] = p}
      IN /\ pass.at = "new"
         /\ pass' = [pass EXCEPT !.arrived = @ \ {p}]
         /\ IF stat(p) = "present" /\ disk[p] = pass.scan[p]
            THEN /\ taken' = taken \cup {disk[p]}
                 /\ IF \E i \in waiting : same_content(i, disk[p].c)
                    THEN /\ rows' = [i \in Ids |-> IF i \in waiting THEN [rows[i] EXCEPT !.link = p, !.seen = disk[p]]
                                                   ELSE rows[i]]
                         /\ UNCHANGED made
                    ELSE IF made = MaxId THEN UNCHANGED <<rows, made>>
                    ELSE /\ made' = made + 1
                         /\ rows' = [rows EXCEPT ![made'] = New(p, p, None)]
            ELSE UNCHANGED <<rows, made, taken>>
         /\ UNCHANGED <<held, enabled, memory, folder, trash, bounds, strayed>>

ready(i) == rows[i].local = "ok"

\* The link of a duplicate moves to the earlier row and the later one goes.
Settling(winner) ==
    {i \in live : /\ winner[i] \in live
                  /\ ready(i) /\ ready(winner[i])
                  /\ ~({i, winner[i]} \subseteq linked)}

settle_duplicates ==
    LET winner == duplicates
        losers == Settling(winner)
        kept(i) == LET l == {j \in losers \cap linked : winner[j] = i}
                       j == CHOOSE j \in l : TRUE
                   IN IF l = {} THEN rows[i] ELSE [rows[i] EXCEPT !.link = rows[j].link, !.seen = rows[j].seen]
    IN /\ pass.at = "duplicates"
       /\ pass' = [pass EXCEPT !.at = "settled"]
       /\ rows' = [i \in Ids |-> IF i \in losers THEN None ELSE kept(i)]
       /\ held' = held \ losers
       /\ UNCHANGED <<made, enabled, memory, folder, trash, taken, bounds, strayed>>

\* Linked files that are not where the layout puts them.
Misplaced(plan) == {i \in linked : plan[i] # None /\ plan[i] # rows[i].link}

\* A rename that never replaces.
move_no_clobber(p, q) ==
    IF disk[q] = None THEN disk' = [disk EXCEPT ![p] = None, ![q] = disk[p]] ELSE UNCHANGED disk

\* The file goes to the Trash and is never deleted.
remove_to_trash(p) == disk' = [disk EXCEPT ![p] = None] /\ trash' = trash \cup {disk[p]}

\* A linked file whose place changed is moved there, never over anything.
rename_moved ==
    \E i \in pass.todo :
       /\ pass.at = "rename" /\ \A j \in pass.todo : i <= j
       /\ pass' = [pass EXCEPT !.todo = @ \ {i}]
       /\ IF i \in linked /\ matches(i) /\ stat(pass.plan[i]) = "missing"
          THEN /\ move_no_clobber(rows[i].link, pass.plan[i])
               /\ rows' = [rows EXCEPT ![i].link = pass.plan[i]]
          ELSE UNCHANGED <<disk, rows>>
       /\ UNCHANGED <<made, held, enabled, memory, there, trash, taken, bounds, strayed>>

\* The rows that have a place and no file; a version that is replaced and a
\* row whose deletion is held are not placed.
Placeable ==
    {i \in live \ (linked \cup held) :
        /\ pass.plan[i] # None /\ rows[i].local = "ok"
        /\ \A j \in live : rows[j].prev # i}

\* Who gives way at a place: a version with no place of its own, as last seen.
Occupants(p) == {i \in linked_to(p) : pass.plan[i] = None /\ matches(i)}

\* The first row of the stage has its place cleared, or is passed over.
place_missing ==
    \E i \in pass.todo :
      LET p == pass.plan[i]
          clear == IF stat(p) = "present" THEN Occupants(p)
                   ELSE IF stat(p) = "missing" THEN linked_to(p) \cap held ELSE {}
      IN /\ pass.at = "place" /\ pass.placing = None /\ \A j \in pass.todo : i <= j
         /\ pass' = [pass EXCEPT !.todo = @ \ {i},
                                 !.placing = IF stat(p) = "missing" \/ (stat(p) = "present" /\ clear # {})
                                             THEN i ELSE None]
         /\ IF stat(p) = "present" /\ clear # {}
            THEN remove_to_trash(p)
            ELSE UNCHANGED <<disk, trash>>
         /\ rows' = [j \in Ids |-> IF j \in clear THEN [rows[j] EXCEPT !.link = None] ELSE rows[j]]
         /\ UNCHANGED <<made, held, enabled, memory, there, taken, bounds, strayed>>

\* Mutant: what is at the place is overwritten.
place_file_Over(p) == TRUE

\* place_file hard-links the new file, so it never replaces one.
place_file(p) == disk[p] = None

decrypt_to_temp(i) == rows[i].sealed

\* The copy is decrypted and placed if nothing is there by then; a copy that
\* is not what the row says makes the row unreadable.
place_row ==
    LET i == pass.placing
        p == pass.plan[i]
        f == [c |-> decrypt_to_temp(i), t |-> 1]
    IN /\ pass.at = "place" /\ i # None
       /\ pass' = [pass EXCEPT !.placing = None]
       /\ \/ /\ i \notin live \/ ~available
             /\ UNCHANGED <<rows, disk, taken>>
          \/ /\ i \in live /\ available /\ decrypt_to_temp(i) # rows[i].plain
             /\ rows' = [rows EXCEPT ![i].local = "unreadable"]
             /\ UNCHANGED <<disk, taken>>
          \/ /\ i \in live /\ available /\ decrypt_to_temp(i) = rows[i].plain
             /\ IF place_file(p)
                THEN /\ disk' = [disk EXCEPT ![p] = f]
                     /\ rows' = [rows EXCEPT ![i].link = p, ![i].seen = f]
                     /\ taken' = taken \cup {f}
                ELSE UNCHANGED <<rows, disk, taken>>
       /\ UNCHANGED <<made, held, enabled, memory, there, trash, bounds, strayed>>

\* The next stage of the pass, with the layout of the rows as they are then.
stage_ends ==
    /\ \/ /\ pass.at = "edits" /\ pass.edited = {}
          /\ pass' = [pass EXCEPT !.at = "new", !.plan = IF pass.arrived = {} THEN @ ELSE placed]
       \/ /\ pass.at = "new" /\ pass.arrived = {}
          /\ pass' = [Nothing EXCEPT !.at = "duplicates"]
       \/ /\ pass.at = "settled"
          /\ LET plan == placed
             IN pass' = [pass EXCEPT !.at = "rename", !.plan = plan, !.todo = Misplaced(plan)]
       \/ /\ pass.at = "rename" /\ pass.todo = {}
          /\ pass' = [pass EXCEPT !.at = "place", !.todo = Placeable]
       \/ /\ pass.at = "place" /\ pass.todo = {} /\ pass.placing = None
          /\ pass' = Nothing
    /\ UNCHANGED <<index, memory, folder, trash, taken, bounds, strayed>>

\* Time passes: what was seen has held still.
settle ==
    /\ pass.at = "idle"
    /\ missing' = [i \in Ids |-> IF missing[i] = "once" THEN "settled" ELSE missing[i]]
    /\ edits' = [i \in Ids |-> IF edits[i] = None THEN None ELSE [edits[i] EXCEPT !.old = TRUE]]
    /\ candidates' = [p \in Places |-> IF candidates[p] = None THEN None
                                       ELSE [candidates[p] EXCEPT !.old = TRUE]]
    /\ <<missing, edits, candidates>>' # <<missing, edits, candidates>>
    /\ UNCHANGED <<index, recent, pass, folder, trash, taken, bounds, strayed>>

window_ends ==
    /\ pass.at = "idle" /\ recent > 0 /\ recent' = 0
    /\ UNCHANGED <<index, missing, edits, candidates, pass, folder, trash, taken, bounds, strayed>>

-----------------------------------------------------------------------------
(* The engine beside the pass *)

\* encrypt_and_keep reads the file as it is now, or finds none.
encrypt_and_keep(i) ==
    /\ i \in live /\ rows[i].local = "encrypting"
    /\ rows' = IF rows[i].link # None /\ available /\ disk[rows[i].link] # None
               THEN [rows EXCEPT ![i].local = "ok", ![i].sealed = disk[rows[i].link].c]
               ELSE [rows EXCEPT ![i].local = "unreadable"]
    /\ UNCHANGED <<made, held, enabled, memory, pass, folder, trash, taken, bounds, strayed>>

\* complete_edit: the version that an edit made here replaces goes.
complete_edit(i) ==
    /\ i \in live /\ ready(i) /\ rows[i].here
    /\ rows[i].prev \in live
    /\ rows' = Without({rows[i].prev}) /\ held' = held \ {rows[i].prev}
    /\ UNCHANGED <<made, enabled, memory, pass, folder, trash, taken, bounds, strayed>>

\* Mutant: the file goes to the Trash although it was changed.
remove_folder_file_Any(i) == i \in linked /\ stat(rows[i].link) = "present"

\* remove_folder_file: only the file as last seen goes to the Trash.
remove_folder_file(i) == i \in linked /\ matches(i)

\* A row goes with its file; without the folder that waits.
Remove(i) ==
    /\ pass.at = "idle" /\ i \in live
    /\ (enabled /\ i \in linked) => available
    /\ IF enabled /\ remove_folder_file(i)
       THEN remove_to_trash(rows[i].link)
       ELSE UNCHANGED <<disk, trash>>
    /\ rows' = Without({i}) /\ held' = held \ {i}
    /\ UNCHANGED <<made, enabled, memory, pass, there, taken, strayed>>

\* A removal in the window, or from another computer.
remove_row(i) == Remove(i) /\ Bounded

\* apply_key_list: the version that another computer's edit replaces goes
\* once that computer completed its edit.
replaced_elsewhere(i) ==
    /\ \E j \in live : rows[j].prev = i /\ ~rows[j].here
    /\ Remove(i) /\ UNCHANGED bounds

\* apply_key_list: another computer's file, which may be an edit of one here.
adopt(p, c) ==
    /\ made < MaxId /\ made' = made + 1 /\ Bounded
    /\ \E prev \in {None} \cup {i \in live : rows[i].path = p /\ ready(i)} :
         rows' = [rows EXCEPT ![made'] =
                    [path |-> p, plain |-> c, sealed |-> c, local |-> "ok", link |-> None,
                     seen |-> [c |-> c, t |-> 0], prev |-> prev, here |-> FALSE]]
    /\ UNCHANGED <<held, enabled, memory, pass, folder, trash, taken, strayed>>

\* resolve_held_removals: the owner has the held files removed, or put back.
resolve_held_removals(remove) ==
    LET gone == {i \in held : i \in linked => stat(rows[i].link) = "missing"}
        back == {i \in held : i \in linked /\ stat(rows[i].link) = "present"}
    IN /\ pass.at = "idle" /\ held # {}
       /\ (remove /\ enabled) => available
       /\ rows' = IF remove THEN Without(gone)
                  ELSE [i \in Ids |-> IF i \in held THEN [rows[i] EXCEPT !.link = None] ELSE rows[i]]
       /\ held' = IF remove THEN held \ (gone \cup back) ELSE {}
       /\ recent' = 0
       /\ UNCHANGED <<made, enabled, missing, edits, candidates, pass, folder, trash, taken, bounds, strayed>>

\* clear_folder_links: held deletions end with nothing removed.
clear_folder_links ==
    /\ rows' = [i \in Ids |-> IF i \in live THEN [rows[i] EXCEPT !.link = None] ELSE None]
    /\ held' = {} /\ recent' = 0

write_marker == there' = "on"

\* Off, on, or used again after the folder was lost: a folder recreated
\* empty is never compared with the old links.
set_watch_folder ==
    /\ pass.at = "idle"
    /\ clear_folder_links
    /\ IF enabled /\ available
       THEN enabled' = FALSE /\ Bounded /\ UNCHANGED folder
       ELSE /\ enabled' = TRUE /\ write_marker
            /\ disk' \in {disk} \cup (IF available THEN {} ELSE {[p \in Places |-> None]})
            /\ UNCHANGED bounds
    /\ UNCHANGED <<made, missing, edits, candidates, pass, trash, taken, strayed>>

-----------------------------------------------------------------------------
(* The owner in the folder, and the disk it is on *)

owner ==
    /\ there = "on" /\ Bounded
    /\ \/ \E n \in Names, f \in File : disk[<<n, 0>>] # f /\ disk' = [disk EXCEPT ![<<n, 0>>] = f]
       \/ \E p \in Places : disk[p] # None /\ disk' = [disk EXCEPT ![p] = None]
       \/ \E p, q \in Places : /\ p # q /\ disk[p] # None /\ disk[q] = None /\ q[2] = 0
                               /\ disk' = [disk EXCEPT ![p] = None, ![q] = disk[p]]
    /\ UNCHANGED <<index, memory, pass, there, trash, taken, strayed>>

\* The disk is unmounted and mounted again.
folder_changes ==
    /\ \/ there = "on" /\ losses < MaxLosses /\ changes < MaxChanges /\ there' \in {"gone", "empty"}
          /\ losses' = losses + 1 /\ changes' = changes + 1
       \/ there # "on" /\ there' = "on" /\ UNCHANGED bounds
    /\ UNCHANGED <<index, memory, pass, disk, trash, taken, strayed>>

PassStep ==
    \/ scan_without \/ scan \/ links \/ take_in_edit \/ take_in_new \/ settle_duplicates \/ rename_moved
    \/ place_missing \/ place_row \/ stage_ends

Next ==
    \/ PassStep \/ scan_truncated \/ settle \/ window_ends
    \/ \E i \in Ids : encrypt_and_keep(i) \/ complete_edit(i) \/ remove_row(i) \/ replaced_elsewhere(i)
    \/ \E n \in Names, c \in Contents : adopt(<<n, 0>>, c)
    \/ \E remove \in BOOLEAN : resolve_held_removals(remove)
    \/ set_watch_folder \/ owner \/ folder_changes

\* The watch loop runs, time passes between its passes, encryptions end and edits
\* complete, those of other computers too.
Fairness ==
    /\ WF_vars(PassStep) /\ SF_vars(settle)
    /\ \A i \in Ids : /\ WF_vars(encrypt_and_keep(i)) /\ WF_vars(complete_edit(i))
                     /\ SF_vars(replaced_elsewhere(i))

Spec == Init /\ [][Next]_vars /\ Fairness

-----------------------------------------------------------------------------
(* Properties *)

\* Wildbloom never deletes a plaintext file: whatever a step of its own takes
\* from a place is in the folder or in the Trash (place_file, move_no_clobber,
\* move_to_trash).  A folder that is lost and used again starts empty.
NothingDestroyed ==
    [][(there = "on" /\ ~owner) => \A p \in Places : disk[p] # None =>
           disk[p] \in trash' \cup {disk'[q] : q \in Places}]_vars

\* A file changed here and not taken in yet is never moved to the Trash
\* (remove_folder_file, place_missing).
ChangeNotTrashed == trash \subseteq taken

\* A deletion is only inferred of a file that is gone from its place, or that
\* a pass really found gone when it began to count it as missing: an unmounted
\* or recreated folder, or one that goes away once while it is being looked
\* at, is never taken for a deletion (folder_pass, infer_missing).
InferredIsGone ==
    [][links => \A i \in live : rows'[i] = None => i \in away \cup strayed]_vars

\* Many files missing at once are held back: no deletion that loses content
\* is released while the linked files gone from the folder, with those
\* released in the window, are as many as the brake allows (brake).
MassRemovalHeld ==
    [][links => LET lost == {i \in linked : disk[rows[i].link] = None /\ ~still_here(i)}
                    all == recent + Cardinality(lost)
                IN (\E i \in lost : rows'[i] = None) =>
                     all < BrakeAny /\ (all < BrakeFloor \/ all * 2 < Cardinality(linked) + recent)]_vars

\* What Wildbloom takes for removed, or removes, is what was meant: no deletion
\* is inferred of a file that is there, many at once are held for the owner, and
\* a change is never moved to the Trash before it is taken in.
OnlyMeantRemovals == InferredIsGone /\ MassRemovalHeld /\ []ChangeNotTrashed

InStep ==
    /\ \A p \in Places : disk[p] # None => \E i \in linked_to(p) : rows[i].seen = disk[p] /\ rows[i].plain = disk[p].c
    /\ LET plan == placed
       IN \A i \in live \ held :
          (ready(i) /\ plan[i] # None /\ \A j \in live : rows[j].prev # i) => i \in linked /\ matches(i)

\* The folder and the rows come to agree: once the folder stays on and nobody
\* changes it, every file in it is linked to a row with its content and every
\* kept row has its file, unless a row could not be made or a deletion is
\* held for the owner (folder_pass).
Converges == <>[](enabled /\ there = "on") => <>[](made < MaxId => InStep)
=============================================================================
