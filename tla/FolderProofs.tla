---------------------------- MODULE FolderProofs ----------------------------
(***************************************************************************)
(* Proofs about the Wildbloom folder (Folder), for any names, contents,    *)
(* brake and bounds: no step of Wildbloom's own destroys a file, a change  *)
(* is never moved to the Trash before it is taken in, many deletions at    *)
(* once are held, and, if the folder's disk goes away at most once, no     *)
(* deletion is inferred of a file that was there all the time.             *)
(***************************************************************************)
EXTENDS Folder, FiniteSetTheorems, TLAPS

-----------------------------------------------------------------------------
(* The invariant.                                                            *)

\* What the stages of a pass rely on: every row they still have to move or
\* place has a place, and an edit was seen at a place.
PassOK ==
    /\ pass.placing # None => pass.at = "place" /\ pass.plan[pass.placing] # None
    /\ pass.at \in {"rename", "place"} => \A i \in pass.todo : pass.plan[i] # None
    /\ \A e \in pass.edited : e.row.link # None

\* Deletions are held of files that are still rows.
HeldOK == \A i \in held : rows[i] # None

\* What a row was last linked to was taken in, and only that is in the Trash.
TakenOK ==
    /\ trash \subseteq taken
    /\ \A i \in Ids : rows[i] # None /\ rows[i].link # None => rows[i].seen \in taken

IInv == TypeOK /\ PassOK /\ HeldOK /\ TakenOK

\* Nothing that is in the folder is lost.
Saved == \A p \in Places : disk[p] # None => disk[p] \in trash' \cup {disk'[q] : q \in Places}

\* What is shown of every step.
Done == IInv' /\ (there = "on" /\ ~owner => Saved)

-----------------------------------------------------------------------------
(* Rows, files and what a step leaves alone.                                 *)

\* A row keeps its type when it is linked, unlinked or read.
LEMMA RowTypes ==
    ASSUME NEW r \in FileRecord
    PROVE  /\ \A p \in Places \cup {None} : [r EXCEPT !.link = p] \in FileRecord
           /\ \A p \in Places \cup {None}, f \in File : [r EXCEPT !.link = p, !.seen = f] \in FileRecord
           /\ \A l \in {"encrypting", "ok", "unreadable"} : [r EXCEPT !.local = l] \in FileRecord
           /\ \A c \in Contents : [r EXCEPT !.local = "ok", !.sealed = c] \in FileRecord
  BY Zenon DEF FileRecord

\* A step that leaves the rows, the pass and the Trash alone.
LEMMA RowsAlone ==
    ASSUME IInv, TypeOK', UNCHANGED <<rows, held, pass, trash, taken>>
    PROVE  IInv'
  BY Zenon DEF IInv, PassOK, HeldOK, TakenOK

\* Nothing is lost while the folder is left alone.
LEMMA DiskAlone ==
    ASSUME UNCHANGED disk
    PROVE  Saved
  BY Zenon DEF Saved


\* The steps that only look, wait or forget.
LEMMA scan_withoutStep == ASSUME IInv, scan_without PROVE Done
<1>1. missing' \in [Ids -> {"no", "once", "settled"}] /\ edits' \in [Ids -> Seen]
  BY Zenon DEF scan_without, Seen
<1>2. candidates' \in [Places -> Seen]
  BY Zenon DEF scan_without, Seen, IInv, TypeOK
<1>3. TypeOK'
  BY Zenon, <1>1, <1>2 DEF scan_without, IInv, TypeOK, index, folder, bounds
<1> QED
  BY Zenon, <1>3, RowsAlone, DiskAlone DEF Done, scan_without, index, folder

LEMMA scan_truncatedStep == ASSUME IInv, scan_truncated PROVE Done
<1>1. missing' \in [Ids -> {"no", "once", "settled"}]
  BY Zenon DEF scan_truncated
<1>2. changes' \in 0..MaxChanges
  BY FolderAssumption DEF scan_truncated, Bounded, IInv, TypeOK
<1>3. TypeOK'
  BY Zenon, <1>1, <1>2 DEF scan_truncated, Bounded, IInv, TypeOK, index, folder
<1> QED
  BY Zenon, <1>3, RowsAlone, DiskAlone DEF Done, scan_truncated, index, folder

LEMMA settleStep == ASSUME IInv, settle PROVE Done
<1>1. missing' \in [Ids -> {"no", "once", "settled"}]
  BY Zenon DEF settle, IInv, TypeOK
<1>2. \A s \in Seen : (IF s = None THEN None ELSE [s EXCEPT !.old = TRUE]) \in Seen
  BY Zenon DEF Seen
<1>3. edits' \in [Ids -> Seen]
  BY Zenon, <1>2 DEF settle, IInv, TypeOK
<1>4. candidates' \in [Places -> Seen]
  BY Zenon, <1>2 DEF settle, IInv, TypeOK
<1>5. TypeOK'
  BY Zenon, <1>1, <1>3, <1>4 DEF settle, IInv, TypeOK, index, folder, bounds
<1> QED
  BY Zenon, <1>5, RowsAlone, DiskAlone DEF Done, settle, index, folder

LEMMA window_endsStep == ASSUME IInv, window_ends PROVE Done
<1>1. recent' \in Nat
  BY Zenon DEF window_ends
<1>2. TypeOK'
  BY Zenon, <1>1 DEF window_ends, IInv, TypeOK, index, folder, bounds
<1> QED
  BY Zenon, <1>2, RowsAlone, DiskAlone DEF Done, window_ends, index, folder

LEMMA folder_changesStep == ASSUME IInv, folder_changes PROVE Done
<1>1. losses' \in 0..MaxLosses /\ changes' \in 0..MaxChanges
  BY FolderAssumption DEF folder_changes, IInv, TypeOK, bounds
<1>2. there' \in {"on", "gone", "empty"}
  BY Zenon DEF folder_changes
<1>3. TypeOK'
  BY Zenon, <1>1, <1>2 DEF folder_changes, IInv, TypeOK, index, memory
<1> QED
  BY Zenon, <1>3, RowsAlone, DiskAlone DEF Done, folder_changes, index

\* What the owner does in the folder is the owner's.
LEMMA ownerStep == ASSUME IInv, owner PROVE Done
<1>1. changes' \in 0..MaxChanges
  BY FolderAssumption DEF owner, Bounded, IInv, TypeOK
<1>2. disk' \in [Places -> File \cup {None}]
  BY Zenon DEF owner, IInv, TypeOK
<1>3. TypeOK'
  BY Zenon, <1>1, <1>2 DEF owner, Bounded, IInv, TypeOK, index, memory
<1> QED
  BY Zenon, <1>3, RowsAlone DEF Done, owner, index

LEMMA scanStep == ASSUME IInv, scan PROVE Done
<1>1. pass' \in Pass
  BY Zenon DEF scan, Nothing, Pass, walk, IInv, TypeOK
<1>2. PassOK'
  BY Zenon DEF scan, Nothing, PassOK
<1>3. TypeOK'
  BY Zenon, <1>1 DEF scan, IInv, TypeOK, index, memory, folder, bounds
<1>4. HeldOK' /\ TakenOK'
  BY Zenon DEF scan, IInv, HeldOK, TakenOK, index
<1> QED
  BY Zenon, <1>2, <1>3, <1>4, DiskAlone DEF Done, IInv, scan, folder

-----------------------------------------------------------------------------
(* The steps of a pass.                                                      *)

\* The rows a pass looks at are linked to a place, and what it finds there is
\* a file or nothing.
LEMMA Looked ==
    ASSUME IInv
    PROVE  /\ checks \subseteq linked /\ linked \subseteq live /\ live \subseteq Ids
           /\ \A i \in live : rows[i] \in FileRecord
           /\ \A i \in linked : rows[i].link \in Places
           /\ \A p \in Places : stat(p) = "present" => disk[p] \in File
           /\ infer_missing \subseteq checks /\ losing \subseteq infer_missing
           /\ edited \subseteq Changed /\ Changed \subseteq checks
<1>1. /\ checks \subseteq linked /\ linked \subseteq live /\ live \subseteq Ids
      /\ infer_missing \subseteq checks /\ losing \subseteq infer_missing
      /\ edited \subseteq Changed /\ Changed \subseteq checks
  BY Zenon DEF checks, linked, live, infer_missing, losing, edited, Changed
<1>2. \A i \in live : rows[i] \in FileRecord
  BY Zenon DEF live, IInv, TypeOK
<1>3. \A i \in linked : rows[i].link \in Places
  BY Zenon, <1>2 DEF linked, FileRecord
<1>4. \A p \in Places : stat(p) = "present" => disk[p] \in File
  BY Zenon DEF stat, IInv, TypeOK
<1> QED
  BY Zenon, <1>1, <1>2, <1>3, <1>4

\* A deletion is held or its row goes, never both.
LEMMA linksStep == ASSUME IInv, links PROVE Done
<1> DEFINE release == moved_held \cup (infer_missing \ losing) \cup (IF brake THEN {} ELSE losing)
<1>0. /\ rows' = Without(release)
      /\ held' = (held \ (Back \cup release)) \cup (IF brake THEN losing ELSE {})
  BY Zenon DEF links
<1>1. rows' \in [Ids -> FileRecord \cup {None}]
  BY Zenon, <1>0 DEF Without, IInv, TypeOK
<1>2. \A i \in held' : i \in Ids /\ rows'[i] # None
  <2> SUFFICES ASSUME NEW i \in held' PROVE i \in Ids /\ rows'[i] # None
    BY Zenon
  <2>1. CASE brake /\ i \in losing
    <3>1. i \in checks /\ i \in live /\ i \in Ids /\ rows[i] # None
      BY Zenon, <2>1, Looked DEF live
    <3>2. i \notin moved_held
      BY Zenon, <3>1, <2>1 DEF moved_held, checks, losing
    <3> QED
      BY Zenon, <3>1, <3>2, <2>1, <1>0 DEF Without
  <2>2. CASE i \in held /\ i \notin release
    BY Zenon, <2>2, <1>0 DEF Without, IInv, TypeOK, HeldOK
  <2> QED
    BY Zenon, <2>1, <2>2, <1>0
<1>3. recent' \in Nat
  <2>1. Cardinality(losing) \in Nat
    <3>1. losing \subseteq Ids
      BY Zenon, Looked
    <3>2. IsFiniteSet(Ids)
      BY FolderAssumption, FS_Interval DEF Ids
    <3> QED
      BY Zenon, <3>1, <3>2, FS_Subset, FS_CardinalityType
  <2> QED
    BY <2>1 DEF links, IInv, TypeOK
<1>4. missing' \in [Ids -> {"no", "once", "settled"}]
  <2>1. \A i \in Ids : still_missing[i] \in {"no", "once", "settled"}
    BY Zenon DEF still_missing, IInv, TypeOK
  <2> QED
    BY Zenon, <2>1 DEF links
<1>5. \A s \in Seen, f \in File : remember(s, f) \in Seen
  BY Zenon DEF remember, Seen
<1>6. edits' \in [Ids -> Seen]
  <2>1. \A i \in Changed : disk[rows[i].link] \in File
    BY Zenon, Looked DEF Changed
  <2>2. \A i \in Ids : edits[i] \in Seen
    BY Zenon DEF IInv, TypeOK
  <2>3. None \in Seen
    BY Zenon DEF Seen
  <2> QED
    BY Zenon, <2>1, <2>2, <2>3, <1>5 DEF links
<1>7. candidates' \in [Places -> Seen]
  <2>1. \A p \in Found : pass.scan[p] \in File
    BY Zenon DEF Found, IInv, TypeOK, Pass
  <2>2. \A p \in Places : candidates[p] \in Seen
    BY Zenon DEF IInv, TypeOK
  <2>3. None \in Seen
    BY Zenon DEF Seen
  <2> QED
    BY Zenon, <2>1, <2>2, <2>3, <1>5 DEF links
<1>8. pass' \in Pass /\ PassOK'
  <2> DEFINE seen == {[id |-> i, row |-> rows[i]] : i \in edited}
             new == {p \in Found : settled(candidates[p], pass.scan[p])}
  <2>1. pass' = [pass EXCEPT !.at = "edits", !.edited = seen, !.arrived = new] /\ pass.at = "links"
    BY Zenon DEF links
  <2>2. seen \subseteq [id: Ids, row: FileRecord] /\ \A e \in seen : e.row.link # None
    <3> SUFFICES ASSUME NEW i \in edited
                 PROVE  /\ [id |-> i, row |-> rows[i]] \in [id: Ids, row: FileRecord]
                        /\ [id |-> i, row |-> rows[i]].row.link # None
      BY Zenon
    <3>1. i \in linked /\ i \in Ids /\ rows[i] \in FileRecord
      BY Zenon, Looked
    <3>2. rows[i].link # None
      BY Zenon, <3>1 DEF linked
    <3> QED
      BY Zenon, <3>1, <3>2
  <2>3. new \subseteq Places
    BY Zenon DEF Found
  <2> HIDE DEF seen, new
  <2>4. pass \in Pass /\ (pass.placing # None => pass.at = "place")
    BY Zenon DEF IInv, TypeOK, PassOK
  <2>5. pass' \in Pass
    BY Zenon, <2>1, <2>2, <2>3, <2>4 DEF Pass
  <2>6. pass'.placing = pass.placing /\ pass'.at = "edits" /\ pass'.edited = seen
    BY Zenon, <2>1, <2>4 DEF Pass
  <2>7. PassOK'
    BY Zenon, <2>1, <2>2, <2>4, <2>6 DEF PassOK
  <2> QED
    BY Zenon, <2>5, <2>7
<1>9. strayed' \subseteq Ids /\ held' \subseteq Ids
  BY Zenon, <1>2 DEF links
<1>10. TypeOK'
  BY Zenon, <1>1, <1>3, <1>4, <1>6, <1>7, <1>8, <1>9 DEF links, IInv, TypeOK, folder, bounds
<1>11. HeldOK' /\ TakenOK'
  <2>1. HeldOK'
    BY Zenon, <1>2 DEF HeldOK
  <2>2. TakenOK'
    BY Zenon, <1>0 DEF links, Without, TakenOK, IInv
  <2> QED
    BY Zenon, <2>1, <2>2
<1> QED
  BY Zenon, <1>8, <1>10, <1>11, DiskAlone DEF Done, IInv, links, folder

\* A new row is linked to the file that made it.
LEMMA NewRow ==
    ASSUME NEW p \in Places, disk[p] \in File, NEW path \in Places, NEW prev \in Ids \cup {None}
    PROVE  /\ New(p, path, prev) \in FileRecord /\ New(p, path, prev) # None
           /\ New(p, path, prev).seen = disk[p]
<1>1. disk[p].c \in Contents
  BY Zenon DEF File
<1>2. New(p, path, prev) \in FileRecord
  BY Zenon, <1>1 DEF New, FileRecord
<1> QED
  BY Zenon, <1>2, NoneAssumption DEF New

\* The stages that take files in change the pass by what they are through with.
LEMMA PassShrinks ==
    ASSUME IInv, NEW edits_left \in SUBSET pass.edited, NEW arrived_left \in SUBSET pass.arrived,
           pass' = [pass EXCEPT !.edited = edits_left] \/ pass' = [pass EXCEPT !.arrived = arrived_left]
    PROVE  pass' \in Pass /\ PassOK'
<1>1. pass \in Pass /\ PassOK
  BY Zenon DEF IInv, TypeOK
<1>2. pass' \in Pass
  BY Zenon, <1>1 DEF Pass
<1>3. /\ pass'.at = pass.at /\ pass'.placing = pass.placing /\ pass'.plan = pass.plan
      /\ pass'.todo = pass.todo /\ pass'.edited \subseteq pass.edited
  BY Zenon, <1>1 DEF Pass
<1> QED
  BY Zenon, <1>1, <1>2, <1>3 DEF PassOK

\* The file an edit left is taken in before anything is linked to it.
LEMMA take_in_editStep == ASSUME IInv, take_in_edit PROVE Done
<1>1. PICK e \in pass.edited :
        LET p == e.row.link
        IN /\ pass' = [pass EXCEPT !.edited = @ \ {e}]
           /\ IF stat(p) = "present"
              THEN /\ edits' = [edits EXCEPT ![e.id] = None]
                   /\ taken' = taken \cup {disk[p]}
                   /\ IF disk[p].c = e.row.plain
                      THEN /\ rows' = IF e.id \in live THEN [rows EXCEPT ![e.id].link = p, ![e.id].seen = disk[p]] ELSE rows
                           /\ UNCHANGED made
                      ELSE IF made = MaxId THEN UNCHANGED <<rows, made>>
                      ELSE /\ made' = made + 1
                           /\ rows' = [i \in Ids |-> IF i = made' THEN New(p, e.row.path, e.id)
                                                     ELSE IF i = e.id /\ i \in live THEN [rows[i] EXCEPT !.link = None]
                                                     ELSE rows[i]]
              ELSE UNCHANGED <<rows, made, edits, taken>>
  BY Zenon DEF take_in_edit
<1>2. PICK p : p = e.row.link
  BY Zenon
<1>3. /\ UNCHANGED <<held, enabled, recent, missing, candidates, trash, strayed>>
      /\ UNCHANGED <<disk, there, losses, changes>>
  BY Zenon DEF take_in_edit, folder, bounds
<1>4. e.id \in Ids /\ p \in Places /\ e.row.path \in Places
  <2>1. pass.edited \subseteq [id: Ids, row: FileRecord] /\ e.row.link # None
    BY Zenon DEF IInv, TypeOK, Pass, PassOK
  <2>2. e.id \in Ids /\ e.row \in FileRecord
    BY Zenon, <2>1
  <2> QED
    BY Zenon, <1>2, <2>1, <2>2 DEF FileRecord
<1>5. pass' \in Pass /\ PassOK'
  <2>1. pass' = [pass EXCEPT !.edited = pass.edited \ {e}]
    BY Zenon, <1>1
  <2> QED
    BY Zenon, <2>1, PassShrinks
<1>6. /\ rows' \in [Ids -> FileRecord \cup {None}] /\ made' \in 0..MaxId /\ edits' \in [Ids -> Seen]
      /\ taken' \subseteq File /\ HeldOK' /\ TakenOK'
  <2>1. CASE stat(p) # "present"
    BY Zenon, <2>1, <1>1, <1>2, <1>3 DEF IInv, TypeOK, HeldOK, TakenOK
  <2>2. CASE stat(p) = "present"
    <3>1. disk[p] \in File
      BY Zenon, <2>2, <1>4, Looked
    <3>2. taken' = taken \cup {disk[p]} /\ taken' \subseteq File
      BY Zenon, <3>1, <2>2, <1>1, <1>2 DEF IInv, TypeOK
    <3>3. edits' \in [Ids -> Seen]
      BY Zenon, <2>2, <1>1, <1>2 DEF IInv, TypeOK, Seen
    <3>4. trash' \subseteq taken'
      BY Zenon, <3>2, <1>3 DEF IInv, TakenOK
    <3>5. /\ rows' \in [Ids -> FileRecord \cup {None}] /\ made' \in 0..MaxId
          /\ \A i \in Ids : rows[i] # None => rows'[i] # None
          /\ \A i \in Ids : rows'[i] # None /\ rows'[i].link # None =>
                \/ rows'[i].seen = disk[p]
                \/ rows[i] # None /\ rows[i].link # None /\ rows'[i].seen = rows[i].seen
      <4>1. CASE disk[p].c = e.row.plain /\ e.id \in live
        <5>1. rows' = [rows EXCEPT ![e.id].link = p, ![e.id].seen = disk[p]] /\ made' = made
          BY Zenon, <4>1, <2>2, <1>1, <1>2
        <5>2. PICK r \in FileRecord : r = rows[e.id]
          BY Zenon, <4>1, Looked
        <5>3. PICK s : s = [r EXCEPT !.link = p, !.seen = disk[p]]
          BY Zenon
        <5>4. s \in FileRecord /\ s.seen = disk[p]
          BY Zenon, <5>3, <3>1, <1>4 DEF FileRecord
        <5>5. rows' = [rows EXCEPT ![e.id] = s]
          BY Zenon, <5>1, <5>2, <5>3 DEF IInv, TypeOK
        <5>6. s # None
          BY Zenon, <5>4, NoneAssumption
        <5>7. /\ rows' \in [Ids -> FileRecord \cup {None}]
              /\ \A i \in Ids : rows'[i] = IF i = e.id THEN s ELSE rows[i]
          BY Zenon, <5>4, <5>5, <1>4 DEF IInv, TypeOK
        <5>8. made' \in 0..MaxId
          BY Zenon, <5>1 DEF IInv, TypeOK
        <5> QED
          BY Zenon, <5>4, <5>6, <5>7, <5>8
      <4>2. CASE disk[p].c = e.row.plain /\ e.id \notin live
        BY Zenon, <4>2, <2>2, <1>1, <1>2 DEF IInv, TypeOK
      <4>3. CASE disk[p].c # e.row.plain /\ made = MaxId
        BY Zenon, <4>3, <2>2, <1>1, <1>2 DEF IInv, TypeOK
      <4>4. CASE disk[p].c # e.row.plain /\ made # MaxId
        <5>1. PICK new : new = New(p, e.row.path, e.id)
          BY Zenon
        <5>2. new \in FileRecord /\ new # None /\ new.seen = disk[p]
          BY Zenon, <5>1, <3>1, <1>4, NewRow
        <5>3. /\ made' = made + 1
              /\ rows' = [i \in Ids |-> IF i = made' THEN new
                                        ELSE IF i = e.id /\ i \in live THEN [rows[i] EXCEPT !.link = None]
                                        ELSE rows[i]]
          BY Zenon, <5>1, <4>4, <2>2, <1>1, <1>2
        <5>4. made' \in 0..MaxId
          BY <5>3, <4>4, FolderAssumption DEF IInv, TypeOK
        <5>5. PICK r : r = [rows[e.id] EXCEPT !.link = None]
          BY Zenon
        <5>6. e.id \in live => r \in FileRecord /\ r # None /\ r.link = None
          <6>1. e.id \in live => r \in FileRecord /\ r.link = None
            BY <5>5, Looked DEF FileRecord
          <6> QED
            BY Zenon, <6>1, NoneAssumption
        <5>7. \A i \in Ids : rows'[i] = IF i = made' THEN new ELSE IF i = e.id /\ i \in live THEN r ELSE rows[i]
          BY Zenon, <5>3, <5>5
        <5>8. rows' \in [Ids -> FileRecord \cup {None}]
          BY Zenon, <5>2, <5>3, <5>5, <5>6 DEF IInv, TypeOK
        <5> QED
          BY Zenon, <5>2, <5>4, <5>6, <5>7, <5>8
      <4> QED
        BY Zenon, <4>1, <4>2, <4>3, <4>4
    <3>6. HeldOK'
      BY Zenon, <3>5, <1>3 DEF IInv, TypeOK, HeldOK
    <3>7. TakenOK'
      BY Zenon, <3>2, <3>4, <3>5 DEF IInv, TakenOK
    <3> QED
      BY Zenon, <3>2, <3>3, <3>5, <3>6, <3>7
  <2> QED
    BY Zenon, <2>1, <2>2
<1>7. TypeOK'
  BY Zenon, <1>3, <1>5, <1>6 DEF IInv, TypeOK
<1> QED
  BY Zenon, <1>3, <1>5, <1>6, <1>7, DiskAlone DEF Done, IInv

\* A new file is taken in, or is the file of the row that waits for its place.
LEMMA take_in_newStep == ASSUME IInv, take_in_new PROVE Done
<1>1. PICK p \in pass.arrived :
        LET waiting == {i \in live \ linked : pass.plan[i] = p}
        IN /\ pass' = [pass EXCEPT !.arrived = @ \ {p}]
           /\ IF stat(p) = "present" /\ disk[p] = pass.scan[p]
              THEN /\ taken' = taken \cup {disk[p]}
                   /\ IF \E i \in waiting : same_content(i, disk[p].c)
                      THEN /\ rows' = [i \in Ids |-> IF i \in waiting THEN [rows[i] EXCEPT !.link = p, !.seen = disk[p]]
                                                     ELSE rows[i]]
                           /\ UNCHANGED made
                      ELSE IF made = MaxId THEN UNCHANGED <<rows, made>>
                      ELSE /\ made' = made + 1
                           /\ rows' = [rows EXCEPT ![made'] = New(p, p, None)]
              ELSE UNCHANGED <<rows, made, taken>>
  BY Zenon DEF take_in_new
<1>2. PICK waiting : waiting = {i \in live \ linked : pass.plan[i] = p}
  BY Zenon
<1>3. UNCHANGED <<held, enabled, recent, missing, edits, candidates, disk, there, trash, losses, changes, strayed>>
  BY Zenon DEF take_in_new, memory, folder, bounds
<1>4. p \in Places
  BY Zenon DEF IInv, TypeOK, Pass
<1>5. pass' \in Pass /\ PassOK'
  <2>1. pass' = [pass EXCEPT !.arrived = pass.arrived \ {p}]
    BY Zenon, <1>1
  <2> QED
    BY Zenon, <2>1, PassShrinks
<1>6. /\ rows' \in [Ids -> FileRecord \cup {None}] /\ made' \in 0..MaxId
      /\ taken' \subseteq File /\ HeldOK' /\ TakenOK'
  <2>1. CASE ~(stat(p) = "present" /\ disk[p] = pass.scan[p])
    BY Zenon, <2>1, <1>1, <1>3 DEF IInv, TypeOK, HeldOK, TakenOK
  <2>2. CASE stat(p) = "present" /\ disk[p] = pass.scan[p]
    <3>1. disk[p] \in File
      BY Zenon, <2>2, <1>4, Looked
    <3>2. taken' = taken \cup {disk[p]} /\ taken' \subseteq File
      BY Zenon, <3>1, <2>2, <1>1 DEF IInv, TypeOK
    <3>3. trash' \subseteq taken'
      BY Zenon, <3>2, <1>3 DEF IInv, TakenOK
    <3>4. /\ rows' \in [Ids -> FileRecord \cup {None}] /\ made' \in 0..MaxId
          /\ \A i \in Ids : rows[i] # None => rows'[i] # None
          /\ \A i \in Ids : rows'[i] # None /\ rows'[i].link # None =>
                \/ rows'[i].seen = disk[p]
                \/ rows[i] # None /\ rows[i].link # None /\ rows'[i].seen = rows[i].seen
      <4>1. CASE \E i \in waiting : same_content(i, disk[p].c)
        <5>1. /\ rows' = [i \in Ids |-> IF i \in waiting THEN [rows[i] EXCEPT !.link = p, !.seen = disk[p]] ELSE rows[i]]
              /\ made' = made
          BY Zenon, <4>1, <2>2, <1>1, <1>2
        <5>2. ASSUME NEW i \in waiting
              PROVE  [rows[i] EXCEPT !.link = p, !.seen = disk[p]] \in FileRecord
          <6>1. rows[i] \in FileRecord
            BY Zenon, <1>2, Looked
          <6> QED
            BY Zenon, <6>1, <3>1, <1>4, RowTypes
        <5>3. ASSUME NEW i \in waiting
              PROVE  [rows[i] EXCEPT !.link = p, !.seen = disk[p]].seen = disk[p]
          <6>1. rows[i] \in FileRecord
            BY Zenon, <1>2, Looked
          <6> QED
            BY Zenon, <6>1 DEF FileRecord
        <5>4. rows' \in [Ids -> FileRecord \cup {None}]
          BY Zenon, <5>1, <5>2 DEF IInv, TypeOK
        <5>5. \A i \in Ids : IF i \in waiting THEN rows'[i] \in FileRecord /\ rows'[i].seen = disk[p]
                             ELSE rows'[i] = rows[i]
          BY Zenon, <5>1, <5>2, <5>3
        <5>6. made' \in 0..MaxId
          BY Zenon, <5>1 DEF IInv, TypeOK
        <5> QED
          BY Zenon, <5>4, <5>5, <5>6, NoneAssumption
      <4>2. CASE ~(\E i \in waiting : same_content(i, disk[p].c)) /\ made = MaxId
        BY Zenon, <4>2, <2>2, <1>1, <1>2 DEF IInv, TypeOK
      <4>3. CASE ~(\E i \in waiting : same_content(i, disk[p].c)) /\ made # MaxId
        <5>1. PICK new : new = New(p, p, None)
          BY Zenon
        <5>2. new \in FileRecord /\ new # None /\ new.seen = disk[p]
          BY Zenon, <5>1, <3>1, <1>4, NewRow
        <5>3. made' = made + 1 /\ rows' = [rows EXCEPT ![made'] = new]
          BY Zenon, <5>1, <4>3, <2>2, <1>1, <1>2
        <5>4. made' \in 0..MaxId
          BY <5>3, <4>3, FolderAssumption DEF IInv, TypeOK
        <5>5. /\ rows' \in [Ids -> FileRecord \cup {None}]
              /\ \A i \in Ids : rows'[i] = IF i = made' THEN new ELSE rows[i]
          BY Zenon, <5>2, <5>3 DEF IInv, TypeOK
        <5> QED
          BY Zenon, <5>2, <5>4, <5>5
      <4> QED
        BY Zenon, <4>1, <4>2, <4>3
    <3>5. HeldOK'
      BY Zenon, <3>4, <1>3 DEF IInv, TypeOK, HeldOK
    <3>6. TakenOK'
      BY Zenon, <3>2, <3>3, <3>4 DEF IInv, TakenOK
    <3> QED
      BY Zenon, <3>2, <3>4, <3>5, <3>6
  <2> QED
    BY Zenon, <2>1, <2>2
<1>7. TypeOK'
  BY Zenon, <1>3, <1>5, <1>6 DEF IInv, TypeOK
<1> QED
  BY Zenon, <1>3, <1>5, <1>6, <1>7, DiskAlone DEF Done, IInv

\* The row that stays takes over the link of the one that goes.
LEMMA settle_duplicatesStep == ASSUME IInv, settle_duplicates PROVE Done
<1>1. PICK winner : winner = duplicates
  BY Zenon
<1>2. PICK losers : losers = Settling(winner)
  BY Zenon
<1> DEFINE l(i) == {j \in losers \cap linked : winner[j] = i}
           heir(i) == CHOOSE j \in l(i) : TRUE
           kept(i) == IF l(i) = {} THEN rows[i]
                      ELSE [rows[i] EXCEPT !.link = rows[heir(i)].link, !.seen = rows[heir(i)].seen]
<1>3. /\ rows' = [i \in Ids |-> IF i \in losers THEN None ELSE kept(i)]
      /\ held' = held \ losers /\ pass.at = "duplicates" /\ pass' = [pass EXCEPT !.at = "settled"]
  BY Zenon, <1>1, <1>2 DEF settle_duplicates
<1>4. ASSUME NEW i \in Ids, l(i) # {}
      PROVE  rows[i] # None /\ kept(i) \in FileRecord /\ kept(i).seen \in taken
  <2>1. PICK j : j = heir(i) /\ j \in l(i)
    BY Zenon, <1>4
  <2>2. j \in linked /\ i \in live
    <3>1. j \in losers /\ j \in linked /\ winner[j] = i
      BY Zenon, <2>1
    <3>2. winner[j] \in live
      BY Zenon, <3>1, <1>2 DEF Settling
    <3> QED
      BY Zenon, <3>1, <3>2
  <2>3. PICK p : p = rows[j].link
    BY Zenon
  <2>4. PICK f : f = rows[j].seen
    BY Zenon
  <2>5. p \in Places /\ f \in File /\ rows[i] \in FileRecord /\ rows[i] # None
    BY Zenon, <2>2, <2>3, <2>4, Looked DEF FileRecord, live
  <2>6. f \in taken
    BY Zenon, <2>2, <2>4 DEF linked, live, IInv, TakenOK
  <2>7. kept(i) = [rows[i] EXCEPT !.link = p, !.seen = f]
    BY Zenon, <1>4, <2>1, <2>3, <2>4
  <2> HIDE DEF kept
  <2>8. kept(i) \in FileRecord /\ kept(i).seen = f
    BY Zenon, <2>5, <2>7 DEF FileRecord
  <2> QED
    BY Zenon, <2>5, <2>6, <2>8
<1>5. \A i \in Ids : l(i) = {} => kept(i) = rows[i]
  BY Zenon
<1> HIDE DEF kept
<1>6. rows' \in [Ids -> FileRecord \cup {None}]
  BY Zenon, <1>3, <1>4, <1>5 DEF IInv, TypeOK
<1>7. HeldOK'
  <2> SUFFICES ASSUME NEW i \in held, i \notin losers PROVE rows'[i] # None
    BY Zenon, <1>3 DEF HeldOK
  <2>1. i \in Ids /\ rows[i] # None /\ rows'[i] = kept(i)
    BY Zenon, <1>3 DEF IInv, TypeOK, HeldOK
  <2> QED
    BY Zenon, <2>1, <1>4, <1>5, NoneAssumption
<1>8. TakenOK'
  <2>1. UNCHANGED <<trash, taken>>
    BY Zenon DEF settle_duplicates
  <2> QED
    BY Zenon, <2>1, <1>3, <1>4, <1>5 DEF IInv, TakenOK
<1>9. pass' \in Pass /\ PassOK'
  <2>1. pass \in Pass /\ PassOK
    BY Zenon DEF IInv, TypeOK
  <2>2. /\ pass' \in Pass /\ pass'.at = "settled" /\ pass'.placing = pass.placing
        /\ pass'.edited = pass.edited
    BY Zenon, <2>1, <1>3 DEF Pass
  <2> QED
    BY Zenon, <2>1, <2>2, <1>3 DEF PassOK
<1>10. TypeOK'
  BY Zenon, <1>3, <1>6, <1>9 DEF settle_duplicates, memory, folder, bounds, IInv, TypeOK
<1> QED
  BY Zenon, <1>7, <1>8, <1>9, <1>10, DiskAlone DEF Done, IInv, settle_duplicates, folder

\* A linked file is only moved to a place where nothing is.
LEMMA rename_movedStep == ASSUME IInv, rename_moved PROVE Done
<1>1. PICK i \in pass.todo :
        /\ pass.at = "rename" /\ pass' = [pass EXCEPT !.todo = @ \ {i}]
        /\ IF i \in linked /\ matches(i) /\ stat(pass.plan[i]) = "missing"
           THEN /\ move_no_clobber(rows[i].link, pass.plan[i])
                /\ rows' = [rows EXCEPT ![i].link = pass.plan[i]]
           ELSE UNCHANGED <<disk, rows>>
  BY Zenon DEF rename_moved
<1>2. UNCHANGED <<made, held, enabled, recent, missing, edits, candidates, there, trash, taken, losses, changes, strayed>>
  BY Zenon DEF rename_moved, memory, bounds
<1>3. pass \in Pass /\ PassOK
  BY Zenon DEF IInv, TypeOK
<1>4. PICK q : q = pass.plan[i]
  BY Zenon
<1>5. i \in Ids /\ q \in Places
  BY Zenon, <1>1, <1>3, <1>4 DEF Pass, PassOK
<1>6. pass' \in Pass /\ PassOK'
  <2>1. /\ pass' \in Pass /\ pass'.at = pass.at /\ pass'.placing = pass.placing /\ pass'.plan = pass.plan
        /\ pass'.todo \subseteq pass.todo /\ pass'.edited = pass.edited
    BY Zenon, <1>1, <1>3 DEF Pass
  <2> QED
    BY Zenon, <2>1, <1>3 DEF PassOK
<1>7. /\ rows' \in [Ids -> FileRecord \cup {None}] /\ disk' \in [Places -> File \cup {None}]
      /\ HeldOK' /\ TakenOK' /\ Saved
  <2>1. CASE ~(i \in linked /\ matches(i) /\ stat(q) = "missing")
    BY Zenon, <2>1, <1>1, <1>2, <1>4, DiskAlone DEF IInv, TypeOK, HeldOK, TakenOK
  <2>2. CASE i \in linked /\ matches(i) /\ stat(q) = "missing"
    <3>1. PICK p \in Places : p = rows[i].link
      BY Zenon, <2>2, Looked
    <3>2. disk[p] \in File /\ disk[q] = None
      <4>1. stat(p) = "present" /\ disk[p] = rows[i].seen
        BY Zenon, <2>2, <3>1 DEF matches
      <4>2. disk[p] \in File
        BY Zenon, <4>1, Looked
      <4>3. disk[q] = None
        BY Zenon, <4>1, <2>2 DEF stat
      <4> QED
        BY Zenon, <4>2, <4>3
    <3>3. disk' = [disk EXCEPT ![p] = None, ![q] = disk[p]]
      BY Zenon, <2>2, <3>1, <3>2, <1>1, <1>4 DEF move_no_clobber
    <3>4. disk' \in [Places -> File \cup {None}] /\ Saved
      <4>1. p # q
        BY Zenon, <3>2, NoneAssumption
      <4>2. /\ disk' \in [Places -> File \cup {None}] /\ disk'[q] = disk[p]
            /\ \A x \in Places : x # p /\ x # q => disk'[x] = disk[x]
        BY Zenon, <3>2, <3>3, <1>5, <4>1 DEF IInv, TypeOK
      <4>3. Saved
        BY Zenon, <4>2, <3>2, <1>5 DEF Saved
      <4> QED
        BY Zenon, <4>2, <4>3
    <3>5. PICK r \in FileRecord : r = rows[i]
      BY Zenon, <2>2, Looked
    <3>6. PICK s : s = [r EXCEPT !.link = q]
      BY Zenon
    <3>7. s \in FileRecord /\ s.seen = r.seen /\ r.seen \in taken
      <4>1. s \in FileRecord /\ s.seen = r.seen
        BY Zenon, <3>6, <1>5 DEF FileRecord
      <4>2. r.seen \in taken
        BY Zenon, <3>5, <2>2, <1>5 DEF linked, live, IInv, TakenOK
      <4> QED
        BY Zenon, <4>1, <4>2
    <3>8. rows' = [rows EXCEPT ![i] = s]
      BY Zenon, <2>2, <3>5, <3>6, <1>1, <1>4
    <3>9. /\ rows' \in [Ids -> FileRecord \cup {None}]
          /\ \A j \in Ids : rows'[j] = IF j = i THEN s ELSE rows[j]
      BY Zenon, <3>7, <3>8, <1>5 DEF IInv, TypeOK
    <3>10. HeldOK'
      BY Zenon, <3>7, <3>9, <1>2, NoneAssumption DEF IInv, TypeOK, HeldOK
    <3>11. TakenOK'
      BY Zenon, <3>7, <3>9, <1>2 DEF IInv, TakenOK
    <3> QED
      BY Zenon, <3>4, <3>9, <3>10, <3>11
  <2> QED
    BY Zenon, <2>1, <2>2
<1>8. TypeOK'
  BY Zenon, <1>2, <1>6, <1>7 DEF IInv, TypeOK
<1> QED
  BY Zenon, <1>6, <1>7, <1>8 DEF Done, IInv

\* What is moved to the Trash is there, and nothing else changes.
LEMMA Trashed ==
    ASSUME IInv, NEW p \in Places, remove_to_trash(p)
    PROVE  disk' \in [Places -> File \cup {None}] /\ Saved
<1>1. disk' \in [Places -> File \cup {None}] /\ \A x \in Places : x # p => disk'[x] = disk[x]
  BY Zenon DEF remove_to_trash, IInv, TypeOK
<1>2. disk[p] \in trash'
  BY Zenon DEF remove_to_trash
<1> QED
  BY Zenon, <1>1, <1>2 DEF Saved

\* Rows that lose their links keep all else.
LEMMA Unlinked ==
    ASSUME IInv, NEW ids \in SUBSET live,
           rows' = [j \in Ids |-> IF j \in ids THEN [rows[j] EXCEPT !.link = None] ELSE rows[j]]
    PROVE  /\ rows' \in [Ids -> FileRecord \cup {None}]
           /\ \A j \in Ids : /\ rows'[j] # None <=> rows[j] # None
                             /\ rows'[j] # None => rows'[j].link \in {None, rows[j].link} /\ rows'[j].seen = rows[j].seen
<1>1. \A j \in ids : rows[j] \in FileRecord
  BY Zenon, Looked
<1>2. ASSUME NEW j \in ids
      PROVE  /\ [rows[j] EXCEPT !.link = None] \in FileRecord
             /\ [rows[j] EXCEPT !.link = None].link = None
             /\ [rows[j] EXCEPT !.link = None].seen = rows[j].seen
  BY Zenon, <1>1 DEF FileRecord
<1>3. /\ rows' \in [Ids -> FileRecord \cup {None}]
  BY Zenon, <1>2 DEF IInv, TypeOK
<1>4. \A j \in Ids : IF j \in ids THEN rows'[j] \in FileRecord /\ rows'[j].link = None /\ rows'[j].seen = rows[j].seen
                     ELSE rows'[j] = rows[j]
  BY Zenon, <1>2
<1> QED
  BY Zenon, <1>1, <1>3, <1>4, NoneAssumption

\* A version that gives way goes to the Trash as it was last seen.
LEMMA place_missingStep == ASSUME IInv, place_missing PROVE Done
<1>1. PICK i \in pass.todo :
        LET p == pass.plan[i]
            clear == IF stat(p) = "present" THEN Occupants(p)
                     ELSE IF stat(p) = "missing" THEN linked_to(p) \cap held ELSE {}
        IN /\ pass.at = "place" /\ pass.placing = None
           /\ pass' = [pass EXCEPT !.todo = @ \ {i},
                                   !.placing = IF stat(p) = "missing" \/ (stat(p) = "present" /\ clear # {})
                                               THEN i ELSE None]
           /\ IF stat(p) = "present" /\ clear # {}
              THEN remove_to_trash(p)
              ELSE UNCHANGED <<disk, trash>>
           /\ rows' = [j \in Ids |-> IF j \in clear THEN [rows[j] EXCEPT !.link = None] ELSE rows[j]]
  BY Zenon DEF place_missing
<1>2. UNCHANGED <<made, held, enabled, recent, missing, edits, candidates, there, taken, losses, changes, strayed>>
  BY Zenon DEF place_missing, memory, bounds
<1>3. PICK p : p = pass.plan[i]
  OBVIOUS
<1>4. PICK clear : clear = IF stat(p) = "present" THEN Occupants(p)
                           ELSE IF stat(p) = "missing" THEN linked_to(p) \cap held ELSE {}
  BY Zenon
<1>5. pass \in Pass /\ PassOK
  BY Zenon DEF IInv, TypeOK
<1>6. i \in Ids /\ p \in Places
  BY Zenon, <1>1, <1>3, <1>5 DEF Pass, PassOK
<1>7. clear \subseteq live
  BY Zenon, <1>4 DEF Occupants, linked_to, linked
<1>8. pass' \in Pass /\ PassOK'
  <2>1. PICK next \in {i, None} : pass' = [pass EXCEPT !.todo = pass.todo \ {i}, !.placing = next]
    BY Zenon, <1>1
  <2>2. /\ pass' \in Pass /\ pass'.at = pass.at /\ pass'.placing = next /\ pass'.plan = pass.plan
        /\ pass'.todo \subseteq pass.todo /\ pass'.edited = pass.edited
    BY Zenon, <2>1, <1>5, <1>6 DEF Pass
  <2>3. p # None /\ pass.at = "place"
    BY Zenon, <1>1, <1>6, NoneAssumption
  <2> QED
    BY Zenon, <2>2, <2>3, <1>3, <1>5 DEF PassOK
<1>9. rows' = [j \in Ids |-> IF j \in clear THEN [rows[j] EXCEPT !.link = None] ELSE rows[j]]
  BY Zenon, <1>1, <1>3, <1>4
<1>10. disk' \in [Places -> File \cup {None}] /\ trash' \subseteq taken /\ Saved
  <2>1. CASE stat(p) = "present" /\ clear # {}
    <3>1. remove_to_trash(p)
      BY Zenon, <2>1, <1>1, <1>3, <1>4
    <3>2. PICK o \in Occupants(p) : TRUE
      BY Zenon, <2>1, <1>4
    <3>3. o \in linked /\ rows[o].link = p /\ disk[p] = rows[o].seen
      BY Zenon, <3>2 DEF Occupants, linked_to, matches
    <3>4. rows[o].seen \in taken
      BY Zenon, <3>3 DEF linked, live, IInv, TakenOK
    <3>5. trash' \subseteq taken
      BY Zenon, <3>1, <3>3, <3>4 DEF remove_to_trash, IInv, TakenOK
    <3> QED
      BY Zenon, <3>1, <3>5, <1>6, Trashed
  <2>2. CASE ~(stat(p) = "present" /\ clear # {})
    <3>1. UNCHANGED <<disk, trash>>
      BY Zenon, <2>2, <1>1, <1>3, <1>4
    <3> QED
      BY Zenon, <3>1, DiskAlone DEF IInv, TypeOK, TakenOK
  <2> QED
    BY Zenon, <2>1, <2>2
<1>11. HeldOK' /\ TakenOK' /\ rows' \in [Ids -> FileRecord \cup {None}]
  <2>1. /\ rows' \in [Ids -> FileRecord \cup {None}]
        /\ \A j \in Ids : /\ rows'[j] # None <=> rows[j] # None
                          /\ rows'[j] # None => rows'[j].link \in {None, rows[j].link} /\ rows'[j].seen = rows[j].seen
    BY Zenon, <1>7, <1>9, Unlinked
  <2>2. HeldOK'
    BY Zenon, <2>1, <1>2 DEF IInv, TypeOK, HeldOK
  <2>3. TakenOK'
    BY Zenon, <2>1, <1>2, <1>10 DEF IInv, TakenOK
  <2> QED
    BY Zenon, <2>1, <2>2, <2>3
<1>12. trash' \subseteq File
  BY Zenon, <1>10 DEF IInv, TypeOK
<1>13. TypeOK'
  BY Zenon, <1>2, <1>8, <1>10, <1>11, <1>12 DEF IInv, TypeOK
<1> QED
  BY Zenon, <1>8, <1>10, <1>11, <1>13 DEF Done, IInv

\* A copy is placed where nothing is, and linked as it was written.
LEMMA place_rowStep == ASSUME IInv, place_row PROVE Done
<1>1. PICK i : i = pass.placing
  BY Zenon
<1>2. PICK p : p = pass.plan[i]
  BY Zenon
<1>3. PICK f : f = [c |-> rows[i].sealed, t |-> 1]
  BY Zenon
<1>4. /\ pass.at = "place" /\ i # None /\ pass' = [pass EXCEPT !.placing = None]
      /\ \/ /\ i \notin live \/ ~available
            /\ UNCHANGED <<rows, disk, taken>>
         \/ /\ i \in live /\ available /\ rows[i].sealed # rows[i].plain
            /\ rows' = [rows EXCEPT ![i].local = "unreadable"]
            /\ UNCHANGED <<disk, taken>>
         \/ /\ i \in live /\ available /\ rows[i].sealed = rows[i].plain
            /\ IF place_file(p)
               THEN /\ disk' = [disk EXCEPT ![p] = f]
                    /\ rows' = [rows EXCEPT ![i].link = p, ![i].seen = f]
                    /\ taken' = taken \cup {f}
               ELSE UNCHANGED <<rows, disk, taken>>
  BY Zenon, <1>1, <1>2, <1>3 DEF place_row, decrypt_to_temp
<1>5. UNCHANGED <<made, held, enabled, recent, missing, edits, candidates, there, trash, losses, changes, strayed>>
  BY Zenon DEF place_row, memory, bounds
<1>6. pass \in Pass /\ PassOK
  BY Zenon DEF IInv, TypeOK
<1>7. i \in Ids /\ p \in Places
  BY Zenon, <1>1, <1>2, <1>4, <1>6 DEF Pass, PassOK
<1>8. pass' \in Pass /\ PassOK'
  <2>1. /\ pass' \in Pass /\ pass'.at = pass.at /\ pass'.placing = None /\ pass'.plan = pass.plan
        /\ pass'.todo = pass.todo /\ pass'.edited = pass.edited
    BY Zenon, <1>4, <1>6 DEF Pass
  <2> QED
    BY Zenon, <2>1, <1>6 DEF PassOK
<1>9. /\ rows' \in [Ids -> FileRecord \cup {None}] /\ disk' \in [Places -> File \cup {None}]
      /\ taken' \subseteq File /\ HeldOK' /\ TakenOK' /\ Saved
  <2>1. CASE UNCHANGED <<rows, disk, taken>>
    BY Zenon, <2>1, <1>5, DiskAlone DEF IInv, TypeOK, HeldOK, TakenOK
  <2>2. CASE i \in live /\ rows' = [rows EXCEPT ![i].local = "unreadable"] /\ UNCHANGED <<disk, taken>>
    <3>1. PICK r \in FileRecord : r = rows[i]
      BY Zenon, <2>2, Looked
    <3>2. PICK s : s = [r EXCEPT !.local = "unreadable"]
      BY Zenon
    <3>3. s \in FileRecord /\ s.seen = r.seen /\ s.link = r.link
      BY Zenon, <3>2 DEF FileRecord
    <3>4. rows' = [rows EXCEPT ![i] = s]
      BY Zenon, <2>2, <3>1, <3>2
    <3>5. /\ rows' \in [Ids -> FileRecord \cup {None}]
          /\ \A j \in Ids : rows'[j] = IF j = i THEN s ELSE rows[j]
      BY Zenon, <3>3, <3>4, <1>7 DEF IInv, TypeOK
    <3>6. r # None /\ s # None
      BY Zenon, <3>1, <3>3, NoneAssumption
    <3>7. HeldOK'
      BY Zenon, <3>5, <3>6, <1>5 DEF IInv, TypeOK, HeldOK
    <3>8. TakenOK'
      <4>1. \A j \in Ids : rows'[j] # None /\ rows'[j].link # None =>
              rows[j] # None /\ rows[j].link # None /\ rows'[j].seen = rows[j].seen
        BY Zenon, <3>1, <3>3, <3>5, <3>6
      <4>2. trash' = trash /\ taken' = taken
        BY Zenon, <2>2, <1>5
      <4> QED
        BY Zenon, <4>1, <4>2 DEF IInv, TakenOK
    <3> QED
      BY Zenon, <2>2, <3>5, <3>7, <3>8, DiskAlone DEF IInv, TypeOK
  <2>3. CASE /\ i \in live /\ rows[i].sealed = rows[i].plain /\ place_file(p)
             /\ disk' = [disk EXCEPT ![p] = f]
             /\ rows' = [rows EXCEPT ![i].link = p, ![i].seen = f]
             /\ taken' = taken \cup {f}
    <3>1. PICK r \in FileRecord : r = rows[i]
      BY Zenon, <2>3, Looked
    <3>2. f \in File
      BY Zenon, <2>3, <3>1, <1>3 DEF FileRecord, File
    <3>3. PICK s : s = [r EXCEPT !.link = p, !.seen = f]
      BY Zenon
    <3>4. s \in FileRecord /\ s.seen = f
      BY Zenon, <3>2, <3>3, <1>7 DEF FileRecord
    <3>5. rows' = [rows EXCEPT ![i] = s]
      BY Zenon, <2>3, <3>1, <3>3 DEF IInv, TypeOK
    <3>6. /\ rows' \in [Ids -> FileRecord \cup {None}]
          /\ \A j \in Ids : rows'[j] = IF j = i THEN s ELSE rows[j]
      BY Zenon, <3>4, <3>5, <1>7 DEF IInv, TypeOK
    <3>7. s # None
      BY Zenon, <3>4, NoneAssumption
    <3>8. HeldOK'
      BY Zenon, <3>6, <3>7, <1>5 DEF IInv, TypeOK, HeldOK
    <3>9. TakenOK' /\ taken' \subseteq File
      <4>1. \A j \in Ids : rows'[j] # None /\ rows'[j].link # None =>
              \/ rows'[j].seen = f
              \/ rows[j] # None /\ rows[j].link # None /\ rows'[j].seen = rows[j].seen
        BY Zenon, <3>4, <3>6
      <4>2. f \in taken' /\ taken \subseteq taken' /\ taken' \subseteq File
        BY Zenon, <2>3, <3>2 DEF IInv, TypeOK
      <4> QED
        BY Zenon, <4>1, <4>2, <1>5 DEF IInv, TakenOK
    <3>10. /\ disk' \in [Places -> File \cup {None}]
           /\ \A x \in Places : x # p => disk'[x] = disk[x]
      BY Zenon, <2>3, <3>2, <1>7 DEF IInv, TypeOK
    <3>11. Saved
      BY Zenon, <2>3, <3>10 DEF Saved, place_file
    <3> QED
      BY Zenon, <3>6, <3>8, <3>9, <3>10, <3>11
  <2> QED
    BY Zenon, <2>1, <2>2, <2>3, <1>4
<1>10. TypeOK'
  BY Zenon, <1>5, <1>8, <1>9 DEF IInv, TypeOK
<1> QED
  BY Zenon, <1>8, <1>9, <1>10 DEF Done, IInv

\* Every stage begins with a layout of the rows as they are then.
LEMMA stage_endsStep == ASSUME IInv, stage_ends PROVE Done
<1>1. pass \in Pass /\ PassOK
  BY Zenon DEF IInv, TypeOK
<1>2. UNCHANGED <<rows, held, trash, taken, disk>>
  BY Zenon DEF stage_ends, index, folder
<1>3. PICK plan \in [Ids -> Places \cup {None}] : plan = placed
  BY Zenon DEF placed
<1>4. Nothing \in Pass
  BY Zenon DEF Nothing, Pass
<1>5. pass' \in Pass /\ PassOK'
  <2>1. CASE /\ pass.at = "edits" /\ pass.edited = {}
             /\ pass' = [pass EXCEPT !.at = "new", !.plan = IF pass.arrived = {} THEN @ ELSE placed]
    <3>1. PICK next \in [Ids -> Places \cup {None}] : pass' = [pass EXCEPT !.at = "new", !.plan = next]
      BY Zenon, <2>1, <1>1, <1>3 DEF Pass
    <3>2. pass' \in Pass /\ pass'.at = "new" /\ pass'.placing = pass.placing /\ pass'.edited = pass.edited
      BY Zenon, <3>1, <1>1 DEF Pass
    <3> QED
      BY Zenon, <2>1, <3>2, <1>1 DEF PassOK
  <2>2. CASE pass' = [Nothing EXCEPT !.at = "duplicates"]
    <3>1. pass' \in Pass /\ pass'.placing = None /\ pass'.edited = {} /\ pass'.at = "duplicates"
      BY Zenon, <2>2 DEF Nothing, Pass
    <3> QED
      BY Zenon, <3>1 DEF PassOK
  <2>3. CASE /\ pass.at = "settled"
             /\ pass' = [pass EXCEPT !.at = "rename", !.plan = plan, !.todo = Misplaced(plan)]
    <3>1. Misplaced(plan) \subseteq Ids /\ \A i \in Misplaced(plan) : plan[i] # None
      BY Zenon DEF Misplaced, linked, live
    <3>2. /\ pass' \in Pass /\ pass'.at = "rename" /\ pass'.plan = plan /\ pass'.todo = Misplaced(plan)
          /\ pass'.placing = pass.placing /\ pass'.edited = pass.edited
      BY Zenon, <2>3, <3>1, <1>1 DEF Pass
    <3> QED
      BY Zenon, <2>3, <3>1, <3>2, <1>1 DEF PassOK
  <2>4. CASE pass.at = "rename" /\ pass' = [pass EXCEPT !.at = "place", !.todo = Placeable]
    <3>1. Placeable \subseteq Ids /\ \A i \in Placeable : pass.plan[i] # None
      BY Zenon DEF Placeable, live
    <3>2. /\ pass' \in Pass /\ pass'.at = "place" /\ pass'.plan = pass.plan /\ pass'.todo = Placeable
          /\ pass'.placing = pass.placing /\ pass'.edited = pass.edited
      BY Zenon, <2>4, <3>1, <1>1 DEF Pass
    <3> QED
      BY Zenon, <2>4, <3>1, <3>2, <1>1 DEF PassOK
  <2>5. CASE pass' = Nothing
    <3>1. pass'.placing = None /\ pass'.edited = {} /\ pass'.at = "idle"
      BY Zenon, <2>5 DEF Nothing
    <3> QED
      BY Zenon, <2>5, <3>1, <1>4 DEF PassOK
  <2> QED
    BY Zenon, <2>1, <2>2, <2>3, <2>4, <2>5, <1>3 DEF stage_ends
<1>6. TypeOK'
  BY Zenon, <1>5 DEF stage_ends, IInv, TypeOK, index, memory, folder, bounds
<1>7. HeldOK' /\ TakenOK'
  BY Zenon, <1>2 DEF IInv, HeldOK, TakenOK
<1> QED
  BY Zenon, <1>2, <1>5, <1>6, <1>7, DiskAlone DEF Done, IInv

-----------------------------------------------------------------------------
(* The steps beside the pass.                                                *)

\* A row changes in what it says of its content alone.
LEMMA encrypt_and_keepStep == ASSUME IInv, NEW i \in Ids, encrypt_and_keep(i) PROVE Done
<1>1. PICK r \in FileRecord : r = rows[i]
  BY Zenon, Looked DEF encrypt_and_keep
<1>2. UNCHANGED <<made, held, enabled, recent, missing, edits, candidates, pass, disk, there, trash, taken, strayed, losses, changes>>
  BY Zenon DEF encrypt_and_keep, memory, folder, bounds
<1>3. PICK s \in FileRecord : rows' = [rows EXCEPT ![i] = s] /\ s.link = r.link /\ s.seen = r.seen
  <2>1. CASE rows[i].link # None /\ available /\ disk[rows[i].link] # None
    <3>1. rows' = [rows EXCEPT ![i].local = "ok", ![i].sealed = disk[rows[i].link].c]
      BY Zenon, <2>1 DEF encrypt_and_keep
    <3>2. PICK c : c = disk[r.link].c
      BY Zenon
    <3>3. c \in Contents
      <4>1. r.link \in Places
        BY Zenon, <2>1, <1>1 DEF FileRecord
      <4>2. disk[r.link] \in File
        BY Zenon, <4>1, <2>1, <1>1 DEF IInv, TypeOK
      <4> QED
        BY Zenon, <4>2, <3>2 DEF File
    <3>4. PICK s : s = [r EXCEPT !.local = "ok", !.sealed = c]
      BY Zenon
    <3>5. s \in FileRecord /\ s.link = r.link /\ s.seen = r.seen
      BY Zenon, <3>3, <3>4 DEF FileRecord
    <3>6. rows' = [rows EXCEPT ![i] = s]
      BY Zenon, <3>1, <3>2, <3>4, <1>1 DEF IInv, TypeOK
    <3> QED
      BY Zenon, <3>5, <3>6
  <2>2. CASE ~(rows[i].link # None /\ available /\ disk[rows[i].link] # None)
    <3>1. rows' = [rows EXCEPT ![i].local = "unreadable"]
      BY Zenon, <2>2 DEF encrypt_and_keep
    <3>2. PICK s : s = [r EXCEPT !.local = "unreadable"]
      BY Zenon
    <3>3. s \in FileRecord /\ s.link = r.link /\ s.seen = r.seen
      BY Zenon, <3>2 DEF FileRecord
    <3>4. rows' = [rows EXCEPT ![i] = s]
      BY Zenon, <3>1, <3>2, <1>1
    <3> QED
      BY Zenon, <3>3, <3>4
  <2> QED
    BY Zenon, <2>1, <2>2
<1>4. /\ rows' \in [Ids -> FileRecord \cup {None}]
      /\ \A j \in Ids : rows'[j] = IF j = i THEN s ELSE rows[j]
  BY Zenon, <1>3 DEF IInv, TypeOK
<1>5. r # None /\ s # None
  BY Zenon, NoneAssumption
<1>6. HeldOK'
  BY Zenon, <1>2, <1>4, <1>5 DEF IInv, TypeOK, HeldOK
<1>7. TakenOK'
  <2>1. \A j \in Ids : rows'[j] # None /\ rows'[j].link # None =>
          rows[j] # None /\ rows[j].link # None /\ rows'[j].seen = rows[j].seen
    BY Zenon, <1>1, <1>3, <1>4, <1>5
  <2> QED
    BY Zenon, <2>1, <1>2 DEF IInv, TakenOK
<1>8. TypeOK' /\ PassOK'
  BY Zenon, <1>2, <1>4 DEF IInv, TypeOK, PassOK
<1> QED
  BY Zenon, <1>2, <1>6, <1>7, <1>8, DiskAlone DEF Done, IInv

\* Rows and held deletions that go, go together.
LEMMA Removed ==
    ASSUME IInv, NEW ids, rows' = Without(ids), held' \subseteq held, held' \cap ids = {},
           taken' = taken, trash' \subseteq taken
    PROVE  rows' \in [Ids -> FileRecord \cup {None}] /\ held' \subseteq Ids /\ HeldOK' /\ TakenOK'
<1>1. rows' \in [Ids -> FileRecord \cup {None}] /\ \A i \in Ids : rows'[i] = IF i \in ids THEN None ELSE rows[i]
  BY Zenon DEF Without, IInv, TypeOK
<1>2. held' \subseteq Ids /\ HeldOK'
  BY Zenon, <1>1 DEF IInv, TypeOK, HeldOK
<1>3. TakenOK'
  BY Zenon, <1>1 DEF IInv, TakenOK
<1> QED
  BY Zenon, <1>1, <1>2, <1>3

LEMMA complete_editStep == ASSUME IInv, NEW i \in Ids, complete_edit(i) PROVE Done
<1>1. rows' = Without({rows[i].prev}) /\ held' = held \ {rows[i].prev}
  BY Zenon DEF complete_edit
<1>2. UNCHANGED <<made, enabled, recent, missing, edits, candidates, pass, disk, there, trash, taken, strayed, losses, changes>>
  BY Zenon DEF complete_edit, memory, folder, bounds
<1>3. rows' \in [Ids -> FileRecord \cup {None}] /\ held' \subseteq Ids /\ HeldOK' /\ TakenOK'
  <2>1. held' \subseteq held /\ held' \cap {rows[i].prev} = {} /\ trash' \subseteq taken
    BY Zenon, <1>1, <1>2 DEF IInv, TakenOK
  <2> QED
    BY Zenon, <2>1, <1>1, <1>2, Removed
<1>4. TypeOK' /\ PassOK'
  BY Zenon, <1>2, <1>3 DEF IInv, TypeOK, PassOK
<1> QED
  BY Zenon, <1>2, <1>3, <1>4, DiskAlone DEF Done, IInv

\* A row goes with its file, which goes to the Trash if it is as last seen.
LEMMA RemoveStep ==
    ASSUME IInv, NEW i \in Ids, Remove(i), losses' \in 0..MaxLosses, changes' \in 0..MaxChanges
    PROVE  Done
<1>1. rows' = Without({i}) /\ held' = held \ {i} /\ i \in live
  BY Zenon DEF Remove
<1>2. UNCHANGED <<made, enabled, recent, missing, edits, candidates, pass, there, taken, strayed>>
  BY Zenon DEF Remove, memory
<1>3. disk' \in [Places -> File \cup {None}] /\ trash' \subseteq taken /\ Saved
  <2>1. CASE enabled /\ remove_folder_file(i)
    <3>1. remove_to_trash(rows[i].link)
      BY Zenon, <2>1 DEF Remove
    <3>2. i \in linked /\ disk[rows[i].link] = rows[i].seen
      BY Zenon, <2>1 DEF remove_folder_file, matches
    <3>3. rows[i].seen \in taken /\ rows[i].link \in Places
      <4>1. rows[i].link \in Places
        BY Zenon, <3>2, Looked
      <4> QED
        BY Zenon, <4>1, <3>2 DEF linked, live, IInv, TakenOK
    <3>4. trash' \subseteq taken
      BY Zenon, <3>1, <3>2, <3>3 DEF remove_to_trash, IInv, TakenOK
    <3> QED
      BY Zenon, <3>1, <3>3, <3>4, Trashed
  <2>2. CASE ~(enabled /\ remove_folder_file(i))
    <3>1. UNCHANGED <<disk, trash>>
      BY Zenon, <2>2 DEF Remove
    <3> QED
      BY Zenon, <3>1, DiskAlone DEF IInv, TypeOK, TakenOK
  <2> QED
    BY Zenon, <2>1, <2>2
<1>4. rows' \in [Ids -> FileRecord \cup {None}] /\ held' \subseteq Ids /\ HeldOK' /\ TakenOK'
  <2>1. held' \subseteq held /\ held' \cap {i} = {}
    BY Zenon, <1>1
  <2> QED
    BY Zenon, <2>1, <1>1, <1>2, <1>3, Removed
<1>5. trash' \subseteq File
  BY Zenon, <1>3 DEF IInv, TypeOK
<1>6. TypeOK' /\ PassOK'
  BY Zenon, <1>2, <1>3, <1>4, <1>5 DEF IInv, TypeOK, PassOK
<1> QED
  BY Zenon, <1>3, <1>4, <1>6 DEF Done, IInv

LEMMA remove_rowStep == ASSUME IInv, NEW i \in Ids, remove_row(i) PROVE Done
<1>1. losses' \in 0..MaxLosses /\ changes' \in 0..MaxChanges
  BY FolderAssumption DEF remove_row, Bounded, IInv, TypeOK
<1> QED
  BY Zenon, <1>1, RemoveStep DEF remove_row

LEMMA replaced_elsewhereStep == ASSUME IInv, NEW i \in Ids, replaced_elsewhere(i) PROVE Done
<1>1. losses' \in 0..MaxLosses /\ changes' \in 0..MaxChanges
  BY Zenon DEF replaced_elsewhere, bounds, IInv, TypeOK
<1> QED
  BY Zenon, <1>1, RemoveStep DEF replaced_elsewhere

\* Another computer's file is a new row with no file here yet.
LEMMA adoptStep == ASSUME IInv, NEW n \in Names, NEW c \in Contents, adopt(<<n, 0>>, c) PROVE Done
<1>1. PICK p \in Places : p = <<n, 0>>
  BY FolderAssumption DEF Places
<1>2. PICK prev \in {None} \cup {i \in live : rows[i].path = p /\ ready(i)} :
        rows' = [rows EXCEPT ![made'] =
                    [path |-> p, plain |-> c, sealed |-> c, local |-> "ok", link |-> None,
                     seen |-> [c |-> c, t |-> 0], prev |-> prev, here |-> FALSE]]
  BY Zenon, <1>1 DEF adopt
<1>3. UNCHANGED <<held, enabled, recent, missing, edits, candidates, pass, disk, there, trash, taken, strayed, losses>>
  BY Zenon DEF adopt, Bounded, memory, folder
<1>4. made' \in 0..MaxId /\ changes' \in 0..MaxChanges
  BY FolderAssumption DEF adopt, Bounded, IInv, TypeOK
<1>5. PICK r : r = [path |-> p, plain |-> c, sealed |-> c, local |-> "ok", link |-> None,
                    seen |-> [c |-> c, t |-> 0], prev |-> prev, here |-> FALSE]
  BY Zenon
<1>6. r \in FileRecord /\ r.link = None
  <2>1. prev \in Ids \cup {None}
    BY Zenon, <1>2 DEF live
  <2>2. [c |-> c, t |-> 0] \in File
    BY Zenon DEF File
  <2> QED
    BY Zenon, <2>1, <2>2, <1>5 DEF FileRecord
<1>7. /\ rows' \in [Ids -> FileRecord \cup {None}]
      /\ \A i \in Ids : rows'[i] = IF i = made' THEN r ELSE rows[i]
  BY Zenon, <1>2, <1>5, <1>6 DEF IInv, TypeOK
<1>8. HeldOK'
  BY Zenon, <1>3, <1>6, <1>7, NoneAssumption DEF IInv, TypeOK, HeldOK
<1>9. TakenOK'
  BY Zenon, <1>3, <1>6, <1>7 DEF IInv, TakenOK
<1>10. TypeOK' /\ PassOK'
  BY Zenon, <1>3, <1>4, <1>7 DEF IInv, TypeOK, PassOK
<1> QED
  BY Zenon, <1>3, <1>8, <1>9, <1>10, DiskAlone DEF Done, IInv

\* Held files are removed for good, or lose their links and are placed again.
LEMMA resolve_held_removalsStep ==
    ASSUME IInv, NEW remove \in BOOLEAN, resolve_held_removals(remove)
    PROVE  Done
<1>1. UNCHANGED <<made, enabled, missing, edits, candidates, pass, disk, there, trash, taken, strayed, losses, changes>>
  BY Zenon DEF resolve_held_removals, folder, bounds
<1>2. recent' \in Nat
  BY Zenon DEF resolve_held_removals
<1>3. rows' \in [Ids -> FileRecord \cup {None}] /\ held' \subseteq Ids /\ HeldOK' /\ TakenOK'
  <2>1. CASE remove
    <3> DEFINE gone == {i \in held : i \in linked => stat(rows[i].link) = "missing"}
    <3>1. rows' = Without(gone) /\ held' \subseteq held /\ held' \cap gone = {}
      BY Zenon, <2>1 DEF resolve_held_removals
    <3>2. trash' \subseteq taken
      BY Zenon, <1>1 DEF IInv, TakenOK
    <3> QED
      BY Zenon, <3>1, <3>2, <1>1, Removed
  <2>2. CASE ~remove
    <3>1. /\ rows' = [i \in Ids |-> IF i \in held THEN [rows[i] EXCEPT !.link = None] ELSE rows[i]]
          /\ held' = {}
      BY Zenon, <2>2 DEF resolve_held_removals
    <3>2. held \subseteq live
      BY Zenon DEF IInv, TypeOK, HeldOK, live
    <3>3. /\ rows' \in [Ids -> FileRecord \cup {None}]
          /\ \A j \in Ids : /\ rows'[j] # None <=> rows[j] # None
                            /\ rows'[j] # None => rows'[j].link \in {None, rows[j].link} /\ rows'[j].seen = rows[j].seen
      BY Zenon, <3>1, <3>2, Unlinked
    <3>4. TakenOK'
      BY Zenon, <3>3, <1>1 DEF IInv, TakenOK
    <3> QED
      BY Zenon, <3>1, <3>3, <3>4 DEF HeldOK
  <2> QED
    BY Zenon, <2>1, <2>2
<1>4. TypeOK' /\ PassOK'
  BY Zenon, <1>1, <1>2, <1>3 DEF IInv, TypeOK, PassOK
<1> QED
  BY Zenon, <1>1, <1>3, <1>4, DiskAlone DEF Done, IInv

\* A folder that is there keeps its files; one that was lost may start empty.
LEMMA set_watch_folderStep == ASSUME IInv, set_watch_folder PROVE Done
<1>1. UNCHANGED <<made, missing, edits, candidates, pass, trash, taken, strayed>>
  BY Zenon DEF set_watch_folder
<1>2. /\ rows' = [i \in Ids |-> IF i \in live THEN [rows[i] EXCEPT !.link = None] ELSE None]
      /\ held' = {} /\ recent' \in Nat
  BY Zenon DEF set_watch_folder, clear_folder_links
<1>3. rows' \in [Ids -> FileRecord \cup {None}] /\ TakenOK'
  <2>1. rows' = [i \in Ids |-> IF i \in live THEN [rows[i] EXCEPT !.link = None] ELSE rows[i]]
    BY Zenon, <1>2 DEF live
  <2>2. /\ rows' \in [Ids -> FileRecord \cup {None}]
        /\ \A j \in Ids : /\ rows'[j] # None <=> rows[j] # None
                          /\ rows'[j] # None => rows'[j].link \in {None, rows[j].link} /\ rows'[j].seen = rows[j].seen
    BY Zenon, <2>1, Unlinked
  <2>3. TakenOK'
    BY Zenon, <2>2, <1>1 DEF IInv, TakenOK
  <2> QED
    BY Zenon, <2>2, <2>3
<1>4. /\ enabled' \in BOOLEAN /\ there' \in {"on", "gone", "empty"}
      /\ disk' \in [Places -> File \cup {None}] /\ (there = "on" => disk' = disk)
  BY Zenon DEF set_watch_folder, write_marker, available, folder, IInv, TypeOK
<1>5. losses' \in 0..MaxLosses /\ changes' \in 0..MaxChanges
  BY FolderAssumption DEF set_watch_folder, Bounded, bounds, IInv, TypeOK
<1>6. TypeOK' /\ PassOK'
  BY Zenon, <1>1, <1>2, <1>3, <1>4, <1>5 DEF IInv, TypeOK, PassOK
<1>7. HeldOK'
  BY Zenon, <1>2 DEF HeldOK
<1> QED
  BY Zenon, <1>3, <1>4, <1>6, <1>7, DiskAlone DEF Done, IInv

-----------------------------------------------------------------------------
(* The invariant holds.                                                      *)

\* At the start every name has its row and its file, taken in as they are.
LEMMA InitSound == ASSUME Init PROVE IInv
<1>1. PICK n : n = Cardinality(Names) /\ n \in Nat /\ n <= MaxId
  BY Zenon, FS_CardinalityType, FolderAssumption
<1>2. \E f \in [1..n -> Names] : \A m \in Names : \E i \in DOMAIN f : f[i] = m
  <2>1. ExistsBijection(1..n, Names)
    BY Zenon, <1>1, FS_CardinalityType, FolderAssumption
  <2> QED
    BY Zenon, <2>1 DEF ExistsBijection, Bijection, Surjection
<1>3. PICK first \in [1..n -> Names] :
        first = CHOOSE f \in [1..Cardinality(Names) -> Names] : \A m \in Names : \E i \in DOMAIN f : f[i] = m
  BY Zenon, <1>1, <1>2
<1> DEFINE row(i) == [path |-> <<first[i], 0>>, plain |-> Kept[first[i]], sealed |-> Kept[first[i]],
                      local |-> "ok", link |-> <<first[i], 0>>, seen |-> [c |-> Kept[first[i]], t |-> 0],
                      prev |-> None, here |-> TRUE]
<1>4. /\ made = n /\ rows = [i \in Ids |-> IF i <= made THEN row(i) ELSE None]
      /\ disk = [p \in Places |-> IF p[2] = 0 THEN [c |-> Kept[p[1]], t |-> 0] ELSE None]
      /\ taken = {[c |-> Kept[m], t |-> 0] : m \in Names}
      /\ held = {} /\ enabled = TRUE /\ recent = 0
      /\ missing = [i \in Ids |-> "no"] /\ edits = [i \in Ids |-> None]
      /\ candidates = [p \in Places |-> None]
      /\ pass = Nothing /\ there = "on" /\ trash = {} /\ strayed = {}
      /\ losses = 0 /\ changes = 0
  BY Zenon, <1>1, <1>3 DEF Init
<1>5. ASSUME NEW i \in Ids, i <= made
      PROVE  row(i) \in FileRecord /\ row(i).seen \in taken
  <2>1. i \in 1..n
    BY <1>1, <1>4, <1>5 DEF Ids
  <2>2. PICK m \in Names : m = first[i]
    BY Zenon, <2>1, <1>3
  <2>3. PICK c \in Contents : c = Kept[m]
    BY Zenon, FolderAssumption
  <2>4. <<m, 0>> \in Places
    BY FolderAssumption DEF Places
  <2>5. [c |-> c, t |-> 0] \in File
    BY Zenon DEF File
  <2>6. row(i) \in FileRecord
    BY Zenon, <2>2, <2>3, <2>4, <2>5 DEF FileRecord
  <2>7. row(i).seen \in taken
    BY Zenon, <2>2, <1>4
  <2> QED
    BY Zenon, <2>6, <2>7
<1> HIDE DEF row
<1>6. rows \in [Ids -> FileRecord \cup {None}]
  BY Zenon, <1>4, <1>5
<1>7. disk \in [Places -> File \cup {None}] /\ taken \subseteq File
  <2>1. \A m \in Names : [c |-> Kept[m], t |-> 0] \in File
    BY Zenon, FolderAssumption DEF File
  <2>2. \A p \in Places : p[1] \in Names
    BY Zenon DEF Places
  <2> QED
    BY Zenon, <2>1, <2>2, <1>4
<1>8. pass \in Pass /\ PassOK
  BY Zenon, <1>4 DEF Nothing, Pass, PassOK
<1>9. TypeOK
  <2>1. made \in 0..MaxId /\ recent \in Nat /\ losses \in 0..MaxLosses /\ changes \in 0..MaxChanges
    BY <1>1, <1>4, FolderAssumption
  <2> QED
    BY Zenon, <2>1, <1>4, <1>6, <1>7, <1>8 DEF TypeOK, Seen
<1>10. HeldOK /\ TakenOK
  BY Zenon, <1>4, <1>5 DEF HeldOK, TakenOK
<1> QED
  BY Zenon, <1>8, <1>9, <1>10 DEF IInv

\* Every step keeps the invariant, and loses nothing that is in the folder.
LEMMA Step == ASSUME IInv, Next PROVE Done
<1>1. CASE PassStep
  BY Zenon, <1>1, scan_withoutStep, scanStep, linksStep, take_in_editStep, take_in_newStep, settle_duplicatesStep,
     rename_movedStep, place_missingStep, place_rowStep, stage_endsStep DEF PassStep
<1>2. CASE scan_truncated \/ settle \/ window_ends
  BY Zenon, <1>2, scan_truncatedStep, settleStep, window_endsStep
<1>3. CASE \E i \in Ids : encrypt_and_keep(i) \/ complete_edit(i) \/ remove_row(i) \/ replaced_elsewhere(i)
  BY Zenon, <1>3, encrypt_and_keepStep, complete_editStep, remove_rowStep, replaced_elsewhereStep
<1>4. CASE \E n \in Names, c \in Contents : adopt(<<n, 0>>, c)
  BY Zenon, <1>4, adoptStep
<1>5. CASE \E remove \in BOOLEAN : resolve_held_removals(remove)
  BY Zenon, <1>5, resolve_held_removalsStep
<1>6. CASE set_watch_folder \/ owner \/ folder_changes
  BY Zenon, <1>6, set_watch_folderStep, ownerStep, folder_changesStep
<1> QED
  BY Zenon, <1>1, <1>2, <1>3, <1>4, <1>5, <1>6 DEF Next

LEMMA Stutter == ASSUME IInv, UNCHANGED vars PROVE IInv'
  BY Zenon DEF IInv, TypeOK, PassOK, HeldOK, TakenOK, vars, index, memory, folder, bounds

\* The invariant of the folder: types, what the stages of a pass rely on, held
\* deletions of rows that are there, and a Trash of files that were taken in.
THEOREM Invariance == Spec => []IInv
<1>1. Init => IInv
  BY Zenon, InitSound
<1>2. IInv /\ [Next]_vars => IInv'
  BY Zenon, Step, Stutter DEF Done
<1> QED
  BY <1>1, <1>2, PTL DEF Spec

\* Every variable of the folder keeps its type.
THEOREM Typed == Spec => []TypeOK
<1>1. IInv => TypeOK
  BY Zenon DEF IInv
<1> QED
  BY <1>1, Invariance, PTL

\* Wildbloom never deletes a plaintext file (place_file, move_no_clobber,
\* move_to_trash).
THEOREM NothingLost == Spec => NothingDestroyed
<1>1. IInv /\ [Next]_vars =>
        [(there = "on" /\ ~owner) => \A p \in Places : disk[p] # None =>
           disk[p] \in trash' \cup {disk'[q] : q \in Places}]_vars
  BY Zenon, Step DEF Done, Saved
<1> QED
  BY <1>1, Invariance, PTL DEF Spec, NothingDestroyed

\* A file changed here and not taken in yet is never moved to the Trash
\* (remove_folder_file, place_missing).
THEOREM ChangesStay == Spec => []ChangeNotTrashed
<1>1. IInv => ChangeNotTrashed
  BY Zenon DEF IInv, TakenOK, ChangeNotTrashed
<1> QED
  BY <1>1, Invariance, PTL

-----------------------------------------------------------------------------
(* Deletions.                                                                *)

\* A row whose content is lost goes only when the brake is off, and then every
\* linked file that is gone was counted.
LEMMA BrakeCounts ==
    ASSUME IInv, links, NEW i \in linked, disk[rows[i].link] = None, ~still_here(i), rows'[i] = None
    PROVE  /\ ~brake
           /\ {j \in linked : disk[rows[j].link] = None /\ ~still_here(j)} \subseteq losing \cup pending
<1>1. i \in Ids /\ rows[i] # None
  BY Zenon, Looked DEF live
<1>2. ~brake /\ i \in losing
  <2>1. rows' = Without(moved_held \cup (infer_missing \ losing) \cup (IF brake THEN {} ELSE losing))
    BY Zenon DEF links
  <2>2. i \in moved_held \cup (infer_missing \ losing) \cup (IF brake THEN {} ELSE losing)
    BY Zenon, <1>1, <2>1 DEF Without
  <2>3. i \notin moved_held /\ i \notin infer_missing \ losing
    BY Zenon DEF moved_held, losing
  <2> QED
    BY Zenon, <2>2, <2>3
<1>3. ~importing /\ stat(rows[i].link) = "missing"
  BY Zenon, <1>2 DEF losing, infer_missing
<1>4. there # "gone"
  BY Zenon, <1>3 DEF stat
<1>5. held \subseteq Back \cup moved_held
  BY Zenon, <1>2 DEF brake
<1>6. ASSUME NEW j \in linked, disk[rows[j].link] = None, ~still_here(j)
      PROVE  j \in losing \cup pending
  <2>1. stat(rows[j].link) = "missing"
    BY Zenon, <1>4, <1>6 DEF stat
  <2>2. j \in Ids /\ j \notin held
    <3>1. j \notin Back /\ j \notin moved_held
      BY Zenon, <2>1, <1>6 DEF Back, moved_held
    <3> QED
      BY Zenon, <3>1, <1>5, Looked
  <2>3. j \in checks
    BY Zenon, <2>2 DEF checks
  <2>4. still_missing[j] # "no"
    BY Zenon, <2>1, <2>2, <2>3, <1>3 DEF still_missing
  <2> QED
    BY Zenon, <2>2, <2>4, <1>6 DEF losing, pending
<1> QED
  BY Zenon, <1>2, <1>6

\* Many files missing at once are held back (brake).
LEMMA MassStep ==
    ASSUME IInv, links
    PROVE  LET lost == {i \in linked : disk[rows[i].link] = None /\ ~still_here(i)}
               all == recent + Cardinality(lost)
           IN (\E i \in lost : rows'[i] = None) =>
                all < BrakeAny /\ (all < BrakeFloor \/ all * 2 < Cardinality(linked) + recent)
<1> DEFINE lost == {i \in linked : disk[rows[i].link] = None /\ ~still_here(i)}
<1> SUFFICES ASSUME \E i \in lost : rows'[i] = None
             PROVE  LET all == recent + Cardinality(lost)
                    IN all < BrakeAny /\ (all < BrakeFloor \/ all * 2 < Cardinality(linked) + recent)
  BY Zenon
<1>1. ~brake /\ lost \subseteq losing \cup pending
  BY Zenon, BrakeCounts
<1>2. IsFiniteSet(Ids)
  BY FolderAssumption, FS_Interval DEF Ids
<1>3. losing \subseteq Ids /\ pending \subseteq Ids /\ checks \subseteq linked /\ linked \subseteq Ids
  BY Zenon, Looked DEF pending
<1>4. IsFiniteSet(losing) /\ IsFiniteSet(pending) /\ IsFiniteSet(checks) /\ IsFiniteSet(linked)
  BY Zenon, <1>2, <1>3, FS_Subset
<1>5. Cardinality(checks) <= Cardinality(linked)
  BY Zenon, <1>3, <1>4, FS_Subset
<1>6. Cardinality(lost) <= Cardinality(losing) + Cardinality(pending)
  <2>1. IsFiniteSet(losing \cup pending) /\ IsFiniteSet(losing \cap pending)
    BY Zenon, <1>4, FS_Union, FS_Intersection
  <2>2. Cardinality(lost) <= Cardinality(losing \cup pending)
    BY Zenon, <2>1, <1>1, FS_Subset
  <2>3. Cardinality(losing \cup pending) =
          Cardinality(losing) + Cardinality(pending) - Cardinality(losing \cap pending)
    BY Zenon, <1>4, FS_Union
  <2>4. IsFiniteSet(lost)
    BY Zenon, <2>1, <1>1, FS_Subset
  <2>5. /\ Cardinality(losing) \in Nat /\ Cardinality(pending) \in Nat /\ Cardinality(lost) \in Nat
        /\ Cardinality(losing \cap pending) \in Nat
    BY Zenon, <2>1, <2>4, <1>4, FS_CardinalityType
  <2> HIDE DEF lost
  <2> QED
    BY <2>2, <2>3, <2>5
<1>7. /\ Cardinality(losing) \in Nat /\ Cardinality(pending) \in Nat /\ Cardinality(checks) \in Nat
      /\ Cardinality(linked) \in Nat /\ Cardinality(lost) \in Nat
  <2>1. IsFiniteSet(lost)
    BY Zenon, <1>4, FS_Subset
  <2> QED
    BY Zenon, <2>1, <1>4, FS_CardinalityType
<1>8. recent \in Nat /\ BrakeAny \in Nat /\ BrakeFloor \in Nat
  BY Zenon, FolderAssumption DEF IInv, TypeOK
<1> HIDE DEF lost
<1> QED
  BY <1>1, <1>5, <1>6, <1>7, <1>8 DEF brake

\* Of the rows that count as missing or held, a pass really found the file gone:
\* before the folder's disk went away, and while it is away in the middle of a
\* pass.
Honest ==
    /\ losses = 0 => there = "on"
    /\ losses = 0 \/ (there # "on" /\ pass.at = "links") =>
         \A i \in Ids : missing[i] # "no" \/ i \in held => i \in strayed

\* A step that counts no more rows as missing or held.
Quiet ==
    /\ strayed' = strayed /\ losses' = losses
    /\ \A i \in Ids : missing'[i] # "no" => missing[i] # "no"
    /\ held' \subseteq held
    /\ there' \in {there, "on"}
    /\ pass'.at = "links" => pass.at = "links" \/ there' = "on"

\* Only a look at the linked files counts rows, and only the disk goes away.
LEMMA QuietSteps ==
    ASSUME IInv, Next
    PROVE  links \/ folder_changes \/ Quiet
<1> SUFFICES ASSUME ~links, ~folder_changes
             PROVE  Quiet
  BY Zenon
<1>1. CASE scan_without \/ scan_truncated
  BY Zenon, <1>1 DEF scan_without, scan_truncated, Bounded, index, folder, bounds, Quiet
<1>2. CASE scan
  BY Zenon, <1>2 DEF scan, Quiet, index, memory, folder, bounds, available
<1>3. CASE take_in_edit \/ take_in_new
  <2>1. pass'.at = pass.at
    BY Zenon, <1>3 DEF take_in_edit, take_in_new, IInv, TypeOK, Pass
  <2> QED
    BY Zenon, <2>1, <1>3 DEF take_in_edit, take_in_new, Quiet, memory, folder, bounds
<1>4. CASE settle_duplicates
  <2>1. pass'.at = "settled" /\ held' \subseteq held
    BY Zenon, <1>4 DEF settle_duplicates, IInv, TypeOK, Pass
  <2> QED
    BY Zenon, <2>1, <1>4 DEF settle_duplicates, Quiet, memory, folder, bounds
<1>5. CASE rename_moved \/ place_missing \/ place_row
  <2>1. pass'.at = pass.at
    <3>1. pass \in Pass
      BY Zenon DEF IInv, TypeOK
    <3>2. CASE rename_moved
      BY Zenon, <3>1, <3>2 DEF rename_moved, Pass
    <3>3. CASE place_missing
      BY Zenon, <3>1, <3>3 DEF place_missing, Pass
    <3>4. CASE place_row
      BY Zenon, <3>1, <3>4 DEF place_row, Pass
    <3> QED
      BY Zenon, <3>2, <3>3, <3>4, <1>5
  <2> QED
    BY Zenon, <2>1, <1>5 DEF rename_moved, place_missing, place_row, Quiet, memory, bounds
<1>6. CASE stage_ends
  <2>1. pass'.at # "links"
    <3>1. pass \in Pass
      BY Zenon DEF IInv, TypeOK
    <3>2. CASE \E q : pass' = [pass EXCEPT !.at = "new", !.plan = q]
      BY Zenon, <3>1, <3>2 DEF Pass
    <3>3. CASE \E q, t : pass' = [pass EXCEPT !.at = "rename", !.plan = q, !.todo = t]
      BY Zenon, <3>1, <3>3 DEF Pass
    <3>4. CASE \E t : pass' = [pass EXCEPT !.at = "place", !.todo = t]
      BY Zenon, <3>1, <3>4 DEF Pass
    <3>5. CASE pass' \in {[Nothing EXCEPT !.at = "duplicates"], Nothing}
      BY <3>5 DEF Nothing
    <3> QED
      BY Zenon, <3>2, <3>3, <3>4, <3>5, <1>6 DEF stage_ends
  <2> QED
    BY Zenon, <2>1, <1>6 DEF stage_ends, Quiet, index, memory, folder, bounds
<1>7. CASE settle
  BY Zenon, <1>7 DEF settle, Quiet, index, folder, bounds
<1>8. CASE window_ends
  BY Zenon, <1>8 DEF window_ends, Quiet, index, folder, bounds
<1>9. CASE \E i \in Ids : encrypt_and_keep(i) \/ complete_edit(i)
  BY Zenon, <1>9 DEF encrypt_and_keep, complete_edit, Quiet, memory, folder, bounds
<1>10. CASE \E i \in Ids : remove_row(i) \/ replaced_elsewhere(i)
  BY Zenon, <1>10 DEF remove_row, replaced_elsewhere, Remove, Bounded, Quiet, memory, bounds
<1>11. CASE \E n \in Names, c \in Contents : adopt(<<n, 0>>, c)
  BY Zenon, <1>11 DEF adopt, Bounded, Quiet, memory, folder
<1>12. CASE \E remove \in BOOLEAN : resolve_held_removals(remove)
  BY Zenon, <1>12 DEF resolve_held_removals, Quiet, folder, bounds
<1>13. CASE set_watch_folder
  BY Zenon, <1>13 DEF set_watch_folder, clear_folder_links, write_marker, Bounded, Quiet, folder, bounds
<1>14. CASE owner
  BY Zenon, <1>14 DEF owner, Bounded, Quiet, index, memory
<1> QED
  BY Zenon, <1>1, <1>2, <1>3, <1>4, <1>5, <1>6, <1>7, <1>8, <1>9, <1>10, <1>11, <1>12, <1>13, <1>14 DEF Next, PassStep

\* While the disk goes away at most once, what is counted was really gone.
LEMMA HonestStep ==
    ASSUME IInv, Honest, Next, MaxLosses <= 1
    PROVE  Honest'
<1>1. CASE Quiet
  BY Zenon, <1>1 DEF Quiet, Honest
<1>2. CASE links
  <2>1. losses' = losses /\ there' = there
    BY Zenon, <1>2 DEF links, folder, bounds
  <2>2. pass'.at = "edits"
    BY Zenon, <1>2 DEF links, IInv, TypeOK, Pass
  <2>3. ASSUME losses = 0, NEW i \in Ids, missing'[i] # "no" \/ i \in held'
        PROVE  i \in strayed'
    <3>1. there = "on" /\ (missing[i] # "no" \/ i \in held => i \in strayed)
      BY Zenon, <2>3 DEF Honest
    <3>2. i \in away \/ missing[i] # "no" \/ i \in held
      <4>1. CASE missing'[i] # "no"
        <5>1. still_missing[i] # "no"
          BY Zenon, <4>1, <1>2 DEF links
        <5>2. i \in checks /\ stat(rows[i].link) = "missing"
          BY Zenon, <5>1 DEF still_missing
        <5> QED
          BY Zenon, <5>2, <3>1, Looked DEF stat, away
      <4>2. CASE i \in held'
        <5>1. i \in held \/ i \in losing
          BY Zenon, <4>2, <1>2 DEF links
        <5> QED
          BY Zenon, <5>1 DEF losing, infer_missing
      <4> QED
        BY Zenon, <4>1, <4>2, <2>3
    <3> QED
      BY Zenon, <3>1, <3>2, <2>3, <1>2 DEF links
  <2> QED
    BY Zenon, <2>1, <2>2, <2>3 DEF Honest
<1>3. CASE folder_changes
  <2>1. UNCHANGED <<missing, held, strayed>> /\ pass' = pass
    BY Zenon, <1>3 DEF folder_changes, index, memory
  <2>2. losses \in Nat /\ MaxLosses \in Nat
    BY FolderAssumption DEF IInv, TypeOK
  <2>3. CASE there = "on" /\ losses < MaxLosses /\ losses' = losses + 1
    BY <2>1, <2>2, <2>3 DEF Honest
  <2>4. CASE there # "on" /\ there' = "on" /\ losses' = losses
    BY Zenon, <2>1, <2>4 DEF Honest
  <2> QED
    BY Zenon, <2>3, <2>4, <1>3 DEF folder_changes, bounds
<1> QED
  BY Zenon, <1>1, <1>2, <1>3, QuietSteps

\* A row that goes in a look at the linked files has its file gone, or a pass
\* found it gone before.
LEMMA InferStep ==
    ASSUME IInv, Honest, links
    PROVE  \A i \in live : rows'[i] = None => i \in away \cup strayed
<1> SUFFICES ASSUME NEW i \in live, rows'[i] = None
             PROVE  i \in away \cup strayed
  BY Zenon
<1>1. i \in Ids /\ rows[i] # None
  BY Zenon DEF live
<1>2. i \in moved_held \/ i \in infer_missing
  <2>1. rows' = Without(moved_held \cup (infer_missing \ losing) \cup (IF brake THEN {} ELSE losing))
    BY Zenon DEF links
  <2>2. i \in moved_held \cup (infer_missing \ losing) \cup (IF brake THEN {} ELSE losing)
    BY Zenon, <1>1, <2>1 DEF Without
  <2> QED
    BY Zenon, <2>2, Looked
<1>3. /\ i \in linked /\ stat(rows[i].link) = "missing"
      /\ missing[i] # "no" \/ i \in held
  BY Zenon, <1>2, Looked DEF moved_held, infer_missing
<1>4. CASE there = "on"
  BY Zenon, <1>3, <1>4 DEF stat, away
<1>5. CASE there # "on"
  BY Zenon, <1>1, <1>3, <1>5 DEF Honest, links
<1> QED
  BY Zenon, <1>4, <1>5

\* What Wildbloom takes for removed, or removes, is what was meant, for any
\* number of files and changes, if the folder's disk goes away at most once
\* (infer_missing, brake, remove_folder_file, place_missing).
THEOREM RemovalsMeant ==
    ASSUME MaxLosses <= 1
    PROVE  Spec => OnlyMeantRemovals
<1>1. Init => Honest
  <2> SUFFICES ASSUME Init PROVE Honest
    BY Zenon
  <2>1. losses = 0 /\ there = "on" /\ held = {} /\ missing = [i \in Ids |-> "no"]
    BY Zenon DEF Init
  <2> QED
    BY Zenon, <2>1 DEF Honest
<1>2. IInv /\ Honest /\ [Next]_vars => Honest'
  <2>1. ASSUME UNCHANGED vars, Honest PROVE Honest'
    BY Zenon, <2>1 DEF Honest, vars, index, memory, folder, bounds
  <2> QED
    BY Zenon, <2>1, HonestStep
<1>3. Spec => []Honest
  BY <1>1, <1>2, Invariance, PTL DEF Spec
<1>4. IInv /\ Honest /\ [Next]_vars =>
        [links => \A i \in live : rows'[i] = None => i \in away \cup strayed]_vars
  BY Zenon, InferStep
<1>5. IInv /\ [Next]_vars =>
        [links => LET lost == {i \in linked : disk[rows[i].link] = None /\ ~still_here(i)}
                      all == recent + Cardinality(lost)
                  IN (\E i \in lost : rows'[i] = None) =>
                       all < BrakeAny /\ (all < BrakeFloor \/ all * 2 < Cardinality(linked) + recent)]_vars
  BY Zenon, MassStep
<1>6. Spec => InferredIsGone
  BY <1>3, <1>4, Invariance, PTL DEF Spec, InferredIsGone
<1>7. Spec => MassRemovalHeld
  BY <1>5, Invariance, PTL DEF Spec, MassRemovalHeld
<1> QED
  BY <1>6, <1>7, ChangesStay, PTL DEF OnlyMeantRemovals
=============================================================================
