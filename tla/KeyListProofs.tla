---------------------------- MODULE KeyListProofs ----------------------------
(***************************************************************************)
(* Proofs of the safety properties of KeyList, for any computers, files,   *)
(* faults and sequence bound.                                              *)
(***************************************************************************)
EXTENDS KeyList, WellFoundedInduction, TLAPS

\* Some computer recorded the removal of i.
Stoned(i) == \E c \in Computers : i \in stones[c]

\* The tombstones of a list are recorded removals.
Honest(l) == \A i \in l.removed : Stoned(i)

\* The task's list is the sealed copy on disk, or the one being uploaded.
Sealed(t) == (t.at = "list" /\ t.sealed) \/ t.at = "upload"

\* Every tombstone that c holds is a recorded removal.
Recorded(c) ==
    /\ removing[c] \subseteq stones[c]
    /\ slot[c] # None => Honest(slot[c])
    /\ file[c] \notin {None, Bad} => Honest(file[c])
    /\ task[c].at \in {"list", "upload", "deletes"} => Honest(task[c].list)

\* The copies that c knows of were on the node.
Known(c) ==
    /\ deletes[c] \subseteq ever
    /\ own[c] \in ever \cup {None}
    /\ task[c].at = "upload" => task[c].away \subseteq ever
    /\ task[c].at = "read" => task[c].opened \subseteq ever

\* What is in memory is no older than the last list seen, and an unsealed list
\* that a sync holds is: the rollback check tells a list that was loaded from one
\* that was lost.
Numbered(c) ==
    /\ file[c] = None => last_seen[c] = 0 /\ own[c] = None
    /\ file[c] # None => last_seen[c] > 0
    /\ slot[c] # None => slot[c].seq >= last_seen[c]
    /\ task[c].at = "list" /\ ~task[c].sealed => task[c].list.seq < last_seen[c]
    /\ task[c].at = "deletes" => slot[c] # None
    /\ Sealed(task[c]) =>
        /\ task[c].list.seq = last_seen[c] /\ file[c] = task[c].list
        /\ slot[c] # None
        /\ \A i \in task[c].list.files : i \in slot[c].files \/ Stoned(i)

\* A list that c is about to upload was never on the node.
Fresh(c) ==
    \A k \in ever :
        k.by = c => /\ k.list.seq <= last_seen[c]
                    /\ Sealed(task[c]) => k.list.seq < last_seen[c]

\* Every list that c may seal next has the entry of i.
KeptBy(c, i) ==
    /\ file[c] # None
    /\ slot[c] # None => i \in slot[c].files
    /\ file[c] # Bad /\ file[c].seq >= last_seen[c] => i \in file[c].files
    /\ Sealed(task[c]) => i \in task[c].list.files

\* c deletes copy j only once it has stored the entry of i elsewhere.
Spares(c, j, i) ==
    /\ j \notin deletes[c]
    /\ task[c].at = "upload" /\ j \in task[c].away => i \in task[c].list.files
    /\ j = own[c] => KeptBy(c, i)

\* An entry that was published is in a copy that every computer spares.
Witnessed ==
    \A k \in ever : \A i \in k.list.files :
        \/ Stoned(i)
        \/ \E j \in copies : i \in j.list.files /\ \A c \in Computers : Spares(c, j, i)

Sound(c) == Recorded(c) /\ Known(c) /\ Numbered(c) /\ Fresh(c)

IInv ==
    /\ TypeOK
    /\ copies \subseteq ever
    /\ \A k \in ever : Honest(k.list)
    /\ \A c \in Computers : Sound(c)
    /\ Witnessed

-----------------------------------------------------------------------------
(* Lists *)

\* A set of sequence numbers has a highest one, so merge's Max is one of them.
LEMMA MaxSeqs ==
    ASSUME NEW S \in SUBSET (0..MaxSeq), S # {}
    PROVE  Max(S) \in S /\ \A y \in S : y <= Max(S)
<1> DEFINE T == {MaxSeq - s : s \in S}
<1>1. T \subseteq Nat /\ T # {}
  <2>1. \A s \in S : MaxSeq - s \in Nat
    BY BoundAssumption
  <2>2. T \subseteq Nat
    BY Zenon, <2>1
  <2>3. PICK s \in S : TRUE
    BY Zenon
  <2>4. MaxSeq - s \in T
    BY Zenon
  <2> QED
    BY Zenon, <2>2, <2>4
<1>2. PICK x \in T : \A y \in T : ~(<<y, x>> \in OpToRel(<, Nat))
  BY Zenon, <1>1, NatLessThanWellFounded, WFMin
<1>3. PICK s \in S : x = MaxSeq - s
  BY Zenon, <1>2
<1>4. ASSUME NEW y \in S PROVE y <= s
  <2>1. MaxSeq - y \in T /\ MaxSeq - y \in Nat /\ x \in Nat
    BY Zenon, <1>1
  <2>2. ~(MaxSeq - y < x)
    BY Zenon, <2>1, <1>2 DEF OpToRel
  <2> QED
    BY <2>2, <1>3, BoundAssumption
<1> HIDE DEF T
<1>5. s \in S /\ \A y \in S : s >= y
  BY Zenon, <1>4, BoundAssumption
<1>6. Max(S) \in S /\ \A y \in S : Max(S) >= y
  BY Zenon, <1>5 DEF Max
<1> QED
  BY Zenon, <1>6, BoundAssumption

\* The parts of a list.
LEMMA ListShape ==
    ASSUME NEW l \in List
    PROVE  /\ l.seq \in 0..MaxSeq /\ l.seq \in Nat
           /\ l.files \subseteq Ids /\ l.removed \subseteq Ids /\ l.files \cap l.removed = {}
           /\ l = [seq |-> l.seq, files |-> l.files, removed |-> l.removed]
  BY BoundAssumption DEF List

\* A list is made of its parts.
LEMMA ListMade ==
    ASSUME NEW n \in 0..MaxSeq, NEW f \in SUBSET Ids, NEW r \in SUBSET Ids, f \cap r = {}
    PROVE  [seq |-> n, files |-> f, removed |-> r] \in List
  BY Zenon DEF List

\* The parts of a copy.
LEMMA CopyShape ==
    ASSUME NEW k \in Copy
    PROVE  k.by \in Computers /\ k.list \in List
  BY Zenon DEF Copy

\* insert only adds entries.
LEMMA Inserted ==
    ASSUME NEW l \in List, NEW ids \in SUBSET Ids
    PROVE  /\ insert(l, ids) \in List
           /\ insert(l, ids).seq = l.seq /\ insert(l, ids).removed = l.removed
           /\ l.files \subseteq insert(l, ids).files
<1>0. l \in [seq: 0..MaxSeq, files: SUBSET Ids, removed: SUBSET Ids]
  BY Zenon DEF List
<1>1. insert(l, ids) = [seq |-> l.seq, files |-> l.files \cup (ids \ l.removed), removed |-> l.removed]
  BY <1>0 DEF insert
<1> QED
  BY <1>1, ListShape, ListMade

\* remove takes the entries out and keeps tombstones for them.
LEMMA Removed ==
    ASSUME NEW l \in List, NEW ids \in SUBSET Ids
    PROVE  /\ remove(l, ids) \in List
           /\ remove(l, ids).seq = l.seq /\ remove(l, ids).removed = l.removed \cup ids
           /\ remove(l, ids).files = l.files \ ids
<1>1. remove(l, ids) = [seq |-> l.seq, files |-> l.files \ ids, removed |-> l.removed \cup ids]
  BY Zenon DEF remove
<1> QED
  BY <1>1, ListShape, ListMade

\* seal only counts the seq up.
LEMMA SealedList ==
    ASSUME NEW l \in List, l.seq < MaxSeq
    PROVE  /\ seal(l) \in List
           /\ seal(l).seq = l.seq + 1 /\ seal(l).files = l.files /\ seal(l).removed = l.removed
<1>0. l \in [seq: 0..MaxSeq, files: SUBSET Ids, removed: SUBSET Ids]
  BY Zenon DEF List
<1>1. seal(l) = [seq |-> l.seq + 1, files |-> l.files, removed |-> l.removed]
  BY <1>0 DEF seal
<1>2. l.seq + 1 \in 0..MaxSeq
  BY ListShape, BoundAssumption
<1> QED
  BY <1>1, <1>2, ListShape, ListMade

\* merge loses an entry only to a tombstone, and is as new as the newest.
LEMMA MergedLists ==
    ASSUME NEW L \in SUBSET List, L # {}
    PROVE  /\ merge(L) \in List
           /\ \A l \in L : merge(L).seq >= l.seq
           /\ \A i \in merge(L).removed : \E l \in L : i \in l.removed
           /\ \A l \in L : \A i \in l.files : i \in merge(L).files \/ i \in merge(L).removed
<1>1. {l.seq : l \in L} \in SUBSET (0..MaxSeq) /\ {l.seq : l \in L} # {}
  BY Zenon, ListShape
<1>2. UNION {l.removed : l \in L} \subseteq Ids /\ UNION {l.files : l \in L} \subseteq Ids
  BY ListShape
<1>3. PICK n : n = Max({l.seq : l \in L})
  BY Zenon
<1>4. n \in 0..MaxSeq /\ \A l \in L : l.seq <= n
  BY Zenon, <1>1, <1>3, MaxSeqs
<1>5. /\ merge(L).seq = n
      /\ merge(L).files = (UNION {l.files : l \in L}) \ UNION {l.removed : l \in L}
      /\ merge(L).removed = UNION {l.removed : l \in L}
      /\ merge(L) = [seq |-> merge(L).seq, files |-> merge(L).files,
                     removed |-> merge(L).removed]
  BY Zenon, <1>3 DEF merge
<1>6. /\ \A i \in merge(L).removed : \E l \in L : i \in l.removed
      /\ \A l \in L : \A i \in l.files : i \in merge(L).files \/ i \in merge(L).removed
      /\ merge(L).files \in SUBSET Ids /\ merge(L).removed \in SUBSET Ids
      /\ merge(L).files \cap merge(L).removed = {}
  BY <1>2, <1>5
<1>7. [seq |-> merge(L).seq, files |-> merge(L).files, removed |-> merge(L).removed] \in List
  BY Zenon, <1>4, <1>5, <1>6, ListMade
<1>8. \A l \in L : n >= l.seq
  BY Zenon, <1>4, ListShape, BoundAssumption
<1> QED
  BY Zenon, <1>5, <1>6, <1>7, <1>8

-----------------------------------------------------------------------------
(* Types *)

\* What a task holds at each of its steps.
LEMMA TaskShape ==
    ASSUME NEW t \in Task
    PROVE  /\ t.at \in {"idle", "list", "upload", "deletes", "read"}
           /\ t.at \in {"list", "upload", "deletes"} => t.list \in List
           /\ t.at = "list" => t.sealed \in BOOLEAN
           /\ t.at = "upload" => t.away \in SUBSET Copy
           /\ t.at = "read" => t.opened \in SUBSET Copy /\ t.opened # {}
  BY DEF Task, Idle

\* A task is made of what it holds.
LEMMA TaskMade ==
    /\ Idle \in Task
    /\ \A l \in List :
        /\ \A b \in BOOLEAN : [at |-> "list", list |-> l, sealed |-> b] \in Task
        /\ \A K \in SUBSET Copy : [at |-> "upload", list |-> l, away |-> K] \in Task
        /\ [at |-> "deletes", list |-> l] \in Task
    /\ \A K \in SUBSET Copy : K # {} => [at |-> "read", opened |-> K] \in Task
  BY Zenon DEF Task

\* An empty list is a list.
LEMMA NewList == new \in List /\ new.seq = 0 /\ new.files = {} /\ new.removed = {}
  BY BoundAssumption DEF List, new

\* reconcile_key_list takes out only what was recorded as removed.
LEMMA Reconciled ==
    ASSUME TypeOK, NEW c \in Computers, NEW l \in List
    PROVE  /\ reconcile_key_list(c, l) \in List
           /\ reconcile_key_list(c, l).seq = l.seq
           /\ reconcile_key_list(c, l).removed = l.removed \cup stones[c]
           /\ \A i \in l.files : i \in reconcile_key_list(c, l).files \/ i \in stones[c]
<1>1. stones[c] \in SUBSET Ids /\ rows[c] \ removing[c] \in SUBSET Ids
  BY Zenon DEF TypeOK
<1>2. /\ remove(l, stones[c]) \in List
      /\ remove(l, stones[c]).seq = l.seq
      /\ remove(l, stones[c]).removed = l.removed \cup stones[c]
      /\ remove(l, stones[c]).files = l.files \ stones[c]
  BY Zenon, <1>1, Removed
<1> QED
  BY Zenon, <1>1, <1>2, Inserted DEF reconcile_key_list

\* A list that can be loaded is a list.
LEMMA LoadedType ==
    ASSUME TypeOK, NEW c \in Computers, ~Unloadable(c)
    PROVE  load_key_list(c) \in List
<1>1. slot[c] \in List \cup {None} /\ file[c] \in List \cup {None, Bad}
  BY Zenon DEF TypeOK
<1>2. CASE slot[c] # None
  BY Zenon, <1>1, <1>2 DEF load_key_list
<1>3. CASE slot[c] = None
  <2>1. (IF file[c] = None THEN new ELSE file[c]) \in List
    BY Zenon, <1>1, <1>3, NewList DEF Unloadable
  <2> QED
    BY Zenon, <2>1, <1>3, Reconciled DEF load_key_list
<1> QED
  BY Zenon, <1>2, <1>3

\* What a sync makes of the copies it found.
LEMMA MergedType ==
    ASSUME TypeOK, NEW c \in Computers, task[c].at = "list", NEW K \in SUBSET Copy
    PROVE  /\ Merged(c, K).list \in List /\ Merged(c, K).sealed \in BOOLEAN
           /\ merge({task[c].list} \cup {k.list : k \in K}) \in List
<1>1. task[c].list \in List /\ task[c].sealed \in BOOLEAN
  BY Zenon, TaskShape DEF TypeOK
<1>2. {task[c].list} \cup {k.list : k \in K} \in SUBSET List
  BY Zenon, <1>1, CopyShape
<1>3. merge({task[c].list} \cup {k.list : k \in K}) \in List
  BY Zenon, <1>2, MergedLists
<1> QED
  BY Zenon, <1>1, <1>3 DEF Merged

\* What apply_key_list does to the index.
LEMMA AppliedType ==
    ASSUME TypeOK, NEW c \in Computers, NEW l \in List, apply_key_list(c, l)
    PROVE  /\ rows' \in [Computers -> SUBSET Ids] /\ stones' \in [Computers -> SUBSET Ids]
           /\ \A d \in Computers : stones[d] \subseteq stones'[d]
           /\ \A d \in Computers \ {c} : rows'[d] = rows[d] /\ stones'[d] = stones[d]
           /\ stones'[c] \ stones[c] \in SUBSET Ids
           /\ rows'[c] \cap (stones[c] \ rows[c]) = {}
<1>1. /\ l.files \subseteq Ids /\ l.removed \subseteq Ids
      /\ rows \in [Computers -> SUBSET Ids] /\ stones \in [Computers -> SUBSET Ids]
  BY Zenon, ListShape DEF TypeOK
<1> QED
  BY Zenon, <1>1 DEF apply_key_list, Adoptable

-----------------------------------------------------------------------------
\* Every step keeps the types.
LEMMA TypePreserved ==
    ASSUME TypeOK, \A c \in Computers : Sound(c), [Next]_vars
    PROVE  TypeOK'
<1>1. ASSUME NEW c \in Computers, sync_begin(c) PROVE TypeOK'
  <2> DEFINE l == reconcile_key_list(c, IF Unloadable(c) THEN new ELSE load_key_list(c))
  <2>1. l \in List
    BY Zenon, LoadedType, NewList, Reconciled
  <2> HIDE DEF l
  <2>2. CASE l.seq >= last_seen[c]
    <3>1. l.seq < MaxSeq
      BY Zenon, <1>1, <2>2 DEF sync_begin, seal_locally, l
    <3>2. seal(l) \in List /\ l.seq + 1 \in 0..MaxSeq
      BY Zenon, <2>1, <3>1, SealedList, ListShape, BoundAssumption
    <3>3. [at |-> "list", list |-> seal(l), sealed |-> TRUE] \in Task
      BY Zenon, <3>2, TaskMade
    <3>4. /\ slot' = [slot EXCEPT ![c] = seal(l)] /\ file' = [file EXCEPT ![c] = seal(l)]
          /\ last_seen' = [last_seen EXCEPT ![c] = l.seq + 1]
          /\ task' = [task EXCEPT ![c] = [at |-> "list", list |-> seal(l), sealed |-> TRUE]]
          /\ wake' = [wake EXCEPT ![c] = FALSE]
          /\ UNCHANGED <<rows, stones, own, deletes, pending, removing, pulled, node>>
      BY Zenon, <1>1, <2>2 DEF sync_begin, seal_locally, l
    <3> QED
      BY Zenon, <3>2, <3>3, <3>4 DEF TypeOK, node
  <2>3. CASE ~(l.seq >= last_seen[c])
    <3>1. [at |-> "list", list |-> l, sealed |-> FALSE] \in Task
      BY Zenon, <2>1, TaskMade
    <3>2. /\ task' = [task EXCEPT ![c] = [at |-> "list", list |-> l, sealed |-> FALSE]]
          /\ wake' = [wake EXCEPT ![c] = FALSE]
          /\ UNCHANGED <<rows, stones, own, deletes, pending, removing, pulled, node, file,
                         last_seen, slot>>
      BY Zenon, <1>1, <2>3 DEF sync_begin, l
    <3> QED
      BY Zenon, <3>1, <3>2 DEF TypeOK, node
  <2> QED
    BY Zenon, <2>2, <2>3
<1>2. ASSUME NEW c \in Computers, NEW K \in SUBSET Copy, sync_merge(c, K) PROVE TypeOK'
  <2> DEFINE m == Merged(c, K)
             out == IF m.sealed THEN m.list ELSE seal(m.list)
  <2>1. m.list \in List
    BY Zenon, <1>2, MergedType DEF sync_merge
  <2> HIDE DEF m
  <2>2. CASE Behind(c, m.list)
    BY Zenon, <1>2, <2>2, TaskMade DEF sync_merge, TypeOK, node, m
  <2>3. CASE ~Behind(c, m.list)
    <3>1. m.sealed \/ m.list.seq < MaxSeq
      BY Zenon, <1>2, <2>3 DEF sync_merge, seal_locally, m
    <3>2. out \in List /\ (~m.sealed => m.list.seq + 1 \in 0..MaxSeq)
      BY Zenon, <2>1, <3>1, SealedList, ListShape, BoundAssumption
    <3> HIDE DEF out
    <3>3. [at |-> "upload", list |-> out, away |-> K] \in Task
      BY Zenon, <3>2, TaskMade
    <3>4. file' \in [Computers -> List \cup {None, Bad}] /\ last_seen' \in [Computers -> 0..MaxSeq]
      BY <1>2, <2>3, <3>2 DEF sync_merge, seal_locally, TypeOK, m, out
    <3>5. /\ slot' = [slot EXCEPT ![c] = out]
          /\ task' = [task EXCEPT ![c] = [at |-> "upload", list |-> out, away |-> K]]
          /\ UNCHANGED <<rows, stones, own, deletes, pending, removing, pulled, wake, node>>
      BY Zenon, <1>2, <2>3 DEF sync_merge, m, out
    <3>6. slot' \in [Computers -> List \cup {None}] /\ task' \in [Computers -> Task]
      BY Zenon, <3>2, <3>3, <3>5 DEF TypeOK
    <3> QED
      BY Zenon, <3>4, <3>5, <3>6 DEF TypeOK, node
  <2> QED
    BY Zenon, <2>2, <2>3
<1>3. ASSUME NEW c \in Computers, NEW ok \in BOOLEAN, sync_upload(c, ok) PROVE TypeOK'
  <2> DEFINE copy == [by |-> c, list |-> task[c].list]
  <2>1. task[c].list \in List /\ task[c].away \in SUBSET Copy
    BY Zenon, <1>3, TaskShape DEF sync_upload, TypeOK
  <2>2. copy \in Copy /\ [at |-> "deletes", list |-> task[c].list] \in Task
    BY Zenon, <2>1, TaskMade DEF Copy
  <2>3. Replaced(c, ok) \in SUBSET Copy
    BY Zenon, <2>1 DEF Replaced, TypeOK
  <2> HIDE DEF copy
  <2> QED
    BY Zenon, <1>3, <2>2, <2>3 DEF sync_upload, TypeOK, copy
<1>4. ASSUME NEW c \in Computers, sync_end(c) PROVE TypeOK'
  <2>1. task[c].list \in List
    BY Zenon, <1>4, TaskShape DEF sync_end, TypeOK
  <2>2. /\ rows' \in [Computers -> SUBSET Ids] /\ stones' \in [Computers -> SUBSET Ids]
        /\ stones'[c] \ stones[c] \in SUBSET Ids
    BY Zenon, <1>4, <2>1, AppliedType DEF sync_end
  <2>3. slot[c] \in List
    BY Zenon, <1>4 DEF sync_end, TypeOK, Sound, Numbered
  <2>4. remove(slot[c], stones'[c] \ stones[c]) \in List
    BY Zenon, <2>2, <2>3, Removed
  <2>5. slot' \in [Computers -> List \cup {None}]
    BY Zenon, <1>4, <2>4 DEF sync_end, TypeOK
  <2> QED
    BY Zenon, <1>4, <2>2, <2>5, TaskMade DEF sync_end, run_pending_deletes, TypeOK
<1>5. ASSUME NEW c \in Computers, pull_begin(c) PROVE TypeOK'
  <2>1. [at |-> "read", opened |-> copies \ (pulled[c] \cup {own[c]})] \in Task
    BY Zenon, <1>5, TaskMade DEF pull_begin, TypeOK
  <2> QED
    BY Zenon, <1>5, <2>1 DEF pull_begin, TypeOK, index, node
<1>6. ASSUME NEW c \in Computers, pull_end(c) PROVE TypeOK'
  <2>1. task[c].opened \in SUBSET Copy /\ task[c].opened # {}
    BY Zenon, <1>6, TaskShape DEF pull_end, TypeOK
  <2> PICK top \in newest(task[c].opened) : pull_merge(c, top.list)
    BY Zenon, <1>6 DEF pull_end
  <2>2. CASE Unloadable(c)
    BY Zenon, <2>2, TaskMade DEF pull_merge, TypeOK, index, node
  <2>3. CASE ~Unloadable(c)
    <3> DEFINE opened == task[c].opened
               now == load_key_list(c)
               merged == merge({now} \cup {k.list : k \in opened})
               result == IF ~same_content(merged, now) THEN merged ELSE now
    <3>1. now \in List /\ top \in opened /\ top.list \in List
      BY Zenon, <2>1, <2>3, LoadedType, CopyShape DEF newest
    <3>2. {now} \cup {k.list : k \in opened} \in SUBSET List
      BY Zenon, <2>1, <3>1, CopyShape
    <3>3. merged \in List
      BY Zenon, <3>2, MergedLists
    <3>4. result \in List /\ top.list.seq \in 0..MaxSeq
      BY Zenon, <3>1, <3>3, ListShape
    <3>5. apply_key_list(c, result) /\ slot' = [slot EXCEPT ![c] = remove(result, stones'[c] \ stones[c])]
      BY Zenon, <2>3 DEF pull_merge
    <3>6. /\ file' \in [Computers -> List \cup {None, Bad}]
          /\ last_seen' \in [Computers -> 0..MaxSeq]
      BY Zenon, <2>3, <3>1, <3>4 DEF pull_merge, TypeOK
    <3> HIDE DEF result
    <3>7. /\ rows' \in [Computers -> SUBSET Ids] /\ stones' \in [Computers -> SUBSET Ids]
          /\ stones'[c] \ stones[c] \in SUBSET Ids
      BY Zenon, <3>4, <3>5, AppliedType
    <3>8. slot' \in [Computers -> List \cup {None}]
      BY Zenon, <3>4, <3>5, <3>7, Removed DEF TypeOK
    <3>9. /\ pending' \in [Computers -> BOOLEAN] /\ wake' \in [Computers -> BOOLEAN]
          /\ pulled' \in [Computers -> SUBSET Copy] /\ task' \in [Computers -> Task]
          /\ UNCHANGED <<own, deletes, removing, node>>
      <4> DEFINE publish == Publishes(now, merged, top.list)
      <4>1. /\ pending' = [pending EXCEPT ![c] = @ \/ publish]
            /\ wake' = [wake EXCEPT ![c] = @ \/ publish]
            /\ pulled' = [pulled EXCEPT ![c] = @ \cup opened]
            /\ task' = [task EXCEPT ![c] = Idle]
            /\ UNCHANGED <<own, deletes, removing, node>>
        BY Zenon, <2>3 DEF pull_merge
      <4>2. publish \in BOOLEAN
        BY Zenon DEF Publishes
      <4> HIDE DEF publish
      <4>3. (pending[c] \/ publish) \in BOOLEAN /\ (wake[c] \/ publish) \in BOOLEAN
        BY Zenon
      <4>4. pending' \in [Computers -> BOOLEAN] /\ wake' \in [Computers -> BOOLEAN]
        BY Zenon, <4>1, <4>3 DEF TypeOK
      <4> QED
        BY Zenon, <4>1, <4>4, <2>1, TaskMade DEF TypeOK
    <3> QED
      BY Zenon, <3>6, <3>7, <3>8, <3>9 DEF TypeOK, node
  <2> QED
    BY Zenon, <2>2, <2>3
<1>7. ASSUME NEW c \in Computers, pull_applies(c) PROVE TypeOK'
  <2>1. load_key_list(c) \in List /\ apply_key_list(c, load_key_list(c))
    BY Zenon, <1>7, LoadedType DEF pull_applies
  <2>2. /\ rows' \in [Computers -> SUBSET Ids] /\ stones' \in [Computers -> SUBSET Ids]
        /\ stones'[c] \ stones[c] \in SUBSET Ids
    BY Zenon, <2>1, AppliedType
  <2>3. slot' \in [Computers -> List \cup {None}]
    BY Zenon, <1>7, <2>1, <2>2, Removed DEF pull_applies, TypeOK
  <2> QED
    BY Zenon, <1>7, <2>2, <2>3 DEF pull_applies, TypeOK, node
<1>8. ASSUME NEW c \in Computers, Crash(c) PROVE TypeOK'
  BY Zenon, <1>8, TaskMade DEF Crash, TypeOK, index, node
<1>9. ASSUME NEW i \in Ids, add(i) PROVE TypeOK'
  <2> DEFINE c == Owner[i]
  <2>1. c \in Computers
    BY Zenon, IdsAssumption
  <2>2. ~Unloadable(c) => insert(load_key_list(c), {i}) \in List
    BY Zenon, <2>1, LoadedType, Inserted
  <2> HIDE DEF c
  <2> QED
    BY <1>9, <2>1, <2>2 DEF add, TypeOK, node, c
<1>10. ASSUME NEW i \in Ids, upload(i) PROVE TypeOK'
  BY Zenon, <1>10 DEF upload, TypeOK, index, memory
<1>11. ASSUME NEW i \in Ids, unclaim(i) PROVE TypeOK'
  BY Zenon, <1>11 DEF unclaim, TypeOK, index, memory
<1>12. ASSUME NEW c \in Computers, NEW i \in Ids, remove_begin(c, i) PROVE TypeOK'
  BY Zenon, <1>12 DEF remove_begin, TypeOK, node
<1>13. ASSUME NEW c \in Computers, NEW i \in Ids, remove_end(c, i) PROVE TypeOK'
  <2>1. slot[c] # None => remove(slot[c], {i}) \in List
    BY Removed DEF TypeOK
  <2> QED
    BY Zenon, <1>13, <2>1 DEF remove_end, TypeOK
<1>14. ASSUME NEW c \in Computers, mirror_wakes(c) PROVE TypeOK'
  BY Zenon, <1>14 DEF mirror_wakes, TypeOK, index, node
<1>15. CASE old_copy
  BY Zenon, <1>15 DEF old_copy, TypeOK, index, memory
<1>16. CASE UNCHANGED vars
  BY Zenon, <1>16 DEF vars, index, memory, node, TypeOK
<1>17. copies \in SUBSET Copy /\ {} \in SUBSET Copy
  BY Zenon DEF TypeOK
<1> QED
  BY Zenon, <1>1, <1>2, <1>3, <1>4, <1>5, <1>6, <1>7, <1>8, <1>9, <1>10, <1>11, <1>12, <1>13, <1>14,
     <1>15, <1>16, <1>17
  DEF Next, Syncs, Pulls, sync_reads, sync_reads_nothing

-----------------------------------------------------------------------------
(* Steps of one computer *)

\* Only c's own state changes, and no removal is forgotten.
Alone(c) ==
    /\ \A d \in Computers : stones[d] \subseteq stones'[d]
    /\ \A d \in Computers \ {c} :
        /\ removing'[d] = removing[d] /\ slot'[d] = slot[d] /\ file'[d] = file[d]
        /\ last_seen'[d] = last_seen[d] /\ own'[d] = own[d] /\ deletes'[d] = deletes[d]
        /\ task'[d] = task[d]

\* A step of c keeps what the invariant says of the other computers.
LEMMA OthersSound ==
    ASSUME NEW c \in Computers, Alone(c), NEW d \in Computers, d # c, Sound(d),
           ever \subseteq ever', \A k \in ever' \ ever : k.by = c
    PROVE  Sound(d)'
<1>1. \A i : Stoned(i) => Stoned(i)'
  BY Zenon DEF Alone, Stoned
<1>2. /\ removing'[d] = removing[d] /\ slot'[d] = slot[d] /\ file'[d] = file[d]
      /\ last_seen'[d] = last_seen[d] /\ own'[d] = own[d] /\ deletes'[d] = deletes[d]
      /\ task'[d] = task[d] /\ stones[d] \subseteq stones'[d]
  BY Zenon DEF Alone
<1>3. Recorded(d)'
  BY Zenon, <1>1, <1>2 DEF Sound, Recorded, Honest
<1>4. Known(d)'
  BY Zenon, <1>2 DEF Sound, Known
<1>5. Numbered(d)'
  BY Zenon, <1>1, <1>2 DEF Sound, Numbered, Sealed
<1>6. Fresh(d)'
  BY Zenon, <1>2 DEF Sound, Fresh, Sealed
<1> QED
  BY Zenon, <1>3, <1>4, <1>5, <1>6 DEF Sound

\* A step of c keeps the invariant when c itself stays sound, and no copy that
\* every computer spared is deleted or no longer spared by c.
LEMMA StepOfOne ==
    ASSUME IInv, TypeOK', NEW c \in Computers, Alone(c), Sound(c)',
           ever' = ever, copies' \subseteq ever,
           ASSUME NEW j \in copies, NEW i \in j.list.files, ~Stoned(i)',
                  \A d \in Computers : Spares(d, j, i)
           PROVE  j \in copies' /\ Spares(c, j, i)'
    PROVE  IInv'
<1>1. \A i : Stoned(i) => Stoned(i)'
  BY Zenon DEF Alone, Stoned
<1>2. \A d \in Computers : Sound(d)'
  BY Zenon, OthersSound DEF IInv
<1>3. \A k \in ever' : Honest(k.list)'
  BY Zenon, <1>1 DEF IInv, Honest
<1>4. Witnessed'
  <2> SUFFICES ASSUME NEW k \in ever, NEW i \in k.list.files, ~Stoned(i)'
               PROVE  \E j \in copies' : i \in j.list.files /\ \A d \in Computers : Spares(d, j, i)'
    BY Zenon DEF Witnessed
  <2>1. PICK j \in copies : i \in j.list.files /\ \A d \in Computers : Spares(d, j, i)
    BY Zenon, <1>1 DEF IInv, Witnessed
  <2>2. j \in copies' /\ Spares(c, j, i)'
    BY Zenon, <2>1
  <2>3. ASSUME NEW d \in Computers, d # c PROVE Spares(d, j, i)'
    BY <2>1, <2>3 DEF Spares, KeptBy, Sealed, Alone
  <2> QED
    BY Zenon, <2>1, <2>2, <2>3
<1> QED
  BY Zenon, <1>2, <1>3, <1>4 DEF IInv

\* A list that loads is no older than the last one seen, and has every entry
\* that c keeps.
LEMMA Loaded ==
    ASSUME TypeOK, NEW c \in Computers, Sound(c), ~Unloadable(c)
    PROVE  /\ load_key_list(c) \in List
           /\ load_key_list(c).seq >= last_seen[c]
           /\ Honest(load_key_list(c))
           /\ \A i : KeptBy(c, i) /\ ~Stoned(i) => i \in load_key_list(c).files
<1>1. slot[c] \in List \cup {None} /\ file[c] \in List \cup {None, Bad} /\ last_seen[c] \in Nat
  BY BoundAssumption DEF TypeOK
<1>2. CASE slot[c] # None
  BY Zenon, <1>1, <1>2 DEF load_key_list, Sound, Numbered, Recorded, KeptBy
<1>3. CASE slot[c] = None
  <2> DEFINE l == IF file[c] = None THEN new ELSE file[c]
  <2>1. load_key_list(c) = reconcile_key_list(c, l)
    BY Zenon, <1>3 DEF load_key_list
  <2>2. l \in List /\ l.seq >= last_seen[c] /\ Honest(l)
    BY <1>1, <1>3, NewList, ListShape DEF Unloadable, Sound, Numbered, Recorded, Honest
  <2>3. \A i : KeptBy(c, i) => i \in l.files
    BY Zenon, <1>1, <1>3, <2>2 DEF KeptBy, Unloadable
  <2> HIDE DEF l
  <2> QED
    BY <2>1, <2>2, <2>3, Reconciled DEF Honest, Stoned
<1> QED
  BY Zenon, <1>2, <1>3

\* So does the list that a sync starts from, unless the sealed copy is lost.
LEMMA Begun ==
    ASSUME TypeOK, NEW c \in Computers, Sound(c),
           NEW l, l = reconcile_key_list(c, IF Unloadable(c) THEN new ELSE load_key_list(c))
    PROVE  /\ l \in List
           /\ Honest(l)
           /\ l.seq >= last_seen[c] => \A i : KeptBy(c, i) /\ ~Stoned(i) => i \in l.files
<1>1. CASE Unloadable(c)
  <2>1. file[c] # None
    BY Zenon, <1>1, RecordAssumption DEF Unloadable
  <2>2. last_seen[c] > 0 /\ last_seen[c] \in Nat
    BY <2>1, BoundAssumption DEF Sound, Numbered, TypeOK
  <2> QED
    BY <1>1, <2>2, NewList, Reconciled DEF Honest, Stoned
<1>2. CASE ~Unloadable(c)
  BY <1>2, Loaded, Reconciled DEF Honest, Stoned
<1> QED
  BY Zenon, <1>1, <1>2

-----------------------------------------------------------------------------
(* The invariant, step by step *)

\* sync_key_list seals this computer's list.
LEMMA SyncBegins ==
    ASSUME IInv, TypeOK', NEW c \in Computers, sync_begin(c)
    PROVE  IInv'
<1>1. TypeOK /\ Sound(c)
  BY Zenon DEF IInv
<1>2. PICK l : l = reconcile_key_list(c, IF Unloadable(c) THEN new ELSE load_key_list(c))
  BY Zenon
<1>3. /\ l \in List /\ Honest(l)
      /\ l.seq >= last_seen[c] => \A i : KeptBy(c, i) /\ ~Stoned(i) => i \in l.files
  BY Zenon, <1>1, <1>2, Begun
<1>4. /\ stones' = stones /\ removing' = removing /\ own' = own /\ deletes' = deletes
      /\ copies' = copies /\ ever' = ever
  BY Zenon DEF sync_begin, node
<1>5. last_seen[c] \in Nat /\ l.seq \in Nat
  BY <1>1, <1>3, ListShape, BoundAssumption DEF TypeOK
<1>6. CASE l.seq >= last_seen[c]
  <2>1. /\ l.seq < MaxSeq
        /\ slot' = [slot EXCEPT ![c] = seal(l)] /\ file' = [file EXCEPT ![c] = seal(l)]
        /\ last_seen' = [last_seen EXCEPT ![c] = l.seq + 1]
        /\ task' = [task EXCEPT ![c] = [at |-> "list", list |-> seal(l), sealed |-> TRUE]]
    BY Zenon, <1>2, <1>6 DEF sync_begin, seal_locally
  <2>2. /\ seal(l) \in List /\ seal(l).seq = l.seq + 1
        /\ seal(l).files = l.files /\ seal(l).removed = l.removed
    BY Zenon, <1>3, <2>1, SealedList
  <2>3. Alone(c)
    BY <1>1, <1>4, <2>1 DEF Alone, TypeOK
  <2>4. /\ slot'[c] = seal(l) /\ file'[c] = seal(l) /\ last_seen'[c] = l.seq + 1
        /\ task'[c].at = "list" /\ task'[c].list = seal(l) /\ task'[c].sealed = TRUE
    BY Zenon, <1>1, <2>1 DEF TypeOK
  <2>5. Recorded(c)'
    BY Zenon, <1>1, <1>3, <1>4, <2>2, <2>4 DEF Sound, Recorded, Honest, Stoned
  <2>6. Known(c)'
    BY Zenon, <1>1, <1>4, <2>4 DEF Sound, Known
  <2>7. Numbered(c)'
    BY <1>4, <1>5, <2>2, <2>4, RecordAssumption DEF Numbered, Sealed
  <2>8. Fresh(c)'
    <3>1. \A k \in ever : k.list.seq \in Nat
      BY Zenon, <1>1, CopyShape, ListShape DEF TypeOK
    <3> QED
      BY <3>1, <1>1, <1>4, <1>5, <1>6, <2>4 DEF Sound, Fresh
  <2>9. ASSUME NEW j \in copies, NEW i \in j.list.files, ~Stoned(i)',
               \A d \in Computers : Spares(d, j, i)
        PROVE  j \in copies' /\ Spares(c, j, i)'
    BY Zenon, <2>9, <1>3, <1>4, <1>6, <2>2, <2>4, RecordAssumption DEF Spares, KeptBy, Stoned
  <2> QED
    BY Zenon, <1>4, <2>3, <2>5, <2>6, <2>7, <2>8, <2>9, StepOfOne DEF Sound, IInv
<1>7. CASE ~(l.seq >= last_seen[c])
  <2>1. /\ slot' = slot /\ file' = file /\ last_seen' = last_seen
        /\ task' = [task EXCEPT ![c] = [at |-> "list", list |-> l, sealed |-> FALSE]]
    BY Zenon, <1>2, <1>7 DEF sync_begin
  <2>2. Alone(c)
    BY Zenon, <1>1, <1>4, <2>1 DEF Alone, TypeOK
  <2>3. task'[c].at = "list" /\ task'[c].list = l /\ task'[c].sealed = FALSE
    BY Zenon, <1>1, <2>1 DEF TypeOK
  <2>4. Recorded(c)' /\ Known(c)' /\ Fresh(c)'
    BY Zenon, <1>1, <1>3, <1>4, <2>1, <2>3 DEF Sound, Recorded, Known, Fresh, Honest, Stoned, Sealed
  <2>5. Numbered(c)'
    BY <1>1, <1>4, <1>5, <1>7, <2>1, <2>3 DEF Sound, Numbered, Sealed
  <2>6. ASSUME NEW j \in copies, NEW i \in j.list.files, ~Stoned(i)',
               \A d \in Computers : Spares(d, j, i)
        PROVE  j \in copies' /\ Spares(c, j, i)'
    BY Zenon, <2>6, <1>4, <2>1, <2>3 DEF Spares, KeptBy, Sealed
  <2> QED
    BY Zenon, <1>4, <2>2, <2>4, <2>5, <2>6, StepOfOne DEF Sound, IInv
<1> QED
  BY Zenon, <1>6, <1>7

\* The merge of the copies that a sync found has all they say and all that its own
\* list says, or it is behind the last list seen.
LEMMA MergeSays ==
    ASSUME IInv, NEW c \in Computers, task[c].at = "list", NEW K \in SUBSET copies,
           NEW l, l = Merged(c, K).list, ~Behind(c, l)
    PROVE  /\ l \in List /\ Honest(l)
           /\ \A i \in task[c].list.files : i \in l.files \/ Stoned(i)
           /\ \A k \in K : \A i \in k.list.files : i \in l.files \/ Stoned(i)
           /\ Merged(c, K).sealed => task[c].sealed /\ l = task[c].list
           /\ ~task[c].sealed => K # {}
<1>1. TypeOK /\ Sound(c) /\ copies \subseteq ever /\ \A k \in ever : Honest(k.list)
  BY Zenon DEF IInv
<1>2. K \in SUBSET Copy /\ task[c].list \in List /\ task[c].sealed \in BOOLEAN
  BY Zenon, <1>1, TaskShape DEF TypeOK
<1>3. PICK m : m = merge({task[c].list} \cup {k.list : k \in K})
  BY Zenon
<1>4. {task[c].list} \cup {k.list : k \in K} \in SUBSET List
  BY Zenon, <1>2, CopyShape
<1>5. /\ m \in List
      /\ m.seq >= task[c].list.seq
      /\ \A i \in m.removed : i \in task[c].list.removed \/ \E k \in K : i \in k.list.removed
      /\ \A i \in task[c].list.files : i \in m.files \/ i \in m.removed
      /\ \A k \in K : \A i \in k.list.files : i \in m.files \/ i \in m.removed
  BY Zenon, <1>3, <1>4, MergedLists
<1>6. Honest(task[c].list) /\ \A k \in K : Honest(k.list)
  BY Zenon, <1>1 DEF Sound, Recorded
<1>7. Honest(m)
  BY Zenon, <1>5, <1>6 DEF Honest
<1>8. /\ l \in List /\ last_seen[c] \in Nat /\ l.seq \in Nat /\ m.seq \in Nat
      /\ task[c].list.seq \in Nat
  <2>1. l \in List
    BY Zenon, <1>1, <1>2, MergedType
  <2>2. last_seen[c] \in Nat
    BY <1>1, BoundAssumption DEF TypeOK
  <2> QED
    BY Zenon, <2>1, <2>2, <1>2, <1>5, ListShape
<1>9. CASE K # {} /\ m.seq >= last_seen[c] /\ m # task[c].list
  <2>1. Merged(c, K) = [list |-> m, sealed |-> FALSE]
    BY Zenon, <1>3, <1>9 DEF Merged
  <2> QED
    BY <2>1, <1>5, <1>7, <1>9 DEF Honest
<1>10. CASE ~(K # {} /\ m.seq >= last_seen[c] /\ m # task[c].list)
  <2>1. Merged(c, K) = [list |-> task[c].list, sealed |-> task[c].sealed]
    BY Zenon, <1>3, <1>10 DEF Merged
  <2>2. l = task[c].list /\ Merged(c, K).sealed = task[c].sealed
    BY <2>1
  <2>3. task[c].list.seq >= last_seen[c]
    BY <2>2, <1>8 DEF Behind
  <2>4. task[c].sealed
    BY <2>3, <1>1, <1>8 DEF Sound, Numbered
  <2>5. K = {} \/ m = task[c].list
    BY <1>5, <1>8, <1>10, <2>3
  <2> QED
    BY Zenon, <2>2, <2>4, <2>5, <1>2, <1>5, <1>6, <1>7 DEF Honest
<1> QED
  BY Zenon, <1>9, <1>10

\* The copies are merged and the result is sealed, or left for a later sync.
LEMMA SyncMerges ==
    ASSUME IInv, TypeOK', NEW c \in Computers, NEW K, K = copies \/ K = {}, sync_merge(c, K)
    PROVE  IInv'
<1>1. TypeOK /\ Sound(c) /\ copies \subseteq ever
  BY Zenon DEF IInv
<1>2. PICK l : l = Merged(c, K).list
  BY Zenon
<1>3. /\ stones' = stones /\ removing' = removing /\ own' = own /\ deletes' = deletes
      /\ copies' = copies /\ ever' = ever /\ task[c].at = "list"
  BY Zenon DEF sync_merge, node
<1>4. CASE Behind(c, l)
  <2>1. slot' = slot /\ file' = file /\ last_seen' = last_seen /\ task' = [task EXCEPT ![c] = Idle]
    BY Zenon, <1>2, <1>4 DEF sync_merge
  <2>2. Alone(c) /\ task'[c].at = "idle"
    BY Zenon, <1>1, <1>3, <2>1 DEF Alone, TypeOK, Idle
  <2>3. Sound(c)'
    BY Zenon, <1>1, <1>3, <2>1, <2>2
    DEF Sound, Recorded, Known, Numbered, Fresh, Honest, Stoned, Sealed
  <2>4. ASSUME NEW j \in copies, NEW i \in j.list.files, ~Stoned(i)',
               \A d \in Computers : Spares(d, j, i)
        PROVE  j \in copies' /\ Spares(c, j, i)'
    BY Zenon, <2>4, <1>3, <2>1, <2>2 DEF Spares, KeptBy, Sealed
  <2> QED
    BY Zenon, <1>1, <1>3, <2>2, <2>3, <2>4, StepOfOne
<1>5. CASE ~Behind(c, l)
  <2>1. /\ l \in List /\ Honest(l)
        /\ \A i \in task[c].list.files : i \in l.files \/ Stoned(i)
        /\ \A k \in K : \A i \in k.list.files : i \in l.files \/ Stoned(i)
        /\ Merged(c, K).sealed => task[c].sealed /\ l = task[c].list
        /\ ~task[c].sealed => K # {}
    BY Zenon, <1>2, <1>3, <1>5, MergeSays
  <2>2. PICK out : out = IF Merged(c, K).sealed THEN l ELSE seal(l)
    BY Zenon
  <2>3. /\ slot' = [slot EXCEPT ![c] = out]
        /\ task' = [task EXCEPT ![c] = [at |-> "upload", list |-> out, away |-> K]]
        /\ IF Merged(c, K).sealed THEN UNCHANGED <<file, last_seen>> ELSE seal_locally(c, l)
    BY Zenon, <1>2, <1>5, <2>2 DEF sync_merge
  <2>4. last_seen[c] \in Nat /\ l.seq \in Nat /\ l.seq >= last_seen[c]
    BY <1>1, <1>5, <2>1, ListShape, BoundAssumption DEF TypeOK, Behind
  <2>5. out \in List /\ out.files = l.files /\ out.removed = l.removed
    BY Zenon, <2>1, <2>2, <2>3, SealedList DEF seal_locally
  <2>6. /\ Alone(c) /\ file'[c] = out /\ last_seen'[c] = out.seq /\ out.seq \in Nat
        /\ last_seen'[c] >= last_seen[c] /\ last_seen'[c] > 0
        /\ ~Merged(c, K).sealed => last_seen'[c] > last_seen[c]
    <3>1. CASE Merged(c, K).sealed
      <4>1. out = task[c].list /\ l = out /\ Sealed(task[c])
        BY Zenon, <3>1, <1>3, <2>1, <2>2 DEF Sealed
      <4>2. file' = file /\ last_seen' = last_seen
        BY Zenon, <3>1, <2>3
      <4>3. out.seq = last_seen[c] /\ file[c] = out
        BY Zenon, <4>1, <1>1 DEF Sound, Numbered
      <4>4. last_seen[c] > 0
        BY Zenon, <4>3, <1>1, <2>5, RecordAssumption DEF Sound, Numbered
      <4>5. Alone(c)
        BY Zenon, <4>2, <1>1, <1>3, <2>3 DEF Alone, TypeOK
      <4> QED
        BY <4>2, <4>3, <4>4, <4>5, <3>1, <2>4
    <3>2. CASE ~Merged(c, K).sealed
      <4>1. /\ l.seq < MaxSeq /\ file' = [file EXCEPT ![c] = seal(l)]
            /\ last_seen' = [last_seen EXCEPT ![c] = l.seq + 1]
        BY Zenon, <3>2, <2>3 DEF seal_locally
      <4>2. out = seal(l) /\ out.seq = l.seq + 1
        BY Zenon, <3>2, <4>1, <2>1, <2>2, SealedList
      <4>3. file'[c] = out /\ last_seen'[c] = out.seq
        BY Zenon, <4>1, <4>2, <1>1 DEF TypeOK
      <4>4. Alone(c)
        BY Zenon, <4>1, <1>1, <1>3, <2>3 DEF Alone, TypeOK
      <4> QED
        BY <4>2, <4>3, <4>4, <2>4
    <3> QED
      BY Zenon, <3>1, <3>2
  <2>7. slot'[c] = out /\ task'[c].at = "upload" /\ task'[c].list = out /\ task'[c].away = K
    BY Zenon, <1>1, <2>3 DEF TypeOK
  <2>9. Recorded(c)'
    BY <1>1, <1>3, <2>1, <2>5, <2>6, <2>7 DEF Sound, Recorded, Honest, Stoned
  <2>10. Known(c)'
    BY Zenon, <1>1, <1>3, <2>7 DEF Sound, Known
  <2>11. Numbered(c)'
    BY <1>3, <2>5, <2>6, <2>7, RecordAssumption DEF Numbered, Sealed
  <2>12. Fresh(c)'
    <3>1. \A k \in ever : k.list.seq \in Nat
      BY Zenon, <1>1, CopyShape, ListShape DEF TypeOK
    <3>2. \A k \in ever : k.by = c => k.list.seq <= last_seen[c]
      BY Zenon, <1>1 DEF Sound, Fresh
    <3>3. CASE Merged(c, K).sealed
      <4>1. Sealed(task[c])
        BY Zenon, <3>3, <1>3, <2>1 DEF Sealed
      <4>2. \A k \in ever : k.by = c => k.list.seq < last_seen[c]
        BY Zenon, <4>1, <1>1 DEF Sound, Fresh
      <4> QED
        BY <4>2, <3>1, <1>3, <2>4, <2>6 DEF Fresh
    <3>4. CASE ~Merged(c, K).sealed
      BY <3>1, <3>2, <3>4, <1>3, <2>4, <2>6 DEF Fresh
    <3> QED
      BY Zenon, <3>3, <3>4
  <2>13. ASSUME NEW j \in copies, NEW i \in j.list.files, ~Stoned(i)',
                \A d \in Computers : Spares(d, j, i)
         PROVE  j \in copies' /\ Spares(c, j, i)'
    <3>1. Spares(c, j, i) /\ ~Stoned(i)
      BY Zenon, <2>13, <1>3 DEF Stoned
    <3>2. j \in K \/ j = own[c] => i \in out.files
      BY Zenon, <3>1, <1>3, <2>1, <2>5 DEF Spares, KeptBy, Sealed
    <3> QED
      BY Zenon, <3>1, <3>2, <1>3, <2>5, <2>6, <2>7, RecordAssumption DEF Spares, KeptBy
  <2> QED
    BY Zenon, <1>1, <1>3, <2>6, <2>9, <2>10, <2>11, <2>12, <2>13, StepOfOne DEF Sound
<1> QED
  BY Zenon, <1>4, <1>5

\* The list is uploaded: the new copy has the entries of those it replaces.
LEMMA SyncUploads ==
    ASSUME IInv, TypeOK', NEW c \in Computers, sync_upload(c, TRUE)
    PROVE  IInv'
<1>1. TypeOK /\ Sound(c) /\ copies \subseteq ever /\ \A k \in ever : Honest(k.list)
  BY Zenon DEF IInv
<1>2. PICK copy : copy = [by |-> c, list |-> task[c].list]
  BY Zenon
<1>3. /\ stones' = stones /\ removing' = removing /\ slot' = slot /\ file' = file
      /\ last_seen' = last_seen /\ task[c].at = "upload"
      /\ copies' = copies \cup {copy} /\ ever' = ever \cup copies'
      /\ own' = [own EXCEPT ![c] = copy]
      /\ deletes' = [deletes EXCEPT ![c] = @ \cup (Replaced(c, TRUE) \ {copy})]
      /\ task' = [task EXCEPT ![c] = [at |-> "deletes", list |-> task[c].list]]
  BY Zenon, <1>2 DEF sync_upload
<1>4. copy.by = c /\ copy.list = task[c].list /\ task[c].list \in List
  BY Zenon, <1>1, <1>2, <1>3, TaskShape DEF TypeOK
<1>5. copy \notin ever
  <2>1. task[c].list.seq = last_seen[c] /\ \A k \in ever : k.by = c => k.list.seq < last_seen[c]
    BY Zenon, <1>1, <1>3 DEF Sound, Numbered, Fresh, Sealed
  <2> QED
    BY <2>1, <1>4, ListShape
<1>6. Replaced(c, TRUE) = task[c].away \cup ({own[c]} \ {None})
  BY Zenon DEF Replaced
<1>7. Alone(c)
  BY Zenon, <1>1, <1>3 DEF Alone, TypeOK
<1>8. /\ own'[c] = copy /\ deletes'[c] = deletes[c] \cup (Replaced(c, TRUE) \ {copy})
      /\ task'[c].at = "deletes" /\ task'[c].list = task[c].list
  BY Zenon, <1>1, <1>3 DEF TypeOK
<1>9. Honest(copy.list) /\ \A k \in ever' : Honest(k.list)'
  BY Zenon, <1>1, <1>3, <1>4 DEF Sound, Recorded, Honest, Stoned
<1>10. Sound(c)'
  <2>1. Recorded(c)'
    BY Zenon, <1>1, <1>3, <1>8 DEF Sound, Recorded, Honest, Stoned
  <2>2. Known(c)'
    <3>1. /\ deletes[c] \subseteq ever /\ own[c] \in ever \cup {None} /\ task[c].away \subseteq ever
      BY Zenon, <1>1, <1>3 DEF Sound, Known
    <3>2. deletes'[c] \subseteq ever' /\ own'[c] \in ever'
      <4>1. ever' = ever \cup {copy}
        BY Zenon, <1>1, <1>3
      <4>2. Replaced(c, TRUE) \subseteq ever
        BY Zenon, <3>1, <1>6
      <4> QED
        BY Zenon, <4>1, <4>2, <3>1, <1>8
    <3> QED
      BY Zenon, <3>2, <1>8 DEF Known
  <2>3. Numbered(c)'
    BY Zenon, <1>1, <1>3, <1>4, <1>8, RecordAssumption DEF Sound, Numbered, Sealed
  <2>4. Fresh(c)'
    <3>1. \A k \in ever : k.by = c => k.list.seq <= last_seen[c]
      BY Zenon, <1>1 DEF Sound, Fresh
    <3>2. copy.list.seq <= last_seen[c]
      BY <1>1, <1>3, <1>4, ListShape DEF Sound, Numbered, Sealed
    <3> QED
      BY Zenon, <3>1, <3>2, <1>1, <1>3, <1>8 DEF Fresh, Sealed
  <2> QED
    BY Zenon, <2>1, <2>2, <2>3, <2>4 DEF Sound
<1>11. \A d \in Computers : Sound(d)'
  BY Zenon, <1>3, <1>4, <1>5, <1>7, <1>10, <1>1, OthersSound DEF IInv
<1>12. \A i \in copy.list.files : Stoned(i) \/ \A d \in Computers : Spares(d, copy, i)'
  <2> SUFFICES ASSUME NEW i \in copy.list.files, ~Stoned(i), NEW d \in Computers
               PROVE  Spares(d, copy, i)'
    BY Zenon
  <2>1. Known(d)
    BY Zenon DEF IInv, Sound
  <2>2. CASE d # c
    <3>1. own[d] # copy /\ own'[d] = own[d] /\ deletes'[d] = deletes[d] /\ task'[d] = task[d]
      BY <1>2, <1>4, <1>5, <1>7, <2>1, <2>2, RecordAssumption DEF Known, Alone, Copy
    <3> QED
      BY Zenon, <3>1, <2>1, <1>5 DEF Spares, Known
  <2>3. CASE d = c
    <3>1. copy \notin deletes'[c]
      BY Zenon, <1>5, <1>8, <2>1, <2>3 DEF Known
    <3>2. KeptBy(c, i)'
      BY Zenon, <1>1, <1>3, <1>4, <1>8, RecordAssumption DEF Sound, Numbered, Sealed, KeptBy
    <3> QED
      BY Zenon, <3>1, <3>2, <1>8, <2>3 DEF Spares
  <2> QED
    BY Zenon, <2>2, <2>3
<1>13. Witnessed'
  <2> SUFFICES ASSUME NEW k \in ever \cup {copy}, NEW i \in k.list.files, ~Stoned(i)
               PROVE  \E j \in copies' : i \in j.list.files /\ \A d \in Computers : Spares(d, j, i)'
    BY Zenon, <1>1, <1>3 DEF Witnessed, Stoned
  <2>1. CASE i \in copy.list.files
    BY Zenon, <2>1, <1>3, <1>12
  <2>2. CASE i \notin copy.list.files
    <3>1. PICK j \in copies : i \in j.list.files /\ \A d \in Computers : Spares(d, j, i)
      BY Zenon, <2>2 DEF IInv, Witnessed
    <3>2. j \notin task[c].away /\ j # own[c] /\ j # copy
      BY Zenon, <3>1, <2>2, <1>1, <1>3, <1>4, <1>5 DEF Spares, KeptBy, Sealed
    <3>3. Spares(c, j, i)'
      BY Zenon, <3>1, <3>2, <1>6, <1>8 DEF Spares
    <3>4. ASSUME NEW d \in Computers, d # c PROVE Spares(d, j, i)'
      BY <3>1, <3>4, <1>7 DEF Spares, KeptBy, Sealed, Alone
    <3> QED
      BY Zenon, <3>1, <3>3, <3>4, <1>3
  <2> QED
    BY Zenon, <2>1, <2>2
<1> QED
  BY Zenon, <1>1, <1>3, <1>9, <1>11, <1>13 DEF IInv

\* The upload fails, and nothing is deleted.
LEMMA SyncUploadFails ==
    ASSUME IInv, TypeOK', NEW c \in Computers, sync_upload(c, FALSE)
    PROVE  IInv'
<1>1. TypeOK /\ Sound(c) /\ copies \subseteq ever
  BY Zenon DEF IInv
<1>2. /\ stones' = stones /\ removing' = removing /\ slot' = slot /\ file' = file
      /\ last_seen' = last_seen /\ task[c].at = "upload"
      /\ copies' = copies /\ ever' = ever /\ own' = own
      /\ deletes' = [deletes EXCEPT ![c] = @ \cup {}]
      /\ task' = [task EXCEPT ![c] = [at |-> "deletes", list |-> task[c].list]]
  BY Zenon, <1>1 DEF sync_upload, Replaced
<1>3. Alone(c) /\ task'[c].at = "deletes" /\ task'[c].list = task[c].list /\ deletes'[c] = deletes[c]
  BY Zenon, <1>1, <1>2 DEF Alone, TypeOK
<1>4. Sound(c)'
  BY Zenon, <1>1, <1>2, <1>3 DEF Sound, Recorded, Known, Numbered, Fresh, Honest, Stoned, Sealed
<1>5. ASSUME NEW j \in copies, NEW i \in j.list.files, ~Stoned(i)',
             \A d \in Computers : Spares(d, j, i)
      PROVE  j \in copies' /\ Spares(c, j, i)'
  BY Zenon, <1>5, <1>2, <1>3 DEF Spares, KeptBy, Sealed
<1> QED
  BY Zenon, <1>1, <1>2, <1>3, <1>4, <1>5, StepOfOne

\* Queued copies are deleted, and the list is applied.
LEMMA SyncEnds ==
    ASSUME IInv, TypeOK', NEW c \in Computers, sync_end(c)
    PROVE  IInv'
<1>1. TypeOK /\ Sound(c) /\ copies \subseteq ever
  BY Zenon DEF IInv
<1>2. /\ removing' = removing /\ file' = file /\ last_seen' = last_seen /\ own' = own
      /\ ever' = ever /\ task[c].at = "deletes"
      /\ copies' = copies \ deletes[c] /\ deletes' = [deletes EXCEPT ![c] = {}]
      /\ task' = [task EXCEPT ![c] = Idle] /\ apply_key_list(c, task[c].list)
      /\ slot' = [slot EXCEPT ![c] = remove(@, stones'[c] \ stones[c])]
  BY Zenon DEF sync_end, run_pending_deletes
<1>3. task[c].list \in List
  BY Zenon, <1>1, <1>2, TaskShape DEF TypeOK
<1>4. (\A d \in Computers : stones[d] \subseteq stones'[d]) /\ stones'[c] \ stones[c] \in SUBSET Ids
  BY Zenon, <1>1, <1>2, <1>3, AppliedType
<1>5. PICK l : l = slot[c]
  BY Zenon
<1>6. PICK m : m = remove(l, stones'[c] \ stones[c])
  BY Zenon
<1>7. l \in List /\ Honest(l) /\ l.seq >= last_seen[c]
  BY Zenon, <1>1, <1>2, <1>5 DEF Sound, Numbered, Recorded, TypeOK
<1>8. Alone(c)
  BY Zenon, <1>1, <1>2, <1>4 DEF Alone, TypeOK
<1>9. task'[c].at = "idle" /\ deletes'[c] = {} /\ slot'[c] = m
  BY Zenon, <1>1, <1>2, <1>5, <1>6 DEF TypeOK, Idle
<1>10. /\ m \in List /\ m.seq >= last_seen[c] /\ Honest(m)'
      /\ \A i \in l.files : i \in m.files \/ Stoned(i)'
  <2>1. /\ m \in List /\ m.seq = l.seq
        /\ m.removed = l.removed \cup (stones'[c] \ stones[c])
        /\ m.files = l.files \ (stones'[c] \ stones[c])
    BY Zenon, <1>4, <1>6, <1>7, Removed
  <2>2. Honest(m)' /\ \A i \in l.files : i \in m.files \/ Stoned(i)'
    BY Zenon, <2>1, <1>4, <1>7 DEF Honest, Stoned
  <2> QED
    BY Zenon, <2>1, <2>2, <1>7
<1>11. Recorded(c)' /\ Known(c)' /\ Numbered(c)' /\ Fresh(c)'
  <2>1. Recorded(c)'
    <3>1. \A i : Stoned(i) => Stoned(i)'
      BY Zenon, <1>4 DEF Stoned
    <3> QED
      BY Zenon, <3>1, <1>1, <1>2, <1>4, <1>9, <1>10 DEF Sound, Recorded, Honest
  <2>2. Known(c)' /\ Fresh(c)'
    BY Zenon, <1>1, <1>2, <1>9 DEF Sound, Known, Fresh, Sealed
  <2>3. Numbered(c)'
    BY Zenon, <1>1, <1>2, <1>9, <1>10, RecordAssumption DEF Sound, Numbered, Sealed
  <2> QED
    BY Zenon, <2>1, <2>2, <2>3
<1>12. ASSUME NEW j \in copies, NEW i \in j.list.files, ~Stoned(i)',
              \A d \in Computers : Spares(d, j, i)
       PROVE  j \in copies' /\ Spares(c, j, i)'
  BY Zenon, <1>12, <1>2, <1>5, <1>9, <1>10, <1>7, RecordAssumption DEF Spares, KeptBy, Sealed
<1> QED
  BY Zenon, <1>1, <1>2, <1>8, <1>11, <1>12, StepOfOne DEF Sound

\* A pull reads copies.
LEMMA PullBegins ==
    ASSUME IInv, TypeOK', NEW c \in Computers, pull_begin(c)
    PROVE  IInv'
<1>1. TypeOK /\ Sound(c) /\ copies \subseteq ever
  BY DEF IInv
<1>2. /\ stones' = stones /\ removing' = removing /\ file' = file /\ last_seen' = last_seen
      /\ own' = own /\ deletes' = deletes /\ slot' = slot /\ copies' = copies /\ ever' = ever
      /\ task' = [task EXCEPT ![c] = [at |-> "read", opened |-> copies \ (pulled[c] \cup {own[c]})]]
  BY Zenon DEF pull_begin, index, node
<1>3. /\ Alone(c) /\ task'[c].at = "read" /\ task'[c].opened \subseteq copies
  BY Zenon, <1>1, <1>2 DEF Alone, TypeOK
<1>4. Sound(c)'
  BY Zenon, <1>1, <1>2, <1>3 DEF Sound, Recorded, Known, Numbered, Fresh, Honest, Stoned, Sealed
<1>5. ASSUME NEW j \in copies, NEW i \in j.list.files, ~Stoned(i)',
             \A d \in Computers : Spares(d, j, i)
      PROVE  j \in copies' /\ Spares(c, j, i)'
  BY Zenon, <1>5, <1>2, <1>3 DEF Spares, KeptBy, Sealed
<1> QED
  BY Zenon, <1>1, <1>2, <1>3, <1>4, <1>5, StepOfOne

\* A pull that finds nothing new applies the list.
LEMMA PullApplies ==
    ASSUME IInv, TypeOK', NEW c \in Computers, pull_applies(c)
    PROVE  IInv'
<1>1. TypeOK /\ Sound(c) /\ copies \subseteq ever
  BY DEF IInv
<1>2. PICK l : l = load_key_list(c)
  BY Zenon
<1>3. /\ removing' = removing /\ file' = file /\ last_seen' = last_seen /\ own' = own
      /\ deletes' = deletes /\ task' = task /\ copies' = copies /\ ever' = ever
      /\ task[c] = Idle /\ ~Unloadable(c) /\ apply_key_list(c, l)
      /\ slot' = [slot EXCEPT ![c] = remove(l, stones'[c] \ stones[c])]
  BY Zenon, <1>2 DEF pull_applies, node
<1>4. /\ l \in List /\ l.seq >= last_seen[c] /\ Honest(l)
      /\ \A i : KeptBy(c, i) /\ ~Stoned(i) => i \in l.files
  BY Zenon, <1>1, <1>2, <1>3, Loaded
<1>5. (\A d \in Computers : stones[d] \subseteq stones'[d]) /\ stones'[c] \ stones[c] \in SUBSET Ids
  BY Zenon, <1>1, <1>3, <1>4, AppliedType
<1>6. Alone(c)
  BY Zenon, <1>1, <1>3, <1>5 DEF Alone, TypeOK
<1>7. PICK m : m = remove(l, stones'[c] \ stones[c])
  OBVIOUS
<1>8. /\ m \in List /\ m.seq >= last_seen[c] /\ Honest(m)'
      /\ \A i \in l.files : i \in m.files \/ Stoned(i)'
      /\ slot'[c] = m /\ task[c].at = "idle"
  <2>1. slot'[c] = m /\ task[c].at = "idle"
    <3>1. slot'[c] = m
      BY Zenon, <1>1, <1>3, <1>7 DEF TypeOK
    <3> QED
      BY <3>1, <1>3 DEF Idle
  <2> QED
    <3>1. /\ m \in List /\ m.seq = l.seq
          /\ m.removed = l.removed \cup (stones'[c] \ stones[c])
          /\ m.files = l.files \ (stones'[c] \ stones[c])
      BY Zenon, <1>4, <1>5, <1>7, Removed
    <3>2. Honest(m)' /\ \A i \in l.files : i \in m.files \/ Stoned(i)'
      BY Zenon, <3>1, <1>4, <1>5 DEF Honest, Stoned
    <3> QED
      BY Zenon, <3>1, <3>2, <1>4, <2>1
<1>9. Recorded(c)' /\ Known(c)' /\ Numbered(c)' /\ Fresh(c)'
  <2>1. \A i : Stoned(i) => Stoned(i)'
    BY <1>5 DEF Stoned
  <2>2. Recorded(c)'
    BY Zenon, <2>1, <1>1, <1>3, <1>5, <1>8 DEF Sound, Recorded, Honest
  <2>3. Known(c)' /\ Numbered(c)' /\ Fresh(c)'
    BY Zenon, <1>1, <1>3, <1>8, RecordAssumption DEF Sound, Known, Numbered, Fresh, Sealed
  <2> QED
    BY Zenon, <2>2, <2>3
<1>10. ASSUME NEW j \in copies, NEW i \in j.list.files, ~Stoned(i)',
              \A d \in Computers : Spares(d, j, i)
       PROVE  j \in copies' /\ Spares(c, j, i)'
  <2>1. ~Stoned(i)
    BY Zenon, <1>10, <1>5 DEF Stoned
  <2> QED
    BY Zenon, <2>1, <1>10, <1>3, <1>4, <1>8 DEF Spares, KeptBy, Sealed
<1> QED
  BY Zenon, <1>1, <1>3, <1>6, <1>9, <1>10, StepOfOne DEF Sound

\* What a pull makes of its list and of the copies it read: nothing is lost, and a
\* copy that is adopted says all of it.
LEMMA PullSays ==
    ASSUME IInv, NEW c \in Computers, task[c].at = "read", ~Unloadable(c),
           NEW K, K = task[c].opened, NEW now, now = load_key_list(c),
           NEW merged, merged = merge({now} \cup {k.list : k \in K}),
           NEW latest \in newest(K), NEW top, top = latest.list
    PROVE  /\ now \in List /\ Honest(now) /\ now.seq >= last_seen[c] /\ now.seq \in Nat
           /\ top \in List /\ Honest(top) /\ top.seq \in Nat
           /\ merged \in List /\ Honest(merged)
           /\ merged.seq >= now.seq /\ merged.seq >= top.seq /\ merged.seq \in Nat
           /\ \A i : KeptBy(c, i) /\ ~Stoned(i) => i \in now.files /\ i \in merged.files
<1>1. TypeOK /\ Sound(c) /\ \A k \in ever : Honest(k.list)
  BY Zenon DEF IInv
<1>2. K \in SUBSET Copy /\ K # {} /\ K \subseteq ever
  BY Zenon, <1>1, TaskShape DEF TypeOK, Sound, Known
<1>3. /\ now \in List /\ Honest(now) /\ now.seq >= last_seen[c]
      /\ \A i : KeptBy(c, i) /\ ~Stoned(i) => i \in now.files
  BY Zenon, <1>1, Loaded
<1>4. latest \in K
  BY Zenon DEF newest
<1>5. top \in List /\ Honest(top)
  BY Zenon, <1>1, <1>2, <1>4, CopyShape
<1>6. {now} \cup {k.list : k \in K} \in SUBSET List
  BY Zenon, <1>2, <1>3, CopyShape
<1>7. /\ merged \in List /\ merged.seq >= now.seq /\ merged.seq >= top.seq
      /\ \A i \in merged.removed : i \in now.removed \/ \E k \in K : i \in k.list.removed
      /\ \A i \in now.files : i \in merged.files \/ i \in merged.removed
  BY <1>4, <1>6, MergedLists
<1>8. Honest(merged)
  BY Zenon, <1>1, <1>2, <1>3, <1>7 DEF Honest
<1> QED
  BY Zenon, <1>3, <1>5, <1>7, <1>8, ListShape DEF Honest

\* A pull merges the copies it read, and applies the result.
LEMMA PullEnds ==
    ASSUME IInv, TypeOK', NEW c \in Computers, pull_end(c)
    PROVE  IInv'
<1>1. TypeOK /\ Sound(c) /\ copies \subseteq ever
  BY DEF IInv
<1>2. /\ removing' = removing /\ own' = own /\ deletes' = deletes
      /\ copies' = copies /\ ever' = ever /\ task[c].at = "read"
      /\ task' = [task EXCEPT ![c] = Idle]
  BY Zenon DEF pull_end, pull_merge, index, node
<1>3. task'[c].at = "idle"
  BY Zenon, <1>1, <1>2 DEF TypeOK, Idle
<1>4. CASE Unloadable(c)
  <2>1. stones' = stones /\ slot' = slot /\ file' = file /\ last_seen' = last_seen
    BY Zenon, <1>4 DEF pull_end, pull_merge, index
  <2>2. Alone(c)
    BY Zenon, <1>1, <1>2, <2>1 DEF Alone, TypeOK
  <2>3. Sound(c)'
    BY Zenon, <1>1, <1>2, <1>3, <2>1
    DEF Sound, Recorded, Known, Numbered, Fresh, Honest, Stoned, Sealed
  <2>4. ASSUME NEW j \in copies, NEW i \in j.list.files, ~Stoned(i)',
               \A d \in Computers : Spares(d, j, i)
        PROVE  j \in copies' /\ Spares(c, j, i)'
    BY Zenon, <2>4, <1>2, <1>3, <2>1 DEF Spares, KeptBy, Sealed
  <2> QED
    BY Zenon, <1>1, <1>2, <2>2, <2>3, <2>4, StepOfOne
<1>5. CASE ~Unloadable(c)
  <2>0. PICK latest \in newest(task[c].opened) : pull_merge(c, latest.list)
    BY Zenon DEF pull_end
  <2>1. PICK K, now, merged, top :
            /\ K = task[c].opened /\ now = load_key_list(c)
            /\ merged = merge({now} \cup {k.list : k \in K}) /\ top = latest.list
    BY Zenon
  <2>2. /\ now \in List /\ Honest(now) /\ now.seq >= last_seen[c] /\ now.seq \in Nat
        /\ top \in List /\ Honest(top) /\ top.seq \in Nat
        /\ merged \in List /\ Honest(merged)
        /\ merged.seq >= now.seq /\ merged.seq >= top.seq /\ merged.seq \in Nat
        /\ \A i : KeptBy(c, i) /\ ~Stoned(i) => i \in now.files /\ i \in merged.files
    BY <1>2, <1>5, <2>0, <2>1, PullSays
  <2>3. PICK result : result = IF ~same_content(merged, now) THEN merged ELSE now
    BY Zenon
  <2>4. PICK adopt \in BOOLEAN : adopt <=> /\ ~same_content(merged, now)
                                        /\ ~Publishes(now, merged, top)
                                        /\ top.seq > last_seen[c]
    BY Zenon
  <2>5. /\ file' = IF adopt THEN [file EXCEPT ![c] = top] ELSE file
        /\ last_seen' = IF adopt THEN [last_seen EXCEPT ![c] = top.seq] ELSE last_seen
    BY Zenon, <1>5, <2>0, <2>1, <2>4 DEF pull_merge
  <2>6. /\ apply_key_list(c, result)
        /\ slot' = [slot EXCEPT ![c] = remove(result, stones'[c] \ stones[c])]
    BY Zenon, <1>5, <2>0, <2>1, <2>3 DEF pull_merge
  <2>7. /\ result \in List /\ Honest(result)
        /\ \A i : KeptBy(c, i) /\ ~Stoned(i) => i \in result.files
        /\ adopt => top.files = result.files
    BY Zenon, <2>2, <2>3, <2>4 DEF Publishes, same_content
  <2>8. /\ \A d \in Computers : stones[d] \subseteq stones'[d]
        /\ stones'[c] \ stones[c] \in SUBSET Ids
    BY Zenon, <1>1, <2>6, <2>7, AppliedType
  <2>9. PICK m : m = remove(result, stones'[c] \ stones[c])
    BY Zenon
  <2>10. /\ m \in List /\ m.seq = result.seq
         /\ m.removed = result.removed \cup (stones'[c] \ stones[c])
         /\ m.files = result.files \ (stones'[c] \ stones[c])
    BY Zenon, <2>7, <2>8, <2>9, Removed
  <2>11. (\A i : Stoned(i) => Stoned(i)') /\ \A i \in stones'[c] : Stoned(i)'
    BY Zenon, <2>8 DEF Stoned
  <2>12. /\ slot'[c] = m
         /\ file'[c] = IF adopt THEN top ELSE file[c]
         /\ last_seen'[c] = IF adopt THEN top.seq ELSE last_seen[c]
    BY Zenon, <1>1, <2>5, <2>6, <2>9 DEF TypeOK
  <2>13. last_seen[c] \in Nat /\ last_seen'[c] >= last_seen[c] /\ m.seq >= last_seen'[c]
    <3>1. last_seen[c] \in Nat
      BY <1>1, BoundAssumption DEF TypeOK
    <3>2. result.seq \in Nat /\ result.seq >= last_seen[c] /\ (adopt => result = merged)
      BY <3>1, <2>2, <2>3, <2>4
    <3>3. CASE adopt
      BY <3>1, <3>2, <3>3, <2>2, <2>4, <2>10, <2>12
    <3>4. CASE ~adopt
      BY <3>1, <3>2, <3>4, <2>10, <2>12
    <3> QED
      BY Zenon, <3>3, <3>4
  <2>14. Alone(c)
    BY Zenon, <1>1, <1>2, <2>5, <2>6, <2>8 DEF Alone, TypeOK
  <2>15. Recorded(c)'
    <3>1. Honest(m)' /\ Honest(top)'
      BY Zenon, <2>2, <2>7, <2>10, <2>11 DEF Honest
    <3>2. removing'[c] \subseteq stones'[c]
      BY Zenon, <1>1, <1>2, <2>8 DEF Sound, Recorded
    <3> QED
      BY Zenon, <3>1, <3>2, <1>1, <1>3, <2>11, <2>12 DEF Sound, Recorded, Honest
  <2>16. Known(c)'
    BY Zenon, <1>1, <1>2, <1>3 DEF Sound, Known
  <2>17. Numbered(c)'
    <3>1. slot'[c] # None /\ slot'[c].seq >= last_seen'[c]
      BY Zenon, <2>10, <2>12, <2>13, RecordAssumption
    <3>2. file'[c] = None => last_seen'[c] = 0 /\ own'[c] = None
      BY Zenon, <1>1, <1>2, <2>2, <2>12, RecordAssumption DEF Sound, Numbered
    <3>3. file'[c] # None => last_seen'[c] > 0
      BY <1>1, <2>2, <2>4, <2>12, <2>13 DEF Sound, Numbered
    <3> QED
      BY Zenon, <3>1, <3>2, <3>3, <1>3 DEF Numbered, Sealed
  <2>18. Fresh(c)'
    <3>1. \A k \in ever : k.list.seq \in Nat
      BY Zenon, <1>1, CopyShape, ListShape DEF TypeOK
    <3> QED
      <4>1. \A k \in ever : k.by = c => k.list.seq <= last_seen[c]
        BY Zenon, <1>1 DEF Sound, Fresh
      <4>2. last_seen'[c] \in Nat
        BY Zenon, <2>2, <2>12, <2>13
      <4> QED
        BY <4>1, <4>2, <3>1, <1>2, <1>3, <2>13 DEF Fresh, Sealed
  <2>19. ASSUME NEW j \in copies, NEW i \in j.list.files, ~Stoned(i)',
                \A d \in Computers : Spares(d, j, i)
         PROVE  j \in copies' /\ Spares(c, j, i)'
    <3>1. ~Stoned(i) /\ i \notin stones'[c] /\ Spares(c, j, i)
      BY Zenon, <2>19, <2>11
    <3>2. KeptBy(c, i) => KeptBy(c, i)'
      BY Zenon, <3>1, <1>3, <2>2, <2>4, <2>7, <2>10, <2>12, RecordAssumption DEF KeptBy, Sealed
    <3> QED
      BY Zenon, <3>1, <3>2, <1>2, <1>3 DEF Spares
  <2> QED
    BY Zenon, <1>1, <1>2, <2>14, <2>15, <2>16, <2>17, <2>18, <2>19, StepOfOne DEF Sound
<1> QED
  BY Zenon, <1>4, <1>5

\* A crash forgets what is in memory, and may damage the sealed copy.
LEMMA Crashes ==
    ASSUME IInv, TypeOK', NEW c \in Computers, Crash(c)
    PROVE  IInv'
<1>1. TypeOK /\ Sound(c) /\ copies \subseteq ever
  BY DEF IInv
<1>2. /\ stones' = stones /\ last_seen' = last_seen /\ own' = own /\ deletes' = deletes
      /\ copies' = copies /\ ever' = ever
      /\ removing' = [removing EXCEPT ![c] = {}] /\ slot' = [slot EXCEPT ![c] = None]
      /\ task' = [task EXCEPT ![c] = Idle]
  BY Zenon DEF Crash, index, node
<1>3. PICK kept \in {file[c], Bad} : file' = [file EXCEPT ![c] = IF file[c] = None THEN None ELSE kept]
  BY Zenon DEF Crash
<1>4. /\ Alone(c) /\ removing'[c] = {} /\ slot'[c] = None /\ task'[c].at = "idle"
      /\ file'[c] = IF file[c] = None THEN None ELSE kept
  BY <1>1, <1>2, <1>3 DEF Alone, TypeOK, Idle
<1>5. Sound(c)'
  BY Zenon, <1>1, <1>2, <1>3, <1>4, RecordAssumption
  DEF Sound, Recorded, Known, Numbered, Fresh, Honest, Stoned, Sealed
<1>6. ASSUME NEW j \in copies, NEW i \in j.list.files, ~Stoned(i)',
             \A d \in Computers : Spares(d, j, i)
      PROVE  j \in copies' /\ Spares(c, j, i)'
  BY Zenon, <1>6, <1>2, <1>3, <1>4, RecordAssumption DEF Spares, KeptBy, Sealed
<1> QED
  BY Zenon, <1>1, <1>2, <1>4, <1>5, <1>6, StepOfOne

\* The owner adds a file.
LEMMA Adds ==
    ASSUME IInv, TypeOK', NEW f \in Ids, add(f)
    PROVE  IInv'
<1>1. PICK c : c = Owner[f]
  BY Zenon
<1>2. c \in Computers
  BY Zenon, <1>1, IdsAssumption
<1>3. TypeOK /\ Sound(c) /\ copies \subseteq ever
  BY Zenon, <1>2 DEF IInv
<1>4. /\ stones' = stones /\ last_seen' = last_seen /\ own' = own /\ deletes' = deletes
      /\ copies' = copies /\ ever' = ever /\ file' = file /\ removing' = removing
      /\ task' = task /\ task[c].at # "list"
      /\ slot' = [slot EXCEPT ![c] = IF Unloadable(c) THEN None ELSE insert(load_key_list(c), {f})]
  BY Zenon, <1>1 DEF add, node, locked
<1>5. Alone(c) /\ slot'[c] = IF Unloadable(c) THEN None ELSE insert(load_key_list(c), {f})
  BY Zenon, <1>2, <1>3, <1>4 DEF Alone, TypeOK
<1>6. CASE Unloadable(c)
  <2>1. slot[c] = None /\ slot'[c] = None
    BY Zenon, <1>5, <1>6 DEF Unloadable
  <2>2. slot' = slot
    BY Zenon, <2>1, <1>2, <1>3, <1>4, <1>6 DEF TypeOK
  <2>3. Sound(c)'
    BY Zenon, <1>3, <1>4, <2>2 DEF Sound, Recorded, Known, Numbered, Fresh, Honest, Stoned, Sealed
  <2>4. ASSUME NEW j \in copies, NEW i \in j.list.files, ~Stoned(i)',
             \A d \in Computers : Spares(d, j, i)
      PROVE  j \in copies' /\ Spares(c, j, i)'
    BY Zenon, <2>4, <1>2, <1>4, <2>2 DEF Spares, KeptBy, Sealed
  <2> QED
    BY Zenon, <1>2, <1>3, <1>4, <1>5, <2>3, <2>4, StepOfOne
<1>7. CASE ~Unloadable(c)
  <2>1. PICK l : l = load_key_list(c)
    BY Zenon
  <2>2. /\ l \in List /\ l.seq >= last_seen[c] /\ Honest(l)
        /\ \A i : KeptBy(c, i) /\ ~Stoned(i) => i \in l.files
        /\ slot[c] # None => l = slot[c]
    BY Zenon, <1>2, <1>3, <1>7, <2>1, Loaded DEF load_key_list
  <2>3. PICK m : m = insert(l, {f})
    BY Zenon
  <2>4. m \in List /\ m.seq = l.seq /\ m.removed = l.removed /\ l.files \subseteq m.files
    BY Zenon, <2>2, <2>3, Inserted
  <2>5. slot'[c] = m
    BY Zenon, <1>5, <1>7, <2>1, <2>3
  <2>6. Recorded(c)' /\ Known(c)' /\ Fresh(c)'
    BY Zenon, <1>3, <1>4, <2>2, <2>4, <2>5 DEF Sound, Recorded, Known, Fresh, Honest, Stoned, Sealed
  <2>7. Numbered(c)'
    BY Zenon, <1>3, <1>4, <2>2, <2>4, <2>5, RecordAssumption DEF Sound, Numbered, Stoned, Sealed
  <2>8. ASSUME NEW j \in copies, NEW i \in j.list.files, ~Stoned(i)',
             \A d \in Computers : Spares(d, j, i)
      PROVE  j \in copies' /\ Spares(c, j, i)'
    BY Zenon, <2>8, <1>2, <1>4, <2>2, <2>4, <2>5 DEF Spares, KeptBy, Sealed, Stoned
  <2> QED
    BY Zenon, <1>2, <1>3, <1>4, <1>5, <2>6, <2>7, <2>8, StepOfOne DEF Sound
<1> QED
  BY Zenon, <1>6, <1>7

\* The owner removes a file: the tombstone comes first.
LEMMA RemoveBegins ==
    ASSUME IInv, TypeOK', NEW c \in Computers, NEW f \in Ids, remove_begin(c, f)
    PROVE  IInv'
<1>1. TypeOK /\ Sound(c) /\ copies \subseteq ever
  BY Zenon DEF IInv
<1>2. /\ last_seen' = last_seen /\ own' = own /\ deletes' = deletes /\ slot' = slot
      /\ copies' = copies /\ ever' = ever /\ file' = file /\ task' = task
      /\ stones' = [stones EXCEPT ![c] = @ \cup {f}]
      /\ removing' = [removing EXCEPT ![c] = @ \cup {f}]
  BY Zenon DEF remove_begin, node
<1>3. Alone(c) /\ stones'[c] = stones[c] \cup {f} /\ removing'[c] = removing[c] \cup {f}
  BY Zenon, <1>1, <1>2 DEF Alone, TypeOK
<1>4. \A i : Stoned(i) => Stoned(i)'
  BY Zenon, <1>3 DEF Alone, Stoned
<1>5. Recorded(c)' /\ Numbered(c)'
  BY Zenon, <1>1, <1>2, <1>3, <1>4 DEF Sound, Recorded, Numbered, Honest, Sealed
<1>6. Known(c)' /\ Fresh(c)'
  BY Zenon, <1>1, <1>2 DEF Sound, Known, Fresh, Sealed
<1>7. ASSUME NEW j \in copies, NEW i \in j.list.files, ~Stoned(i)',
             \A d \in Computers : Spares(d, j, i)
      PROVE  j \in copies' /\ Spares(c, j, i)'
  BY Zenon, <1>7, <1>2 DEF Spares, KeptBy, Sealed
<1> QED
  BY Zenon, <1>1, <1>2, <1>3, <1>5, <1>6, <1>7, StepOfOne DEF Sound

\* The removal reaches the list in memory.
LEMMA RemoveEnds ==
    ASSUME IInv, TypeOK', NEW c \in Computers, NEW f \in Ids, remove_end(c, f)
    PROVE  IInv'
<1>1. TypeOK /\ Sound(c) /\ copies \subseteq ever
  BY DEF IInv
<1>2. /\ last_seen' = last_seen /\ own' = own /\ deletes' = deletes /\ stones' = stones
      /\ copies' = copies /\ ever' = ever /\ file' = file /\ task' = task
      /\ task[c].at # "list" /\ f \in removing[c]
      /\ removing' = [removing EXCEPT ![c] = @ \ {f}]
      /\ slot' = IF slot[c] = None THEN slot ELSE [slot EXCEPT ![c] = remove(@, {f})]
  BY Zenon DEF remove_end, locked
<1>3. Stoned(f)
  BY Zenon, <1>1, <1>2 DEF Sound, Recorded, Stoned
<1>4. PICK l : l = slot[c]
  BY Zenon
<1>5. PICK m : m = IF l = None THEN None ELSE remove(l, {f})
  BY Zenon
<1>6. Alone(c) /\ slot'[c] = m /\ removing'[c] = removing[c] \ {f}
  BY Zenon, <1>1, <1>2, <1>4, <1>5 DEF Alone, TypeOK
<1>7. l # None => /\ l \in List /\ m \in List /\ m.seq = l.seq
                  /\ m.removed = l.removed \cup {f} /\ m.files = l.files \ {f}
  <2>1. slot[c] \in List \cup {None}
    BY Zenon, <1>1 DEF TypeOK
  <2> QED
    BY <2>1, <1>4, <1>5, Removed
<1>8. Recorded(c)'
  BY Zenon, <1>1, <1>2, <1>3, <1>4, <1>5, <1>6, <1>7 DEF Sound, Recorded, Honest, Stoned
<1>9. Known(c)' /\ Fresh(c)'
  BY Zenon, <1>1, <1>2 DEF Sound, Known, Fresh, Sealed
<1>10. Numbered(c)'
  BY Zenon, <1>1, <1>2, <1>3, <1>4, <1>5, <1>6, <1>7, RecordAssumption
  DEF Sound, Numbered, Stoned, Sealed
<1>11. ASSUME NEW j \in copies, NEW i \in j.list.files, ~Stoned(i)',
             \A d \in Computers : Spares(d, j, i)
      PROVE  j \in copies' /\ Spares(c, j, i)'
  BY Zenon, <1>11, <1>2, <1>3, <1>4, <1>5, <1>6, <1>7 DEF Spares, KeptBy, Sealed, Stoned
<1> QED
  BY Zenon, <1>1, <1>2, <1>6, <1>8, <1>9, <1>10, <1>11, StepOfOne DEF Sound

\* The other steps leave all this alone, or bring a copy back.
LEMMA Untouched ==
    ASSUME IInv, TypeOK', copies \subseteq copies', copies' \subseteq ever,
           UNCHANGED <<stones, removing, slot, file, last_seen, own, deletes, task, ever>>
    PROVE  IInv'
<1>1. ASSUME NEW c \in Computers PROVE Sound(c)'
  <2>1. Sound(c)
    BY Zenon DEF IInv
  <2>2. Recorded(c)'
    BY Zenon, <2>1 DEF Sound, Recorded, Honest, Stoned
  <2>3. Numbered(c)'
    BY Zenon, <2>1 DEF Sound, Numbered, Stoned, Sealed
  <2>4. Known(c)' /\ Fresh(c)'
    BY Zenon, <2>1 DEF Sound, Known, Fresh, Sealed
  <2> QED
    BY Zenon, <2>2, <2>3, <2>4 DEF Sound
<1>2. \A k \in ever' : Honest(k.list)'
  BY Zenon DEF IInv, Honest, Stoned
<1>3. Witnessed'
  <2>1. \A i : Stoned(i)' <=> Stoned(i)
    BY Zenon DEF Stoned
  <2>2. \A c \in Computers : \A j, i : Spares(c, j, i) => Spares(c, j, i)'
    BY DEF Spares, KeptBy, Sealed
  <2> QED
    BY Zenon, <2>1, <2>2 DEF IInv, Witnessed
<1> QED
  BY Zenon, <1>1, <1>2, <1>3 DEF IInv

-----------------------------------------------------------------------------
(* Theorems *)

\* Every step keeps the invariant.
LEMMA Preserved ==
    ASSUME IInv, [Next]_vars
    PROVE  IInv'
<1>1. TypeOK'
  BY Zenon, TypePreserved DEF IInv
<1>2. copies \subseteq ever
  BY Zenon DEF IInv
<1>3. ASSUME NEW c \in Computers, Syncs(c) PROVE IInv'
  BY Zenon, <1>1, <1>3, SyncBegins, SyncMerges, SyncUploads, SyncEnds DEF Syncs, sync_reads
<1>4. ASSUME NEW c \in Computers, Pulls(c) PROVE IInv'
  BY Zenon, <1>1, <1>4, PullBegins, PullEnds, PullApplies DEF Pulls
<1>5. ASSUME NEW c \in Computers, mirror_wakes(c) PROVE IInv'
  BY Zenon, <1>1, <1>2, <1>5, Untouched DEF mirror_wakes, index, node
<1>6. ASSUME NEW c \in Computers, sync_reads_nothing(c) PROVE IInv'
  BY Zenon, <1>1, <1>6, SyncMerges DEF sync_reads_nothing
<1>7. ASSUME NEW c \in Computers, sync_upload(c, FALSE) \/ Crash(c) PROVE IInv'
  BY Zenon, <1>1, <1>7, SyncUploadFails, Crashes
<1>8. ASSUME NEW i \in Ids, add(i) PROVE IInv'
  BY Zenon, <1>1, <1>8, Adds
<1>9. ASSUME NEW i \in Ids, upload(i) \/ unclaim(i) PROVE IInv'
  BY Zenon, <1>1, <1>2, <1>9, Untouched DEF upload, unclaim, index, memory
<1>10. ASSUME NEW c \in Computers, NEW i \in Ids, remove_begin(c, i) \/ remove_end(c, i) PROVE IInv'
  BY Zenon, <1>1, <1>10, RemoveBegins, RemoveEnds
<1>11. CASE old_copy
  <2>1. copies \subseteq copies' /\ copies' \subseteq ever
    BY Zenon, <1>2, <1>11 DEF old_copy
  <2> QED
    BY Zenon, <2>1, <1>1, <1>11, Untouched DEF old_copy, index, memory
<1>12. CASE UNCHANGED vars
  BY Zenon, <1>1, <1>2, <1>12, Untouched DEF vars, index, memory, node
<1> QED
  BY Zenon, <1>3, <1>4, <1>5, <1>6, <1>7, <1>8, <1>9, <1>10, <1>11, <1>12 DEF Next

\* IInv is inductive.
THEOREM Invariance == Spec => []IInv
<1>1. Init => IInv
  <2> SUFFICES ASSUME Init PROVE IInv
    BY Zenon
  <2>1. TypeOK
    BY IdsAssumption, BoundAssumption, TaskMade DEF Init, TypeOK
  <2>2. \A c \in Computers : Sound(c)
    BY Zenon, RecordAssumption DEF Init, Sound, Recorded, Known, Numbered, Fresh, Sealed, Idle
  <2> QED
    BY Zenon, <2>1, <2>2 DEF Init, IInv, Witnessed
<1>2. IInv /\ [Next]_vars => IInv'
  BY Zenon, Preserved
<1> QED
  BY <1>1, <1>2, PTL DEF Spec

\* The index, the sealed copies and the tasks of every computer stay well formed.
THEOREM Typed == Spec => []TypeOK
<1>1. IInv => TypeOK
  BY Zenon DEF IInv
<1> QED
  BY <1>1, Invariance, PTL

\* sync_key_list deletes no copy whose entries are not in another one, whatever the
\* computers, crashes, lost lists and old copies: a published entry leaves the node
\* only once its removal is recorded.
THEOREM Published == Spec => []StaysPublished
<1>1. IInv => StaysPublished
  BY Zenon DEF IInv, Witnessed, StaysPublished, Stoned
<1> QED
  BY <1>1, Invariance, PTL

\* No merge, pull or sync brings a file back on a computer that recorded its removal.
THEOREM NeverBack == Spec => NotBack
<1>1. IInv /\ [Next]_vars => [NotBackStep]_vars
  <2> SUFFICES ASSUME IInv, Next PROVE NotBackStep
    BY Zenon DEF vars
  <2>1. TypeOK /\ \A c \in Computers : Sound(c)
    BY Zenon DEF IInv
  <2>2. rows' = rows => NotBackStep
    BY Zenon DEF NotBackStep
  <2>3. ASSUME NEW c \in Computers, NEW l \in List, apply_key_list(c, l) PROVE NotBackStep
    BY Zenon, <2>1, <2>3, AppliedType DEF NotBackStep
  <2>4. ASSUME NEW c \in Computers, Syncs(c) PROVE NotBackStep
    <3>1. CASE sync_end(c)
      <4>1. task[c].list \in List
        BY Zenon, <2>1, <3>1, TaskShape DEF sync_end, TypeOK
      <4> QED
        BY Zenon, <4>1, <3>1, <2>3 DEF sync_end
    <3>2. CASE ~sync_end(c)
      BY Zenon, <3>2, <2>4, <2>2 DEF Syncs, sync_begin, sync_reads, sync_merge, sync_upload
    <3> QED
      BY Zenon, <3>1, <3>2
  <2>5. ASSUME NEW c \in Computers, pull_begin(c) \/ mirror_wakes(c) PROVE NotBackStep
    BY Zenon, <2>5, <2>2 DEF pull_begin, mirror_wakes, index
  <2>6. ASSUME NEW c \in Computers, pull_end(c) PROVE NotBackStep
    <3>1. CASE Unloadable(c)
      BY Zenon, <2>6, <3>1, <2>2 DEF pull_end, pull_merge, index
    <3>2. CASE ~Unloadable(c)
      <4>1. PICK K, now, merged, result :
                /\ K = task[c].opened /\ now = load_key_list(c)
                /\ merged = merge({now} \cup {k.list : k \in K})
                /\ result = IF ~same_content(merged, now) THEN merged ELSE now
        BY Zenon
      <4>2. task[c].at = "read" /\ apply_key_list(c, result) /\ newest(K) # {}
        BY Zenon, <2>6, <3>2, <4>1 DEF pull_end, pull_merge
      <4>3. PICK latest \in newest(K) : TRUE
        BY Zenon, <4>2
      <4>4. PICK top : top = latest.list
        BY Zenon
      <4>5. now \in List /\ merged \in List
        BY Zenon, <4>1, <4>2, <4>3, <4>4, <3>2, PullSays
      <4> QED
        BY Zenon, <4>1, <4>2, <4>5, <2>3
    <3> QED
      BY <3>1, <3>2
  <2>7. ASSUME NEW c \in Computers, pull_applies(c) PROVE NotBackStep
    BY Zenon, <2>1, <2>3, <2>7, LoadedType DEF pull_applies
  <2>8. ASSUME NEW c \in Computers, sync_reads_nothing(c) \/ sync_upload(c, FALSE) \/ Crash(c)
        PROVE  NotBackStep
    BY Zenon, <2>8, <2>2 DEF sync_reads_nothing, sync_merge, sync_upload, Crash, index
  <2>9. ASSUME NEW i \in Ids, add(i) PROVE NotBackStep
    BY Zenon, <2>1, <2>9, IdsAssumption DEF add, NotBackStep, TypeOK
  <2>10. ASSUME NEW i \in Ids, upload(i) \/ unclaim(i) PROVE NotBackStep
    BY Zenon, <2>10, <2>2 DEF upload, unclaim, index
  <2>11. ASSUME NEW c \in Computers, NEW i \in Ids, remove_begin(c, i) \/ remove_end(c, i)
         PROVE  NotBackStep
    BY <2>1, <2>11 DEF remove_begin, remove_end, NotBackStep, TypeOK
  <2>12. CASE old_copy
    BY Zenon, <2>12, <2>2 DEF old_copy, index
  <2> QED
    BY Zenon, <2>4, <2>5, <2>6, <2>7, <2>8, <2>9, <2>10, <2>11, <2>12 DEF Next, Pulls
<1> QED
  BY <1>1, Invariance, PTL DEF Spec, NotBack

\* seal_locally and a pull keep no list on disk whose seq was already seen here.
THEOREM SeqOnlyGrows == Spec => SeqGrows
<1>1. IInv /\ [Next]_vars => [SeqGrowsStep]_vars
  <2> SUFFICES ASSUME IInv, Next PROVE SeqGrowsStep
    BY DEF vars
  <2>1. TypeOK /\ last_seen \in [Computers -> Nat]
    BY BoundAssumption DEF IInv, TypeOK
  <2>2. ASSUME UNCHANGED <<file, last_seen>> PROVE SeqGrowsStep
    BY <2>1, <2>2 DEF SeqGrowsStep
  <2>3. ASSUME NEW c \in Computers, NEW l \in List, l.seq > last_seen[c],
               file' = [file EXCEPT ![c] = l], last_seen' = [last_seen EXCEPT ![c] = l.seq]
        PROVE  SeqGrowsStep
    <3>1. l.seq \in Nat
      BY Zenon, ListShape
    <3> QED
      BY <3>1, <2>1, <2>3 DEF SeqGrowsStep, TypeOK
  <2>4. ASSUME NEW c \in Computers, NEW l \in List, l.seq >= last_seen[c], seal_locally(c, l)
        PROVE  SeqGrowsStep
    <3>1. seal(l) \in List /\ seal(l).seq = l.seq + 1 /\ l.seq \in Nat
      BY Zenon, <2>4, SealedList, ListShape DEF seal_locally
    <3>2. seal(l).seq > last_seen[c]
      BY <3>1, <2>1, <2>4
    <3> QED
      BY Zenon, <3>1, <3>2, <2>3, <2>4 DEF seal_locally
  <2>5. ASSUME NEW c \in Computers, sync_begin(c) PROVE SeqGrowsStep
    <3>1. PICK l : l = reconcile_key_list(c, IF Unloadable(c) THEN new ELSE load_key_list(c))
      BY Zenon
    <3>2. l \in List
      BY Zenon, <3>1, <2>1, Begun DEF IInv
    <3>3. CASE l.seq >= last_seen[c]
      BY Zenon, <3>1, <3>2, <3>3, <2>4, <2>5 DEF sync_begin
    <3>4. CASE ~(l.seq >= last_seen[c])
      BY Zenon, <3>1, <3>4, <2>2, <2>5 DEF sync_begin
    <3> QED
      BY Zenon, <3>3, <3>4
  <2>6. ASSUME NEW c \in Computers, NEW K \in SUBSET Copy, sync_merge(c, K) PROVE SeqGrowsStep
    <3>1. PICK m : m = Merged(c, K)
      BY Zenon
    <3>2. m.list \in List /\ m.list.seq \in Nat
      BY Zenon, <3>1, <2>1, <2>6, MergedType, ListShape DEF sync_merge
    <3>3. CASE ~Behind(c, m.list) /\ ~m.sealed
      <4>1. seal_locally(c, m.list)
        BY Zenon, <3>1, <3>3, <2>6 DEF sync_merge
      <4>2. m.list.seq >= last_seen[c]
        BY <3>2, <3>3, <2>1 DEF Behind
      <4> QED
        BY Zenon, <4>1, <4>2, <3>2, <2>4
    <3>4. CASE Behind(c, m.list) \/ m.sealed
      BY Zenon, <3>1, <3>4, <2>2, <2>6 DEF sync_merge
    <3> QED
      BY Zenon, <3>3, <3>4
  <2>7. ASSUME NEW c \in Computers, pull_end(c) PROVE SeqGrowsStep
    <3>0. PICK latest \in newest(task[c].opened) : pull_merge(c, latest.list)
      BY Zenon, <2>7 DEF pull_end
    <3>1. PICK top : top = latest.list
      BY Zenon
    <3>2. top \in List
      BY Zenon, <3>0, <3>1, <2>1, <2>7, TaskShape, CopyShape DEF pull_end, newest, TypeOK
    <3>3. \/ UNCHANGED <<file, last_seen>>
          \/ /\ top.seq > last_seen[c] /\ file' = [file EXCEPT ![c] = top]
             /\ last_seen' = [last_seen EXCEPT ![c] = top.seq]
      BY Zenon, <3>0, <3>1 DEF pull_merge, index
    <3> QED
      BY Zenon, <3>2, <3>3, <2>2, <2>3
  <2>8. ASSUME NEW c \in Computers, Crash(c) PROVE SeqGrowsStep
    BY <2>1, <2>8 DEF Crash, SeqGrowsStep, TypeOK, index
  <2>9. ASSUME NEW c \in Computers, NEW ok \in BOOLEAN,
               \/ sync_upload(c, ok) \/ sync_end(c) \/ pull_begin(c) \/ pull_applies(c) \/ mirror_wakes(c)
        PROVE  SeqGrowsStep
    BY Zenon, <2>2, <2>9 DEF sync_upload, sync_end, pull_begin, pull_applies, mirror_wakes, index
  <2>10. ASSUME NEW i \in Ids, add(i) \/ upload(i) \/ unclaim(i) PROVE SeqGrowsStep
    BY Zenon, <2>2, <2>10 DEF add, upload, unclaim, index
  <2>11. ASSUME NEW c \in Computers, NEW i \in Ids, remove_begin(c, i) \/ remove_end(c, i)
         PROVE  SeqGrowsStep
    BY Zenon, <2>2, <2>11 DEF remove_begin, remove_end
  <2>12. CASE old_copy
    BY Zenon, <2>2, <2>12 DEF old_copy, index
  <2>13. copies \in SUBSET Copy /\ {} \in SUBSET Copy
    BY Zenon, <2>1 DEF TypeOK
  <2> QED
    BY Zenon, <2>5, <2>6, <2>7, <2>8, <2>9, <2>10, <2>11, <2>12, <2>13
    DEF Next, Syncs, Pulls, sync_reads, sync_reads_nothing
<1> QED
  BY <1>1, Invariance, PTL DEF Spec, SeqGrows
=============================================================================
