----------------------------- MODULE DropProofs -----------------------------
(***************************************************************************)
(* Proofs about the files Wildbloom Drop keeps (Drop), for any ids, online   *)
(* nodes and bounds: no key outlives its file, an edit replaces only what    *)
(* it can replace, and Drop implements Kept.                                 *)
(***************************************************************************)
EXTENDS Drop, TLAPS

-----------------------------------------------------------------------------
(* The invariant.                                                            *)

MirrorRecord == [at: {"rest", "locals", "sending", "due", "copying", "copied"},
                 todo: SUBSET Ids, id: Ids \cup {None}, node: Origins \cup {None}]

\* What the mirror loop is about.
MirrorOK ==
    /\ mirror \in MirrorRecord
    /\ mirror.at \in {"sending", "copying", "copied"} => mirror.id \in Ids
    /\ mirror.at \in {"copying", "copied"} => mirror.node \in Origins

\* The mirror loop sends a file.
Sends(id) == mirror.at \in {"sending", "copying", "copied"} /\ mirror.id = id

\* What the row of a file says of its envelope, its key and the tasks at it.
RowOK(id) ==
    /\ rows[id].sha <=> rows[id].local \notin {"encrypting", "unreadable"}
    /\ enc[id] \in {"queued", "sealing", "keeping", "recording"} => ~rows[id].sha
    /\ enc[id] = "sent" \/ Sends(id) => rows[id].sha
    /\ rows[id].sha /\ id \in outbox => rows[id].local = "pending"
    /\ back[id] = "copying" => rows[id].local \in {"ok", "missing", "restoring"}
    /\ id \notin asked /\ (rows[id].sha \/ enc[id] = "recording") => id \in keys
    /\ id \notin unused

Sound(id) ==
    /\ file(id) => RowOK(id)
    /\ ~file(id) /\ id \in keys => id \in cut
    /\ removing[id].at = "queue" => id \in asked
    /\ id \in asked \/ Sends(id) \/ back[id] = "copying" => id \notin unused

\* Deletions are queued only for files whose removal has begun.
DeletesAsked == \A d \in deletes : d[2] \in asked

IInv == TypeOK /\ MirrorOK /\ DeletesAsked /\ \A id \in Ids : Sound(id)

-----------------------------------------------------------------------------
(* What a step does to a file.                                               *)

\* A file is read back until its removal begins, and only a new id is drawn.
Promise(id) ==
    /\ id \in asked => id \in asked'
    /\ id \in asked' /\ ~file(id)' => id \in asked
    /\ ~file(id) /\ file(id)' => id \in unused
    /\ id \notin asked' /\ Readable(id) => Readable(id)'

\* A step that leaves a file's row and what goes with it as they are, or takes
\* the tasks at it to where they ask for less.
Calm(id) ==
    /\ file(id)' <=> file(id)
    /\ file(id) => rows'[id].sha = rows[id].sha /\ rows'[id].local = rows[id].local
    /\ \/ enc'[id] \in {enc[id], "idle"} \/ (enc'[id] = "sent" /\ rows[id].sha)
       \/ {enc[id], enc'[id]} \subseteq {"queued", "sealing", "keeping"}
    /\ Sends(id)' => Sends(id) \/ (file(id) /\ rows[id].sha)
    /\ back'[id] \in {back[id], "idle"}
    /\ id \in keys' <=> id \in keys
    /\ id \in outbox' <=> id \in outbox
    /\ id \in asked => id \in asked'
    /\ id \in asked' => id \in asked \/ file(id)
    /\ removing'[id].at = "queue" => removing[id].at = "queue" \/ id \in asked'
    /\ id \in unused' => id \in unused
    /\ id \in cut => id \in cut'
    /\ id \notin asked' /\ id \notin outbox =>
          \A n \in Nodes : id \in stored[n] => \E m \in Nodes : id \in stored'[m]

\* Such a step keeps what is known of the file, and what is promised.
LEMMA CalmStep ==
    ASSUME TypeOK, TypeOK', NEW id \in Ids, Sound(id), Calm(id)
    PROVE  Sound(id)' /\ Promise(id)
<1>1. Sound(id)'
  <2>1. ASSUME file(id)' PROVE RowOK(id)'
    BY Zenon, <2>1 DEF Sound, RowOK, Calm
  <2> QED
    BY Zenon, <2>1 DEF Sound, RowOK, Calm
<1>2. Promise(id)
  BY Zenon DEF Sound, RowOK, Calm, Promise, Readable
<1> QED
  BY Zenon, <1>1, <1>2

\* A version is replaced only by one that can be read back from a node.
Careful ==
    \A p, id \in Ids : edited[p] # id /\ edited'[p] = id =>
        id \in asked \/ (Readable(id)' /\ \E n \in Nodes : id \in stored'[n])

\* What is shown of every step.
Done ==
    /\ TypeOK' /\ MirrorOK' /\ DeletesAsked'
    /\ \A id \in Ids : Sound(id)' /\ Promise(id)
    /\ Careful

\* Rows that differ in nothing but the online copy and the link.
Alike(table) ==
    /\ table \in [Ids -> FileRecord \cup {None}]
    /\ \A i \in Ids : /\ table[i] = None <=> rows[i] = None
                      /\ rows[i] # None => table[i].sha = rows[i].sha /\ table[i].local = rows[i].local

\* A step of a task that changes no more of a row than that, and of the disk nothing.
LEMMA QuietStep ==
    ASSUME IInv, Alike(rows'), MirrorOK',
           UNCHANGED <<copies, stones, keys, outbox, gone, back, removing, asked, edited, cut, unused>>,
           deletes' \subseteq deletes, url' \in Origins \cup {None},
           approval' \in {"none", "active", "revoked"}, running' \in BOOLEAN, reachable' \in BOOLEAN,
           enc' \in [Ids -> {"idle", "queued", "sealing", "keeping", "recording", "sending", "sent"}],
           stored' \in [Nodes -> SUBSET Ids], up' \subseteq Nodes, granted' \subseteq Origins,
           \A id \in Ids :
             /\ \/ enc'[id] \in {enc[id], "idle"} \/ (enc'[id] = "sent" /\ rows[id].sha)
                \/ {enc[id], enc'[id]} \subseteq {"queued", "sealing", "keeping"}
             /\ Sends(id)' => Sends(id) \/ (file(id) /\ rows[id].sha)
             /\ id \notin asked /\ id \notin outbox =>
                  \A n \in Nodes : id \in stored[n] => \E m \in Nodes : id \in stored'[m]
    PROVE  Done
<1>1. TypeOK'
  BY Zenon DEF IInv, TypeOK, Alike, MirrorOK, MirrorRecord
<1>2. DeletesAsked'
  BY Zenon DEF IInv, DeletesAsked
<1>3. ASSUME NEW id \in Ids PROVE Calm(id)
  BY Zenon DEF Calm, Alike, file
<1>4. ASSUME NEW id \in Ids PROVE Sound(id)' /\ Promise(id)
  BY Zenon, <1>1, <1>3, CalmStep DEF IInv
<1>5. Careful
  BY Zenon DEF Careful
<1> QED
  BY Zenon, <1>1, <1>2, <1>4, <1>5 DEF Done

\* What the updates of the index do to a row.
LEMMA SetLocal ==
    ASSUME TypeOK, NEW id \in Ids, NEW s \in LocalStates
    PROVE  /\ set_local(id, s) \in [Ids -> FileRecord \cup {None}]
           /\ \A i \in Ids \ {id} : set_local(id, s)[i] = rows[i]
           /\ ~file(id) => set_local(id, s)[id] = None
           /\ file(id) => /\ set_local(id, s)[id] # None /\ set_local(id, s)[id].local = s
                          /\ set_local(id, s)[id].sha = rows[id].sha
<1>1. rows \in [Ids -> FileRecord \cup {None}]
  BY Zenon DEF TypeOK
<1>2. CASE ~file(id)
  BY Zenon, <1>1, <1>2 DEF set_local, file
<1>3. CASE file(id)
  <2>1. PICK r : r = [rows[id] EXCEPT !.local = s]
    BY Zenon
  <2>2. rows[id] \in FileRecord
    BY Zenon, <1>1, <1>3 DEF file
  <2>3. r \in FileRecord /\ r.local = s /\ r.sha = rows[id].sha
    BY Zenon, <2>1, <2>2 DEF FileRecord
  <2>4. set_local(id, s) = [rows EXCEPT ![id] = r]
    BY Zenon, <1>1, <1>3, <2>1 DEF set_local
  <2> QED
    BY Zenon, <1>1, <1>3, <2>3, <2>4, NoneAssumption
<1> QED
  BY Zenon, <1>2, <1>3

\* The online copy's state is nothing else's business.
LEMMA SetOnline ==
    ASSUME TypeOK, NEW id \in Ids, NEW s \in OnlineStates
    PROVE  Alike(set_online(id, s))
<1>1. rows \in [Ids -> FileRecord \cup {None}]
  BY DEF TypeOK
<1>2. CASE ~file(id)
  BY Zenon, <1>1, <1>2 DEF set_online, Alike
<1>3. CASE file(id)
  <2>1. PICK r : r = [rows[id] EXCEPT !.online = s]
    BY Zenon
  <2>2. rows[id] \in FileRecord
    BY <1>1, <1>3 DEF file
  <2>3. r \in FileRecord /\ r.local = rows[id].local /\ r.sha = rows[id].sha
    BY Zenon, <2>1, <2>2 DEF FileRecord
  <2>4. set_online(id, s) = [rows EXCEPT ![id] = r]
    BY Zenon, <1>1, <1>3, <2>1 DEF set_online
  <2> QED
    BY Zenon, <1>1, <1>3, <2>3, <2>4, NoneAssumption DEF Alike, file
<1> QED
  BY Zenon, <1>2, <1>3

\* Nor is that of several.
LEMMA SetOnlines ==
    ASSUME TypeOK, NEW S, NEW s \in OnlineStates, \A i \in S : file(i)
    PROVE  Alike([i \in Ids |-> IF i \in S THEN [rows[i] EXCEPT !.online = s] ELSE rows[i]])
<1> DEFINE table == [i \in Ids |-> IF i \in S THEN [rows[i] EXCEPT !.online = s] ELSE rows[i]]
<1>1. ASSUME NEW i \in Ids
      PROVE  /\ table[i] \in FileRecord \cup {None} /\ (table[i] = None <=> rows[i] = None)
             /\ rows[i] # None => table[i].sha = rows[i].sha /\ table[i].local = rows[i].local
  <2>1. rows[i] \in FileRecord \cup {None}
    BY Zenon DEF TypeOK
  <2>2. CASE i \in S
    <3>1. rows[i] \in FileRecord /\ table[i] = [rows[i] EXCEPT !.online = s]
      BY Zenon, <2>1, <2>2 DEF file
    <3> HIDE DEF table
    <3>2. table[i] \in FileRecord /\ table[i].sha = rows[i].sha /\ table[i].local = rows[i].local
      BY Zenon, <3>1 DEF FileRecord
    <3> QED
      BY Zenon, <2>2, <3>1, <3>2, NoneAssumption
  <2>3. CASE i \notin S
    BY Zenon, <2>1, <2>3
  <2> QED
    BY Zenon, <2>2, <2>3
<1> QED
  BY Zenon, <1>1 DEF Alike

\* The index as it is.
LEMMA SameRows ==
    ASSUME TypeOK
    PROVE  Alike(rows)
BY Zenon DEF TypeOK, Alike

-----------------------------------------------------------------------------
(* Steps that leave the files as they are.                                   *)

\* A step of the mirror loop.
LEMMA QuietMirror ==
    ASSUME IInv, Alike(rows'), mirror' \in MirrorRecord,
           mirror'.at \in {"rest", "locals", "due"} \/
             /\ mirror'.id \in Ids
             /\ Sends(mirror'.id) \/ (file(mirror'.id) /\ rows[mirror'.id].sha)
             /\ mirror'.at = "sending" \/ mirror'.node \in Origins,
           approval' \in {"none", "active", "revoked"}, reachable' \in BOOLEAN,
           stored' \in [Nodes -> SUBSET Ids], \A n \in Nodes : stored[n] \subseteq stored'[n],
           UNCHANGED <<copies, deletes, stones, url, disk, running, gone, enc, back, removing, up,
                       granted, history>>
    PROVE  Done
<1>1. TypeOK
  BY Zenon DEF IInv
<1>2. MirrorOK'
  BY Zenon DEF MirrorOK, MirrorRecord
<1>3. /\ UNCHANGED <<copies, stones, keys, outbox, gone, back, removing, asked, edited, cut, unused>>
      /\ deletes' \subseteq deletes /\ url' \in Origins \cup {None} /\ running' \in BOOLEAN
      /\ enc' \in [Ids -> {"idle", "queued", "sealing", "keeping", "recording", "sending", "sent"}]
      /\ up' \subseteq Nodes /\ granted' \subseteq Origins
  BY Zenon, <1>1 DEF disk, history, TypeOK
<1>4. ASSUME NEW id \in Ids
      PROVE  /\ enc'[id] \in {enc[id], "idle"}
             /\ Sends(id)' => Sends(id) \/ (file(id) /\ rows[id].sha)
             /\ id \notin asked /\ id \notin outbox =>
                  \A n \in Nodes : id \in stored[n] => \E m \in Nodes : id \in stored'[m]
  BY Zenon DEF Sends
<1> QED
  BY Zenon, <1>2, <1>3, <1>4, QuietStep

\* The next file of a pass.
LEMMA NextDueIs ==
    ASSUME NEW todo \in SUBSET Ids
    PROVE  NextDue(todo) \in MirrorRecord /\ NextDue(todo).at \in {"rest", "due"}
BY Zenon DEF NextDue, Rest, MirrorRecord

\* mirror_pass and mirror_due.
LEMMA MirrorPasses ==
    ASSUME IInv, mirror_pass \/ \E waiting \in SUBSET BackingOff : mirror_due(Due \ waiting)
    PROVE  Done
<1>1. TypeOK /\ Alike(rows) /\ Rest \in MirrorRecord /\ Rest.at = "rest"
  BY Zenon, SameRows DEF IInv, Rest, MirrorRecord
<1>2. CASE mirror_pass
  <2>1. mirror' \in MirrorRecord /\ mirror'.at = "locals"
    BY Zenon, <1>2 DEF mirror_pass, Mirror, Rest, MirrorRecord, Pending, files
  <2>2. /\ approval' \in {"none", "active", "revoked"} /\ reachable' \in BOOLEAN
        /\ stored' \in [Nodes -> SUBSET Ids] /\ \A n \in Nodes : stored[n] \subseteq stored'[n]
        /\ UNCHANGED <<rows, copies, deletes, stones, url, disk, running, gone, enc, back, removing, up,
                       granted, history>>
    BY Zenon, <1>1, <1>2 DEF mirror_pass, index, world, TypeOK
  <2> QED
    BY Zenon, <1>1, <2>1, <2>2, QuietMirror
<1>3. ASSUME NEW waiting \in SUBSET BackingOff, mirror_due(Due \ waiting) PROVE Done
  <2>1. PICK due : due = Due \ waiting
    BY Zenon
  <2>2. due \in SUBSET Ids /\ \A i \in due : file(i)
    BY Zenon, <2>1 DEF Due, files
  <2>3. mirror' \in MirrorRecord /\ mirror'.at \in {"rest", "due"}
    BY Zenon, <1>1, <1>3, <2>1, <2>2, NextDueIs DEF mirror_due, Mirror
  <2>4. Alike(rows')
    BY Zenon, <1>1, <1>3, <2>1, <2>2, SetOnlines DEF mirror_due, OnlineStates
  <2>5. /\ approval' \in {"none", "active", "revoked"} /\ reachable' \in BOOLEAN
        /\ stored' \in [Nodes -> SUBSET Ids] /\ \A n \in Nodes : stored[n] \subseteq stored'[n]
        /\ UNCHANGED <<copies, deletes, stones, url, disk, running, gone, enc, back, removing, up,
                       granted, history>>
    BY Zenon, <1>1, <1>3 DEF mirror_due, world, TypeOK
  <2> QED
    BY Zenon, <2>3, <2>4, <2>5, QuietMirror
<1> QED
  BY Zenon, <1>2, <1>3

\* upload_local from the mirror loop, up to the request, and an answer that does
\* not come.
LEMMA MirrorLocals ==
    ASSUME IInv, mirror_upload_local, ~(mirror.at = "sending" /\ Put(mirror.id))
    PROVE  Done
<1>1. TypeOK /\ Alike(rows) /\ mirror \in MirrorRecord
  BY Zenon, SameRows DEF IInv, MirrorOK
<1>2. /\ approval' \in {"none", "active", "revoked"} /\ reachable' \in BOOLEAN
      /\ stored' \in [Nodes -> SUBSET Ids] /\ \A n \in Nodes : stored[n] \subseteq stored'[n]
      /\ UNCHANGED <<rows, copies, deletes, stones, url, disk, running, gone, enc, back, removing, up,
                     granted, history>>
  BY Zenon, <1>1 DEF mirror_upload_local, Mirror, PutFails, index, world, TypeOK
<1>3. CASE mirror' = [mirror EXCEPT !.at = "locals", !.id = None]
  <2>1. mirror' \in MirrorRecord /\ mirror'.at = "locals"
    BY Zenon, <1>1, <1>3 DEF MirrorRecord
  <2> QED
    BY Zenon, <1>1, <1>2, <2>1, QuietMirror
<1>4. ASSUME NEW id \in mirror.todo,
             mirror' = IF CanPut(id) THEN [mirror EXCEPT !.at = "sending", !.todo = @ \ {id}, !.id = id]
                       ELSE [mirror EXCEPT !.todo = @ \ {id}],
             mirror.at = "locals"
      PROVE  Done
  <2>1. id \in Ids
    BY Zenon, <1>1 DEF MirrorRecord
  <2>2. CASE CanPut(id)
    <3>1. mirror' \in MirrorRecord /\ mirror'.at = "sending" /\ mirror'.id = id
      BY Zenon, <1>1, <1>4, <2>1, <2>2 DEF MirrorRecord
    <3>2. file(id) /\ rows[id].sha
      BY Zenon, <2>2 DEF CanPut
    <3> QED
      BY Zenon, <1>1, <1>2, <2>1, <3>1, <3>2, QuietMirror
  <2>3. CASE ~CanPut(id)
    <3>1. mirror' \in MirrorRecord /\ mirror'.at = "locals"
      BY Zenon, <1>1, <1>4, <2>3 DEF MirrorRecord
    <3> QED
      BY Zenon, <1>1, <1>2, <3>1, QuietMirror
  <2> QED
    BY Zenon, <2>2, <2>3
<1> QED
  BY Zenon, <1>3, <1>4 DEF mirror_upload_local, Mirror

\* upload_online, upload_lands and upload_fails.
LEMMA MirrorCopies ==
    ASSUME IInv, upload_online \/ upload_lands \/ upload_fails
    PROVE  Done
<1>1. /\ TypeOK /\ Alike(rows) /\ mirror \in MirrorRecord /\ mirror.todo \in SUBSET Ids
      /\ approval \in {"none", "active", "revoked"} /\ reachable \in BOOLEAN
      /\ stored \in [Nodes -> SUBSET Ids]
  BY Zenon, SameRows DEF IInv, MirrorOK, MirrorRecord, TypeOK
<1>2. CASE upload_online
  <2>1. PICK id \in mirror.todo :
          /\ IF file(id) /\ rows[id].sha /\ writable_online
             THEN IF Body(id)
                  THEN /\ mirror' = [at |-> "copying", todo |-> mirror.todo \ {id}, id |-> id, node |-> url]
                       /\ rows' = set_online(id, "copying")
                  ELSE mirror' = NextDue(mirror.todo \ {id}) /\ rows' = set_online(id, "failed")
             ELSE mirror' = NextDue(mirror.todo \ {id}) /\ UNCHANGED rows
          /\ UNCHANGED <<copies, deletes, stones, url, approval, disk, running, gone, enc, back,
                         removing, reachable, world, history, troubles>>
    BY Zenon, <1>2 DEF upload_online, Mirror
  <2>2. id \in Ids /\ mirror.todo \ {id} \in SUBSET Ids
    BY Zenon, <1>1, <2>1
  <2>3. /\ approval' \in {"none", "active", "revoked"} /\ reachable' \in BOOLEAN
        /\ stored' \in [Nodes -> SUBSET Ids] /\ \A n \in Nodes : stored[n] \subseteq stored'[n]
        /\ UNCHANGED <<copies, deletes, stones, url, disk, running, gone, enc, back, removing, up,
                       granted, history>>
    BY Zenon, <1>1, <2>1 DEF world
  <2>4. Alike(rows')
    BY Zenon, <1>1, <2>1, <2>2, SetOnline DEF OnlineStates
  <2>5. CASE mirror' = NextDue(mirror.todo \ {id})
    BY Zenon, <2>2, <2>3, <2>4, <2>5, NextDueIs, QuietMirror
  <2>6. CASE /\ mirror' = [at |-> "copying", todo |-> mirror.todo \ {id}, id |-> id, node |-> url]
             /\ file(id) /\ rows[id].sha /\ writable_online
    <3>1. url \in Origins
      BY Zenon, <1>1, <2>6 DEF writable_online, online_endpoint, TypeOK
    <3>2. mirror' \in MirrorRecord /\ mirror'.id = id /\ mirror'.node \in Origins
      BY Zenon, <2>2, <2>6, <3>1 DEF MirrorRecord
    <3> QED
      BY Zenon, <2>2, <2>3, <2>4, <2>6, <3>2, QuietMirror
  <2> QED
    BY Zenon, <2>1, <2>5, <2>6
<1>3. CASE upload_lands
  <2>1. mirror.at = "copying" /\ mirror.id \in Ids /\ mirror.node \in Origins
    BY Zenon, <1>3 DEF upload_lands, Mirror, IInv, MirrorOK
  <2>2. Sends(mirror.id)
    BY Zenon, <2>1 DEF Sends
  <2>3. /\ mirror' \in MirrorRecord /\ mirror'.at = "copied" /\ mirror'.id = mirror.id
        /\ mirror'.node = mirror.node
    BY Zenon, <1>1, <1>3 DEF upload_lands, Mirror, MirrorRecord
  <2>4. /\ stored' \in [Nodes -> SUBSET Ids] /\ \A n \in Nodes : stored[n] \subseteq stored'[n]
    BY Zenon, <1>1, <1>3, <2>1 DEF upload_lands, upload, Nodes
  <2>5. /\ approval' \in {"none", "active", "revoked"} /\ reachable' \in BOOLEAN
        /\ UNCHANGED <<rows, copies, deletes, stones, url, disk, running, gone, enc, back, removing, up,
                       granted, history>>
    BY Zenon, <1>1, <1>3 DEF upload_lands, index
  <2> QED
    BY Zenon, <1>1, <2>1, <2>2, <2>3, <2>4, <2>5, QuietMirror
<1>4. CASE upload_fails
  <2>1. mirror.at \in {"copying", "copied"} /\ mirror.id \in Ids /\ mirror' = NextDue(mirror.todo)
    BY Zenon, <1>4 DEF upload_fails, Mirror, IInv, MirrorOK
  <2>2. Alike(rows')
    BY Zenon, <1>1, <1>4, <2>1, SetOnline DEF upload_fails, OnlineStates
  <2>3. approval' \in {"none", "active", "revoked"} /\ reachable' \in BOOLEAN
    BY Zenon, <1>1, <1>4 DEF upload_fails, refresh_grant, grant_status
  <2>4. /\ stored' \in [Nodes -> SUBSET Ids] /\ \A n \in Nodes : stored[n] \subseteq stored'[n]
        /\ UNCHANGED <<copies, deletes, stones, url, disk, running, gone, enc, back, removing, up,
                       granted, history>>
    BY Zenon, <1>1, <1>4 DEF upload_fails, world
  <2> QED
    BY Zenon, <1>1, <2>1, <2>2, <2>3, <2>4, NextDueIs, QuietMirror
<1> QED
  BY Zenon, <1>2, <1>3, <1>4

\* A step of nothing but the index, the nodes and what is known of them.
LEMMA QuietIndex ==
    ASSUME IInv, Alike(rows'),
           UNCHANGED <<copies, stones, disk, running, gone, enc, mirror, back, removing, history>>,
           deletes' \subseteq deletes, url' \in Origins \cup {None},
           approval' \in {"none", "active", "revoked"}, reachable' \in BOOLEAN,
           stored' \in [Nodes -> SUBSET Ids], up' \subseteq Nodes, granted' \subseteq Origins,
           \A id \in Ids : id \notin asked /\ id \notin outbox =>
             \A n \in Nodes : id \in stored[n] => \E m \in Nodes : id \in stored'[m]
    PROVE  Done
<1>1. TypeOK
  BY Zenon DEF IInv
<1>2. MirrorOK'
  BY Zenon DEF IInv, MirrorOK
<1>3. /\ UNCHANGED <<copies, stones, keys, outbox, gone, back, removing, asked, edited, cut, unused>>
      /\ running' \in BOOLEAN
      /\ enc' \in [Ids -> {"idle", "queued", "sealing", "keeping", "recording", "sending", "sent"}]
  BY Zenon, <1>1 DEF disk, history, TypeOK
<1>4. ASSUME NEW id \in Ids
      PROVE  /\ enc'[id] \in {enc[id], "idle"}
             /\ Sends(id)' => Sends(id)
  BY Zenon DEF Sends
<1> QED
  BY Zenon, <1>2, <1>3, <1>4, QuietStep

\* Requeued and requeue_all_online.
LEMMA Requeues ==
    ASSUME TypeOK, NEW states
    PROVE  Alike(Requeued(states)) /\ Alike(requeue_all_online)
<1>1. \A S : (\A i \in S : file(i)) =>
         Alike([i \in Ids |-> IF i \in S THEN [rows[i] EXCEPT !.online = "queued"] ELSE rows[i]])
  BY Zenon, SetOnlines DEF OnlineStates
<1>2. PICK S : S = {i \in Ids : file(i) /\ rows[i].online \in states}
  BY Zenon
<1>3. PICK T : T = {i \in Ids : file(i) /\ rows[i].local # "unreadable"}
  BY Zenon
<1>4. Requeued(states) = [i \in Ids |-> IF i \in S THEN [rows[i] EXCEPT !.online = "queued"] ELSE rows[i]]
  BY Zenon, <1>2 DEF Requeued
<1>5. requeue_all_online = [i \in Ids |-> IF i \in T THEN [rows[i] EXCEPT !.online = "queued"] ELSE rows[i]]
  BY Zenon, <1>3 DEF requeue_all_online
<1>6. (\A i \in S : file(i)) /\ (\A i \in T : file(i))
  BY Zenon, <1>2, <1>3
<1>7. Alike(Requeued(states))
  BY <1>1, <1>4, <1>6, Zenon
<1>8. Alike(requeue_all_online)
  BY <1>1, <1>5, <1>6, Zenon
<1> QED
  BY Zenon, <1>7, <1>8

\* The online node and its approval.
LEMMA OnlineNode ==
    ASSUME IInv,
           check_online \/ retry \/ check_grant \/ approve_device \/ \E n \in Origins \cup {None} : set_online_node(n)
    PROVE  Done
<1>1. /\ TypeOK /\ Alike(rows) /\ url \in Origins \cup {None}
      /\ approval \in {"none", "active", "revoked"} /\ reachable \in BOOLEAN
      /\ stored \in [Nodes -> SUBSET Ids] /\ up \subseteq Nodes /\ granted \subseteq Origins
  BY Zenon, SameRows DEF IInv, TypeOK
<1>2. CASE check_online
  <2>1. Alike(rows') /\ reachable' \in BOOLEAN
    BY <1>1, <1>2, Requeues DEF check_online, health
  <2> QED
    BY Zenon, <1>1, <1>2, <2>1, QuietIndex DEF check_online, world
<1>3. CASE retry
  <2>1. Alike(rows')
    BY Zenon, <1>1, <1>3, Requeues DEF retry
  <2> QED
    BY Zenon, <1>1, <1>3, <2>1, QuietIndex DEF retry, world, memory
<1>4. CASE check_grant
  <2>1. approval' \in {"none", "active", "revoked"}
    BY Zenon, <1>1, <1>4 DEF check_grant, refresh_grant, grant_status
  <2> QED
    BY Zenon, <1>1, <1>4, <2>1, QuietIndex DEF check_grant, world, memory
<1>5. CASE approve_device
  <2>1. granted' \subseteq Origins /\ approval' = "active"
    BY Zenon, <1>1, <1>5, NoneAssumption DEF approve_device, health, Nodes
  <2> QED
    BY Zenon, <1>1, <1>5, <2>1, QuietIndex DEF approve_device
<1>6. ASSUME NEW n \in Origins \cup {None}, set_online_node(n) PROVE Done
  <2>1. url' \in Origins \cup {None} /\ approval' = "none" /\ reachable' \in BOOLEAN
    BY Zenon, <1>1, <1>6 DEF set_online_node
  <2>2. CASE n = None
    <3>1. PICK S : S = {i \in Ids : file(i)}
      BY Zenon
    <3>2. rows' = [i \in Ids |-> IF i \in S THEN [rows[i] EXCEPT !.online = "none"] ELSE rows[i]]
      BY Zenon, <1>6, <2>2, <3>1 DEF set_online_node
    <3>3. Alike(rows')
      BY Zenon, <1>1, <3>1, <3>2, SetOnlines DEF OnlineStates
    <3> QED
      BY Zenon, <1>1, <1>6, <2>1, <3>3, QuietIndex DEF set_online_node, world
  <2>3. CASE n # None
    <3>1. Alike(rows')
      BY Zenon, <1>1, <1>6, <2>3, Requeues DEF set_online_node
    <3> QED
      BY <1>1, <1>6, <2>1, <3>1, QuietIndex DEF set_online_node, world
  <2> QED
    BY Zenon, <2>2, <2>3
<1> QED
  BY Zenon, <1>2, <1>3, <1>4, <1>5, <1>6

\* Deletions on the nodes, and the nodes themselves.
LEMMA NodesMove ==
    ASSUME IInv, node_changes \/ \E d \in deletes : delete_answered(d) \/ delete_refused(d)
    PROVE  Done
<1>1. /\ TypeOK /\ Alike(rows) /\ url \in Origins \cup {None}
      /\ approval \in {"none", "active", "revoked"} /\ reachable \in BOOLEAN
      /\ stored \in [Nodes -> SUBSET Ids] /\ up \subseteq Nodes /\ granted \subseteq Origins
      /\ deletes \subseteq Nodes \X Ids
  BY Zenon, SameRows DEF IInv, TypeOK
<1>2. CASE node_changes
  <2>1. up' \subseteq Nodes /\ granted' \subseteq Origins /\ stored' \in [Nodes -> SUBSET Ids]
    BY <1>1, <1>2 DEF node_changes
  <2>2. ASSUME NEW id \in Ids, id \notin outbox, NEW n \in Nodes, id \in stored[n]
        PROVE  \E m \in Nodes : id \in stored'[m]
    BY Zenon, <1>1, <1>2, <2>2 DEF node_changes
  <2> QED
    BY Zenon, <1>1, <1>2, <2>1, <2>2, QuietIndex DEF node_changes, index, memory
<1>3. ASSUME NEW d \in deletes, delete_answered(d) PROVE Done
  <2>1. d[1] \in Nodes /\ d[2] \in asked
    BY Zenon, <1>1 DEF IInv, DeletesAsked
  <2>2. stored' \in [Nodes -> SUBSET Ids]
    BY Zenon, <1>1, <1>3, <2>1 DEF delete_answered, delete
  <2>3. ASSUME NEW id \in Ids, id \notin asked, NEW n \in Nodes, id \in stored[n]
        PROVE  id \in stored'[n]
    BY Zenon, <1>1, <1>3, <2>1, <2>3 DEF delete_answered, delete
  <2>4. deletes' \subseteq deletes
    BY Zenon, <1>3 DEF delete_answered, finish_delete
  <2> QED
    BY Zenon, <1>1, <1>3, <2>2, <2>3, <2>4, QuietIndex DEF delete_answered, memory
<1>4. ASSUME NEW d \in deletes, delete_refused(d) PROVE Done
  BY Zenon, <1>1, <1>4, QuietIndex DEF delete_refused, finish_delete, memory, world
<1> QED
  BY Zenon, <1>2, <1>3, <1>4

\* An encryption's turn and its looks at removed_ids, the check before the upload,
\* and an upload that is not answered.
LEMMA EncryptQuiet ==
    ASSUME IInv, NEW id \in Ids,
           \/ encrypt_begin(id) \/ (encrypt_sealed(id) /\ rows' = rows)
           \/ (encrypt_upload(id) /\ ~(enc[id] = "sent" /\ Put(id)))
    PROVE  Done
<1>1. /\ TypeOK /\ Alike(rows) /\ url \in Origins \cup {None}
      /\ approval \in {"none", "active", "revoked"} /\ reachable \in BOOLEAN /\ running \in BOOLEAN
      /\ stored \in [Nodes -> SUBSET Ids] /\ up \subseteq Nodes /\ granted \subseteq Origins
      /\ enc \in [Ids -> {"idle", "queued", "sealing", "keeping", "recording", "sending", "sent"}]
  BY Zenon, SameRows DEF IInv, TypeOK
<1>2. MirrorOK' /\ \A i \in Ids : Sends(i)' => Sends(i)
  BY Zenon DEF IInv, MirrorOK, Sends, encrypt_begin, encrypt_sealed, encrypt_upload
<1>3. UNCHANGED <<rows, copies, stones, keys, outbox, gone, back, removing, asked, edited, cut, unused,
                  deletes, url, approval, running, reachable, stored, up, granted>>
  BY Zenon
    DEF encrypt_begin, encrypt_sealed, encrypt_upload, Enc, PutFails, index, disk, world, history
<1>4. PICK to : /\ enc' = [enc EXCEPT ![id] = to]
                /\ \/ to = "idle" \/ (to = "sent" /\ rows[id].sha)
                   \/ {enc[id], to} \subseteq {"queued", "sealing", "keeping"}
  BY Zenon DEF encrypt_begin, encrypt_sealed, encrypt_upload, Enc, CanPut
<1>5. enc' \in [Ids -> {"idle", "queued", "sealing", "keeping", "recording", "sending", "sent"}]
  BY Zenon, <1>1, <1>4
<1>6. ASSUME NEW i \in Ids
      PROVE  \/ enc'[i] \in {enc[i], "idle"} \/ (enc'[i] = "sent" /\ rows[i].sha)
             \/ {enc[i], enc'[i]} \subseteq {"queued", "sealing", "keeping"}
  BY Zenon, <1>1, <1>4
<1> QED
  BY Zenon, <1>1, <1>2, <1>3, <1>5, <1>6, QuietStep

-----------------------------------------------------------------------------
(* New files and their encryption.                                           *)

\* A step is fine when it is calm about a file or fine for it.
LEMMA EachFile ==
    ASSUME IInv, TypeOK', MirrorOK', DeletesAsked', Careful,
           \A i \in Ids : Calm(i) \/ (Sound(i)' /\ Promise(i))
    PROVE  Done
BY Zenon, CalmStep DEF Done, IInv

\* queue_new_file, for an id that no row, task or removal has had.
LEMMA NewFile ==
    ASSUME IInv, NEW id \in Ids, NEW linked \in BOOLEAN, NEW prev \in files \cup {None},
           queue_new_file(id, linked, prev)
    PROVE  Done
<1>1. TypeOK /\ rows \in [Ids -> FileRecord \cup {None}]
  BY Zenon DEF IInv, TypeOK
<1>2. id \in unused /\ ~file(id) /\ id \notin asked /\ ~Sends(id) /\ back[id] # "copying"
  BY Zenon DEF queue_new_file, IInv, Sound, RowOK
<1>3. PICK new : new = [local |-> "encrypting", online |-> IF online_endpoint THEN "queued" ELSE "none",
                        sha |-> FALSE, linked |-> linked, prev |-> prev]
  BY Zenon
<1>4. new \in FileRecord /\ new.sha = FALSE /\ new.local = "encrypting" /\ new # None
  <2>1. prev \in Ids \cup {None}
    BY Zenon DEF files
  <2>2. new \in FileRecord
    BY Zenon, <1>3, <2>1 DEF FileRecord, LocalStates, OnlineStates
  <2> QED
    BY Zenon, <1>3, <2>2, NoneAssumption
<1>5. PICK old : prev # None => old = [rows[prev] EXCEPT !.linked = FALSE]
  BY Zenon
<1>6. prev # None => /\ prev \in Ids /\ rows[prev] # None /\ old \in FileRecord /\ old # None
                     /\ old.sha = rows[prev].sha /\ old.local = rows[prev].local
  <2>1. ASSUME prev # None PROVE prev \in Ids /\ rows[prev] # None /\ rows[prev] \in FileRecord
    BY Zenon, <1>1, <2>1 DEF files, file
  <2>2. ASSUME prev # None
        PROVE  old \in FileRecord /\ old.sha = rows[prev].sha /\ old.local = rows[prev].local
    BY Zenon, <1>5, <2>1, <2>2 DEF FileRecord
  <2> QED
    BY Zenon, <2>1, <2>2, NoneAssumption
<1>7. /\ rows' \in [Ids -> FileRecord \cup {None}] /\ rows'[id] = new
      /\ \A i \in Ids \ {id} : rows'[i] = IF i = prev THEN old ELSE rows[i]
  <2>1. rows' = [i \in Ids |-> IF i = id THEN new ELSE IF i = prev THEN old ELSE rows[i]]
    <3>1. None \notin Ids
      BY Zenon, NoneAssumption
    <3> QED
      BY Zenon, <1>3, <1>5, <3>1 DEF queue_new_file
  <2>2. prev = None => \A i \in Ids : i # prev
    BY Zenon, NoneAssumption
  <2> QED
    BY Zenon, <1>1, <1>4, <1>6, <2>1, <2>2
<1>8. /\ unused' = unused \ {id} /\ enc' = [enc EXCEPT ![id] = "queued"]
      /\ UNCHANGED <<copies, deletes, stones, url, approval, keys, outbox, running, gone, mirror, back,
                     removing, reachable, stored, up, granted, asked, edited, cut>>
  BY Zenon DEF queue_new_file, disk, world
<1>9. TypeOK'
  BY <1>1, <1>7, <1>8 DEF TypeOK
<1>10. MirrorOK' /\ DeletesAsked' /\ Careful
  BY Zenon, <1>8 DEF IInv, MirrorOK, DeletesAsked, Careful
<1>11. ASSUME NEW i \in Ids \ {id} PROVE Calm(i)
  <2>1. /\ rows'[i] = None <=> rows[i] = None
        /\ rows[i] # None => rows'[i].sha = rows[i].sha /\ rows'[i].local = rows[i].local
    BY Zenon, <1>6, <1>7, NoneAssumption
  <2>2. enc'[i] = enc[i]
    BY Zenon, <1>1, <1>8 DEF TypeOK
  <2> QED
    BY Zenon, <1>8, <2>1, <2>2 DEF Calm, file, Sends
<1>12. Sound(id)'
  <2>1. rows'[id].sha = FALSE /\ rows'[id].local = "encrypting" /\ file(id)' /\ enc'[id] = "queued"
    BY Zenon, <1>1, <1>4, <1>7, <1>8 DEF TypeOK, file
  <2>2. RowOK(id)'
    BY Zenon, <1>2, <1>8, <2>1 DEF RowOK, Sends
  <2> QED
    BY Zenon, <1>2, <1>8, <2>1, <2>2 DEF IInv, Sound, Sends
<1>13. Promise(id)
  BY Zenon, <1>2, <1>8 DEF Promise, Readable
<1> QED
  BY Zenon, <1>9, <1>10, <1>11, <1>12, <1>13, EachFile

\* A step of the encryption of one file.
LEMMA OneFile ==
    ASSUME IInv, NEW id \in Ids,
           NEW to \in {"idle", "queued", "sealing", "keeping", "recording", "sending", "sent"},
           enc' = [enc EXCEPT ![id] = to],
           rows' \in [Ids -> FileRecord \cup {None}], \A i \in Ids \ {id} : rows'[i] = rows[i],
           keys' \subseteq Ids, outbox' \subseteq Ids,
           \A i \in Ids \ {id} : (i \in keys' <=> i \in keys) /\ (i \in outbox' <=> i \in outbox),
           UNCHANGED <<copies, deletes, stones, url, approval, running, gone, mirror, back, removing,
                       reachable, world, history>>,
           Sound(id)', Promise(id)
    PROVE  Done
<1>1. TypeOK /\ enc'[id] = to /\ \A i \in Ids \ {id} : enc'[i] = enc[i]
  BY Zenon DEF IInv, TypeOK
<1>2. UNCHANGED <<stored, up, granted, asked, edited, cut, unused>>
  BY Zenon DEF world, history
<1>3. TypeOK'
  BY <1>1, <1>2 DEF TypeOK
<1>4. MirrorOK' /\ DeletesAsked' /\ Careful
  BY Zenon, <1>2 DEF IInv, MirrorOK, DeletesAsked, Careful
<1>5. ASSUME NEW i \in Ids \ {id} PROVE Calm(i)
  BY Zenon, <1>1, <1>2 DEF Calm, file, Sends
<1> QED
  BY Zenon, <1>3, <1>4, <1>5, EachFile

\* encrypt_sealed, when the encryption fails.
LEMMA SealingFails ==
    ASSUME IInv, NEW id \in Ids, encrypt_sealed(id), rows' # rows
    PROVE  Done
<1>1. /\ TypeOK /\ enc[id] = "sealing" /\ file(id) /\ rows' = set_local(id, "unreadable")
      /\ enc' = [enc EXCEPT ![id] = "idle"]
      /\ UNCHANGED <<copies, deletes, stones, url, approval, disk, running, gone, mirror, back, removing,
                     reachable, world, history>>
  BY Zenon DEF encrypt_sealed, Enc, was_removed, EncFails, IInv
<1>2. /\ rows' \in [Ids -> FileRecord \cup {None}] /\ \A i \in Ids \ {id} : rows'[i] = rows[i]
      /\ rows'[id] # None /\ rows'[id].local = "unreadable" /\ rows'[id].sha = rows[id].sha
  BY Zenon, <1>1, SetLocal DEF LocalStates
<1>3. keys' \subseteq Ids /\ outbox' \subseteq Ids /\ enc'[id] = "idle" /\ UNCHANGED <<keys, outbox>>
  BY Zenon, <1>1 DEF TypeOK, disk
<1>4. RowOK(id) /\ ~rows[id].sha
  BY Zenon, <1>1 DEF IInv, Sound, RowOK
<1>5. RowOK(id)'
  BY Zenon, <1>1, <1>2, <1>3, <1>4 DEF RowOK, Sends, disk, history
<1>6. Sound(id)' /\ Promise(id)
  BY Zenon, <1>1, <1>2, <1>3, <1>4, <1>5 DEF IInv, Sound, Promise, Readable, file, Sends, history
<1> QED
  BY Zenon, <1>1, <1>2, <1>3, <1>6, OneFile

\* encrypt_keep: the key and the envelope are there together, or the key is gone.
LEMMA KeyKept ==
    ASSUME IInv, NEW id \in Ids, encrypt_keep(id)
    PROVE  Done
<1>1. /\ TypeOK /\ enc[id] = "keeping"
      /\ UNCHANGED <<copies, deletes, stones, url, approval, running, gone, mirror, back, removing,
                     reachable, world, history>>
  BY Zenon DEF encrypt_keep, Enc, IInv
<1>2. file(id) => RowOK(id) /\ ~rows[id].sha
  BY Zenon, <1>1 DEF IInv, Sound, RowOK
<1>3. PICK to \in {"idle", "recording"} :
        /\ enc' = [enc EXCEPT ![id] = to]
        /\ to = "recording" => file(id) /\ keys' = keys \cup {id}
        /\ to = "idle" => keys' = keys \ {id}
        /\ outbox' \in {outbox, outbox \cup {id}, outbox \ {id}}
        /\ rows' = rows \/ (to = "idle" /\ rows' = set_local(id, "unreadable"))
  BY Zenon DEF encrypt_keep, Enc, was_removed, EncFails
<1>4. /\ rows' \in [Ids -> FileRecord \cup {None}] /\ \A i \in Ids \ {id} : rows'[i] = rows[i]
      /\ file(id)' <=> file(id)
      /\ file(id) => rows'[id].sha = rows[id].sha /\ rows'[id].local \in {rows[id].local, "unreadable"}
  <2>1. CASE rows' = rows
    BY Zenon, <1>1, <2>1 DEF TypeOK, file
  <2>2. CASE rows' = set_local(id, "unreadable")
    BY Zenon, <1>1, <2>2, SetLocal DEF LocalStates, file
  <2> QED
    BY Zenon, <1>3, <2>1, <2>2
<1>5. /\ keys' \subseteq Ids /\ outbox' \subseteq Ids /\ enc'[id] = to
      /\ \A i \in Ids \ {id} : (i \in keys' <=> i \in keys) /\ (i \in outbox' <=> i \in outbox)
  BY Zenon, <1>1, <1>3 DEF TypeOK
<1>6. ASSUME file(id) PROVE RowOK(id)'
  BY Zenon, <1>1, <1>2, <1>3, <1>4, <1>5, <1>6 DEF RowOK, Sends, history
<1>7. Sound(id)' /\ Promise(id)
  BY Zenon, <1>1, <1>2, <1>3, <1>4, <1>5, <1>6 DEF IInv, Sound, Promise, Readable, Sends, history
<1> QED
  BY Zenon, <1>1, <1>3, <1>4, <1>5, <1>7, OneFile

\* encrypt_record: from here the file can be read back.
LEMMA Recorded ==
    ASSUME IInv, NEW id \in Ids, encrypt_record(id)
    PROVE  Done
<1>1. /\ TypeOK /\ enc[id] = "recording" /\ enc' = [enc EXCEPT ![id] = "sending"]
      /\ rows' = set_envelope(id, set_local(id, "pending")) /\ UNCHANGED <<keys, outbox>>
      /\ UNCHANGED <<copies, deletes, stones, url, approval, running, gone, mirror, back, removing,
                     reachable, world, history>>
  BY Zenon DEF encrypt_record, Enc, IInv, disk
<1>2. file(id) => RowOK(id) /\ ~rows[id].sha
  BY Zenon, <1>1 DEF IInv, Sound, RowOK
<1>3. PICK table : table = set_local(id, "pending")
  BY Zenon
<1>4. /\ table \in [Ids -> FileRecord \cup {None}] /\ \A i \in Ids \ {id} : table[i] = rows[i]
      /\ ~file(id) => table[id] = None
      /\ file(id) => table[id] # None /\ table[id].local = "pending"
  BY Zenon, <1>1, <1>3, SetLocal DEF LocalStates
<1>5. /\ rows' \in [Ids -> FileRecord \cup {None}] /\ \A i \in Ids \ {id} : rows'[i] = rows[i]
      /\ file(id)' <=> file(id)
      /\ file(id) => rows'[id].sha /\ rows'[id].local = "pending"
  <2>1. CASE ~file(id)
    BY Zenon, <1>1, <1>3, <1>4, <2>1 DEF set_envelope, file
  <2>2. CASE file(id)
    <3>1. PICK r : r = [table[id] EXCEPT !.sha = TRUE]
      BY Zenon
    <3>2. r \in FileRecord /\ r.sha /\ r.local = "pending"
      BY Zenon, <1>4, <2>2, <3>1 DEF FileRecord
    <3>3. rows' = [table EXCEPT ![id] = r]
      BY Zenon, <1>1, <1>3, <1>4, <2>2, <3>1 DEF set_envelope
    <3> QED
      BY Zenon, <1>4, <2>2, <3>2, <3>3, NoneAssumption DEF file
  <2> QED
    BY Zenon, <2>1, <2>2
<1>6. keys' \subseteq Ids /\ outbox' \subseteq Ids /\ enc'[id] = "sending"
  BY Zenon, <1>1 DEF TypeOK
<1>7. ASSUME file(id) PROVE RowOK(id)'
  BY Zenon, <1>1, <1>2, <1>5, <1>6, <1>7 DEF RowOK, Sends, history
<1>8. Sound(id)' /\ Promise(id)
  BY Zenon, <1>1, <1>2, <1>5, <1>6, <1>7 DEF IInv, Sound, Promise, Readable, Sends, history
<1> QED
  BY Zenon, <1>1, <1>5, <1>6, <1>8, OneFile

-----------------------------------------------------------------------------
(* Uploads and edits.                                                        *)

\* complete_edit begins the removal of a file that is there, for an edit that is
\* there.
LEMMA EditCompleted ==
    ASSUME TypeOK, NEW id \in Ids, complete_edit(id)
    PROVE  /\ removing' \in [Ids -> [at: {"idle", "queue"}, sha: BOOLEAN]]
           /\ asked' \subseteq Ids /\ edited' \in [Ids -> Ids \cup {None}]
           /\ \A i \in Ids : /\ i \in asked => i \in asked'
                             /\ i \in asked' => i \in asked \/ file(i)
                             /\ removing'[i].at = "queue" => removing[i].at = "queue" \/ i \in asked'
           /\ \A p, q \in Ids : edited[p] # q /\ edited'[p] = q => q = id /\ file(id)
<1>1. PICK old : old = Superseded(id)
  BY Zenon
<1>2. /\ old \subseteq Ids /\ (\A p \in old : file(p)) /\ (old # {} => file(id))
  BY Zenon, <1>1 DEF Superseded, files
<1>3. /\ removing' = [p \in Ids |-> IF p \in old THEN [at |-> "queue", sha |-> rows[p].sha] ELSE removing[p]]
      /\ asked' = asked \cup old
      /\ edited' = [p \in Ids |-> IF p \in old THEN id ELSE edited[p]]
  BY Zenon, <1>1 DEF complete_edit
<1>4. /\ asked \subseteq Ids /\ removing \in [Ids -> [at: {"idle", "queue"}, sha: BOOLEAN]]
      /\ edited \in [Ids -> Ids \cup {None}]
  BY Zenon DEF TypeOK
<1>5. ASSUME NEW p \in old PROVE [at |-> "queue", sha |-> rows[p].sha] \in [at: {"idle", "queue"}, sha: BOOLEAN]
  <2>1. rows[p] \in FileRecord
    BY Zenon, <1>2 DEF TypeOK, file
  <2> QED
    BY Zenon, <2>1 DEF FileRecord
<1>6. removing' \in [Ids -> [at: {"idle", "queue"}, sha: BOOLEAN]]
  BY Zenon, <1>3, <1>4, <1>5
<1>7. asked' \subseteq Ids /\ edited' \in [Ids -> Ids \cup {None}]
  BY Zenon, <1>2, <1>3, <1>4
<1>8. ASSUME NEW i \in Ids
      PROVE  /\ i \in asked => i \in asked'
             /\ i \in asked' => i \in asked \/ file(i)
             /\ removing'[i].at = "queue" => removing[i].at = "queue" \/ i \in asked'
  BY Zenon, <1>2, <1>3
<1>9. ASSUME NEW p \in Ids, NEW q \in Ids, edited[p] # q, edited'[p] = q PROVE q = id /\ file(id)
  BY Zenon, <1>2, <1>3, <1>9
<1> QED
  BY Zenon, <1>6, <1>7, <1>8, <1>9

\* The local node's answer: the envelope leaves the outbox for the node, and the
\* version it replaces may go when no online node is set.
LEMMA PutDone ==
    ASSUME IInv, NEW id \in Ids, Put(id), file(id) => rows[id].sha,
           MirrorOK', \A i \in Ids : Sends(i)' => Sends(i),
           enc' \in [Ids -> {"idle", "queued", "sealing", "keeping", "recording", "sending", "sent"}],
           \A i \in Ids : enc'[i] \in {enc[i], "idle"}
    PROVE  Done
<1>1. TypeOK /\ Sound(id)
  BY Zenon DEF IInv
<1>2. /\ stored' = upload("local", id) /\ rows' = set_local(id, "ok") /\ outbox' = outbox \ {id}
      /\ UNCHANGED <<copies, deletes, stones, url, approval, keys, running, gone, back,
                     reachable, up, granted, cut, unused>>
  BY Zenon DEF Put
<1>3. /\ removing' \in [Ids -> [at: {"idle", "queue"}, sha: BOOLEAN]]
      /\ asked' \subseteq Ids /\ edited' \in [Ids -> Ids \cup {None}]
      /\ \A i \in Ids : /\ i \in asked => i \in asked'
                        /\ i \in asked' => i \in asked \/ file(i)
                        /\ removing'[i].at = "queue" => removing[i].at = "queue" \/ i \in asked'
      /\ \A p, q \in Ids : edited[p] # q /\ edited'[p] = q => q = id /\ file(id)
  <2>1. CASE complete_edit(id)
    BY Zenon, <1>1, <2>1, EditCompleted
  <2>2. CASE UNCHANGED <<removing, asked, edited>>
    BY Zenon, <1>1, <2>2 DEF TypeOK
  <2> QED
    BY Zenon, <2>1, <2>2 DEF Put
<1>4. /\ stored' \in [Nodes -> SUBSET Ids] /\ \A n \in Nodes : stored[n] \subseteq stored'[n]
      /\ "local" \in Nodes /\ id \in stored'["local"]
  BY Zenon, <1>1, <1>2 DEF upload, TypeOK, Nodes
<1>5. /\ rows' \in [Ids -> FileRecord \cup {None}] /\ \A i \in Ids \ {id} : rows'[i] = rows[i]
      /\ file(id)' <=> file(id)
      /\ file(id) => rows'[id].sha = rows[id].sha /\ rows'[id].local = "ok"
  BY <1>1, <1>2, SetLocal DEF LocalStates, file
<1>6. TypeOK'
  BY <1>1, <1>2, <1>3, <1>4, <1>5 DEF TypeOK, MirrorOK, MirrorRecord
<1>7. DeletesAsked'
  BY Zenon, <1>1, <1>2, <1>3 DEF IInv, DeletesAsked, TypeOK
<1>8. ASSUME NEW i \in Ids \ {id} PROVE Calm(i)
  <2>1. i \in outbox' <=> i \in outbox
    BY Zenon, <1>2
  <2> QED
    BY Zenon, <1>2, <1>3, <1>4, <1>5, <2>1 DEF Calm, file
<1>9. ASSUME file(id) PROVE RowOK(id)'
  BY Zenon, <1>1, <1>2, <1>3, <1>5, <1>9 DEF Sound, RowOK
<1>10. Sound(id)'
  <2>1. id \in asked' => id \notin unused
    BY Zenon, <1>1, <1>3 DEF Sound, RowOK
  <2>2. removing'[id].at = "queue" => id \in asked'
    BY Zenon, <1>1, <1>3 DEF Sound
  <2> QED
    BY Zenon, <1>1, <1>2, <1>5, <1>9, <2>1, <2>2 DEF Sound
<1>11. Promise(id)
  BY Zenon, <1>1, <1>2, <1>3, <1>4, <1>5 DEF Promise, Readable
<1>12. Careful
  <2>1. ASSUME file(id), id \notin asked PROVE Readable(id)'
    BY Zenon, <1>1, <1>2, <1>4, <1>5, <2>1 DEF Readable, Sound, RowOK
  <2> QED
    BY <1>3, <1>4, <2>1 DEF Careful
<1> QED
  BY Zenon, <1>6, <1>7, <1>8, <1>10, <1>11, <1>12, EachFile

\* upload_local, from the encryption.
LEMMA EncryptUploads ==
    ASSUME IInv, NEW id \in Ids, encrypt_upload(id)
    PROVE  Done
<1>1. CASE ~(enc[id] = "sent" /\ Put(id))
  BY Zenon, <1>1, EncryptQuiet
<1>2. CASE enc[id] = "sent" /\ Put(id)
  <2>1. enc' = [enc EXCEPT ![id] = "idle"] /\ mirror' = mirror
    BY Zenon, <1>2 DEF encrypt_upload, Enc
  <2>2. file(id) => rows[id].sha
    BY Zenon, <1>2 DEF IInv, Sound, RowOK
  <2>3. MirrorOK' /\ \A i \in Ids : Sends(i)' => Sends(i)
    BY Zenon, <2>1 DEF IInv, MirrorOK, Sends
  <2>4. /\ enc' \in [Ids -> {"idle", "queued", "sealing", "keeping", "recording", "sending", "sent"}]
        /\ \A i \in Ids : enc'[i] \in {enc[i], "idle"}
    BY Zenon, <2>1 DEF IInv, TypeOK
  <2> QED
    BY Zenon, <1>2, <2>2, <2>3, <2>4, PutDone
<1> QED
  BY Zenon, <1>1, <1>2

\* From the mirror loop.
LEMMA MirrorUploads ==
    ASSUME IInv, mirror_upload_local
    PROVE  Done
<1>1. CASE ~(mirror.at = "sending" /\ Put(mirror.id))
  BY Zenon, <1>1, MirrorLocals
<1>2. CASE mirror.at = "sending" /\ Put(mirror.id)
  <2>1. mirror' = [mirror EXCEPT !.at = "locals", !.id = None] /\ enc' = enc
    BY Zenon, <1>2 DEF mirror_upload_local, Mirror
  <2>2. mirror \in MirrorRecord /\ mirror.id \in Ids /\ Sends(mirror.id)
    BY Zenon, <1>2 DEF IInv, MirrorOK, Sends
  <2>3. file(mirror.id) => rows[mirror.id].sha
    BY Zenon, <2>2 DEF IInv, Sound, RowOK
  <2>4. mirror' \in MirrorRecord /\ mirror'.at = "locals"
    BY Zenon, <2>1, <2>2 DEF MirrorRecord
  <2>5. MirrorOK' /\ \A i \in Ids : Sends(i)' => Sends(i)
    BY Zenon, <2>4 DEF MirrorOK, Sends
  <2>6. /\ enc' \in [Ids -> {"idle", "queued", "sealing", "keeping", "recording", "sending", "sent"}]
        /\ \A i \in Ids : enc'[i] \in {enc[i], "idle"}
    BY Zenon, <2>1 DEF IInv, TypeOK
  <2> QED
    BY Zenon, <1>2, <2>2, <2>3, <2>5, <2>6, PutDone
<1> QED
  BY Zenon, <1>1, <1>2

\* upload_confirmed: an edit that the online node has replaces its old version.
LEMMA Confirmed ==
    ASSUME IInv, upload_confirmed
    PROVE  Done
<1>0. PICK id : id = mirror.id
  BY Zenon
<1>1. /\ TypeOK /\ mirror \in MirrorRecord /\ mirror.todo \in SUBSET Ids /\ id \in Ids /\ Sends(id)
      /\ mirror.node \in Origins /\ mirror' = NextDue(mirror.todo)
  BY Zenon, <1>0 DEF IInv, MirrorOK, MirrorRecord, upload_confirmed, Mirror, Sends
<1>2. Sound(id) /\ (file(id) => rows[id].sha)
  BY Zenon, <1>1 DEF IInv, Sound, RowOK
<1>3. UNCHANGED <<deletes, stones, url, approval, keys, outbox, running, gone, enc, back,
                  reachable, stored, up, granted, cut, unused>>
  BY Zenon DEF upload_confirmed, disk, world
<1>4. Alike(rows') /\ copies' \subseteq Ids \X Origins
  BY <1>0, <1>1, SetOnline DEF upload_confirmed, OnlineStates, add_online_copy, TypeOK
<1>5. /\ removing' \in [Ids -> [at: {"idle", "queue"}, sha: BOOLEAN]]
      /\ asked' \subseteq Ids /\ edited' \in [Ids -> Ids \cup {None}]
      /\ \A i \in Ids : /\ i \in asked => i \in asked'
                        /\ i \in asked' => i \in asked \/ file(i)
                        /\ removing'[i].at = "queue" => removing[i].at = "queue" \/ i \in asked'
      /\ \A p, q \in Ids : edited[p] # q /\ edited'[p] = q =>
           q = id /\ file(id) /\ id \in stored[mirror.node]
  <2>1. CASE complete_edit(id) /\ id \in stored[mirror.node]
    BY Zenon, <1>1, <2>1, EditCompleted
  <2>2. CASE UNCHANGED <<removing, asked, edited>>
    BY Zenon, <1>1, <2>2 DEF TypeOK
  <2> QED
    BY Zenon, <1>0, <2>1, <2>2 DEF upload_confirmed, head
<1>6. mirror' \in MirrorRecord /\ mirror'.at \in {"rest", "due"}
  BY Zenon, <1>1, NextDueIs
<1>7. MirrorOK' /\ \A i \in Ids : ~Sends(i)'
  BY Zenon, <1>6 DEF MirrorOK, Sends
<1>8. TypeOK'
  BY <1>1, <1>3, <1>4, <1>5, <1>6 DEF TypeOK, Alike
<1>9. DeletesAsked'
  BY Zenon, <1>1, <1>3, <1>5 DEF IInv, DeletesAsked, TypeOK
<1>10. ASSUME NEW i \in Ids PROVE Calm(i)
  BY Zenon, <1>3, <1>4, <1>5, <1>7 DEF Calm, Alike, file
<1>11. Careful
  <2>1. mirror.node \in Nodes
    BY Zenon, <1>1 DEF Nodes
  <2>2. ASSUME file(id), id \notin asked, id \in stored[mirror.node] PROVE Readable(id)'
    BY Zenon, <1>1, <1>2, <1>3, <1>4, <2>1, <2>2 DEF Readable, Sound, RowOK, Alike, file
  <2> QED
    BY Zenon, <1>3, <1>5, <2>1, <2>2 DEF Careful
<1> QED
  BY Zenon, <1>7, <1>8, <1>9, <1>10, <1>11, EachFile

-----------------------------------------------------------------------------
(* Copies that are missing.                                                  *)

\* A step about one file's copy on the local node.
LEMMA OneCopy ==
    ASSUME IInv, NEW id \in Ids, NEW s \in LocalStates, NEW b \in {"idle", "copying"},
           rows' = set_local(id, s),
           back' = [back EXCEPT ![id] = b],
           stored' \in [Nodes -> SUBSET Ids], \A n \in Nodes : stored[n] \subseteq stored'[n],
           UNCHANGED <<copies, deletes, stones, url, approval, disk, running, gone, enc, mirror,
                       removing, reachable, up, granted, history>>,
           file(id) => /\ rows[id].sha /\ rows[id].local \in {"ok", "missing", "restoring"}
                       /\ s \in {"ok", "missing", "restoring"},
           b = "copying" => file(id) \/ back[id] = "copying"
    PROVE  Done
<1>1. TypeOK /\ Sound(id)
  BY Zenon DEF IInv
<1>2. UNCHANGED <<keys, outbox, asked, edited, cut, unused>>
  BY Zenon DEF disk, history
<1>3. /\ rows' \in [Ids -> FileRecord \cup {None}] /\ \A i \in Ids \ {id} : rows'[i] = rows[i]
      /\ file(id)' <=> file(id)
      /\ file(id) => rows'[id].sha = rows[id].sha /\ rows'[id].local = s
  BY <1>1, SetLocal DEF file
<1>4. back'[id] = b /\ (\A i \in Ids \ {id} : back'[i] = back[i]) /\ back' \in [Ids -> {"idle", "copying"}]
  BY Zenon, <1>1 DEF TypeOK
<1>5. TypeOK'
  BY Zenon, <1>1, <1>2, <1>3, <1>4 DEF TypeOK
<1>6. MirrorOK' /\ DeletesAsked' /\ Careful
  BY Zenon, <1>2 DEF IInv, MirrorOK, DeletesAsked, Careful
<1>7. ASSUME NEW i \in Ids \ {id} PROVE Calm(i)
  BY Zenon, <1>2, <1>3, <1>4 DEF Calm, file, Sends
<1>8. ASSUME file(id) PROVE RowOK(id)'
  BY Zenon, <1>1, <1>2, <1>3, <1>4, <1>8 DEF Sound, RowOK, Sends
<1>9. Sound(id)'
  BY Zenon, <1>1, <1>2, <1>3, <1>4, <1>8 DEF Sound, RowOK, Sends
<1>10. Promise(id)
  BY Zenon, <1>1, <1>2, <1>3 DEF Promise, Readable
<1> QED
  BY Zenon, <1>5, <1>6, <1>7, <1>9, <1>10, EachFile

\* check_copies, copy_back and copy_online_to_local.
LEMMA CopiesChecked ==
    ASSUME IInv, NEW id \in Ids, NEW n \in Nodes,
           check_copies(id, n) \/ copy_back(id) \/ copy_online_to_local(id)
    PROVE  Done
<1>1. /\ TypeOK /\ stored \in [Nodes -> SUBSET Ids] /\ back \in [Ids -> {"idle", "copying"}]
      /\ back = [back EXCEPT ![id] = back[id]] /\ "local" \in Nodes
  BY Zenon DEF IInv, TypeOK, Nodes
<1>2. CASE check_copies(id, n)
  <2>1. CASE rows' = set_local(id, "missing") /\ rows[id].local = "ok"
    BY Zenon, <1>1, <1>2, <2>1, OneCopy DEF check_copies, memory, world, LocalStates
  <2>2. CASE rows' = set_online(id, "missing")
    <3>1. Alike(rows')
      BY Zenon, <1>1, <2>2, SetOnline DEF OnlineStates
    <3>2. /\ url \in Origins \cup {None} /\ approval \in {"none", "active", "revoked"} /\ reachable \in BOOLEAN
          /\ up \subseteq Nodes /\ granted \subseteq Origins
      BY Zenon, <1>1 DEF TypeOK
    <3> QED
      BY Zenon, <1>1, <1>2, <3>1, <3>2, QuietIndex DEF check_copies, memory, world
  <2> QED
    BY Zenon, <1>2, <2>1, <2>2 DEF check_copies
<1>3. CASE copy_back(id)
  <2>1. rows[id].sha
    BY Zenon, <1>3 DEF copy_back, IInv, Sound, RowOK
  <2> QED
    BY Zenon, <1>1, <1>3, <2>1, OneCopy DEF copy_back, world, LocalStates
<1>4. CASE copy_online_to_local(id)
  <2>1. PICK s \in {"ok", "missing"} : rows' = set_local(id, s)
    BY Zenon, <1>4 DEF copy_online_to_local
  <2>2. file(id) => rows[id].sha /\ rows[id].local \in {"ok", "missing", "restoring"}
    BY Zenon, <1>4 DEF copy_online_to_local, IInv, Sound, RowOK
  <2>3. stored' \in [Nodes -> SUBSET Ids] /\ \A m \in Nodes : stored[m] \subseteq stored'[m]
    BY Zenon, <1>1, <1>4 DEF copy_online_to_local, upload
  <2> QED
    BY Zenon, <1>1, <1>4, <2>1, <2>2, <2>3, OneCopy DEF copy_online_to_local, LocalStates
<1> QED
  BY Zenon, <1>2, <1>3, <1>4

-----------------------------------------------------------------------------
(* Removal.                                                                  *)

\* A removal begins with a row that is there.
LEMMA Begun ==
    ASSUME IInv, NEW ids \in SUBSET files, Begin(ids),
           UNCHANGED <<index, disk, running, gone, enc, mirror, back, reachable, world, edited, cut, unused>>
    PROVE  Done
<1>1. TypeOK /\ ids \subseteq Ids /\ \A i \in ids : file(i)
  BY Zenon DEF IInv, files
<1>2. UNCHANGED <<rows, copies, deletes, stones, url, approval, keys, outbox, stored, up, granted>>
  BY Zenon DEF index, disk, world
<1>3. /\ removing' = [i \in Ids |-> IF i \in ids THEN [at |-> "queue", sha |-> rows[i].sha] ELSE removing[i]]
      /\ asked' = asked \cup ids
  BY Zenon DEF Begin
<1>4. ASSUME NEW p \in ids PROVE [at |-> "queue", sha |-> rows[p].sha] \in [at: {"idle", "queue"}, sha: BOOLEAN]
  <2>1. rows[p] \in FileRecord
    BY Zenon, <1>1 DEF TypeOK, file
  <2> QED
    BY Zenon, <2>1 DEF FileRecord
<1>5. /\ removing' \in [Ids -> [at: {"idle", "queue"}, sha: BOOLEAN]]
      /\ \A i \in Ids : removing'[i].at = "queue" => removing[i].at = "queue" \/ i \in asked'
  BY Zenon, <1>1, <1>3, <1>4 DEF TypeOK
<1>6. TypeOK'
  BY <1>1, <1>2, <1>3, <1>5 DEF TypeOK
<1>7. MirrorOK' /\ DeletesAsked' /\ Careful
  BY Zenon, <1>2, <1>3 DEF IInv, MirrorOK, DeletesAsked, Careful
<1>8. ASSUME NEW i \in Ids PROVE Calm(i)
  BY Zenon, <1>1, <1>2, <1>3, <1>5 DEF Calm, file, Sends
<1> QED
  BY Zenon, <1>6, <1>7, <1>8, EachFile

\* remove and apply_key_list.
LEMMA RemovalsBegin ==
    ASSUME IInv, (\E id \in Ids : remove(id)) \/ apply_key_list
    PROVE  Done
<1>1. ASSUME NEW id \in Ids, remove(id) PROVE Done
  <2>1. {id} \in SUBSET files
    BY Zenon, <1>1 DEF remove, files
  <2> QED
    BY Zenon, <1>1, <2>1, Begun DEF remove
<1>2. CASE apply_key_list
  <2>1. PICK left \in SUBSET files : Begin(left)
    BY Zenon, <1>2 DEF apply_key_list
  <2> QED
    BY Zenon, <1>2, <2>1, Begun DEF apply_key_list
<1> QED
  BY Zenon, <1>1, <1>2

\* The deletions that removals queue are of their own files.
LEMMA QueuedOwn ==
    ASSUME TypeOK, DeletesAsked, NEW ids \in SUBSET Ids, \A i \in ids : i \in asked
    PROVE  Queued(ids) \subseteq Nodes \X Ids /\ \A d \in Queued(ids) : d[2] \in asked
<1>1. ASSUME NEW d \in Queued(ids) PROVE d \in Nodes \X Ids /\ d[2] \in asked
  <2>1. CASE d \in deletes
    BY Zenon, <2>1 DEF TypeOK, DeletesAsked
  <2>2. ASSUME NEW i \in ids, d \in queue_delete({"local"} \cup online_copies(i), i)
        PROVE  d \in Nodes \X Ids /\ d[2] \in asked
    <3>1. {"local"} \cup online_copies(i) \subseteq Nodes
      BY Zenon DEF online_copies, Nodes
    <3> QED
      BY Zenon, <2>2, <3>1 DEF queue_delete
  <2>3. d \in deletes \/ \E i \in ids : d \in queue_delete({"local"} \cup online_copies(i), i)
    BY Zenon DEF Queued
  <2> QED
    BY Zenon, <2>1, <2>2, <2>3
<1> QED
  BY Zenon, <1>1

\* remove_row: the key goes with the row, or neither.
LEMMA RowRemoved ==
    ASSUME IInv, NEW id \in Ids, remove_row(id)
    PROVE  Done
<1>1. TypeOK /\ Sound(id) /\ id \in asked
  BY Zenon DEF IInv, Sound, remove_row
<1>2. /\ removing' = [removing EXCEPT ![id] = Idle] /\ gone' = gone \cup {id}
      /\ deletes' = Queued({id}) /\ stones' = stones \cup {id}
      /\ UNCHANGED <<url, approval, running, enc, mirror, back, reachable, stored, up, granted, asked,
                     edited, cut, unused>>
  BY Zenon DEF remove_row, add_tombstone, world, history
<1>3. /\ removing' \in [Ids -> [at: {"idle", "queue"}, sha: BOOLEAN]]
      /\ \A i \in Ids : removing'[i].at = "queue" => removing[i].at = "queue"
  BY Zenon, <1>1, <1>2 DEF TypeOK, Idle
<1>4. deletes' \subseteq Nodes \X Ids /\ DeletesAsked'
  BY Zenon, <1>1, <1>2, QueuedOwn DEF IInv, DeletesAsked
<1>5. /\ rows' \in [Ids -> FileRecord \cup {None}] /\ copies' \subseteq Ids \X Origins
      /\ keys' \subseteq Ids /\ outbox' \subseteq Ids
      /\ \A i \in Ids \ {id} : /\ rows'[i] = rows[i] /\ (i \in keys' <=> i \in keys)
                               /\ (i \in outbox' <=> i \in outbox)
      /\ \/ ~file(id)' /\ id \notin keys'
         \/ rows'[id] = rows[id] /\ (id \in keys' <=> id \in keys) /\ (id \in outbox' <=> id \in outbox)
  <2>1. CASE keys' = keys \ {id} /\ outbox' = outbox \ {id} /\ delete_file(id)
    BY Zenon, <1>1, <2>1 DEF delete_file, TypeOK, file
  <2>2. CASE UNCHANGED <<rows, copies, disk>>
    BY Zenon, <1>1, <2>2 DEF disk, TypeOK
  <2> QED
    BY Zenon, <2>1, <2>2 DEF remove_row
<1>6. TypeOK'
  <2>1. {stones', keys', outbox', gone', asked', cut', unused'} \subseteq SUBSET Ids
    BY <1>1, <1>2, <1>5 DEF TypeOK
  <2> QED
    BY Zenon, <1>1, <1>2, <1>3, <1>4, <1>5, <2>1 DEF TypeOK
<1>7. MirrorOK' /\ Careful
  BY Zenon, <1>2 DEF IInv, MirrorOK, Careful
<1>8. ASSUME NEW i \in Ids, rows'[i] = rows[i], i \in keys' <=> i \in keys, i \in outbox' <=> i \in outbox
      PROVE  Calm(i)
  BY Zenon, <1>2, <1>3, <1>8 DEF Calm, file, Sends
<1>9. ASSUME ~file(id)', id \notin keys' PROVE Sound(id)' /\ Promise(id)
  BY Zenon, <1>1, <1>2, <1>3, <1>9 DEF Sound, Promise, Sends
<1> QED
  BY Zenon, <1>4, <1>5, <1>6, <1>7, <1>8, <1>9, EachFile

-----------------------------------------------------------------------------
(* Crashes and starts.                                                       *)

\* A crash ends every task; only a removal that was asked for loses a key, and a
\* key left without a row is the key of an encryption cut off.
LEMMA Crashed ==
    ASSUME IInv, Crash
    PROVE  Done
<1>1. TypeOK
  BY Zenon DEF IInv
<1>2. /\ running' = FALSE /\ gone' = {} /\ reachable' = TRUE
      /\ enc' = [id \in Ids |-> "idle"] /\ back' = [id \in Ids |-> "idle"]
      /\ removing' = [id \in Ids |-> Idle] /\ mirror' = Rest
      /\ cut' = cut \cup {id \in Ids : enc[id] # "idle"}
      /\ UNCHANGED <<rows, copies, url, approval, outbox, stored, up, granted, asked, edited, unused>>
  BY Zenon DEF Crash, world
<1>3. PICK queued \in SUBSET {id \in Ids : removing[id].at = "queue"},
           stored_key \in SUBSET {id \in Ids : enc[id] = "keeping"} :
         \E tomb \in SUBSET queued, key \in SUBSET queued :
           /\ deletes' = Queued(queued)
           /\ stones' = stones \cup tomb
           /\ keys' = (keys \cup stored_key) \ key
  BY Zenon DEF Crash
<1>4. PICK tomb \in SUBSET queued, key \in SUBSET queued :
           /\ deletes' = Queued(queued)
           /\ stones' = stones \cup tomb
           /\ keys' = (keys \cup stored_key) \ key
  BY Zenon, <1>3
<1>5. queued \in SUBSET Ids /\ (\A i \in queued : i \in asked) /\ key \subseteq queued /\ tomb \subseteq Ids
  BY Zenon DEF IInv, Sound
<1>6. deletes' \subseteq Nodes \X Ids /\ DeletesAsked'
  BY Zenon, <1>1, <1>2, <1>4, <1>5, QueuedOwn DEF IInv, DeletesAsked
<1>7. MirrorOK' /\ Careful /\ \A i \in Ids : ~Sends(i)'
  BY Zenon, <1>2 DEF MirrorOK, MirrorRecord, Rest, Careful, Sends
<1>8. \A i \in Ids : enc'[i] = "idle" /\ back'[i] = "idle" /\ removing'[i].at = "idle"
  BY Zenon, <1>2 DEF Idle
<1>9. stones' \subseteq Ids /\ keys' \subseteq Ids /\ cut' \subseteq Ids
  BY Zenon, <1>1, <1>2, <1>4, <1>5 DEF TypeOK
<1>10. /\ enc' \in [Ids -> {"idle"}] /\ back' \in [Ids -> {"idle"}]
       /\ removing' \in [Ids -> [at: {"idle", "queue"}, sha: BOOLEAN]] /\ mirror'.at = "rest"
  BY Zenon, <1>2 DEF Idle, Rest
<1>11. TypeOK'
  <2>1. {stones', keys', outbox', gone', asked', cut', unused'} \subseteq SUBSET Ids
    BY <1>1, <1>2, <1>9 DEF TypeOK
  <2>2. {running', reachable'} \subseteq BOOLEAN
    BY Zenon, <1>2
  <2> QED
    BY Zenon, <1>1, <1>2, <1>6, <1>10, <2>1, <2>2 DEF TypeOK
<1>12. ASSUME NEW id \in Ids PROVE Sound(id)' /\ Promise(id)
  <2>1. Sound(id) /\ (id \in keys /\ id \notin asked => id \in keys')
    BY Zenon, <1>4, <1>5 DEF IInv
  <2>2. id \in keys' => id \in keys \/ id \in cut'
    BY Zenon, <1>2, <1>4
  <2>3. ASSUME file(id) PROVE RowOK(id)'
    BY Zenon, <1>2, <1>7, <1>8, <2>1, <2>3 DEF Sound, RowOK
  <2>4. Sound(id)'
    BY Zenon, <1>2, <1>7, <1>8, <2>1, <2>2, <2>3 DEF Sound, file
  <2>5. Promise(id)
    BY Zenon, <1>2, <2>1 DEF Promise, Readable, file
  <2> QED
    BY Zenon, <2>4, <2>5
<1> QED
  BY Zenon, <1>6, <1>7, <1>11, <1>12, EachFile

\* What a start makes of a row.
LEMMA RecoveredIs ==
    ASSUME TypeOK, NEW i \in Ids, file(i)
    PROVE  /\ Recovered(i) \in FileRecord /\ Recovered(i).sha = rows[i].sha
           /\ Recovered(i).local = CASE rows[i].local = "encrypting" -> "unreadable"
                                     [] rows[i].local = "restoring" -> "missing"
                                     [] OTHER -> rows[i].local
<1>1. PICK r : r = rows[i] /\ r \in FileRecord
  BY Zenon DEF TypeOK, file
<1>2. CASE r.local = "encrypting"
  <2>1. Recovered(i) = [r EXCEPT !.local = "unreadable"]
    BY Zenon, <1>1, <1>2 DEF Recovered
  <2> QED
    BY Zenon, <1>1, <1>2, <2>1 DEF FileRecord, LocalStates
<1>3. CASE r.local = "restoring"
  <2>1. Recovered(i) = [r EXCEPT !.local = "missing"]
    BY Zenon, <1>1, <1>3 DEF Recovered
  <2> QED
    BY Zenon, <1>1, <1>3, <2>1 DEF FileRecord, LocalStates
<1>4. CASE r.local \notin {"encrypting", "restoring"}
  <2>1. Recovered(i) = r \/ Recovered(i) = [r EXCEPT !.online = "queued"]
    BY Zenon, <1>1, <1>4 DEF Recovered
  <2> QED
    BY Zenon, <1>1, <1>4, <2>1 DEF FileRecord, OnlineStates
<1> QED
  BY Zenon, <1>2, <1>3, <1>4

\* start: a row that is dropped has no envelope, and the outbox keeps what waits
\* for the local node.
LEMMA Started ==
    ASSUME IInv, start
    PROVE  Done
<1>1. TypeOK
  BY DEF IInv
<1>2. PICK back_to :
        /\ rows' = [i \in Ids |-> IF ~file(i) \/ i \in CutOffImports THEN None
                                  ELSE IF i \in back_to THEN [Recovered(i) EXCEPT !.linked = TRUE]
                                  ELSE Recovered(i)]
        /\ copies' = {c \in copies : c[1] \notin CutOffImports}
        /\ keys' = keys \ CutOffImports /\ outbox' = Unsent /\ running' = TRUE
        /\ UNCHANGED <<deletes, stones, url, approval, gone, enc, mirror, back, removing, reachable,
                       stored, up, granted, asked, edited, cut, unused>>
  BY Zenon DEF start, world, history
<1>3. ASSUME NEW i \in Ids
      PROVE  /\ rows'[i] \in FileRecord \cup {None}
             /\ file(i)' <=> file(i) /\ i \notin CutOffImports
             /\ file(i)' => /\ rows'[i].sha = rows[i].sha
                            /\ rows'[i].local = CASE rows[i].local = "encrypting" -> "unreadable"
                                                  [] rows[i].local = "restoring" -> "missing"
                                                  [] OTHER -> rows[i].local
  <2>1. CASE ~file(i) \/ i \in CutOffImports
    BY Zenon, <1>2, <2>1 DEF file
  <2>2. CASE file(i) /\ i \notin CutOffImports
    <3>1. PICK r : r = Recovered(i)
      BY Zenon
    <3>2. /\ r \in FileRecord /\ r.sha = rows[i].sha
          /\ r.local = CASE rows[i].local = "encrypting" -> "unreadable"
                         [] rows[i].local = "restoring" -> "missing"
                         [] OTHER -> rows[i].local
      BY Zenon, <1>1, <2>2, <3>1, RecoveredIs
    <3>3. rows'[i] = r \/ rows'[i] = [r EXCEPT !.linked = TRUE]
      BY Zenon, <1>2, <2>2, <3>1
    <3>4. rows'[i] \in FileRecord /\ rows'[i].sha = r.sha /\ rows'[i].local = r.local
      BY Zenon, <3>2, <3>3 DEF FileRecord
    <3> QED
      BY Zenon, <2>2, <3>2, <3>4, NoneAssumption DEF file
  <2> QED
    BY Zenon, <2>1, <2>2
<1>4. rows' \in [Ids -> FileRecord \cup {None}]
  BY Zenon, <1>2, <1>3
<1>5. outbox' \subseteq outbox /\ keys' \subseteq keys /\ copies' \subseteq copies
  BY Zenon, <1>2 DEF Unsent
<1>6. TypeOK'
  BY <1>1, <1>2, <1>4, <1>5 DEF TypeOK
<1>7. MirrorOK' /\ DeletesAsked' /\ Careful
  BY Zenon, <1>2 DEF IInv, MirrorOK, DeletesAsked, Careful
<1>8. ASSUME NEW id \in Ids PROVE Sound(id)' /\ Promise(id)
  <2>1. Sound(id)
    BY Zenon DEF IInv
  <2>2. CASE file(id)'
    <3>1. /\ file(id) /\ RowOK(id) /\ rows'[id].sha = rows[id].sha /\ (id \in keys' <=> id \in keys)
          /\ rows'[id].local = CASE rows[id].local = "encrypting" -> "unreadable"
                                 [] rows[id].local = "restoring" -> "missing"
                                 [] OTHER -> rows[id].local
      BY Zenon, <1>2, <1>3, <2>1, <2>2 DEF Sound
    <3>2. /\ id \in outbox' => id \in outbox /\ rows[id].local = "pending"
          /\ rows[id].sha /\ id \in outbox => id \in outbox'
      BY Zenon, <1>2, <3>1 DEF Unsent, RowOK
    <3>3. RowOK(id)'
      BY <1>2, <3>1, <3>2 DEF RowOK, Sends
    <3>4. Sound(id)'
      BY Zenon, <1>2, <2>1, <2>2, <3>3 DEF Sound, Sends
    <3>5. Promise(id)
      BY Zenon, <1>2, <2>2, <3>1, <3>2 DEF Promise, Readable
    <3> QED
      BY Zenon, <3>4, <3>5
  <2>3. CASE ~file(id)'
    <3>1. file(id) => id \in CutOffImports
      BY Zenon, <1>3, <2>3
    <3>2. file(id) => ~rows[id].sha
      BY Zenon, <2>1, <3>1 DEF CutOffImports, Sound, RowOK
    <3>3. id \in keys' => id \in cut
      BY Zenon, <1>2, <2>1, <3>1 DEF Sound
    <3>4. Sound(id)'
      BY Zenon, <1>2, <2>1, <2>3, <3>3 DEF Sound, Sends
    <3>5. Promise(id)
      BY Zenon, <1>2, <2>3, <3>2 DEF Promise, Readable
    <3> QED
      BY <3>4, <3>5
  <2> QED
    BY Zenon, <2>2, <2>3
<1> QED
  BY Zenon, <1>6, <1>7, <1>8, EachFile

-----------------------------------------------------------------------------
(* The theorems.                                                             *)

\* It holds at the start.
LEMMA InitSound ==
    ASSUME Init
    PROVE  IInv
<1>1. PICK kept : /\ kept = IF unused = Edits THEN Ids \ Edits ELSE {}
                  /\ rows = [id \in Ids |-> IF id \in kept THEN KeptRow ELSE None]
                  /\ copies = kept \X granted /\ keys = kept
                  /\ stored = [n \in Nodes |-> IF n \in {"local", url} THEN kept ELSE {}]
  BY Zenon DEF Init
<1>2. /\ url \in Origins \cup {None} /\ granted \subseteq Origins /\ approval \in {"none", "active", "revoked"}
      /\ unused \subseteq Ids /\ kept \subseteq Ids /\ \A id \in kept : id \notin unused
  BY Zenon, <1>1, EditsAssumption DEF Init
<1>3. /\ deletes = {} /\ stones = {} /\ outbox = {} /\ running = TRUE /\ gone = {} /\ reachable = TRUE
      /\ up = Nodes /\ enc = [id \in Ids |-> "idle"] /\ back = [id \in Ids |-> "idle"]
      /\ removing = [id \in Ids |-> Idle] /\ mirror = Rest
      /\ asked = {} /\ cut = {} /\ edited = [id \in Ids |-> None]
  BY Zenon DEF Init
<1>4. PICK r : r = KeptRow
  BY Zenon
<1>5. r \in FileRecord /\ r.sha = TRUE /\ r.local = "ok" /\ r # None
  <2>1. r \in FileRecord
    BY Zenon, <1>4 DEF KeptRow, FileRecord, LocalStates, OnlineStates
  <2> QED
    BY Zenon, <1>4, <2>1, NoneAssumption DEF KeptRow
<1>6. rows = [id \in Ids |-> IF id \in kept THEN r ELSE None]
  BY Zenon, <1>1, <1>4
<1>7. TypeOK
  <2>1. rows \in [Ids -> FileRecord \cup {None}] /\ stored \in [Nodes -> SUBSET Ids]
    BY Zenon, <1>1, <1>2, <1>5, <1>6
  <2>2. /\ {stones, keys, outbox, gone, asked, cut, unused} \subseteq SUBSET Ids
        /\ {running, reachable} \subseteq BOOLEAN
    BY Zenon, <1>1, <1>2, <1>3
  <2>3. copies \subseteq Ids \X Origins /\ deletes \subseteq Nodes \X Ids
    BY Zenon, <1>1, <1>2, <1>3
  <2>4. /\ enc \in [Ids -> {"idle", "queued", "sealing", "keeping", "recording", "sending", "sent"}]
        /\ back \in [Ids -> {"idle", "copying"}]
        /\ removing \in [Ids -> [at: {"idle", "queue"}, sha: BOOLEAN]]
        /\ mirror.at = "rest" /\ edited \in [Ids -> Ids \cup {None}] /\ up \subseteq Nodes
    BY Zenon, <1>3 DEF Idle, Rest
  <2> QED
    BY Zenon, <1>2, <2>1, <2>2, <2>3, <2>4 DEF TypeOK
<1>8. MirrorOK /\ DeletesAsked
  BY Zenon, <1>3 DEF MirrorOK, MirrorRecord, Rest, DeletesAsked
<1>9. ASSUME NEW id \in Ids PROVE Sound(id)
  <2>1. ~Sends(id) /\ enc[id] = "idle" /\ back[id] = "idle" /\ removing[id].at = "idle"
    BY Zenon, <1>3 DEF Sends, Rest, Idle
  <2>2. file(id) => id \in kept /\ rows[id].sha = TRUE /\ rows[id].local = "ok"
    BY Zenon, <1>5, <1>6 DEF file
  <2>3. id \in kept => file(id)
    BY Zenon, <1>5, <1>6 DEF file
  <2> QED
    BY Zenon, <1>1, <1>2, <1>3, <2>1, <2>2, <2>3 DEF Sound, RowOK
<1> QED
  BY Zenon, <1>7, <1>8, <1>9 DEF IInv

\* A step that changes nothing.
LEMMA Stutters ==
    ASSUME IInv, UNCHANGED vars
    PROVE  Done
<1>1. UNCHANGED <<rows, copies, deletes, stones, url, approval, keys, outbox, running, gone, enc, mirror,
                  back, removing, reachable, stored, up, granted, asked, edited, cut, unused>>
  BY Zenon DEF vars, index, disk, memory, world, history
<1>2. TypeOK' /\ MirrorOK' /\ DeletesAsked' /\ Careful
  BY Zenon, <1>1 DEF IInv, TypeOK, MirrorOK, DeletesAsked, Careful
<1>3. ASSUME NEW i \in Ids PROVE Calm(i)
  BY Zenon, <1>1 DEF Calm, file, Sends
<1> QED
  BY Zenon, <1>2, <1>3, EachFile

\* Every step keeps the invariant, the promise and the care for edits.
LEMMA Steps ==
    ASSUME IInv, [Next]_vars
    PROVE  Done
<1>1. ASSUME NEW id \in Ids, add_paths(id) \/ import_folder_file(id) PROVE Done
  <2>1. CASE add_paths(id)
    BY Zenon, <1>1, <2>1, NewFile DEF add_paths
  <2>2. CASE import_folder_file(id)
    <3>1. PICK prev \in files \cup {None} : queue_new_file(id, TRUE, prev)
      BY Zenon, <2>2 DEF import_folder_file
    <3> QED
      BY Zenon, <3>1, NewFile
  <2> QED
    BY Zenon, <1>1, <2>1, <2>2
<1>2. ASSUME NEW id \in Ids, EncryptStep(id) PROVE Done
  <2>1. CASE encrypt_begin(id)
    BY Zenon, <2>1, EncryptQuiet
  <2>2. CASE encrypt_sealed(id)
    BY Zenon, <2>2, EncryptQuiet, SealingFails
  <2>3. CASE encrypt_keep(id)
    BY Zenon, <2>3, KeyKept
  <2>4. CASE encrypt_record(id)
    BY Zenon, <2>4, Recorded
  <2>5. CASE encrypt_upload(id)
    BY <2>5, EncryptUploads
  <2> QED
    BY Zenon, <1>2, <2>1, <2>2, <2>3, <2>4, <2>5 DEF EncryptStep
<1>3. ASSUME NEW id \in Ids, copy_back(id) \/ copy_online_to_local(id) PROVE Done
  <2>1. "local" \in Nodes
    BY Zenon DEF Nodes
  <2> QED
    BY Zenon, <1>3, <2>1, CopiesChecked
<1>4. ASSUME NEW id \in Ids, remove(id) \/ remove_row(id) PROVE Done
  BY Zenon, <1>4, RemovalsBegin, RowRemoved
<1>5. CASE MirrorStep
  BY Zenon, <1>5, MirrorPasses, MirrorUploads, MirrorCopies, Confirmed DEF MirrorStep
<1>6. CASE \E waiting \in SUBSET BackingOff : mirror_due(Due \ waiting)
  BY Zenon, <1>6, MirrorPasses
<1>7. ASSUME NEW id \in Ids, NEW n \in Nodes, check_copies(id, n) PROVE Done
  BY Zenon, <1>7, CopiesChecked
<1>8. CASE check_online \/ retry \/ check_grant \/ approve_device \/ \E n \in Origins \cup {None} : set_online_node(n)
  BY Zenon, <1>8, OnlineNode
<1>9. CASE apply_key_list
  BY Zenon, <1>9, RemovalsBegin
<1>10. CASE node_changes \/ \E d \in deletes : delete_answered(d) \/ delete_refused(d)
  BY Zenon, <1>10, NodesMove
<1>11. CASE Crash \/ start
  BY Zenon, <1>11, Crashed, Started
<1>12. CASE UNCHANGED vars
  BY Zenon, <1>12, Stutters
<1> QED
  BY Zenon, <1>1, <1>2, <1>3, <1>4, <1>5, <1>6, <1>7, <1>8, <1>9, <1>10, <1>11, <1>12 DEF Next

\* What holds of the rows, the keys, the tasks and the deletions in every state
\* that Drop reaches.
THEOREM Invariance == Spec => []IInv
<1>1. IInv /\ [Next]_vars => IInv'
  BY Zenon, Steps DEF Done, IInv
<1> QED
  BY <1>1, InitSound, PTL DEF Spec

\* The index, the tasks and the nodes hold what they are declared to hold.
THEOREM Typed == Spec => []TypeOK
<1>1. IInv => TypeOK
  BY Zenon DEF IInv
<1> QED
  BY <1>1, Invariance, PTL

\* No key outlives a file that was removed, unless a crash cut its encryption off
\* (encrypt_and_keep and remove_row).
THEOREM KeyGone == Spec => []RemovedKeyGone
<1>1. IInv => RemovedKeyGone
  BY Zenon DEF IInv, Sound, RemovedKeyGone
<1> QED
  BY <1>1, Invariance, PTL

\* The version that an edit replaces is removed only once the edit can be read
\* back from a node, or is being removed itself (complete_edit).
THEOREM EditsSafe == Spec => EditSafe
<1>1. IInv /\ [Next]_vars =>
        [\A p, id \in Ids : (edited[p] # id /\ edited'[p] = id) =>
           (id \in asked \/ (Readable(id)' /\ \E n \in Nodes : id \in stored'[n]))]_vars
  BY Zenon, Steps DEF Done, Careful
<1> QED
  BY <1>1, Invariance, PTL DEF Spec, EditSafe

\* Drop implements Kept: a file that is kept can be read back until its removal
\* begins, and is forgotten only then.
THEOREM Refinement == Spec => KeptUntilRemoved
<1>1. Init => Abstract!Init
  BY Zenon DEF Init, Abstract!Init, status
<1>2. IInv /\ [Next]_vars => [Abstract!Next]_status
  <2>1. SUFFICES ASSUME IInv, [Next]_vars PROVE Abstract!Next
    BY Zenon
  <2>2. ASSUME NEW id \in Ids PROVE Promise(id) /\ Sound(id)
    BY Zenon, <2>1, Steps DEF Done, IInv
  <2>3. DOMAIN status' = Ids
    BY Zenon DEF status
  <2>4. ASSUME NEW id \in Ids
        PROVE  status'[id] = status[id] \/ <<status[id], status'[id]>> \in Abstract!Moves
    <3>1. /\ status[id] = IF id \in asked THEN IF file(id) THEN "asked" ELSE "gone"
                          ELSE IF Readable(id) THEN "kept" ELSE "new"
          /\ status'[id] = IF id \in asked' THEN IF file(id)' THEN "asked" ELSE "gone"
                           ELSE IF Readable(id)' THEN "kept" ELSE "new"
      BY Zenon DEF status
    <3>2. /\ id \in asked => id \in asked' /\ (file(id)' => file(id))
          /\ id \in asked' /\ ~file(id)' => id \in asked
          /\ id \notin asked' /\ Readable(id) => Readable(id)'
      BY Zenon, <2>2 DEF Promise, Sound
    <3> QED
      BY Zenon, <3>1, <3>2 DEF Abstract!Moves
  <2> QED
    BY Zenon, <2>3, <2>4 DEF Abstract!Next
<1> QED
  BY <1>1, <1>2, Invariance, PTL DEF Spec, KeptUntilRemoved, Abstract!Spec
=============================================================================
