------------------------------ MODULE Received ------------------------------
(***************************************************************************)
(* Where received files go (drop/direct/received.rs, receive.rs and        *)
(* folder.rs): a verified file is moved from the temporary directory to    *)
(* the Received folder, and Add to Wildbloom moves it on, under the first  *)
(* free name, by a hard link, a rename or a staging copy, while other      *)
(* programs use the same folders and the process may be killed.            *)
(*                                                                         *)
(* Every file is received under the one name <<>>; <<2>> is "name (2)" and *)
(* so on.                                                                  *)
(***************************************************************************)
EXTENDS Naturals, Sequences

CONSTANTS
    None,
    Files,       \* received files, also their transfer ids
    Other,       \* what another program wrote
    MAX_TRIES,
    MaxLength,   \* bound on the length of names
    MaxEvents    \* bound on what other programs, refusals and kills do

Dirs == {"received", "wildbloom"}
Names == UNION {[1..k -> 2..MAX_TRIES] : k \in 0..MaxLength}
Contents == Files \cup {Other}

VARIABLES
    links,     \* the file system has hard links
    cross,     \* the directories are on different file systems
    temp,      \* verified plaintexts in the temporary directory
    dirs,      \* the contents of the two folders
    parts,     \* the staging file of each file, in each folder
    job,       \* the move of each file
    where,     \* direct.received: where the sheet says a file is
    kept,      \* files reported as kept
    gone,      \* contents the owner deleted
    replaced,  \* contents a move replaced
    events

vars == <<links, cross, temp, dirs, parts, job, where, kept, gone, replaced, events>>

candidate(name, n) == IF n = 1 THEN name ELSE Append(name, n)

Jobs == [at : {"wait", "look", "move", "unlink", "rename", "copy", "drop"},
         from : [dir : Dirs \cup {"temp"}, name : Names],
         to : Dirs, name : Names, n : 1..(MAX_TRIES + 1), part : BOOLEAN]

TypeOK ==
    /\ links \in BOOLEAN /\ cross \in BOOLEAN /\ temp \subseteq Files
    /\ dirs \in [Dirs -> [Names -> Contents \cup {None}]]
    /\ parts \in [Dirs -> [Files -> Contents \cup {None}]]
    /\ job \in [Files -> Jobs \cup {None}]
    /\ where \in [Files -> [dir : Dirs, name : Names] \cup {None}]
    /\ kept \subseteq Files /\ gone \subseteq Contents /\ replaced \subseteq Contents
    /\ events \in 0..MaxEvents

-----------------------------------------------------------------------------
Target(f) == candidate(job[f].name, job[f].n)
At(f) == dirs[job[f].to][Target(f)]

\* What the move takes: the staging file, the plaintext or a received file.
Source(f) ==
    LET from == job[f].from
    IN IF job[f].part THEN parts[job[f].to][f]
       ELSE IF from.dir = "temp" THEN (IF f \in temp THEN f ELSE None)
       ELSE dirs[from.dir][from.name]

\* The folders and the temporary directory without the source.
Unsourced(d, f) ==
    LET from == job[f].from
    IN IF from.dir = "temp" THEN d ELSE [d EXCEPT ![from.dir][from.name] = None]
Untemp(f) == IF job[f].from.dir = "temp" THEN temp \ {f} ELSE temp

Step(f, at) == job' = [job EXCEPT ![f].at = at]
NextName(f) == job' = [job EXCEPT ![f].at = "look", ![f].n = @ + 1]

\* Mutant: the name asked for is recorded, not the one that was free.
Done_Asked(f) ==
    /\ where' = [where EXCEPT ![f] = [dir |-> job[f].to, name |-> job[f].name]]
    /\ kept' = kept \cup {f}
    /\ job' = [job EXCEPT ![f] = None]

\* The end of keep and of receive_add_to_wildbloom.
Done(f) ==
    /\ where' = [where EXCEPT ![f] = [dir |-> job[f].to, name |-> Target(f)]]
    /\ kept' = kept \cup {f}
    /\ job' = [job EXCEPT ![f] = None]

\* An error: the plaintext and the staging file are deleted as they drop.
Failed(f) ==
    /\ temp' = Untemp(f) /\ parts' = [parts EXCEPT ![job[f].to][f] = None]
    /\ job' = [job EXCEPT ![f] = None]
    /\ UNCHANGED <<dirs, where, kept, gone, replaced>>

-----------------------------------------------------------------------------
\* keep: a verified plaintext goes to the Received folder.
keep(f) ==
    /\ job[f] = None /\ f \in temp \ kept
    /\ job' = [job EXCEPT ![f] = [at |-> "look", from |-> [dir |-> "temp", name |-> <<>>], to |-> "received",
                                  name |-> <<>>, n |-> 1, part |-> FALSE]]
    /\ UNCHANGED <<temp, dirs, parts, where, kept, gone, replaced>>

\* receive_add_to_wildbloom: the path is read, then the folder's lock is
\* waited for.  The sheet offers it until it has succeeded.
receive_add_to_wildbloom(f) ==
    /\ job[f] = None /\ where[f] # None /\ where[f].dir = "received"
    /\ dirs[where[f].dir][where[f].name] # None
    /\ Len(where[f].name) < MaxLength
    /\ job' = [job EXCEPT ![f] = [at |-> "wait", from |-> where[f], to |-> "wildbloom",
                                  name |-> where[f].name, n |-> 1, part |-> FALSE]]
    /\ UNCHANGED <<temp, dirs, parts, where, kept, gone, replaced>>

folder_lock(f) ==
    /\ job[f] # None /\ job[f].at = "wait"
    /\ \A g \in Files \ {f} : job[g] # None => (job[g].to = "received" \/ job[g].at = "wait")
    /\ Step(f, "look")
    /\ UNCHANGED <<temp, dirs, parts, where, kept, gone, replaced>>

\* The loop of place and place_copy: the next name when this one is taken.
look(f) ==
    /\ job[f] # None /\ job[f].at = "look"
    /\ IF job[f].n > MAX_TRIES THEN Failed(f)
       ELSE /\ IF At(f) # None THEN NextName(f) ELSE Step(f, "move")
            /\ UNCHANGED <<temp, dirs, parts, where, kept, gone, replaced>>

\* Mutant: move_no_clobber renames.
CanLink_Not(f) == FALSE

CanLink(f) == links /\ (job[f].part \/ ~cross)

\* The name is taken by now.
Blocks(f) == At(f) # None

\* move_no_clobber: the hard link, or the look before the rename.
move_no_clobber(f) ==
    /\ job[f] # None /\ job[f].at = "move"
    /\ IF Blocks(f) THEN NextName(f) /\ UNCHANGED dirs
       ELSE IF CanLink(f) /\ Source(f) # None
            THEN dirs' = [dirs EXCEPT ![job[f].to][Target(f)] = Source(f)] /\ Step(f, "unlink")
       ELSE Step(f, IF job[f].part \/ ~cross THEN "rename" ELSE "copy") /\ UNCHANGED dirs
    /\ UNCHANGED <<temp, parts, where, kept, gone, replaced>>

\* The second half of the link: the old name goes.
unlink(f) ==
    /\ job[f] # None /\ job[f].at = "unlink" /\ Source(f) # None
    /\ IF job[f].part
       THEN parts' = [parts EXCEPT ![job[f].to][f] = None] /\ Step(f, "drop") /\ UNCHANGED <<temp, dirs, where, kept>>
       ELSE temp' = Untemp(f) /\ dirs' = Unsourced(dirs, f) /\ Done(f) /\ UNCHANGED parts
    /\ UNCHANGED <<gone, replaced>>

\* The old name cannot be removed, or is gone: back to it, and the file is copied.
unlink_refused(f) ==
    /\ job[f] # None /\ job[f].at = "unlink" /\ ~job[f].part
    /\ dirs' = [dirs EXCEPT ![job[f].to][Target(f)] = None]
    /\ Step(f, "copy")
    /\ UNCHANGED <<temp, parts, where, kept, gone, replaced>>

\* rename, which replaces what is there by now.
rename(f) ==
    /\ job[f] # None /\ job[f].at = "rename"
    /\ IF Source(f) = None THEN Failed(f)
       ELSE /\ replaced' = replaced \cup ({At(f)} \ {None, Source(f)})
            /\ dirs' = [(IF job[f].part THEN dirs ELSE Unsourced(dirs, f)) EXCEPT ![job[f].to][Target(f)] = Source(f)]
            /\ IF job[f].part
               THEN parts' = [parts EXCEPT ![job[f].to][f] = None] /\ Step(f, "drop") /\ UNCHANGED <<temp, where, kept>>
               ELSE temp' = Untemp(f) /\ Done(f) /\ UNCHANGED parts
            /\ UNCHANGED gone

\* Mutant: the source goes once it is copied.
place_copy_Moves(f) ==
    /\ job[f] # None /\ job[f].at = "copy"
    /\ IF Source(f) = None THEN Failed(f)
       ELSE /\ parts' = [parts EXCEPT ![job[f].to][f] = Source(f)]
            /\ job' = [job EXCEPT ![f].at = "look", ![f].n = 1, ![f].part = TRUE]
            /\ temp' = Untemp(f) /\ dirs' = Unsourced(dirs, f)
            /\ UNCHANGED <<where, kept, gone, replaced>>

\* place_copy: the staging copy, then the names again.
place_copy(f) ==
    /\ job[f] # None /\ job[f].at = "copy"
    /\ IF Source(f) = None THEN Failed(f)
       ELSE /\ parts' = [parts EXCEPT ![job[f].to][f] = Source(f)]
            /\ job' = [job EXCEPT ![f].at = "look", ![f].n = 1, ![f].part = TRUE]
            /\ UNCHANGED <<temp, dirs, where, kept, gone, replaced>>

\* The source is removed, if it can be.
remove_source(f) ==
    /\ job[f] # None /\ job[f].at = "drop"
    /\ temp' = Untemp(f) /\ dirs' = Unsourced(dirs, f)
    /\ Done(f)
    /\ UNCHANGED <<parts, gone, replaced>>

remove_refused(f) ==
    /\ job[f] # None /\ job[f].at = "drop"
    /\ Done(f)
    /\ UNCHANGED <<temp, dirs, parts, gone, replaced>>

Moves(f) ==
    \/ keep(f) \/ receive_add_to_wildbloom(f) \/ folder_lock(f) \/ look(f)
    \/ move_no_clobber(f) \/ unlink(f) \/ (unlink_refused(f) /\ Source(f) = None) \/ rename(f) \/ place_copy(f) \/ remove_source(f)

-----------------------------------------------------------------------------
\* Another program takes a free name, or the owner deletes a file that is not
\* being moved.
other_program(d, name) ==
    /\ \A f \in Files : dirs[d][name] = f => job[f] = None
    /\ IF dirs[d][name] = None
       THEN dirs' = [dirs EXCEPT ![d][name] = Other] /\ UNCHANGED gone
       ELSE dirs' = [dirs EXCEPT ![d][name] = None] /\ gone' = gone \cup {dirs[d][name]}
    /\ UNCHANGED <<temp, parts, job, where, kept, replaced>>

\* Mutant: the staging files stay.
sweep_Not(p) == p

\* sweep: the staging files of the Received folder, not of the other.
sweep(p) == [p EXCEPT !["received"] = [f \in Files |-> None]]

\* The process is killed and started again; the temporary directory is swept too.
restart ==
    /\ job' = [f \in Files |-> None] /\ where' = [f \in Files |-> None]
    /\ temp' = {} /\ parts' = sweep(parts)
    /\ UNCHANGED <<dirs, kept, gone, replaced>>

Event ==
    /\ events < MaxEvents /\ events' = events + 1
    /\ \/ \E d \in Dirs, name \in Names : other_program(d, name)
       \/ \E f \in Files : unlink_refused(f) \/ remove_refused(f)
       \/ restart

Init ==
    /\ links \in BOOLEAN /\ cross \in BOOLEAN
    /\ temp = Files
    /\ dirs = [d \in Dirs |-> [n \in Names |-> None]]
    /\ parts = [d \in Dirs |-> [f \in Files |-> None]]
    /\ job = [f \in Files |-> None] /\ where = [f \in Files |-> None]
    /\ kept = {} /\ gone = {} /\ replaced = {} /\ events = 0

Next ==
    /\ \/ \E f \in Files : Moves(f) /\ UNCHANGED events
       \/ Event
    /\ UNCHANGED <<links, cross>>

Spec == Init /\ [][Next]_vars

-----------------------------------------------------------------------------
(* Properties *)

\* Where the file system has hard links, no move ever replaces a file that is
\* there, another program's included, whatever it does between the look at a
\* name and the move.
NeverReplaces == links => replaced = {}

\* Unless a move has replaced a file, a file reported as kept stays in one of
\* the folders, whole and under a name, through every move, refusal and kill,
\* until the owner deletes it.
NeverLost ==
    replaced = {} => \A f \in kept \ gone : \E d \in Dirs, n \in Names : dirs[d][n] = f

\* As long as the owner deletes none of them, the path the sheet shows, reveals
\* and adds is that file's own: two files received under one name, one kept
\* while the other is added, are never taken for each other.
PathHolds ==
    (links /\ gone \cap Files = {}) =>
        \A f \in Files : where[f] # None => dirs[where[f].dir][where[f].name] = f

\* The Received folder holds a staging file only while its move runs, a killed
\* process's included once the program has started again.
NoLeftovers == \A f \in Files : parts["received"][f] # None => (job[f] # None /\ job[f].to = "received")
=============================================================================
