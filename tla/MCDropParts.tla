---------------------------- MODULE MCDropParts -----------------------------
(***************************************************************************)
(* The parts of Drop around its index, on small instances: setting up       *)
(* (Setup), sharing by a private link (Share), receiving directly (Direct), *)
(* sealed files (Envelope) and received files (Received).                   *)
(***************************************************************************)
EXTENDS Naturals

CONSTANTS None, f1, f2, foreign

VARIABLES
    which,  \* the part that runs
    device, recovery, url, approval, step, restore_pending, files,
    last_seen, sealed, slot, phase, generation, tasks, adding, command,
    sync, set_changes,
    node, file, share, keys, queue, blobs, sha_at, flow, jobs, stranded,
    due, told, sent, released, sha_changes,
    dir_at, end, cancel, deadline, armed, x, wire, page, link, win, asked,
    reports, sink, ending, dir_events, dir_out, shown, dir_changes,
    links, cross, rec_temp, dirs, parts, job, where, kept, gone, replaced,
    rec_events,
    source, size, prefix, env_at, counter, cursor, body, count, other,
    damaged, length, env_out, env_temp, locked, given

Set == INSTANCE Setup WITH
    Nodes <- {"A", "B"}, Secrets <- {"made", "typed"}, Own <- "made",
    Holds <- {<<"A", "typed">>}, MaxChanges <- 4,
    changes <- set_changes

Sha == INSTANCE Share WITH
    Nodes <- {"A", "B"}, MaxCopies <- 2, MaxChanges <- 4,
    at <- sha_at, changes <- sha_changes

Dir == INSTANCE Direct WITH
    RESTARTS <- 1, Total <- 1, MaxChanges <- 2,
    at <- dir_at, events <- dir_events, out <- dir_out, changes <-
    dir_changes

Rec == INSTANCE Received WITH
    Files <- {f1, f2}, Other <- foreign, MAX_TRIES <- 2,
    MaxLength <- 2, MaxEvents <- 2,
    temp <- rec_temp, events <- rec_events

Env == INSTANCE Envelope WITH
    CHUNK_BYTES <- 4, TAG_BYTES <- 1, HEADER_BYTES <- 3,
    MIN_PADDING_BUCKET <- 2, MAX_PREFIX_BYTES <- 2, MaxSource <- 8, MaxSize <- 9,
    at <- env_at, out <- env_out, temp <- env_temp

\* The parts' variables, and what they are in a behaviour of another part.
SetVars == <<device, recovery, url, approval, step, restore_pending, files,
             last_seen, sealed, slot, phase, generation, tasks, adding, command,
             sync, set_changes>>
ShaVars == <<node, file, share, keys, queue, blobs, sha_at, flow, jobs, stranded,
             due, told, sent, released, sha_changes>>
DirVars == <<dir_at, end, cancel, deadline, armed, x, wire, page, link, win, asked,
             reports, sink, ending, dir_events, dir_out, shown, dir_changes>>
RecVars == <<links, cross, rec_temp, dirs, parts, job, where, kept, gone, replaced,
             rec_events>>
EnvVars == <<source, size, prefix, env_at, counter, cursor, body, count, other,
             damaged, length, env_out, env_temp, locked, given>>

NoSet ==
    /\ device = None /\ recovery = None /\ url = None /\ approval = None
    /\ step = None /\ restore_pending = None /\ files = None
    /\ last_seen = None /\ sealed = None /\ slot = None /\ phase = None
    /\ generation = None /\ tasks = None /\ adding = None /\ command = None
    /\ sync = None /\ set_changes = None
NoSha ==
    /\ node = None /\ file = None /\ share = None /\ keys = None
    /\ queue = None /\ blobs = None /\ sha_at = None /\ flow = None
    /\ jobs = None /\ stranded = None /\ due = None /\ told = None
    /\ sent = None /\ released = None /\ sha_changes = None
NoDir ==
    /\ dir_at = None /\ end = None /\ cancel = None /\ deadline = None
    /\ armed = None /\ x = None /\ wire = None /\ page = None
    /\ link = None /\ win = None /\ asked = None /\ reports = None
    /\ sink = None /\ ending = None /\ dir_events = None /\ dir_out = None
    /\ shown = None /\ dir_changes = None
NoRec ==
    /\ links = None /\ cross = None /\ rec_temp = None /\ dirs = None
    /\ parts = None /\ job = None /\ where = None /\ kept = None
    /\ gone = None /\ replaced = None /\ rec_events = None
NoEnv ==
    /\ source = None /\ size = None /\ prefix = None /\ env_at = None
    /\ counter = None /\ cursor = None /\ body = None /\ count = None
    /\ other = None /\ damaged = None /\ length = None /\ env_out = None
    /\ env_temp = None /\ locked = None /\ given = None

\* The parts do not interact: a behaviour is one of one part.
OneInit ==
    \/ which = "setup" /\ Set!Init /\ NoSha /\ NoDir /\ NoRec /\ NoEnv
    \/ which = "share" /\ Sha!Init /\ NoSet /\ NoDir /\ NoRec /\ NoEnv
    \/ which = "direct" /\ Dir!Init /\ NoSet /\ NoSha /\ NoRec /\ NoEnv
    \/ which = "received" /\ Rec!Init /\ NoSet /\ NoSha /\ NoDir /\ NoEnv
    \/ which = "envelope" /\ Env!Init /\ NoSet /\ NoSha /\ NoDir /\ NoRec

OneNext ==
    \/ which = "setup" /\ Set!Next /\ UNCHANGED <<which, ShaVars, DirVars, RecVars, EnvVars>>
    \/ which = "share" /\ Sha!Next /\ UNCHANGED <<which, SetVars, DirVars, RecVars, EnvVars>>
    \/ which = "direct" /\ Dir!Next /\ UNCHANGED <<which, SetVars, ShaVars, RecVars, EnvVars>>
    \/ which = "received" /\ Rec!Next /\ UNCHANGED <<which, SetVars, ShaVars, DirVars, EnvVars>>
    \/ which = "envelope" /\ Env!Next /\ UNCHANGED <<which, SetVars, ShaVars, DirVars, RecVars>>

all == <<which, SetVars, ShaVars, DirVars, RecVars, EnvVars>>

Fair ==
    /\ WF_SetVars(which = "setup" /\ Set!Approves) /\ WF_SetVars(which = "setup" /\ Set!Commands) /\ WF_SetVars(which = "setup" /\ Set!sync_ends)
    /\ WF_ShaVars(which = "share" /\ Sha!Flows) /\ WF_ShaVars(which = "share" /\ Sha!Mirrors) /\ WF_ShaVars(which = "share" /\ \E j \in jobs : Sha!deletion_answered(j))
    /\ \A c \in Sha!Copies : WF_ShaVars(which = "share" /\ Sha!time_comes(c))
    /\ WF_DirVars(which = "direct" /\ Dir!Session) /\ WF_DirVars(which = "direct" /\ Dir!Sinks) /\ WF_DirVars(which = "direct" /\ Dir!Window)
    /\ WF_DirVars(which = "direct" /\ Dir!Connection) /\ WF_DirVars(which = "direct" /\ Dir!deadline_comes)

OneSpec == OneInit /\ [][OneNext]_all /\ Fair

-----------------------------------------------------------------------------
\* Setup: a file stays under the recovery secret that it was added under.
SecretStays == which = "setup" => Set!SecretStays

\* Direct, Envelope and Received: a file is there whole or not at all.  "Kept" is
\* shown exactly when the file is in the Received folder, the page is told it
\* only of a kept file, and the relay's slots fill without a gap; what is sealed
\* is the source as it was opened, what is opened is the sealed file to its end;
\* a received file keeps a name and replaces none; and nothing is left of an
\* unfinished sealing, opening or move.
FilesWhole ==
    /\ which = "direct" => Dir!ShownIsOnDisk /\ Dir!PageIsTold /\ Dir!Lockstep
    /\ which = "envelope" =>
        Env!LimitEnough /\ Env!SealsWhole /\ Env!OpensWhole /\ Env!NothingLeft
    /\ which = "received" =>
        Rec!NeverReplaces /\ Rec!NeverLost /\ Rec!PathHolds /\ Rec!NoLeftovers

\* Setup and Share: a cancelled approval never reports; a sent copy stays until
\* the time its recipient was told and is never sent again, and a row that shows
\* "sharing ended" has no copy left on a node.
PromisesKept ==
    /\ [](which = "share" => Sha!EndedIsGone /\ Sha!SentOnce)
    /\ [][ /\ which = "setup" => Set!StaleSilentStep
           /\ which = "share" => Sha!SentStaysStep ]_all

\* Setup: an approval ends with an answer.
Answered == (which = "setup" /\ Set!Waiting) ~> (which = "setup" => ~Set!Waiting)

\* Share: a stop that could not be done at once is done.
StopEnds == (which = "share" /\ Sha!StopPending) ~> (which = "share" => ~Sha!StopPending)

\* Direct: every session ends and leaves nothing behind.
AllEnds == <>(which = "direct" => Dir!AllOver)

\* What was begun ends: an approval, a stop and a session.
BegunEnds == Answered /\ StopEnds /\ AllEnds
=============================================================================
