------------------------------ MODULE Publisher ------------------------------
(***************************************************************************)
(* The public service publisher of                                         *)
(* crates/wildbloomd/src/services/publisher.rs: one task that polls the    *)
(* node's coarse state, signs an announcement when one is due, saves it in *)
(* last-event.json, hands it to the relays, and withdraws the listing when *)
(* it is stopped.  publisher.lock keeps a second publisher away.           *)
(*                                                                         *)
(* The task is cut at its awaits: the stop signal drops the work at any of *)
(* them.  What was written to a relay's socket may arrive late or never,   *)
(* whatever the publisher has made of it.  A unit of time is the minute    *)
(* between two polls; the clock is the system's and may be set back.       *)
(***************************************************************************)
EXTENDS Naturals

CONSTANTS
    Relays,
    Listings,    \* the descriptions a snapshot can give, times aside
    Withdrawn,   \* the description of a withdrawn listing
    Gap,         \* the 300 seconds of due
    Heartbeat,   \* heartbeat_seconds
    Ttl,         \* ttl_seconds
    ClockSkew,   \* the 30 seconds of parse_event
    MaxClock,    \* bound on the clock
    MaxEvents,   \* bound on starts, changes of state, failures and clock changes
    Unset

\* Services::new: the heartbeat is no shorter than the limit, and an
\* announcement outlives two of them.
ASSUME PubTimeAssumption ==
    /\ {Gap, Heartbeat, Ttl, ClockSkew, MaxClock} \subseteq Nat
    /\ 0 < Gap /\ Gap <= Heartbeat /\ 2 * Heartbeat <= Ttl
ASSUME PubBoundAssumption == MaxEvents \in Nat

VARIABLES
    prompt,   \* whether a poll's work ends before the clock moves
    clock,
    node,     \* what a snapshot would give
    journal,  \* last-event.json
    relays,   \* the announcement each relay serves
    sent,     \* announcements written to relays' sockets
    task,     \* the publisher's task
    changes, setBacks, failures, starts

world == <<prompt, clock, node, relays, changes, setBacks>>
pubVars == <<world, journal, sent, task, failures, starts>>

Announcement == [created: Nat, expires: Nat, listing: Listings \cup {Withdrawn}]
ASSUME UnsetAssumption == Unset \notin Nat \cup Listings \cup Announcement

Off == [at |-> "off", last |-> Unset, fingerprint |-> Unset, current |-> Unset,
        failed |-> FALSE, event |-> Unset]

\* One more start, change, failure or clock change is within the bound.
MayHappen == changes + setBacks + failures + starts < MaxEvents

Working == {"poll", "sign", "signing", "deliver"}
Withdrawing == {"withdraw", "withdrawSigning", "withdrawDeliver"}

PubTypeOK ==
    /\ prompt \in BOOLEAN /\ clock \in Nat /\ node \in Listings
    /\ journal \in Announcement \cup {Unset}
    /\ relays \in [Relays -> Announcement \cup {Unset}]
    /\ sent \subseteq Relays \X Announcement
    /\ task \in [at: {"off", "sleep"} \cup Working \cup Withdrawing,
                 last: Nat \cup {Unset}, fingerprint: Listings \cup {Unset},
                 current: Listings \cup {Unset}, failed: BOOLEAN, event: Announcement \cup {Unset}]
    /\ task.at \in {"signing", "deliver", "withdrawSigning", "withdrawDeliver"}
        <=> task.event # Unset
    /\ {changes, setBacks, failures, starts} \subseteq Nat

PubInit ==
    /\ prompt \in BOOLEAN /\ clock = 0 /\ node \in Listings
    /\ journal = Unset /\ relays = [r \in Relays |-> Unset] /\ sent = {}
    /\ task = Off
    /\ changes = 0 /\ setBacks = 0 /\ failures = 0 /\ starts = 0

-----------------------------------------------------------------------------
(* The loop of start_with_signer.                                            *)

\* Mutant: the limit starts afresh with the process.
StartFresh ==
    /\ task.at = "off" /\ MayHappen
    /\ starts' = starts + 1
    /\ task' = [Off EXCEPT !.at = "poll"]
    /\ UNCHANGED <<world, journal, sent, failures>>
\* "Restarting must not bypass the five-minute publication limit."
Start ==
    /\ task.at = "off" /\ MayHappen
    /\ starts' = starts + 1
    /\ task' = [Off EXCEPT !.at = "poll",
                           !.last = IF journal = Unset THEN Unset ELSE journal.created]
    /\ UNCHANGED <<world, journal, sent, failures>>

\* Mutant: a failure is not tried again before the next heartbeat.
DueOnHeartbeat(changed) ==
    \/ task.last = Unset
    \/ /\ clock >= task.last
       /\ clock - task.last >= IF changed THEN Gap ELSE Heartbeat
Due(changed) ==
    \/ task.last = Unset
    \/ /\ clock >= task.last
       /\ clock - task.last >= IF changed \/ task.failed THEN Gap ELSE Heartbeat

Poll ==
    /\ task.at = "poll"
    /\ task' = IF Due(task.fingerprint # node)
               THEN [task EXCEPT !.at = "sign", !.last = clock, !.current = node]
               ELSE [task EXCEPT !.at = "sleep"]
    /\ UNCHANGED <<world, journal, sent, failures, starts>>

\* Services::snapshot; a withdrawn listing has every service paused.
Snapshot(withdraw) ==
    [created |-> clock, expires |-> clock + Ttl, listing |-> IF withdraw THEN Withdrawn ELSE node]

AfterJournal == journal # Unset => journal.created < clock

\* signed: a second clock reading and a second snapshot go into the event.
SignStart ==
    /\ task.at = "sign" /\ AfterJournal
    /\ task' = [task EXCEPT !.at = "signing", !.event = Snapshot(FALSE)]
    /\ UNCHANGED <<world, journal, sent, failures, starts>>

\* accept_signature, and the check of Journal::save.
Acceptable(e) ==
    /\ e.created <= clock + ClockSkew /\ e.expires > clock
    /\ journal # Unset => journal.created < e.created

\* Mutant: the event is not written to disk.
SaveInMemory ==
    /\ task.at = "signing" /\ Acceptable(task.event)
    /\ task' = [task EXCEPT !.at = "deliver", !.fingerprint = task.current, !.current = Unset]
    /\ UNCHANGED <<world, journal, sent, failures, starts>>
\* The signer answers; the event is on disk before any relay hears of it.
Save ==
    /\ task.at = "signing" /\ Acceptable(task.event)
    /\ journal' = task.event
    /\ task' = [task EXCEPT !.at = "deliver", !.fingerprint = task.current, !.current = Unset]
    /\ UNCHANGED <<world, sent, failures, starts>>

\* relay::publish: connect and write the event.
Send(r) ==
    /\ task.at \in {"deliver", "withdrawDeliver"}
    /\ <<r, task.event>> \notin sent /\ relays[r] # task.event
    /\ sent' = sent \cup {<<r, task.event>>}
    /\ UNCHANGED <<world, journal, task, failures, starts>>

\* One acknowledgement is enough.
Delivered ==
    /\ task.at = "deliver"
    /\ \E r \in Relays : relays[r] = task.event
    /\ task' = [task EXCEPT !.at = "sleep", !.failed = FALSE, !.event = Unset]
    /\ UNCHANGED <<world, journal, sent, failures, starts>>

WorkEnds == [task EXCEPT !.at = "sleep", !.failed = TRUE, !.event = Unset, !.current = Unset]

\* The clock is behind the journal, or has moved too far while the signer worked.
Refused ==
    /\ \/ task.at = "sign" /\ ~AfterJournal
       \/ task.at = "signing" /\ ~Acceptable(task.event)
    /\ task' = WorkEnds
    /\ UNCHANGED <<world, journal, sent, failures, starts>>

\* A snapshot, the signer or every relay fails or times out.
WorkFails ==
    /\ task.at \in Working
    /\ MayHappen
    /\ failures' = failures + 1
    /\ task' = WorkEnds
    /\ UNCHANGED <<world, journal, sent, starts>>

-----------------------------------------------------------------------------
(* Publisher::stop.                                                          *)

\* The stop signal drops the work, or the sleep, where it is.
Stop ==
    /\ task.at \in Working \cup {"sleep"}
    /\ task' = [Off EXCEPT !.at = "withdraw"]
    /\ UNCHANGED <<world, journal, sent, failures, starts>>

\* "Withdraw with a strictly newer timestamp": the same second is slept over.
WithdrawStart ==
    /\ task.at = "withdraw" /\ AfterJournal
    /\ task' = [task EXCEPT !.at = "withdrawSigning", !.event = Snapshot(TRUE)]
    /\ UNCHANGED <<world, journal, sent, failures, starts>>
WithdrawSave ==
    /\ task.at = "withdrawSigning" /\ Acceptable(task.event)
    /\ journal' = task.event
    /\ task' = [task EXCEPT !.at = "withdrawDeliver"]
    /\ UNCHANGED <<world, sent, failures, starts>>

\* Delivered or refused or failed, the task is over; so is one that has taken
\* thirty seconds, and one whose process dies.
WithdrawEnd ==
    /\ task.at \in Withdrawing
    /\ task' = Off
    /\ UNCHANGED <<world, journal, sent, failures, starts>>
PublisherDies ==
    /\ task.at \in Working \cup {"sleep"}
    /\ task' = Off
    /\ UNCHANGED <<world, journal, sent, failures, starts>>

-----------------------------------------------------------------------------
(* The world.                                                                *)

\* A relay serves the newest announcement it has received.
Receive(r, e) ==
    /\ <<r, e>> \in sent
    /\ sent' = sent \ {<<r, e>>}
    /\ relays' = [relays EXCEPT ![r] = IF @ = Unset \/ @.created < e.created THEN e ELSE @]
    /\ UNCHANGED <<prompt, clock, node, journal, task, changes, setBacks, failures, starts>>
Lose(r, e) ==
    /\ <<r, e>> \in sent
    /\ MayHappen
    /\ failures' = failures + 1
    /\ sent' = sent \ {<<r, e>>}
    /\ UNCHANGED <<world, journal, task, starts>>

Change ==
    /\ MayHappen
    /\ changes' = changes + 1
    /\ node' \in Listings \ {node}
    /\ UNCHANGED <<prompt, clock, journal, relays, sent, task, setBacks, failures, starts>>

\* A minute ends a sleep.
Minute ==
    /\ clock < MaxClock
    /\ prompt => task.at \notin Working
    /\ clock' = clock + 1
    /\ task' = IF task.at = "sleep" THEN [task EXCEPT !.at = "poll"] ELSE task
    /\ UNCHANGED <<prompt, node, journal, relays, sent, changes, setBacks, failures, starts>>
SetBack ==
    /\ MayHappen
    /\ prompt => task.at \notin Working
    /\ setBacks' = setBacks + 1
    /\ clock' \in 0 .. clock
    /\ UNCHANGED <<prompt, node, journal, relays, sent, task, changes, failures, starts>>

PubNext ==
    \/ Start \/ Poll \/ SignStart \/ Save \/ Delivered \/ Refused \/ WorkFails
    \/ \E r \in Relays : Send(r)
    \/ Stop \/ WithdrawStart \/ WithdrawSave \/ WithdrawEnd \/ PublisherDies
    \/ \E r \in Relays, e \in {s[2] : s \in sent} : Receive(r, e) \/ Lose(r, e)
    \/ Change \/ Minute \/ SetBack

PubSpec == PubInit /\ [][PubNext]_pubVars

-----------------------------------------------------------------------------
(* Properties.                                                               *)

\* "Persist the exact signed watermark before relay I/O": whatever a relay has
\* or will have is the journal's event or an older one, after any crash and on
\* any clock, so the next signature supersedes everything that is out there.
JournalLeads ==
    \A e \in ({relays[r] : r \in Relays} \ {Unset}) \cup {s[2] : s \in sent} :
        journal # Unset /\ (e = journal \/ e.created < journal.created)

\* A poll signs no sooner than Gap after the last signature.
SpacedStep ==
    prompt /\ journal # Unset /\ journal' # journal /\ task.at = "signing" =>
        journal'.created >= journal.created + Gap

\* "restart does not bypass the five-minute publication limit": two
\* announcements are signed at least Gap apart, whatever stops, crashes,
\* failures and clock changes lie between them.  A withdrawal is not limited.
Spaced == [][SpacedStep]_pubVars

\* An announcement outlives two heartbeats and a failed one is tried again after
\* Gap: once a relay serves an announcement, one failed poll, signature or
\* delivery never leaves a running node without one in force at some relay,
\* unless the times are at the very edge of what Services::new allows.
FreshThroughOneFailure ==
    Heartbeat + Gap < Ttl /\ prompt /\ starts = 1 /\ setBacks = 0 /\ failures <= 1
        /\ task.at \in Working \cup {"sleep"} =>
            LET served == {relays[r] : r \in Relays} \ {Unset} IN
            served # {} => \E e \in served : e.expires > clock

\* What the relays have is in the journal, and an announcement stays current
\* through one failed delivery.
Announced == JournalLeads /\ FreshThroughOneFailure
=============================================================================
