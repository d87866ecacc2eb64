------------------------------- MODULE Direct -------------------------------
(***************************************************************************)
(* "Receive a file" (desktop/src-tauri/src/drop/direct/session.rs, sink.rs,  *)
(* messages.rs, receive.rs and desktop/ui/direct.js).  A session pairs with  *)
(* a page, exchanges numbered messages with it over a relay, opens a hidden  *)
(* window that holds the connection and hands the file's bytes to the sink,  *)
(* restarts a failed connection, and ends: kept, declined, stopped by either *)
(* side, or failed.  The sink verifies and places the file on a thread of    *)
(* its own while the session may be ending.                                  *)
(*                                                                           *)
(* The session's select is biased: a cancel is seen before the sink's        *)
(* events, those before the window's reports, those before the page's        *)
(* packets, the timers and the deadline.                                     *)
(***************************************************************************)
EXTENDS Naturals, Sequences, SequencesExt, FiniteSets

CONSTANTS
    None,
    RESTARTS,    \* ICE restarts a session may make
    Total,       \* the envelope's length in frames
    MaxChanges   \* cancels, faults and losses of the connection

MESSAGES_PER_SIDE == RESTARTS + 3
Indexes == 0..(MESSAGES_PER_SIDE - 1)

VARIABLES
    at,       \* where the session waits
    end,      \* how it ends
    cancel,   \* the owner stopped it
    deadline, \* the session's time is over
    armed,    \* the transfer loop's look at the clock, before its wait
    x,        \* the exchange
    wire,     \* Drop's messages on the relay
    page,     \* the page's messages there
    link,     \* what the session knows of the connection
    win,      \* the hidden window
    asked,    \* requests the window has not answered
    reports,  \* the window's reports
    sink,     \* the sink's file and its frames
    ending,   \* the lock's decision: nothing, cancelled or kept
    events,   \* what the sink told the session
    out,      \* what is outside: the kept file, the page's knowledge, the relay session
    shown,    \* the final state
    changes

session == <<at, end, armed, link, shown>>
exchange == <<x, wire>>
window == <<win, asked, reports>>
storage == <<sink, ending, events>>
vars == <<session, cancel, deadline, exchange, page, window, storage, out, changes>>

Bounded == changes < MaxChanges /\ changes' = changes + 1

-----------------------------------------------------------------------------
(* Messages *)

\* The events each side may send at each index; stop is allowed at every one.
allowed_events(index) ==
    {"stop"} \cup (CASE index = 0 -> {"manifest"}
                     [] index = 1 -> {"answer"}
                     [] index \in 2..(1 + RESTARTS) -> {"restart_answer"}
                     [] OTHER -> {})

Messages == {"invite", "accept", "decline", "restart", "stop"}
Packets == {"manifest", "answer", "restart_answer", "stop", "refused", "forged"}

Init ==
    /\ at = "opening" /\ end = None /\ cancel = FALSE /\ deadline = FALSE /\ armed = TRUE
    /\ x = [sent |-> 0, received |-> 0, alive |-> TRUE, stopped |-> FALSE, told |-> FALSE, unsent |-> None]
    /\ wire = [i \in Indexes |-> None] /\ page = <<>>
    /\ link = [chan |-> FALSE, connected |-> FALSE, ever |-> FALSE, connect |-> FALSE, failed |-> FALSE,
               disconnected |-> FALSE, pending |-> "none", seq |-> 0, restarts |-> 0,
               verifying |-> FALSE, kept |-> FALSE]
    /\ win = [open |-> FALSE, conn |-> "new", answered |-> 0, receiving |-> FALSE, busy |-> None]
    /\ asked = {} /\ reports = <<>>
    /\ sink = [at |-> "none", written |-> 0] /\ ending = "none" /\ events = <<>>
    /\ out = [file |-> FALSE, kept |-> FALSE, relay |-> FALSE, awake |-> FALSE]
    /\ shown = None /\ changes = 0

TypeOK ==
    /\ end # None => end.how \in {"kept", "declined", "you", "them", "failed"}
    /\ x.sent \in 0..MESSAGES_PER_SIDE /\ x.received \in 0..MESSAGES_PER_SIDE
    /\ wire \in [Indexes -> Messages \cup {None}] /\ page \in Seq(Packets)
    /\ link.restarts \in 0..RESTARTS /\ link.pending \in {"none", "offer", "answer", "apply"}
    /\ sink.at \in {"none", "open", "verifying", "verified"} /\ sink.written \in 0..Total
    /\ ending \in {"none", "cancelled", "kept"}
    /\ shown \in {None, "kept", "declined", "you", "them", "failed"}

-----------------------------------------------------------------------------
(* Ends *)

End(how, tell, frame) == [how |-> how, tell |-> tell, frame |-> frame]
Kept == End("kept", FALSE, FALSE)
Cancelled == End("you", TRUE, TRUE)
failed == End("failed", TRUE, TRUE)
quiet == End("failed", FALSE, FALSE)
lost == End("failed", TRUE, FALSE)
refused == End("failed", FALSE, TRUE)
peer_stop == End("them", FALSE, FALSE)

Ends(e) == at' = "ending" /\ end' = e

-----------------------------------------------------------------------------
(* The exchange *)

CanTell == ~x.stopped /\ ~deadline /\ x.sent \in 1..(MESSAGES_PER_SIDE - 1)

\* Mutant: the stop does not wait for the message that was cut off.
tell_Ahead(read, lands, first) ==
    IF CanTell
    THEN /\ x' = [x EXCEPT !.received = @ + read, !.stopped = TRUE, !.unsent = None, !.sent = @ + 1, !.told = lands]
         /\ wire' = IF lands THEN [wire EXCEPT ![x.sent] = "stop"] ELSE wire
    ELSE x' = [x EXCEPT !.received = @ + read] /\ UNCHANGED wire

\* tell: at most once, a stop in place of the next message, after a message
\* that a cancel cut off; "first" says that this one lands now, and "read"
\* counts the page's message that brought it.
tell(read, lands, first) ==
    LET w == IF x.unsent # None /\ first THEN [wire EXCEPT ![x.sent - 1] = x.unsent] ELSE wire
        goes == x.unsent # None => first
    IN IF CanTell
       THEN /\ x' = [x EXCEPT !.received = @ + read, !.stopped = TRUE, !.unsent = None, !.sent = IF goes THEN @ + 1 ELSE @,
                              !.told = goes /\ lands]
            /\ wire' = IF goes /\ lands THEN [w EXCEPT ![x.sent] = "stop"] ELSE w
       ELSE x' = [x EXCEPT !.received = @ + read] /\ UNCHANGED wire

Tells(read) == \E lands, first \in BOOLEAN : tell(read, lands, first)

\* send, up to the upload.
send(m, stage) ==
    /\ x' = [x EXCEPT !.unsent = m, !.sent = @ + 1]
    /\ at' = stage

\* The page's next message, at the index that the exchange expects.
Next_packet == page[x.received + 1]
HasPacket == Len(page) > x.received

\* open: a packet that is not the page's changes nothing in the exchange.
Opened(m) == [x EXCEPT !.received = @ + 1, !.stopped = @ \/ m = "stop"]

-----------------------------------------------------------------------------
(* Up to the transfer *)

Early == {"pairing", "invite", "manifest", "consent", "loading", "creating", "accept", "answer"}

Quiet == ~cancel /\ ~deadline

\* open_receive: the ICE configuration first, so that a node which refuses it
\* fails before a link is shown; then a session on the relay.
open_receive(ok) ==
    /\ at = "opening" /\ ~cancel
    /\ IF ok
       THEN at' = "pairing" /\ out' = [out EXCEPT !.relay = TRUE] /\ UNCHANGED <<end, changes>>
       ELSE Ends(quiet) /\ Bounded /\ UNCHANGED out
    /\ UNCHANGED <<armed, link, shown, cancel, deadline, exchange, page, window, storage>>

\* pair, and the invitation.
paired ==
    /\ at = "pairing" /\ Quiet /\ send("invite", "invite")
    /\ UNCHANGED <<end, armed, link, shown, cancel, deadline, wire, page, window, storage, out, changes>>

pairing_ends ==
    /\ at = "pairing" /\ Quiet /\ Bounded /\ Ends(quiet)
    /\ UNCHANGED <<armed, link, shown, cancel, deadline, exchange, page, window, storage, out>>

\* flush_unsent: the message is on the relay; or the write failed, or a cancel
\* or the deadline came first, and it may be there all the same.
Lands == wire' = [wire EXCEPT ![x.sent - 1] = x.unsent]

After == [invite |-> "manifest", accept |-> "answer"]

flush_unsent ==
    /\ at \in {"invite", "accept"} /\ Quiet /\ Lands
    /\ x' = [x EXCEPT !.unsent = None] /\ at' = After[at]
    /\ UNCHANGED <<end, armed, link, shown, cancel, deadline, page, window, storage, out, changes>>

flush_fails ==
    /\ at \in {"invite", "accept"} /\ Quiet /\ Bounded /\ Ends(quiet) /\ (Lands \/ UNCHANGED wire)
    /\ UNCHANGED <<armed, link, shown, cancel, deadline, x, page, window, storage, out>>

\* read, for the manifest: there is room or not, and the owner is asked.
read_manifest(room) ==
    /\ at = "manifest" /\ Quiet /\ HasPacket /\ Next_packet = "manifest"
    /\ x' = Opened("manifest")
    /\ IF room THEN at' = "consent" /\ UNCHANGED <<end, changes>> ELSE Ends(lost) /\ Bounded
    /\ UNCHANGED <<armed, link, shown, cancel, deadline, wire, page, window, storage, out>>

Wanted == [manifest |-> "manifest", answer |-> "answer"]

\* Anything else there ends the session: a stop, a refused message, a packet
\* that the page did not write.
read_other ==
    /\ at \in {"manifest", "answer"} /\ Quiet /\ HasPacket /\ Next_packet # Wanted[at]
    /\ CASE Next_packet = "stop" -> Ends(peer_stop) /\ x' = Opened("stop") /\ UNCHANGED wire
         [] Next_packet = "forged" -> Ends(failed) /\ UNCHANGED exchange
         [] OTHER -> Ends(refused) /\ Tells(1)
    /\ UNCHANGED <<armed, link, shown, cancel, deadline, page, window, storage, out, changes>>

\* The owner's answer; a yes opens the hidden window.
receive_consent(accept) ==
    /\ at = "consent" /\ Quiet
    /\ IF accept
       THEN /\ at' = "loading" /\ win' = [win EXCEPT !.open = TRUE]
            /\ asked' = {[op |-> "load", seq |-> 0]} /\ out' = [out EXCEPT !.awake = TRUE]
            /\ UNCHANGED x
       ELSE send("decline", "decline") /\ UNCHANGED <<win, asked, out>>
    /\ UNCHANGED <<end, armed, link, shown, cancel, deadline, wire, page, reports, storage, changes>>

open_peer_fails ==
    /\ at = "consent" /\ Quiet /\ Bounded /\ Ends(failed) /\ out' = [out EXCEPT !.awake = TRUE]
    /\ UNCHANGED <<armed, link, shown, cancel, deadline, exchange, page, window, storage>>

\* The decline is sent or not; the session is declined.
declined ==
    /\ at = "decline" /\ Ends(End("declined", FALSE, FALSE))
    /\ \/ /\ Quiet /\ Lands
          /\ x' = [x EXCEPT !.unsent = None, !.stopped = TRUE, !.told = TRUE]
       \/ x' = x /\ (Lands \/ UNCHANGED wire)
    /\ UNCHANGED <<armed, link, shown, cancel, deadline, page, window, storage, out, changes>>

\* request: the next seq.
Asks(op) ==
    /\ asked' = asked \cup {[op |-> op, seq |-> link.seq + 1]}
    /\ link' = [link EXCEPT !.seq = @ + 1]

Report(kind) == reports # <<>> /\ Head(reports).kind = kind /\ reports' = Tail(reports)

await_ready ==
    /\ at = "loading" /\ Quiet /\ Report("ready") /\ Asks("create") /\ at' = "creating"
    /\ UNCHANGED <<end, armed, shown, cancel, deadline, exchange, page, win, storage, out, changes>>

\* reply, for the connection and its offer, which the accept carries.
created ==
    /\ at = "creating" /\ Quiet /\ Report("offer") /\ send("accept", "accept")
    /\ UNCHANGED <<end, armed, link, shown, cancel, deadline, wire, page, win, asked, storage, out, changes>>

\* The window answers with an error, or not within its time.
reply_fails(answered) ==
    /\ at \in {"loading", "creating", "applying"} /\ ~cancel /\ (at # "applying" => ~deadline)
    /\ Ends(failed)
    /\ IF answered THEN Report("error") /\ UNCHANGED changes ELSE Bounded /\ UNCHANGED reports
    /\ UNCHANGED <<armed, link, shown, cancel, deadline, exchange, page, win, asked, storage, out>>

\* The page's answer: the sink is made before the window gets the answer.
read_answer(room) ==
    /\ at = "answer" /\ Quiet /\ HasPacket /\ Next_packet = "answer"
    /\ x' = Opened("answer")
    /\ IF room
       THEN /\ at' = "applying" /\ sink' = [at |-> "open", written |-> 0]
            /\ asked' = asked \cup {[op |-> "answer", seq |-> link.seq + 1]}
            /\ link' = [link EXCEPT !.seq = @ + 1, !.connect = TRUE]
            /\ UNCHANGED <<end, changes>>
       ELSE Ends(failed) /\ Bounded /\ UNCHANGED <<sink, asked, link>>
    /\ UNCHANGED <<armed, shown, cancel, deadline, wire, page, win, reports, ending, events, out>>

expired ==
    /\ at \in Early /\ ~cancel /\ deadline /\ Ends(quiet)
    /\ IF x.unsent = None THEN UNCHANGED wire ELSE Lands \/ UNCHANGED wire
    /\ UNCHANGED <<armed, link, shown, cancel, deadline, x, page, window, storage, out, changes>>

-----------------------------------------------------------------------------
(* The transfer *)

\* can_restart: one at a time, before the deadline, while the page can be read
\* and its last message has been.
can_restart(l, y) ==
    l.pending = "none" /\ l.restarts < RESTARTS /\ ~deadline /\ ~y.stopped /\ y.alive /\ y.unsent = None
        /\ y.sent = y.received /\ y.sent <= 1 + RESTARTS

\* The window's restart offer can still go out.
can_send_restart == ~deadline /\ ~x.stopped /\ x.alive /\ x.sent = x.received /\ x.sent <= 1 + RESTARTS

start_restart(l) ==
    /\ link' = [l EXCEPT !.restarts = @ + 1, !.seq = @ + 1, !.pending = "offer"]
    /\ asked' = asked \cup {[op |-> "restart", seq |-> l.seq + 1]}

\* restart_or_give_up: a failed connection with no restart under way is
\* restarted now, or given up.
restart_or_give_up(l, y) ==
    IF l.failed /\ l.pending = "none"
    THEN IF can_restart(l, y)
         THEN start_restart(l) /\ at' = "transfer" /\ UNCHANGED end
         ELSE Ends(failed) /\ link' = l /\ UNCHANGED asked
    ELSE link' = l /\ at' = "transfer" /\ UNCHANGED <<end, asked>>

Goes_on(l) == link' = l /\ at' = "transfer" /\ UNCHANGED <<end, asked>>

\* on_state, without the restart of a failed connection.
on_state(l, state) ==
    CASE state = "connected" ->
           [l EXCEPT !.connected = TRUE, !.ever = TRUE, !.connect = FALSE, !.failed = FALSE, !.disconnected = FALSE]
      [] state = "disconnected" -> [l EXCEPT !.connected = FALSE, !.disconnected = TRUE]
      [] state = "failed" -> [l EXCEPT !.connected = FALSE, !.failed = TRUE, !.disconnected = FALSE]

States == {"connected", "disconnected", "failed"}

\* The window's frame logic ended.
Outcome(kind) ==
    CASE kind = "kept" -> IF ending = "kept" THEN Kept ELSE failed
      [] kind = "peer-cancelled" -> peer_stop
      [] kind = "cancelled" -> Cancelled
      [] OTHER -> lost

Outcomes == {"kept", "peer-cancelled", "cancelled", "closed", "verification"}

\* reply, for the answer: other reports are noted meanwhile.
applied ==
    /\ at = "applying" /\ ~cancel /\ Report("done") /\ armed' = ~deadline
    /\ restart_or_give_up(link, x)
    /\ UNCHANGED <<shown, cancel, deadline, exchange, page, win, storage, out, changes>>

note ==
    /\ at = "applying" /\ ~cancel /\ reports # <<>> /\ reports' = Tail(reports)
    /\ LET kind == Head(reports).kind
       IN \/ kind \in States /\ link' = on_state(link, kind) /\ UNCHANGED <<at, end>>
          \/ kind = "channel" /\ link' = [link EXCEPT !.chan = TRUE] /\ UNCHANGED <<at, end>>
          \/ kind \in Outcomes /\ Ends(Outcome(kind)) /\ UNCHANGED link
    /\ UNCHANGED <<armed, shown, cancel, deadline, exchange, page, win, asked, storage, out, changes>>

\* One turn of the loop; the next look at the clock is after it.
Turn == at = "transfer" /\ ~cancel /\ armed' = ~deadline

on_sink ==
    /\ Turn /\ events # <<>> /\ events' = Tail(events)
    /\ LET e == Head(events)
       IN \/ e = "verifying" /\ Goes_on([link EXCEPT !.verifying = TRUE])
          \/ e = "kept" /\ Goes_on([link EXCEPT !.kept = TRUE])
          \/ e = "failed" /\ Ends(failed) /\ UNCHANGED <<link, asked>>
    /\ UNCHANGED <<shown, cancel, deadline, exchange, page, win, reports, sink, ending, out, changes>>

\* on_report: a reply to an earlier request is passed over.
on_report ==
    /\ Turn /\ events = <<>> /\ reports # <<>> /\ reports' = Tail(reports)
    /\ LET r == Head(reports)
           ours == r.seq = link.seq
           freed == [link EXCEPT !.pending = "none"]
       IN \/ r.kind = "done" /\ UNCHANGED x
             /\ IF ours /\ link.pending = "apply" THEN Goes_on(freed) ELSE Goes_on(link)
          \/ r.kind = "offer"
             /\ IF ~(ours /\ link.pending = "offer") THEN Goes_on(link) /\ UNCHANGED x
                ELSE IF can_send_restart THEN send("restart", "restart") /\ UNCHANGED <<link, end, asked>>
                ELSE restart_or_give_up(freed, x) /\ UNCHANGED x
          \/ r.kind = "error" /\ UNCHANGED x
             /\ IF ours /\ link.pending \in {"offer", "apply"} THEN restart_or_give_up(freed, x) ELSE Goes_on(link)
          \/ r.kind \in States /\ UNCHANGED x
             /\ IF r.kind = "failed" THEN restart_or_give_up(on_state(link, r.kind), x) ELSE Goes_on(on_state(link, r.kind))
          \/ r.kind = "channel" /\ UNCHANGED x /\ Goes_on([link EXCEPT !.chan = TRUE])
          \/ r.kind = "closed" /\ ending # "kept" /\ UNCHANGED <<x, link, asked>>
             /\ IF x.stopped \/ ~x.alive \/ x.received >= MESSAGES_PER_SIDE THEN Ends(lost)
                ELSE at' = "grace" /\ UNCHANGED end
          \/ r.kind \in Outcomes /\ (r.kind = "closed" => ending = "kept") /\ UNCHANGED <<x, link, asked>>
             /\ Ends(Outcome(r.kind))
    /\ UNCHANGED <<shown, cancel, deadline, wire, page, win, storage, out, changes>>

\* The restart goes to the relay; without the relay or after the deadline
\* there are no more restarts.
restart_sent ==
    /\ at = "restart" /\ Quiet /\ Lands /\ x' = [x EXCEPT !.unsent = None]
    /\ at' = "transfer" /\ armed' = ~deadline /\ link' = [link EXCEPT !.pending = "answer"]
    /\ UNCHANGED <<end, shown, cancel, deadline, page, window, storage, out, changes>>

restart_fails ==
    /\ at = "restart" /\ ~cancel /\ armed' = ~deadline
    /\ IF deadline THEN UNCHANGED changes ELSE Bounded
    /\ (Lands \/ UNCHANGED wire) /\ x' = [x EXCEPT !.alive = FALSE]
    /\ LET l == [link EXCEPT !.pending = "none"] IN restart_or_give_up(l, [x EXCEPT !.alive = FALSE])
    /\ UNCHANGED <<shown, cancel, deadline, page, win, reports, storage, out>>

\* The loop reads the page while its look at the clock was before the deadline.
readable == armed /\ ~x.stopped /\ x.alive /\ x.received < MESSAGES_PER_SIDE

Idle == events = <<>> /\ reports = <<>>

\* The exchange is given up: the transfer goes on without restarts.
exchange_lost ==
    /\ x' = [x EXCEPT !.alive = FALSE] /\ UNCHANGED wire
    /\ LET l == IF link.pending = "answer" THEN [link EXCEPT !.pending = "none"] ELSE link
       IN restart_or_give_up(l, [x EXCEPT !.alive = FALSE])

relay_fails ==
    /\ Turn /\ Idle /\ readable /\ Bounded /\ exchange_lost
    /\ UNCHANGED <<shown, cancel, deadline, page, win, reports, storage, out>>

on_packet ==
    /\ Turn /\ Idle /\ readable /\ HasPacket
    /\ LET m == Next_packet
       IN \/ m = "forged" /\ exchange_lost
          \/ m = "stop" /\ Ends(peer_stop) /\ x' = Opened(m) /\ UNCHANGED <<wire, link, asked>>
          \/ m = "restart_answer" /\ link.pending = "answer" /\ x' = Opened(m)
             /\ at' = "transfer" /\ link' = [link EXCEPT !.pending = "apply", !.seq = @ + 1]
             /\ asked' = asked \cup {[op |-> "answer", seq |-> link.seq + 1]} /\ UNCHANGED <<end, wire>>
          \/ m \notin {"forged", "stop"} /\ (m = "restart_answer" => link.pending # "answer")
             /\ Ends(refused) /\ Tells(1) /\ UNCHANGED <<link, asked>>
    /\ UNCHANGED <<shown, cancel, deadline, page, win, reports, storage, out, changes>>

\* channel_closed: the page's stop may still be on its way.
grace ==
    /\ at = "grace" /\ ~cancel /\ ~deadline /\ HasPacket
    /\ CASE Next_packet = "stop" -> Ends(peer_stop) /\ x' = Opened("stop") /\ UNCHANGED wire
         [] Next_packet = "forged" -> Ends(lost) /\ x' = [x EXCEPT !.alive = FALSE] /\ UNCHANGED wire
         [] Next_packet = "refused" -> Ends(refused) /\ Tells(1)
         [] OTHER -> Ends(lost) /\ x' = Opened("other") /\ UNCHANGED wire
    /\ UNCHANGED <<armed, link, shown, cancel, deadline, page, window, storage, out, changes>>

grace_ends ==
    /\ at = "grace" /\ ~cancel /\ Ends(lost)
    /\ UNCHANGED <<armed, link, shown, cancel, deadline, exchange, page, window, storage, out, changes>>

-----------------------------------------------------------------------------
(* Timers, the deadline and the owner *)

\* stall_at: connected, and neither reconnecting nor verifying.
stall_at == link.chan /\ link.connected /\ ~link.verifying /\ ~link.kept

reconnect_over == link.failed

\* on_timer: a timer that is set may be the next to run out.
on_timer ==
    /\ Turn /\ Idle
    /\ \/ link.kept /\ Ends(Kept) /\ UNCHANGED <<link, asked>>
       \/ (link.connect \/ stall_at \/ reconnect_over) /\ Ends(failed) /\ UNCHANGED <<link, asked>>
       \/ link.disconnected
          /\ LET l == [link EXCEPT !.disconnected = FALSE]
             IN IF can_restart(l, x) THEN start_restart(l) /\ UNCHANGED <<at, end>> ELSE Goes_on(l)
       \/ link.pending \in {"offer", "apply"}
          /\ LET l == [link EXCEPT !.pending = "none"] IN restart_or_give_up(l, x)
    /\ UNCHANGED <<shown, cancel, deadline, exchange, page, win, reports, storage, out, changes>>

deadline_comes ==
    /\ at # "opening" /\ ~deadline /\ deadline' = TRUE
    /\ UNCHANGED <<session, cancel, exchange, page, window, storage, out, changes>>

\* on_deadline: seen only by a wait that began before it.
on_deadline ==
    /\ Turn /\ Idle /\ armed /\ deadline
    /\ LET l == IF link.pending \in {"offer", "answer"} THEN [link EXCEPT !.pending = "none"] ELSE link
       IN restart_or_give_up(l, x)
    /\ UNCHANGED <<shown, cancel, deadline, exchange, page, win, reports, storage, out, changes>>

receive_cancel ==
    /\ ~cancel /\ shown = None /\ Bounded /\ cancel' = TRUE
    /\ UNCHANGED <<session, deadline, exchange, page, window, storage, out>>

\* Every wait sees the cancel first; an upload that it cuts off may have landed.
cancelled ==
    /\ at \in Early \cup {"opening", "applying", "transfer", "restart", "grace"} /\ cancel /\ Ends(Cancelled)
    /\ IF x.unsent = None THEN UNCHANGED wire ELSE Lands \/ UNCHANGED wire
    /\ UNCHANGED <<armed, link, shown, cancel, deadline, x, page, window, storage, out, changes>>

-----------------------------------------------------------------------------
(* Every way out *)

\* Mutant: the end that is told is the one before the sink's decision.
Resolved_Told == IF ending = "kept" THEN [end EXCEPT !.how = "kept"] ELSE end

\* SinkSlot::cancel decides, under the lock: a kept file stays kept.
Resolved == IF ending = "kept" THEN Kept ELSE end

finish ==
    /\ at = "ending" /\ end' = Resolved
    /\ IF end = Kept THEN UNCHANGED <<ending, sink>>
       ELSE /\ ending' = IF ending = "none" THEN "cancelled" ELSE ending
            /\ sink' = IF sink.at = "open" THEN [sink EXCEPT !.at = "none"] ELSE sink
    /\ at' = IF win.open THEN "closing" ELSE "telling"
    /\ UNCHANGED <<armed, link, shown, cancel, deadline, exchange, page, window, events, out, changes>>

\* The window sends the STOP frame and closes, or is destroyed without an answer.
close_peer ==
    /\ at = "closing" /\ at' = "telling" /\ reports' = <<>> /\ asked' = {}
    /\ win' = [win EXCEPT !.open = FALSE, !.receiving = FALSE]
    /\ UNCHANGED <<end, armed, link, shown, cancel, deadline, exchange, page, storage, out, changes>>

finish_tells ==
    /\ at = "telling" /\ at' = "final"
    /\ IF end.tell THEN Tells(0) ELSE UNCHANGED exchange
    /\ UNCHANGED <<end, armed, link, shown, cancel, deadline, page, window, storage, out, changes>>

\* final_state is shown; a new receive may start.
finish_shows ==
    /\ at = "final" /\ at' = "deleting" /\ shown' = end.how /\ out' = [out EXCEPT !.awake = FALSE]
    /\ UNCHANGED <<end, armed, link, cancel, deadline, exchange, page, window, storage, changes>>

\* Mutant: a session whose page never came is left on the relay.
finish_deletes_Paired ==
    /\ at = "deleting" /\ at' = "ended" /\ out' = [out EXCEPT !.relay = (x.received = 0)]
    /\ UNCHANGED <<end, armed, link, shown, cancel, deadline, exchange, page, window, storage, changes>>

finish_deletes ==
    /\ at = "deleting" /\ at' = "ended" /\ out' = [out EXCEPT !.relay = FALSE]
    /\ UNCHANGED <<end, armed, link, shown, cancel, deadline, exchange, page, window, storage, changes>>

-----------------------------------------------------------------------------
(* The sink *)

Tell(e) == events' = Append(events, e)

\* The frame logic ended, unless the window is gone.
Frames_end(kind) ==
    IF win.open /\ win.receiving
    THEN reports' = Append(reports, [kind |-> kind, seq |-> 0]) /\ win' = [win EXCEPT !.receiving = FALSE, !.busy = None]
    ELSE UNCHANGED <<reports, win>>

Receives == win.open /\ win.receiving /\ win.busy = None

\* direct_sink_write: the next frame; a refused one deletes the file.
direct_sink_write(ok) ==
    /\ Receives /\ win.conn = "connected" /\ sink.written < Total
    /\ IF sink.at = "open" /\ ok
       THEN sink' = [sink EXCEPT !.written = @ + 1] /\ UNCHANGED <<events, reports, win, changes>>
       ELSE /\ IF sink.at = "open" THEN Tell("failed") /\ Bounded ELSE UNCHANGED <<events, changes>>
            /\ sink' = [sink EXCEPT !.at = "none"] /\ Frames_end("verification")
    /\ UNCHANGED <<session, cancel, deadline, exchange, page, asked, ending, out>>

\* direct_sink_end: the sink is taken, and verified on a thread of its own.
direct_sink_end ==
    /\ Receives /\ win.conn = "connected" /\ sink.written = Total
    /\ IF sink.at = "open"
       THEN /\ sink' = [sink EXCEPT !.at = "verifying"] /\ Tell("verifying")
            /\ win' = [win EXCEPT !.busy = "end"] /\ UNCHANGED reports
       ELSE Frames_end("verification") /\ UNCHANGED <<sink, events>>
    /\ UNCHANGED <<session, cancel, deadline, exchange, page, asked, ending, out, changes>>

\* verify: the bytes are those of the manifest, or not.
verify(ok) ==
    /\ sink.at = "verifying"
    /\ IF ok THEN sink' = [sink EXCEPT !.at = "verified"] /\ UNCHANGED <<events, reports, win, changes>>
       ELSE /\ Bounded /\ sink' = [sink EXCEPT !.at = "none"] /\ Tell("failed") /\ Frames_end("verification")
    /\ UNCHANGED <<session, cancel, deadline, exchange, page, asked, ending, out>>

\* Mutant: the file is placed although the session is ending without it.
MayPlace_Always == TRUE

MayPlace == ending # "cancelled"

\* The end of SinkSlot::end, under the lock.
sink_keeps(ok) ==
    /\ sink.at = "verified" /\ sink' = [sink EXCEPT !.at = "none"]
    /\ IF MayPlace /\ ok
       THEN /\ out' = [out EXCEPT !.file = TRUE] /\ ending' = "kept" /\ Tell("kept")
            /\ win' = [win EXCEPT !.busy = "kept"] /\ UNCHANGED <<reports, changes>>
       ELSE /\ IF MayPlace THEN Tell("failed") /\ Bounded ELSE UNCHANGED <<events, changes>>
            /\ Frames_end("verification") /\ UNCHANGED <<out, ending>>
    /\ UNCHANGED <<session, cancel, deadline, exchange, page, asked>>

-----------------------------------------------------------------------------
(* The hidden window and the page *)

Replies == [load |-> "ready", create |-> "offer", restart |-> "offer", answer |-> "done"]

\* handle: a request is answered, or refused; an answer starts the connection.
handle(q, ok) ==
    /\ q \in asked /\ win.open /\ asked' = asked \ {q}
    /\ reports' = Append(reports, [kind |-> IF ok THEN Replies[q.op] ELSE "error", seq |-> q.seq])
    /\ IF ok THEN UNCHANGED changes ELSE Bounded /\ q.op # "load"
    /\ win' = IF ok /\ q.op = "answer" THEN [win EXCEPT !.answered = @ + 1] ELSE win
    /\ UNCHANGED <<session, cancel, deadline, exchange, page, storage, out>>

Connects(state) ==
    /\ win.open /\ win.answered > 0
    /\ reports' = Append(reports, [kind |-> state, seq |-> 0])
    /\ win' = [win EXCEPT !.conn = state, !.answered = IF state = "failed" THEN 1 ELSE @]
    /\ UNCHANGED <<session, cancel, deadline, exchange, page, asked, storage, out>>

\* The connection comes up, at first or after a restart was answered.
window_connects ==
    /\ win.conn = "new" \/ (win.conn = "failed" /\ win.answered > 1) \/ win.conn = "disconnected"
    /\ Connects("connected") /\ UNCHANGED changes

window_loses == win.conn = "connected" /\ Bounded /\ Connects("disconnected")

\* ICE gives a disconnected connection up.
window_gives_up == win.conn = "disconnected" /\ Connects("failed") /\ UNCHANGED changes

window_fails == win.conn = "new" /\ Bounded /\ Connects("failed")

channel_opens ==
    /\ win.open /\ win.conn = "connected" /\ ~win.receiving /\ win.busy = None /\ ~link.chan
    /\ \A i \in 1..Len(reports) : reports[i].kind # "channel"
    /\ reports' = Append(reports, [kind |-> "channel", seq |-> 0])
    /\ win' = [win EXCEPT !.receiving = TRUE]
    /\ UNCHANGED <<session, cancel, deadline, exchange, page, asked, storage, out, changes>>

\* The file is kept: KEPT goes to the page, unless the window is closing.
window_keeps ==
    /\ win.open /\ win.receiving /\ win.busy = "kept"
    /\ out' = [out EXCEPT !.kept = TRUE] /\ Frames_end("kept")
    /\ UNCHANGED <<session, cancel, deadline, exchange, page, asked, storage, changes>>

\* A STOP frame of the page, or the channel's end: direct_sink_abort.
window_stops(kind) ==
    /\ win.open /\ win.receiving /\ Bounded /\ Frames_end(kind)
    /\ sink' = IF sink.at = "open" THEN [sink EXCEPT !.at = "none"] ELSE sink
    /\ UNCHANGED <<session, cancel, deadline, exchange, page, asked, ending, events, out>>

\* The page answers each of Drop's messages, or stops; the relay or a broken
\* page may write something else.
page_sends(m) ==
    /\ Len(page) < MESSAGES_PER_SIDE /\ out.relay
    /\ (page # <<>> => Last(page) \notin {"stop", "refused", "forged"})
    /\ \/ wire[Len(page)] \in {"invite", "accept", "restart"} /\ m \in allowed_events(Len(page)) \ {"stop"}
          /\ UNCHANGED changes
       \/ wire[0] = "invite" /\ m \in {"stop", "refused", "forged"} /\ Bounded
    /\ page' = Append(page, m)
    /\ UNCHANGED <<session, cancel, deadline, exchange, window, storage, out>>

-----------------------------------------------------------------------------
Session ==
    \/ open_receive(TRUE) \/ flush_unsent \/ read_other \/ declined \/ await_ready \/ created \/ expired
    \/ read_manifest(TRUE) \/ read_answer(TRUE) \/ reply_fails(TRUE) \/ applied \/ note
    \/ on_sink \/ on_report \/ restart_sent \/ (deadline /\ restart_fails) \/ on_packet \/ grace \/ grace_ends \/ on_timer \/ on_deadline
    \/ cancelled \/ finish \/ close_peer \/ finish_tells \/ finish_shows \/ finish_deletes

Sinks == verify(TRUE) \/ sink_keeps(TRUE)

Window == (\E q \in asked : handle(q, TRUE)) \/ window_keeps \/ channel_opens

Connection == window_connects \/ window_gives_up

Faults ==
    \/ open_receive(FALSE) \/ pairing_ends \/ flush_fails \/ open_peer_fails \/ reply_fails(FALSE) \/ read_manifest(FALSE) \/ read_answer(FALSE)
    \/ restart_fails \/ relay_fails \/ window_loses \/ window_fails
    \/ direct_sink_write(FALSE) \/ verify(FALSE) \/ sink_keeps(FALSE)
    \/ \E q \in asked : handle(q, FALSE)
    \/ \E kind \in {"peer-cancelled", "closed"} : window_stops(kind)

Ended == at = "ended" /\ sink.at \in {"none", "open"} /\ UNCHANGED vars

Next ==
    \/ Session \/ Sinks \/ Window \/ Connection \/ Faults \/ Ended
    \/ paired \/ receive_cancel \/ deadline_comes
    \/ \E accept \in BOOLEAN : receive_consent(accept)
    \/ direct_sink_write(TRUE) \/ direct_sink_end
    \/ \E m \in Packets : page_sends(m)

\* The session's task, the sink's thread and the window run on; ICE settles a
\* disconnected connection; the deadline comes.  The owner and the page may
\* never answer.
Spec ==
    /\ Init /\ [][Next]_vars
    /\ WF_vars(Session) /\ WF_vars(Sinks) /\ WF_vars(Window) /\ WF_vars(Connection) /\ WF_vars(deadline_comes)

-----------------------------------------------------------------------------
(* Properties *)

AllOver == at = "ended" /\ ~win.open /\ sink.at = "none" /\ ~out.relay /\ ~out.awake

\* The final state says "kept" exactly when the file is in the Received
\* folder, whichever of the sink's end and the session's was first
\* (SinkSlot::end, SinkSlot::cancel, finish).
ShownIsOnDisk == shown # None => (shown = "kept" <=> out.file)

\* Drop's messages fill the relay's slots without a gap, wait for the page's
\* answer to the one before, and end with a stop or a decline (send, tell,
\* can_restart).
Lockstep ==
    \A i \in Indexes : wire[i] # None =>
        /\ i > 0 => wire[i - 1] \notin {None, "stop", "decline"}
        /\ (i > 0 /\ wire[i] # "stop") => x.received >= i

\* The page that kept to the protocol is never told that a kept file failed,
\* and is told KEPT only of a kept file (finish, direct_sink_end).
PageIsTold ==
    /\ out.kept => out.file
    /\ (out.file /\ \A i \in 1..Len(page) : page[i] # "refused") => \A i \in Indexes : wire[i] # "stop"

\* Every session ends: the window is closed, no file of the sink is left, the
\* relay session is deleted and the computer may sleep (finish, on_timer).
AllEnds == <>AllOver
=============================================================================
