------------------------------- MODULE Broker -------------------------------
(***************************************************************************)
(* The broker's single-threaded event loop (sm_broker_run) over the link   *)
(* (LinkState), its control lines (LineControl) and the boot tracker       *)
(* (BootProgress), driven by socket clients and an in-process MCP sink.    *)
(*                                                                         *)
(* One turn of the loop: epoll_wait takes a batch of events; the reconnect *)
(* and connect-deadline checks run; the events of the batch are handled    *)
(* one by one, in any order; the loop starts again. A batch is what was    *)
(* ready when it was taken: handling one event may close the descriptor,   *)
(* disarm the timer or remove the client that another one is about.        *)
(* A client's event is several messages, handled one after the other.      *)
(*                                                                         *)
(* The clients are connected and past their hello; a request that only     *)
(* draws an error reply changes no state and is not an action.             *)
(***************************************************************************)
EXTENDS LineControl, BootProgress, LinkState, FiniteSets

CONSTANTS
  Observers,  \* the clients with the observer role
  MaxChunks   \* bound on the chunks of device output in a behaviour

ASSUME BrokerAssumption == Observers \subseteq Clients /\ MaxChunks \in Nat

VARIABLES
  pc,       \* where the loop is
  batch,    \* tags of the events taken and not yet handled
  link_ev,  \* the bits of the batch's link event
  cur,      \* the client or sink whose messages are being handled
  stopped,  \* sm_broker_stop was called
  live,     \* connected clients
  takeover_client,
  chunks    \* chunks of device output so far

loopVars == <<pc, batch, link_ev, cur, stopped>>
clientVars == <<live, takeover_client>>
vars == <<loopVars, clientVars, chunks, linkVars, lineVars, bootVars>>

TimerTags == {"BRKTIMER", "FLOODTIMER", "STALLTIMER"}
Tags == TimerTags \cup {"LINK"} \cup Actors

TypeOK ==
  /\ LinkTypeOK
  /\ LineTypeOK
  /\ BootTypeOK
  /\ pc \in {"wait", "reconnect", "deadline", "events", "stopping", "cleanup", "destroyed"}
  /\ batch \subseteq Tags
  /\ link_ev \subseteq {"IN", "OUT", "HUP"}
  /\ cur \in Actors \cup {NoActor}
  /\ stopped \in BOOLEAN
  /\ live \subseteq Clients
  /\ takeover_client \in Clients \cup {NoActor}
  /\ chunks \in 0..MaxChunks

Init ==
  /\ LinkInit
  /\ LineInit
  /\ BootInit
  /\ pc = "wait"
  /\ batch = {}
  /\ link_ev = {}
  /\ cur = NoActor
  /\ stopped = FALSE
  /\ live = Clients
  /\ takeover_client = NoActor
  /\ chunks = 0

(***************************************************************************)
(* The loop.                                                               *)
(***************************************************************************)

ReadyTimers ==
  {t \in TimerTags : \/ t = "BRKTIMER" /\ break_timer = "expired"
                     \/ t = "FLOODTIMER" /\ flood_timer = "expired"
                     \/ t = "STALLTIMER" /\ stall_timer = "expired"}

\* Mutant: the loop does not test stopped.
EpollWait_unconditional ==
  /\ pc = "wait"
  /\ \E senders \in SUBSET (live \cup Sinks) :
       batch' = ReadyTimers \cup (IF fd_ready # {} THEN {"LINK"} ELSE {}) \cup senders
  /\ link_ev' = fd_ready
  /\ pc' = "reconnect"
  /\ UNCHANGED <<cur, stopped, clientVars, chunks, linkVars, lineVars, bootVars>>

\* epoll_wait: everything ready on the link and the timers, and the clients
\* that have sent something.
EpollWait ==
  /\ pc = "wait"
  /\ ~stopped
  /\ \E senders \in SUBSET (live \cup Sinks) :
       batch' = ReadyTimers \cup (IF fd_ready # {} THEN {"LINK"} ELSE {}) \cup senders
  /\ link_ev' = fd_ready
  /\ pc' = "reconnect"
  /\ UNCHANGED <<cur, stopped, clientVars, chunks, linkVars, lineVars, bootVars>>

\* attempt_reconnect at the top of the turn.
CheckReconnect ==
  /\ pc = "reconnect"
  /\ pc' = "deadline"
  /\ \/ /\ ~ReconnectWanted
        /\ UNCHANGED <<linkVars, bootVars>>
     \/ /\ ReconnectWanted
        /\ attempt_reconnect
        /\ UNCHANGED bootVars
     \/ /\ ReconnectWanted
        /\ ConnectDone
        /\ BootRestart
  /\ UNCHANGED <<batch, link_ev, cur, stopped, clientVars, chunks, lineVars>>

\* Mutant: no connect is ever given up.
CheckDeadline_never ==
  /\ pc = "deadline"
  /\ pc' = "events"
  /\ UNCHANGED <<batch, link_ev, cur, stopped, clientVars, chunks, linkVars, lineVars, bootVars>>

\* The connect deadline.
CheckDeadline ==
  /\ pc = "deadline"
  /\ pc' = "events"
  /\ IF link_connecting /\ connect_late
     THEN link_connect_give_up
     ELSE UNCHANGED linkVars
  /\ UNCHANGED <<batch, link_ev, cur, stopped, clientVars, chunks, lineVars, bootVars>>

\* The batch is done: queues are flushed, and the loop tests stopped.
EndTurn ==
  /\ pc = "events"
  /\ batch = {}
  /\ cur = NoActor
  /\ pc' = "wait"
  /\ link_ev' = {}
  /\ UNCHANGED <<batch, cur, stopped, clientVars, chunks, linkVars, lineVars, bootVars>>

Take(tag) ==
  /\ pc = "events"
  /\ cur = NoActor
  /\ tag \in batch
  /\ batch' = batch \ {tag}
  /\ UNCHANGED <<pc, link_ev, stopped, clientVars>>

(***************************************************************************)
(* Timer events.                                                           *)
(***************************************************************************)
OnBreakTimer ==
  /\ Take("BRKTIMER")
  /\ handle_break_timer
  /\ UNCHANGED <<cur, chunks, linkVars, bootVars>>

OnFloodTimer ==
  /\ Take("FLOODTIMER")
  /\ handle_flood_timer(LinkUsable)
  /\ UNCHANGED <<cur, chunks, linkVars, bootVars>>

OnStallTimer ==
  /\ Take("STALLTIMER")
  /\ handle_stall_timer(LinkUsable)
  /\ UNCHANGED <<cur, chunks, linkVars, lineVars>>

(***************************************************************************)
(* Link events. The bits are those of the batch; what can be read and      *)
(* whether a connect has completed are asked of the descriptor as it is    *)
(* now.                                                                    *)
(***************************************************************************)

\* handle_link_connecting.
OnLinkConnecting ==
  /\ Take("LINK")
  /\ link_connecting
  /\ ~suspended
  /\ \/ /\ "HUP" \in link_ev \/ ("OUT" \in link_ev /\ "HUP" \in fd_ready)
        /\ link_connect_give_up
        /\ UNCHANGED bootVars
     \/ /\ "HUP" \notin link_ev
        /\ "OUT" \in link_ev
        /\ "OUT" \in fd_ready
        /\ ConnectDone
        /\ BootRestart
     \/ /\ "HUP" \notin link_ev
        /\ "OUT" \in link_ev => fd_ready = {}  \* connect_poll: still pending
        /\ UNCHANGED <<linkVars, bootVars>>
  /\ UNCHANGED <<cur, chunks, lineVars>>

\* process_link_data and a flush of the write queue, the link staying up. Of
\* process_link_chunk: the flood's stop pattern may match, boot markers may
\* be seen.
OnLinkData ==
  /\ Take("LINK")
  /\ LinkUsable
  /\ ~link_connecting
  /\ "HUP" \notin link_ev
  /\ \/ /\ "IN" \in link_ev \cap fd_ready
        /\ flood_feed \/ UNCHANGED lineVars
        /\ \E hits \in SUBSET Stages, fresh \in BOOLEAN : sm_boot_feed(hits, fresh)
     \/ /\ "IN" \notin link_ev \cap fd_ready
        /\ UNCHANGED <<lineVars, bootVars>>
  /\ fd_ready' = fd_ready \ link_ev
  /\ UNCHANGED <<cur, chunks, suspended, link_disconnected, link_connecting, pending_resume_ack, fd,
                 reconnect_due, reconnect_delay_s, connect_late, said>>

\* The link is lost: a hang-up in the batch's bits, a read that ends or fails,
\* a failing flush. Unread bytes are drained before the hang-up is honoured.
OnLinkLost ==
  /\ Take("LINK")
  /\ LinkUsable
  /\ ~link_connecting
  /\ "HUP" \in link_ev \cup fd_ready
  /\ handle_link_disconnect
  /\ CancelMachines
  /\ stall_disarm
  /\ IF "IN" \in fd_ready
     THEN \E hits \in SUBSET Stages, fresh \in BOOLEAN : Advance(hits, fresh)
     ELSE UNCHANGED <<reached, stall_pushes>>
  /\ UNCHANGED <<cur, chunks>>

\* A link event of a link that has been suspended or lost since.
OnLinkStale ==
  /\ Take("LINK")
  /\ suspended \/ (link_disconnected /\ ~link_connecting)
  /\ UNCHANGED <<cur, chunks, linkVars, lineVars, bootVars>>

(***************************************************************************)
(* Messages of clients and tool calls of the sink.                         *)
(***************************************************************************)

\* A client event begins; events of clients that left are skipped.
OnActor(a) ==
  /\ Take(a)
  /\ cur' = IF a \in live \cup Sinks THEN a ELSE NoActor
  /\ UNCHANGED <<chunks, linkVars, lineVars, bootVars>>

Handling(a) ==
  /\ pc = "events"
  /\ cur = a
  /\ UNCHANGED <<pc, batch, link_ev, stopped>>

\* No more input on this descriptor for now.
ActorDone(a) ==
  /\ Handling(a)
  /\ cur' = NoActor
  /\ UNCHANGED <<clientVars, chunks, linkVars, lineVars, bootVars>>

\* can_send for a client; the sink's tools refuse while anyone has takeover.
can_send(a) ==
  /\ a \notin Observers
  /\ takeover_client = NoActor \/ takeover_client = a

handle_takeover(c) ==
  /\ Handling(c)
  /\ c \in Clients \ Observers
  /\ takeover_client \in {NoActor, c}
  /\ takeover_client' = c
  /\ UNCHANGED <<cur, live, chunks, linkVars, lineVars, bootVars>>

handle_release(c) ==
  /\ Handling(c)
  /\ takeover_client = c
  /\ takeover_client' = NoActor
  /\ UNCHANGED <<cur, live, chunks, linkVars, lineVars, bootVars>>

\* pin_control break, and the sink's serial_pin_control and serial_sysrq. A
\* link without line control completes such a request within the call.
RequestBreak(a, followup, delay) ==
  /\ Handling(a)
  /\ can_send(a)
  /\ "break" \in PulsePins
  /\ followup => a \in Sinks
  /\ delay => followup
  /\ LinkUsable
  /\ fd = "open"
  /\ sm_broker_schedule_break(a, followup, delay)
  /\ UNCHANGED <<cur, clientVars, chunks, linkVars, bootVars>>

\* pin_control reset, and the sink's serial_reset.
RequestReset(a, pin) ==
  /\ Handling(a)
  /\ can_send(a)
  /\ LinkUsable
  /\ fd = "open"
  /\ sm_broker_schedule_line_reset(a, pin)
  /\ UNCHANGED <<cur, clientVars, chunks, linkVars, bootVars>>

\* pin_control on a modem line, and the sink's serial_pin_control.
handle_pin_control(a, pin, level) ==
  /\ Handling(a)
  /\ can_send(a)
  /\ fd = "open"
  /\ DrivePin(pin, level)
  /\ UNCHANGED <<cur, clientVars, chunks, linkVars, bootVars>>

\* interrupt_autoboot: a flood may start while a resume is still connecting,
\* but no line can be driven then.
handle_interrupt_autoboot(c, pin, level) ==
  /\ Handling(c)
  /\ c \in Clients
  /\ can_send(c)
  /\ LinkUsable
  /\ pin # "none" => fd = "open"
  /\ sm_broker_start_flood(pin, level)
  /\ UNCHANGED <<cur, clientVars, chunks, linkVars, bootVars>>

handle_suspend(a) ==
  /\ Handling(a)
  /\ can_send(a)
  /\ sm_broker_do_suspend
  /\ CancelMachines
  /\ stall_disarm
  /\ UNCHANGED <<cur, clientVars, chunks, reached, stall_pushes>>

handle_resume(a) ==
  /\ Handling(a)
  /\ can_send(a)
  /\ \/ ResumeAtOnce /\ BootRestart
     \/ ResumeConnecting /\ UNCHANGED bootVars
  /\ UNCHANGED <<cur, clientVars, chunks, lineVars>>

\* Mutant: the client leaves and keeps its takeover.
remove_client_keeps_takeover(c) ==
  /\ c \in live
  /\ live' = live \ {c}
  /\ UNCHANGED <<takeover_client, chunks, linkVars, lineVars, bootVars>>

\* remove_client; a pulse it asked for goes on, its requester found by id.
remove_client(c) ==
  /\ c \in live
  /\ live' = live \ {c}
  /\ takeover_client' = IF takeover_client = c THEN NoActor ELSE takeover_client
  /\ UNCHANGED <<chunks, linkVars, lineVars, bootVars>>

\* The client hangs up, or its descriptor fails, while it is being handled.
Hangup(c) ==
  /\ Handling(c)
  /\ remove_client(c)
  /\ cur' = NoActor

\* After the batch: a failing flush, or the housekeeping finds the peer dead.
DropClient(c) ==
  /\ pc = "events"
  /\ batch = {}
  /\ cur = NoActor
  /\ remove_client(c)
  /\ UNCHANGED loopVars

ActorStep(a) ==
  \/ ActorDone(a)
  \/ handle_takeover(a)
  \/ handle_release(a)
  \/ \E followup, delay \in BOOLEAN : RequestBreak(a, followup, delay)
  \/ \E pin \in PulsePins \cap ModemPins : RequestReset(a, pin)
  \/ \E pin \in PulsePins \cap ModemPins, level \in Levels : handle_pin_control(a, pin, level)
  \/ \E pin \in FloodPins, level \in Levels : handle_interrupt_autoboot(a, pin, level)
  \/ handle_suspend(a)
  \/ handle_resume(a)
  \/ Hangup(a)

(***************************************************************************)
(* Shutdown.                                                               *)
(***************************************************************************)

\* sm_broker_stop: a signal, or the sink's stdin closing.
sm_broker_stop ==
  /\ ~stopped
  /\ stopped' = TRUE
  /\ UNCHANGED <<pc, batch, link_ev, cur, clientVars, chunks, linkVars, lineVars, bootVars>>

\* The loop is left: the pulse is cancelled, and its requester told, "while
\* sinks can still deliver the result".
LeaveLoop ==
  /\ pc = "wait"
  /\ stopped
  /\ pc' = "stopping"
  /\ IF brk.state = "IDLE"
     THEN LinesUnchanged /\ UNCHANGED <<brk, ctx, break_timer>>
     ELSE (\E bad \in SUBSET PulseHeld : ReleaseLines(PulseHeld, {}, bad)) /\ break_complete
  /\ UNCHANGED <<batch, link_ev, cur, stopped, clientVars, chunks, linkVars, bootVars,
                 flood, flood_timer, flood_clock>>

\* Every sink's stop has returned; the flood is forgotten and the timers are
\* closed. A stop joins the sink's thread (ws_stop), and nothing says that
\* the thread ends: this step may never be taken.
RunCleanup ==
  /\ pc = "stopping"
  /\ pc' = "cleanup"
  /\ break_timer' = "off"
  /\ flood' = [flood EXCEPT !.active = FALSE]
  /\ flood_timer' = "off"
  /\ flood_clock' = "over"
  /\ stall_timer' = "off"
  /\ LinesUnchanged
  /\ UNCHANGED <<batch, link_ev, cur, stopped, clientVars, chunks, linkVars, brk, ctx,
                 reached, stall_notified, stall_pushes>>

\* sm_broker_destroy: cancel what is still active, drop the clients, close.
sm_broker_destroy ==
  /\ pc = "cleanup"
  /\ pc' = "destroyed"
  /\ CancelMachines
  /\ stall_disarm
  /\ CloseFd
  /\ live' = {}
  /\ UNCHANGED <<batch, link_ev, cur, stopped, takeover_client, chunks, reached, stall_pushes,
                 suspended, link_disconnected, link_connecting, pending_resume_ack,
                 reconnect_due, reconnect_delay_s, connect_late, said>>

Destroyed == pc = "destroyed" /\ UNCHANGED vars

(***************************************************************************)
(* The environment: the device, the network and the clock.                 *)
(***************************************************************************)
Running == pc \notin {"stopping", "cleanup", "destroyed"}

DeviceSends ==
  /\ chunks < MaxChunks
  /\ chunks' = chunks + 1
  /\ DeviceSignals("IN")
  /\ UNCHANGED <<loopVars, clientVars, lineVars, bootVars>>

LinkEnv ==
  /\ \/ DeviceSignals("HUP")
     \/ \E bit \in {"OUT", "HUP"} : ConnectSettles(bit)
     \/ ConnectDeadlinePasses
     \/ BackoffElapses
  /\ UNCHANGED <<loopVars, clientVars, chunks, lineVars, bootVars>>

LineEnv ==
  /\ BreakTimerExpires \/ FloodTimerExpires \/ FloodClockAdvances
  /\ UNCHANGED <<loopVars, clientVars, chunks, linkVars, bootVars>>

StallEnv ==
  /\ StallTimerExpires
  /\ UNCHANGED <<loopVars, clientVars, chunks, linkVars, lineVars>>

Env == Running /\ (DeviceSends \/ LinkEnv \/ LineEnv \/ StallEnv)

LoopStep ==
  \/ EpollWait
  \/ CheckReconnect
  \/ CheckDeadline
  \/ OnBreakTimer
  \/ OnFloodTimer
  \/ OnStallTimer
  \/ OnLinkConnecting
  \/ OnLinkData
  \/ OnLinkLost
  \/ OnLinkStale
  \/ \E a \in Actors : OnActor(a)
  \/ EndTurn
  \/ LeaveLoop
  \/ sm_broker_destroy

Next ==
  \/ LoopStep
  \/ \E a \in Actors : ActorStep(a)
  \/ \E c \in Clients : DropClient(c)
  \/ sm_broker_stop
  \/ RunCleanup
  \/ Env
  \/ Destroyed

Spec == Init /\ [][Next]_vars

(***************************************************************************)
(* Safety.                                                                 *)
(***************************************************************************)

\* The flags the handlers test agree with the descriptor until shutdown: a
\* connect in flight is always watched by the loop, and a link that is
\* neither suspended, lost nor connecting is really open, so no handler
\* writes to or reads from a descriptor that has been closed.
LinkFlagsTrue == pc # "destroyed" => FlagsMatchFd

\* The takeover pointer never dangles: it names a connected client or none,
\* however its owner left (remove_client).
TakeoverIsLive == pc # "destroyed" => takeover_client \in live \cup {NoActor}

\* A flood that ends, by match, deadline, refused write, suspend or a lost
\* link, leaves no board in reset while the loop runs.
ResetReleased == Running => ResetHeldByFlood

\* The same promise at exit: "Cancel pending break/flood before the link goes
\* away" (sm_broker_destroy).
ResetReleasedAtExit == pc = "destroyed" => in_reset \subseteq stuck

\* boot_stall is pushed at most once per advance of the boot.
StallPushedOnce == stall_pushes <= 1

(***************************************************************************)
(* Action properties: what the handling of an event of an old batch may    *)
(* not do.                                                                 *)
(***************************************************************************)

\* link_down is announced only when the present link has hung up or failed.
LinkDownIsReal == [][said' = "down" /\ said # "down" => "HUP" \in fd_ready]_vars

\* A line is released by the pulse machine's timer only when the time of this
\* pulse is over; suspend, a lost link and shutdown may cut it short.
PulseHoldsItsTime ==
  [][brk.state = "ASSERTED" /\ brk'.state # "ASSERTED" /\ LinkUsable' /\ pc' # "stopping"
       => break_timer = "expired"]_vars

\* boot_stall is pushed only when the timeout has elapsed since the last
\* advance of the boot.
StallIsReal == [][stall_pushes' > stall_pushes => stall_timer = "expired"]_vars

(***************************************************************************)
(* Fairness: the loop turns (epoll_wait has a timeout), a client event is  *)
(* finite (at most 64 * 16 messages), armed timers expire and deadlines    *)
(* pass. Nothing is assumed of the clients, the device, the network or the *)
(* threads of the sinks, which a stop joins (RunCleanup).                  *)
(***************************************************************************)
OnlyLink(A) == Running /\ A /\ UNCHANGED <<loopVars, clientVars, chunks, lineVars, bootVars>>
OnlyLines(A) == Running /\ A /\ UNCHANGED <<loopVars, clientVars, chunks, linkVars, bootVars>>

Fairness ==
  /\ WF_vars(LoopStep)
  /\ \A a \in Actors : WF_vars(ActorDone(a))
  /\ WF_vars(OnlyLines(BreakTimerExpires))
  /\ WF_vars(OnlyLines(FloodTimerExpires))
  /\ WF_vars(OnlyLines(FloodClockAdvances))
  /\ WF_vars(Running /\ StallEnv)
  /\ WF_vars(OnlyLink(ConnectDeadlinePasses))
  /\ WF_vars(OnlyLink(BackoffElapses))

FairSpec == Spec /\ Fairness

(***************************************************************************)
(* Liveness.                                                               *)
(***************************************************************************)

\* Every pulse ends and its requester is answered, whatever the clients, the
\* link and a concurrent flood do in the meantime (handle_break_timer).
PulseEnds == brk.state # "IDLE" ~> brk.state = "IDLE"

\* Every flood ends, if only with the loop that serves it: a board that never
\* shows its prompt is not typed at for good (handle_flood_timer).
FloodEnds == flood.active ~> ~flood.active \/ ~Running

\* A connect in flight is resolved even if the network never answers: the
\* deadline of the loop gives it up.
ConnectResolves == link_connecting ~> ~link_connecting \/ stopped

\* A boot that stops advancing on a usable link is reported.
StallReported ==
  \A r \in {q \in SUBSET Stages : q # {} /\ ~sm_boot_terminal_reached(q)} :
    reached = r /\ LinkUsable ~> stall_notified \/ reached # r \/ ~LinkUsable \/ stopped

\* The broker never stops trying: a link that stays lost, without being
\* suspended, is tried again and again (attempt_reconnect).
RetriesForever ==
  <>[](link_disconnected /\ ~suspended /\ ~stopped)
    => []<>(pc = "reconnect" /\ ReconnectWanted)

\* A lost link comes back if it can: no attempt hangs for good, no attempt is
\* the last, and none follows another without a pause.
LinkComesBack == ConnectResolves /\ RetriesForever /\ [][BackoffNeverZero']_vars

\* A stopped broker leaves its loop, whoever keeps talking, with every pulse
\* answered; and once its sinks have stopped it is destroyed. Between the two
\* it joins the threads of the sinks, of which nothing is assumed: JoinEnds of
\* WsSink, that such a thread ends, is not true.
StopIsHonoured ==
  /\ stopped ~> ~Running /\ brk.state = "IDLE"
  /\ pc = "cleanup" ~> pc = "destroyed"

=============================================================================
