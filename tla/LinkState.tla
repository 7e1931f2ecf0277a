----------------------------- MODULE LinkState -----------------------------
(***************************************************************************)
(* The life of the broker's device link: open, lost, reconnecting with     *)
(* backoff, released to an external tool (suspend) and taken back          *)
(* (resume). A UART or GDB link opens at once; a serial-tcp link may       *)
(* connect asynchronously. Fragments of the actions of module Broker.      *)
(***************************************************************************)
EXTENDS Integers

CONSTANTS
  Async,      \* the link has connect_begin (serial-tcp)
  Reconnect,  \* automatic reconnection (off with --no-reconnect)
  Base,       \* SM_RECONNECT_BASE_S
  MaxDelay    \* SM_RECONNECT_MAX_S

ASSUME LinkAssumption ==
  /\ Async \in BOOLEAN
  /\ Reconnect \in BOOLEAN
  /\ Base \in Nat \ {0}
  /\ MaxDelay \in Nat
  /\ Base <= MaxDelay

VARIABLES
  suspended, link_disconnected, link_connecting, pending_resume_ack,
  fd,           \* the descriptor behind the link: closed, connecting or open
  fd_ready,     \* what epoll would report of it: IN, OUT, HUP
  reconnect_due,     \* the clock has passed reconnect_next
  reconnect_delay_s,
  connect_late, \* the clock has passed link_connect_deadline
  said          \* the last link state broadcast to the clients

linkVars == <<suspended, link_disconnected, link_connecting, pending_resume_ack,
              fd, fd_ready, reconnect_due, reconnect_delay_s, connect_late, said>>

LinkTypeOK ==
  /\ suspended \in BOOLEAN
  /\ link_disconnected \in BOOLEAN
  /\ link_connecting \in BOOLEAN
  /\ pending_resume_ack \in BOOLEAN
  /\ fd \in {"closed", "connecting", "open"}
  /\ fd_ready \subseteq {"IN", "OUT", "HUP"}
  /\ reconnect_due \in BOOLEAN
  /\ reconnect_delay_s \in 0..MaxDelay
  /\ connect_late \in BOOLEAN
  /\ said \in {"up", "down", "suspended"}

\* The broker has set up: the first open is synchronous and must succeed.
LinkInit ==
  /\ suspended = FALSE
  /\ link_disconnected = FALSE
  /\ link_connecting = FALSE
  /\ pending_resume_ack = FALSE
  /\ fd = "open"
  /\ fd_ready = {}
  /\ reconnect_due = FALSE
  /\ reconnect_delay_s = 0
  /\ connect_late = FALSE
  /\ said = "up"

\* What the handlers test before they touch the link (do_write and others).
LinkUsable == ~suspended /\ ~link_disconnected

CloseFd == fd' = "closed" /\ fd_ready' = {}

\* The next attempt after reconnect_delay_s, which doubles up to its cap. A
\* zero delay would make the next attempt due at once.
link_schedule_retry ==
  /\ reconnect_due' = (reconnect_delay_s = 0)
  /\ reconnect_delay_s' = IF 2 * reconnect_delay_s > MaxDelay THEN MaxDelay ELSE 2 * reconnect_delay_s

\* Mutant: the clients are not told.
link_bring_up_silent ==
  /\ fd' = "open"
  /\ fd_ready' = {}
  /\ link_connecting' = FALSE
  /\ link_disconnected' = FALSE
  /\ UNCHANGED said

\* link_bring_up: the flags of a live link. The caller says what is broadcast.
link_bring_up ==
  /\ fd' = "open"
  /\ fd_ready' = {}
  /\ link_connecting' = FALSE
  /\ link_disconnected' = FALSE
  /\ said' = "up"

link_watch_connecting ==
  /\ fd' = "connecting"
  /\ fd_ready' = {}
  /\ link_connecting' = TRUE
  /\ connect_late' = FALSE

\* Mutant: a connect in flight is forgotten, not closed.
sm_broker_do_suspend_leaks ==
  /\ ~suspended
  /\ suspended' = TRUE
  /\ link_connecting' = FALSE
  /\ IF link_connecting THEN UNCHANGED <<fd, fd_ready>> ELSE CloseFd
  /\ said' = "suspended"
  /\ UNCHANGED <<link_disconnected, pending_resume_ack, reconnect_due, reconnect_delay_s, connect_late>>

\* Mutant: the connect is closed, its flag stays.
sm_broker_do_suspend_still_connecting ==
  /\ ~suspended
  /\ suspended' = TRUE
  /\ CloseFd
  /\ said' = "suspended"
  /\ UNCHANGED <<link_connecting, link_disconnected, pending_resume_ack, reconnect_due, reconnect_delay_s, connect_late>>

\* sm_broker_do_suspend: the wire is released, an attempt in flight aborted.
sm_broker_do_suspend ==
  /\ ~suspended
  /\ suspended' = TRUE
  /\ link_connecting' = FALSE
  /\ CloseFd
  /\ said' = "suspended"
  /\ UNCHANGED <<link_disconnected, pending_resume_ack, reconnect_due, reconnect_delay_s, connect_late>>

\* sm_broker_do_resume, the link opened (open, or connect_begin returning 0):
\* the resumed message is sent here, so pending_resume_ack plays no part.
ResumeAtOnce ==
  /\ suspended
  /\ suspended' = FALSE
  /\ link_bring_up
  /\ UNCHANGED <<pending_resume_ack, reconnect_due, reconnect_delay_s, connect_late>>

\* sm_broker_do_resume with connect_begin returning 1.
ResumeConnecting ==
  /\ Async
  /\ suspended
  /\ suspended' = FALSE
  /\ pending_resume_ack' = TRUE
  /\ link_watch_connecting
  /\ UNCHANGED <<link_disconnected, reconnect_due, reconnect_delay_s, said>>

\* Mutant: the delay is not reset to its base.
handle_link_disconnect_no_base ==
  /\ ~link_disconnected
  /\ CloseFd
  /\ link_disconnected' = TRUE
  /\ reconnect_due' = TRUE
  /\ said' = "down"
  /\ UNCHANGED <<reconnect_delay_s, suspended, link_connecting, pending_resume_ack, connect_late>>

\* handle_link_disconnect: the first reconnect attempt is due at once.
handle_link_disconnect ==
  /\ ~link_disconnected
  /\ CloseFd
  /\ link_disconnected' = TRUE
  /\ reconnect_delay_s' = Base
  /\ reconnect_due' = TRUE
  /\ said' = "down"
  /\ UNCHANGED <<suspended, link_connecting, pending_resume_ack, connect_late>>

\* Mutant: the failed connect keeps its flag.
link_connect_give_up_still_connecting ==
  /\ CloseFd
  /\ link_disconnected' = TRUE
  /\ suspended' = (suspended \/ pending_resume_ack)
  /\ pending_resume_ack' = FALSE
  /\ link_schedule_retry
  /\ UNCHANGED <<link_connecting, connect_late, said>>

\* link_connect_give_up: close and back off; a failed resume stays suspended.
link_connect_give_up ==
  /\ link_connecting' = FALSE
  /\ CloseFd
  /\ link_disconnected' = TRUE
  /\ suspended' = (suspended \/ pending_resume_ack)
  /\ pending_resume_ack' = FALSE
  /\ link_schedule_retry
  /\ UNCHANGED <<connect_late, said>>

\* An asynchronous connect completes: resumed or link_up is broadcast.
ConnectDone ==
  /\ link_bring_up
  /\ pending_resume_ack' = FALSE
  /\ UNCHANGED <<suspended, reconnect_due, reconnect_delay_s, connect_late>>

\* The conditions under which attempt_reconnect reopens the link.
ReconnectWanted ==
  /\ ~suspended
  /\ ~link_connecting
  /\ link_disconnected
  /\ Reconnect
  /\ reconnect_due

\* attempt_reconnect, not bringing the link up: a connect is begun, or fails,
\* or a weak by-id path has moved seats and the attempt is refused.
attempt_reconnect ==
  \/ /\ Async
     /\ link_watch_connecting
     /\ UNCHANGED <<suspended, link_disconnected, pending_resume_ack, reconnect_due, reconnect_delay_s, said>>
  \/ /\ link_schedule_retry
     /\ UNCHANGED <<suspended, link_disconnected, link_connecting, pending_resume_ack, fd, fd_ready, connect_late, said>>
  \/ /\ reconnect_due' = FALSE
     /\ UNCHANGED <<suspended, link_disconnected, link_connecting, pending_resume_ack, fd, fd_ready,
                    reconnect_delay_s, connect_late, said>>

(***************************************************************************)
(* The device, the network and the clock.                                  *)
(***************************************************************************)
DeviceSignals(bit) ==
  /\ fd = "open"
  /\ bit \notin fd_ready
  /\ fd_ready' = fd_ready \cup {bit}
  /\ UNCHANGED <<suspended, link_disconnected, link_connecting, pending_resume_ack,
                 fd, reconnect_due, reconnect_delay_s, connect_late, said>>

ConnectSettles(bit) ==
  /\ fd = "connecting"
  /\ fd_ready = {}
  /\ bit \in {"OUT", "HUP"}
  /\ fd_ready' = {bit}
  /\ UNCHANGED <<suspended, link_disconnected, link_connecting, pending_resume_ack,
                 fd, reconnect_due, reconnect_delay_s, connect_late, said>>

ConnectDeadlinePasses ==
  /\ link_connecting
  /\ ~connect_late
  /\ connect_late' = TRUE
  /\ UNCHANGED <<suspended, link_disconnected, link_connecting, pending_resume_ack,
                 fd, fd_ready, reconnect_due, reconnect_delay_s, said>>

BackoffElapses ==
  /\ link_disconnected
  /\ ~reconnect_due
  /\ reconnect_due' = TRUE
  /\ UNCHANGED <<suspended, link_disconnected, link_connecting, pending_resume_ack,
                 fd, fd_ready, reconnect_delay_s, connect_late, said>>

(***************************************************************************)
(* What the link's life promises.                                          *)
(***************************************************************************)

\* Suspend owns the wire: while the broker is suspended it holds no
\* descriptor of the device, whatever was in flight when it was suspended
\* and whatever connect, hang-up or timer is handled later.
SuspendOwnsWire == suspended => fd = "closed"

\* The flags agree with the descriptor (see LinkFlagsTrue in module Broker).
FlagsMatchFd ==
  /\ link_connecting <=> fd = "connecting"
  /\ fd = "open" <=> LinkUsable /\ ~link_connecting

\* A lost link waiting for its next attempt always has a real backoff: a
\* failed resume, which leaves the delay at its initial zero, never turns
\* into a reconnect loop without pause.
BackoffNeverZero ==
  link_disconnected /\ ~suspended /\ ~link_connecting => reconnect_delay_s >= Base

\* What the clients were last told agrees with what the link is.
ClientsKnowLink ==
  /\ suspended => said = "suspended"
  /\ fd = "open" => said = "up"
  /\ LinkUsable /\ ~link_connecting => said = "up"
  /\ link_disconnected /\ ~suspended /\ ~link_connecting => said = "down"

=============================================================================
