---------------------------- MODULE Broker_proofs ----------------------------
(***************************************************************************)
(* The safety of the broker, for every set of clients and every value of   *)
(* the other constants. A step of the broker is a step of its link, a step *)
(* of its line machines and a step of its loop: each part's invariants are *)
(* inductive for its own steps (LinkStepSafe, LineStepSafe), so the proof  *)
(* only has to find, for every action, the part's step that it makes.      *)
(***************************************************************************)
EXTENDS Broker, TLAPS

(***************************************************************************)
(* The link. Every fragment of LinkState that the loop may take, under the *)
(* guards the loop takes it with, preserves the link's invariants.         *)
(***************************************************************************)

\* BackoffNeverZero is not inductive: a connect begun by attempt_reconnect
\* is given up into the state it speaks of. One begun by a resume is given up
\* into a suspended broker, whatever its delay is.
BackoffKept == link_connecting /\ ~pending_resume_ack => reconnect_delay_s >= Base

LinkInv ==
  /\ LinkTypeOK
  /\ SuspendOwnsWire
  /\ FlagsMatchFd
  /\ BackoffNeverZero
  /\ BackoffKept

\* The bits of a link event that has been handled are no longer reported.
LinkRead ==
  /\ fd_ready' \subseteq fd_ready
  /\ UNCHANGED <<suspended, link_disconnected, link_connecting, pending_resume_ack, fd,
                 reconnect_due, reconnect_delay_s, connect_late, said>>

\* What a step of the broker, up to its destruction, may do to the link.
LinkStep ==
  \/ UNCHANGED linkVars
  \/ sm_broker_do_suspend
  \/ ResumeAtOnce
  \/ ResumeConnecting
  \/ LinkUsable /\ ~link_connecting /\ handle_link_disconnect
  \/ link_connecting /\ link_connect_give_up
  \/ ~suspended /\ ConnectDone
  \/ ReconnectWanted /\ attempt_reconnect
  \/ LinkRead
  \/ \E bit \in {"IN", "HUP"} : DeviceSignals(bit)
  \/ \E bit \in {"OUT", "HUP"} : ConnectSettles(bit)
  \/ ConnectDeadlinePasses
  \/ BackoffElapses

\* The invariants hold when the broker has set up.
LEMMA LinkInitInv == LinkInit => LinkInv
<1> SUFFICES ASSUME LinkInit PROVE LinkInv
  OBVIOUS
<1>1. 0 \in 0..MaxDelay
  BY LinkAssumption
<1>2. LinkTypeOK
  BY <1>1 DEF LinkInit, LinkTypeOK
<1>3. SuspendOwnsWire /\ FlagsMatchFd /\ BackoffNeverZero /\ BackoffKept
  BY DEF LinkInit, SuspendOwnsWire, FlagsMatchFd, BackoffNeverZero, BackoffKept, LinkUsable
<1> QED BY <1>2, <1>3 DEF LinkInv

\* link_schedule_retry keeps the delay in its range, and above the base.
LEMMA RetryDelay ==
  ASSUME LinkTypeOK, link_schedule_retry
  PROVE  /\ reconnect_due' \in BOOLEAN
         /\ reconnect_delay_s' \in 0..MaxDelay
         /\ reconnect_delay_s >= Base => reconnect_delay_s' >= Base
BY LinkAssumption DEF LinkTypeOK, link_schedule_retry

\* Suspending closes the descriptor, also that of a connect in flight.
LEMMA SuspendSafe == ASSUME LinkInv, sm_broker_do_suspend PROVE LinkInv'
BY DEF LinkInv, LinkTypeOK, SuspendOwnsWire, FlagsMatchFd, BackoffNeverZero, BackoffKept, LinkUsable,
   sm_broker_do_suspend, CloseFd

\* Both outcomes of a resume.
LEMMA ResumeSafe == ASSUME LinkInv, ResumeAtOnce \/ ResumeConnecting PROVE LinkInv'
<1>1. CASE ResumeAtOnce
  BY <1>1 DEF LinkInv, LinkTypeOK, SuspendOwnsWire, FlagsMatchFd, BackoffNeverZero, BackoffKept,
     LinkUsable, ResumeAtOnce, link_bring_up
<1>2. CASE ResumeConnecting
  BY <1>2 DEF LinkInv, LinkTypeOK, SuspendOwnsWire, FlagsMatchFd, BackoffNeverZero, BackoffKept,
     LinkUsable, ResumeConnecting, link_watch_connecting
<1> QED BY <1>1, <1>2

\* A lost link starts again from the base delay.
LEMMA DisconnectSafe ==
  ASSUME LinkInv, LinkUsable, ~link_connecting, handle_link_disconnect PROVE LinkInv'
BY LinkAssumption DEF LinkInv, LinkTypeOK, SuspendOwnsWire, FlagsMatchFd, BackoffNeverZero, BackoffKept,
   LinkUsable, handle_link_disconnect, CloseFd

\* A connect given up leaves the broker suspended, or with a real delay.
LEMMA GiveUpSafe == ASSUME LinkInv, link_connecting, link_connect_give_up PROVE LinkInv'
<1>1. /\ reconnect_due' \in BOOLEAN
      /\ reconnect_delay_s' \in 0..MaxDelay
      /\ reconnect_delay_s >= Base => reconnect_delay_s' >= Base
  BY RetryDelay DEF LinkInv, link_connect_give_up
<1> QED
  BY <1>1 DEF LinkInv, LinkTypeOK, SuspendOwnsWire, FlagsMatchFd, BackoffNeverZero, BackoffKept,
     LinkUsable, link_connect_give_up, CloseFd

\* A connect that completes while the broker is not suspended.
LEMMA ConnectDoneSafe == ASSUME LinkInv, ~suspended, ConnectDone PROVE LinkInv'
BY DEF LinkInv, LinkTypeOK, SuspendOwnsWire, FlagsMatchFd, BackoffNeverZero, BackoffKept, LinkUsable,
   ConnectDone, link_bring_up

\* An attempt that begins a connect, fails or is refused.
LEMMA ReconnectSafe == ASSUME LinkInv, ReconnectWanted, attempt_reconnect PROVE LinkInv'
<1>1. reconnect_delay_s >= Base
  BY DEF LinkInv, BackoffNeverZero, ReconnectWanted
<1>2. CASE link_watch_connecting /\ UNCHANGED <<suspended, link_disconnected, pending_resume_ack,
                                                reconnect_due, reconnect_delay_s, said>>
  BY <1>1, <1>2 DEF LinkInv, LinkTypeOK, SuspendOwnsWire, FlagsMatchFd, BackoffNeverZero, BackoffKept,
     LinkUsable, ReconnectWanted, link_watch_connecting
<1>3. CASE link_schedule_retry /\ UNCHANGED <<suspended, link_disconnected, link_connecting,
                                              pending_resume_ack, fd, fd_ready, connect_late, said>>
  <2>1. /\ reconnect_due' \in BOOLEAN
        /\ reconnect_delay_s' \in 0..MaxDelay
        /\ reconnect_delay_s' >= Base
    BY <1>1, <1>3, RetryDelay DEF LinkInv
  <2> QED
    BY <1>3, <2>1 DEF LinkInv, LinkTypeOK, SuspendOwnsWire, FlagsMatchFd, BackoffNeverZero,
       BackoffKept, LinkUsable
<1>4. CASE /\ reconnect_due' = FALSE
           /\ UNCHANGED <<suspended, link_disconnected, link_connecting, pending_resume_ack, fd,
                          fd_ready, reconnect_delay_s, connect_late, said>>
  BY <1>4 DEF LinkInv, LinkTypeOK, SuspendOwnsWire, FlagsMatchFd, BackoffNeverZero, BackoffKept,
     LinkUsable
<1> QED BY <1>2, <1>3, <1>4 DEF attempt_reconnect

\* The environment and the reads of the loop change no flag but the clock's.
LEMMA LinkEnvSafe ==
  ASSUME LinkInv,
         \/ UNCHANGED linkVars
         \/ LinkRead
         \/ \E bit \in {"IN", "HUP"} : DeviceSignals(bit)
         \/ \E bit \in {"OUT", "HUP"} : ConnectSettles(bit)
         \/ ConnectDeadlinePasses
         \/ BackoffElapses
  PROVE  LinkInv'
<1> USE DEF LinkInv, LinkTypeOK, SuspendOwnsWire, FlagsMatchFd, BackoffNeverZero, BackoffKept, LinkUsable
<1>1. CASE UNCHANGED linkVars
  BY <1>1 DEF linkVars
<1>2. CASE LinkRead
  BY <1>2 DEF LinkRead
<1>3. CASE \E bit \in {"IN", "HUP"} : DeviceSignals(bit)
  BY <1>3 DEF DeviceSignals
<1>4. CASE \E bit \in {"OUT", "HUP"} : ConnectSettles(bit)
  BY <1>4 DEF ConnectSettles
<1>5. CASE ConnectDeadlinePasses
  BY <1>5 DEF ConnectDeadlinePasses
<1>6. CASE BackoffElapses
  BY <1>6 DEF BackoffElapses
<1> QED BY <1>1, <1>2, <1>3, <1>4, <1>5, <1>6

\* The link's invariants are inductive.
THEOREM LinkStepSafe == ASSUME LinkInv, LinkStep PROVE LinkInv'
BY SuspendSafe, ResumeSafe, DisconnectSafe, GiveUpSafe, ConnectDoneSafe, ReconnectSafe, LinkEnvSafe
   DEF LinkStep

(***************************************************************************)
(* The lines. Every fragment of LineControl preserves the invariants of    *)
(* the pulse machine, the flood and the lines they drive.                  *)
(***************************************************************************)

\* A flood that holds a reset holds a modem line: BREAK is never its pin, so
\* releasing a reset cannot touch BREAK.
FloodPinKnown == flood.active /\ flood.reset => flood.pin \in ModemPins

\* The part that holds up to and after shutdown; ResetHeldByFlood is lost
\* when the loop is left.
LineInv ==
  /\ LineTypeOK
  /\ CompletedOnce
  /\ BreakHeldByMachine
  /\ PulseHasTimer
  /\ FloodPinKnown

\* What a running broker may do to the lines.
LineStep ==
  \/ UNCHANGED lineVars
  \/ \E a \in Actors, followup, delay \in BOOLEAN : sm_broker_schedule_break(a, followup, delay)
  \/ \E a \in Actors, pin \in ModemPins : sm_broker_schedule_line_reset(a, pin)
  \/ \E pin \in ModemPins, level \in Levels : DrivePin(pin, level)
  \/ \E pin \in ModemPins \cup {"none"}, level \in Levels : sm_broker_start_flood(pin, level)
  \/ handle_break_timer
  \/ \E usable \in BOOLEAN : handle_flood_timer(usable)
  \/ flood_feed
  \/ CancelMachines
  \/ BreakTimerExpires
  \/ FloodTimerExpires
  \/ FloodClockAdvances

\* The machines are idle when the broker has set up.
LEMMA LineInitInv == LineInit => LineInv /\ ResetHeldByFlood
<1> SUFFICES ASSUME LineInit PROVE LineInv /\ ResetHeldByFlood
  OBVIOUS
<1>1. LineTypeOK
  BY DEF LineInit, LineTypeOK, NoPulse, NoFlood, Pins, ModemPins, Levels, Timer
<1>2. CompletedOnce /\ BreakHeldByMachine /\ PulseHasTimer /\ FloodPinKnown
  BY DEF LineInit, CompletedOnce, BreakHeldByMachine, PulseHasTimer, FloodPinKnown, NoPulse, NoFlood, Pins
<1>3. ResetHeldByFlood
  BY DEF LineInit, ResetHeldByFlood
<1> QED BY <1>1, <1>2, <1>3 DEF LineInv

\* Commanding pins to levels, some of them refused.
LEMMA CommandType ==
  ASSUME LineTypeOK,
         NEW P \in SUBSET Pins, NEW to \in [P -> Levels], NEW bad \in SUBSET P,
         Command(to, bad)
  PROVE  /\ lines' \in [Pins -> Levels]
         /\ in_reset' \subseteq Pins
         /\ stuck' \subseteq Pins
         /\ \A p \in Pins : p \notin P => lines'[p] = lines[p] /\ (p \in stuck <=> p \in stuck')
         /\ \A p \in P \ bad : lines'[p] = to[p] /\ p \notin in_reset'
         /\ in_reset' \subseteq in_reset
         /\ bad \subseteq stuck'
         /\ stuck \ P \subseteq stuck'
<1>1. DOMAIN to = P
  OBVIOUS
<1>2. lines \in [Pins -> Levels]
  BY DEF LineTypeOK
<1>3. in_reset \subseteq Pins /\ stuck \subseteq Pins
  BY DEF LineTypeOK
<1>4. lines' = [p \in Pins |-> IF p \in P \ bad THEN to[p] ELSE lines[p]]
  BY <1>1 DEF Command
<1>5. in_reset' = in_reset \ (P \ bad) /\ stuck' = (stuck \ P) \cup bad
  BY <1>1 DEF Command
<1>6. \A p \in P \ bad : to[p] \in Levels
  OBVIOUS
<1>7. lines' \in [Pins -> Levels]
  BY <1>2, <1>4, <1>6
<1> QED BY <1>3, <1>4, <1>5, <1>7

\* Commanding pins, none of them refused.
LEMMA CommandAll ==
  ASSUME LineTypeOK, NEW P \in SUBSET Pins, NEW to \in [P -> Levels], Command(to, {})
  PROVE  /\ lines' \in [Pins -> Levels]
         /\ in_reset' \subseteq Pins
         /\ stuck' \subseteq Pins
         /\ \A p \in Pins : p \notin P => lines'[p] = lines[p] /\ (p \in stuck <=> p \in stuck')
         /\ in_reset' = in_reset \ P
         /\ stuck' = stuck \ P
<1>1. {} \in SUBSET P
  OBVIOUS
<1>2. /\ lines' \in [Pins -> Levels]
      /\ in_reset' \subseteq Pins
      /\ stuck' \subseteq Pins
      /\ \A p \in Pins : p \notin P => lines'[p] = lines[p] /\ (p \in stuck <=> p \in stuck')
      /\ \A p \in P \ {} : lines'[p] = to[p] /\ p \notin in_reset'
      /\ in_reset' \subseteq in_reset
      /\ {} \subseteq stuck'
      /\ stuck \ P \subseteq stuck'
  BY <1>1, CommandType
<1>3. in_reset' = in_reset \ P /\ stuck' = stuck \ P
  BY DEF Command
<1> QED BY <1>2, <1>3

\* Releasing what the machines hold: the levels commanded are levels, and
\* every pin released is low or recorded as stuck.
LEMMA ReleaseType ==
  ASSUME LineTypeOK,
         NEW pulse \in SUBSET Pins, NEW fld \in SUBSET ModemPins, NEW bad \in SUBSET (pulse \cup fld),
         ReleaseLines(pulse, fld, bad)
  PROVE  /\ lines' \in [Pins -> Levels]
         /\ in_reset' \subseteq Pins
         /\ stuck' \subseteq Pins
         /\ lines'["break"] = "set" =>
              \/ "break" \in pulse /\ "break" \in stuck'
              \/ "break" \notin pulse /\ lines["break"] = "set" /\ ("break" \in stuck <=> "break" \in stuck')
         /\ in_reset' \subseteq in_reset
         /\ in_reset' \subseteq (in_reset \ (pulse \cup fld)) \cup stuck'
         /\ stuck \ (pulse \cup fld) \subseteq stuck'
<1> DEFINE P == pulse \cup fld
           to == [p \in P |-> IF p \in fld THEN Opposite(flood.level) ELSE "clear"]
<1>1. P \in SUBSET Pins /\ "break" \in Pins /\ "break" \notin fld
  BY DEF Pins, ModemPins
<1>2. to \in [P -> Levels]
  BY DEF Opposite, Levels
<1>3. Command(to, bad)
  BY DEF ReleaseLines
<1>4. \A p \in P : p \notin fld => to[p] = "clear"
  OBVIOUS
<1>5. /\ lines' \in [Pins -> Levels]
      /\ in_reset' \subseteq Pins
      /\ stuck' \subseteq Pins
      /\ \A p \in Pins : p \notin P => lines'[p] = lines[p] /\ (p \in stuck <=> p \in stuck')
      /\ \A p \in P \ bad : lines'[p] = to[p] /\ p \notin in_reset'
      /\ in_reset' \subseteq in_reset
      /\ bad \subseteq stuck'
      /\ stuck \ P \subseteq stuck'
  <2> HIDE DEF to
  <2> QED BY <1>1, <1>2, <1>3, CommandType DEF P
<1> HIDE DEF to
<1> QED BY <1>1, <1>4, <1>5

(***************************************************************************)
(* The pulse machine.                                                      *)
(***************************************************************************)

\* A pulse accepted for a by an idle machine.
LEMMA Accepted ==
  ASSUME LineTypeOK, CompletedOnce, brk.state = "IDLE",
         NEW a \in Actors, brk'.state = "ASSERTED", brk'.done = a,
         ctx' = [ctx EXCEPT ![a] = @ + 1]
  PROVE  ctx' \in [Actors -> Int] /\ CompletedOnce'
BY DEF LineTypeOK, CompletedOnce

\* break_complete answers the requester of the pulse in flight, once.
LEMMA Completed ==
  ASSUME LineTypeOK, CompletedOnce, brk.state # "IDLE", break_complete
  PROVE  /\ brk' = NoPulse
         /\ break_timer' = "off"
         /\ ctx' \in [Actors -> Int]
         /\ CompletedOnce'
<1>1. brk' = NoPulse /\ break_timer' = "off" /\ brk'.state = "IDLE"
  BY DEF break_complete, NoPulse
<1>2. ctx' = IF brk.done \in Actors THEN [ctx EXCEPT ![brk.done] = @ - 1] ELSE ctx
  BY DEF break_complete, RunDone
<1>3. ctx' \in [Actors -> Int]
  BY <1>2 DEF LineTypeOK
<1>4. \A a \in Actors : ctx'[a] = 0
  BY <1>2 DEF LineTypeOK, CompletedOnce
<1> QED BY <1>1, <1>3, <1>4 DEF CompletedOnce

\* The record of an idle machine.
LEMMA NoPulseType ==
  /\ NoPulse \in [state: {"IDLE", "ASSERTED", "DELAY"}, pin: Pins,
                  followup: BOOLEAN, delay: BOOLEAN, done: Actors \cup {NoActor}]
  /\ NoPulse.state = "IDLE"
BY DEF NoPulse, Pins

\* A line driven and taken back because the timer failed: where the driver
\* refuses that, it is in stuck.
LEMMA GiveUpLines ==
  ASSUME LineInv, NEW pin \in Pins, NEW level \in Levels, NEW off \in SUBSET ModemPins,
         GiveUp(pin, level, off)
  PROVE  /\ lines' \in [Pins -> Levels]
         /\ in_reset' \subseteq Pins
         /\ stuck' \subseteq Pins
         /\ in_reset' \subseteq (in_reset \ ({pin} \cup off)) \cup stuck'
         /\ stuck \ ({pin} \cup off) \subseteq stuck'
         /\ pin # "break" => lines'["break"] = lines["break"] /\ ("break" \in stuck <=> "break" \in stuck')
         /\ pin = "break" /\ level = "set" => (lines'["break"] = "set" => "break" \in stuck')
<1>1. PICK kept \in SUBSET {pin} :
        /\ lines' = [p \in Pins |-> IF p \in kept THEN level
                                   ELSE IF p = pin THEN Opposite(level)
                                   ELSE IF p \in off THEN "clear" ELSE lines[p]]
        /\ in_reset' = (in_reset \ ({pin} \cup off)) \cup (kept \cap ModemPins)
        /\ stuck' = (stuck \ ({pin} \cup off)) \cup kept
  BY DEF GiveUp
<1>2. /\ lines \in [Pins -> Levels] /\ in_reset \subseteq Pins /\ stuck \subseteq Pins
      /\ "clear" \in Levels /\ Opposite(level) \in Levels /\ "break" \in Pins /\ "break" \notin off
  BY DEF LineInv, LineTypeOK, Levels, Opposite, Pins, ModemPins
<1>3. lines' \in [Pins -> Levels]
  BY <1>1, <1>2
<1>4. pin # "break" => lines'["break"] = lines["break"] /\ ("break" \in stuck <=> "break" \in stuck')
  BY <1>1, <1>2
<1>5. pin = "break" /\ level = "set" => (lines'["break"] = "set" => "break" \in stuck')
  BY <1>1, <1>2 DEF Opposite
<1> QED BY <1>1, <1>2, <1>3, <1>4, <1>5

\* A request that gives up leaves the idle pulse machine and the flood alone.
LEMMA AbandonSafe ==
  ASSUME LineInv, NEW pin \in Pins, NEW off \in SUBSET ModemPins, GiveUp(pin, "set", off),
         UNCHANGED <<brk, break_timer, ctx, flood, flood_timer, flood_clock>>
  PROVE  LineInv' /\ (ResetHeldByFlood => ResetHeldByFlood')
<1>1. "set" \in Levels
  BY DEF Levels
<1>2. /\ lines' \in [Pins -> Levels]
      /\ in_reset' \subseteq Pins
      /\ stuck' \subseteq Pins
      /\ in_reset' \subseteq (in_reset \ ({pin} \cup off)) \cup stuck'
      /\ stuck \ ({pin} \cup off) \subseteq stuck'
      /\ pin # "break" => lines'["break"] = lines["break"] /\ ("break" \in stuck <=> "break" \in stuck')
      /\ pin = "break" => (lines'["break"] = "set" => "break" \in stuck')
  BY <1>1, GiveUpLines
<1>3. LineTypeOK' /\ CompletedOnce' /\ PulseHasTimer' /\ FloodPinKnown'
  BY <1>2 DEF LineInv, LineTypeOK, CompletedOnce, PulseHasTimer, FloodPinKnown
<1>4. BreakHeldByMachine'
  BY <1>2 DEF LineInv, BreakHeldByMachine
<1>5. ResetHeldByFlood => ResetHeldByFlood'
  BY <1>2 DEF ResetHeldByFlood, FloodHeld
<1> QED BY <1>3, <1>4, <1>5 DEF LineInv

\* A BREAK is accepted.
LEMMA AcceptBreakSafe ==
  ASSUME LineInv, NEW a \in Actors, NEW followup \in BOOLEAN, NEW delay \in BOOLEAN,
         sm_broker_schedule_break(a, followup, delay),
         ~(GiveUp("break", "set", {}) /\ UNCHANGED <<brk, break_timer, ctx>>)
  PROVE  LineInv' /\ (ResetHeldByFlood => ResetHeldByFlood')
<1> DEFINE P == {"break"}
           to == [p \in P |-> "set"]
<1>1. P \in SUBSET Pins /\ to \in [P -> Levels] /\ {} \in SUBSET P /\ Command(to, {})
  BY DEF Pins, Levels, sm_broker_schedule_break
<1>2. /\ lines' \in [Pins -> Levels]
      /\ in_reset' \subseteq Pins
      /\ stuck' \subseteq Pins
      /\ in_reset' = in_reset \ P
      /\ stuck' = stuck \ P
  <2> HIDE DEF to, P
  <2> QED BY <1>1, CommandAll DEF LineInv
<1> HIDE DEF to
<1>3. /\ brk' = [state |-> "ASSERTED", pin |-> "break", followup |-> followup, delay |-> delay, done |-> a]
      /\ brk.state = "IDLE"
      /\ break_timer' = "armed"
      /\ ctx' = [ctx EXCEPT ![a] = @ + 1]
      /\ flood' = flood /\ flood_timer' = flood_timer /\ flood_clock' = flood_clock
  BY DEF sm_broker_schedule_break
<1>4. /\ brk' \in [state: {"IDLE", "ASSERTED", "DELAY"}, pin: Pins,
                   followup: BOOLEAN, delay: BOOLEAN, done: Actors \cup {NoActor}]
      /\ brk'.state = "ASSERTED" /\ brk'.done = a /\ brk'.pin = "break"
  BY <1>3 DEF Pins
<1>5. ctx' \in [Actors -> Int] /\ CompletedOnce'
  BY <1>3, <1>4, Accepted DEF LineInv
<1>6. LineTypeOK'
  BY <1>2, <1>3, <1>4, <1>5 DEF LineInv, LineTypeOK, Timer
<1>7. BreakHeldByMachine' /\ PulseHasTimer' /\ FloodPinKnown'
  BY <1>3, <1>4 DEF LineInv, BreakHeldByMachine, PulseHasTimer, FloodPinKnown
<1>8. ResetHeldByFlood => ResetHeldByFlood'
  BY <1>2, <1>3 DEF ResetHeldByFlood, FloodHeld
<1> QED BY <1>5, <1>6, <1>7, <1>8 DEF LineInv

\* A BREAK is accepted, or given up for want of a timer.
LEMMA ScheduleBreakSafe ==
  ASSUME LineInv, NEW a \in Actors, NEW followup \in BOOLEAN, NEW delay \in BOOLEAN,
         sm_broker_schedule_break(a, followup, delay)
  PROVE  LineInv' /\ (ResetHeldByFlood => ResetHeldByFlood')
<1>1. CASE GiveUp("break", "set", {}) /\ UNCHANGED <<brk, break_timer, ctx>>
  <2>1. UNCHANGED <<brk, break_timer, ctx, flood, flood_timer, flood_clock>>
    BY <1>1 DEF sm_broker_schedule_break
  <2>2. "break" \in Pins /\ {} \in SUBSET ModemPins
    BY DEF Pins
  <2> QED BY <1>1, <2>1, <2>2, AbandonSafe
<1>2. CASE ~(GiveUp("break", "set", {}) /\ UNCHANGED <<brk, break_timer, ctx>>)
  BY <1>2, AcceptBreakSafe
<1> QED BY <1>1, <1>2

\* A reset of the board is accepted, or refused half-way.
LEMMA ScheduleResetSafe ==
  ASSUME LineInv, NEW a \in Actors, NEW pin \in ModemPins, sm_broker_schedule_line_reset(a, pin)
  PROVE  LineInv' /\ (ResetHeldByFlood => ResetHeldByFlood')
<1> DEFINE other == IF pin = "rts" THEN "dtr" ELSE "rts"
<1>1. /\ brk.state = "IDLE"
      /\ flood' = flood /\ flood_timer' = flood_timer /\ flood_clock' = flood_clock
  BY DEF sm_broker_schedule_line_reset
<1>2. ASSUME NEW P \in SUBSET ModemPins, NEW to \in [P -> Levels], Command(to, {})
      PROVE  /\ lines' \in [Pins -> Levels]
             /\ in_reset' \subseteq Pins
             /\ stuck' \subseteq Pins
             /\ BreakHeldByMachine'
             /\ ResetHeldByFlood => ResetHeldByFlood'
  <2>1. P \in SUBSET Pins /\ {} \in SUBSET P /\ "break" \in Pins /\ "break" \notin P
    BY DEF Pins, ModemPins
  <2>2. /\ lines' \in [Pins -> Levels]
        /\ in_reset' \subseteq Pins
        /\ stuck' \subseteq Pins
        /\ \A p \in Pins : p \notin P => lines'[p] = lines[p] /\ (p \in stuck <=> p \in stuck')
        /\ in_reset' = in_reset \ P
        /\ stuck' = stuck \ P
    BY <1>2, <2>1, CommandAll DEF LineInv
  <2>3. lines'["break"] = lines["break"] /\ ("break" \in stuck <=> "break" \in stuck')
    BY <2>1, <2>2
  <2> QED BY <1>1, <2>2, <2>3 DEF LineInv, BreakHeldByMachine, ResetHeldByFlood, FloodHeld
<1>3. CASE /\ Command([p \in {pin, other} |-> IF p = pin THEN "set" ELSE "clear"], {})
           /\ brk' = [state |-> "ASSERTED", pin |-> pin, followup |-> FALSE, delay |-> FALSE, done |-> a]
           /\ break_timer' = "armed"
           /\ ctx' = [ctx EXCEPT ![a] = @ + 1]
  <2> DEFINE to == [p \in {pin, other} |-> IF p = pin THEN "set" ELSE "clear"]
  <2>1. {pin, other} \in SUBSET ModemPins /\ to \in [{pin, other} -> Levels]
    BY DEF ModemPins, Levels
  <2>2. /\ lines' \in [Pins -> Levels]
        /\ in_reset' \subseteq Pins
        /\ stuck' \subseteq Pins
        /\ BreakHeldByMachine'
        /\ ResetHeldByFlood => ResetHeldByFlood'
    <3> HIDE DEF to
    <3>1. Command(to, {})
      BY <1>3 DEF to
    <3> QED BY <1>2, <2>1, <3>1
  <2>3. /\ brk' \in [state: {"IDLE", "ASSERTED", "DELAY"}, pin: Pins,
                     followup: BOOLEAN, delay: BOOLEAN, done: Actors \cup {NoActor}]
        /\ brk'.state = "ASSERTED" /\ brk'.done = a
    BY <1>3 DEF Pins, ModemPins
  <2>4. ctx' \in [Actors -> Int] /\ CompletedOnce'
    BY <1>1, <1>3, <2>3, Accepted DEF LineInv
  <2>5. LineTypeOK'
    BY <1>1, <1>3, <2>2, <2>3, <2>4 DEF LineInv, LineTypeOK, Timer
  <2>6. PulseHasTimer' /\ FloodPinKnown'
    BY <1>1, <1>3, <2>3 DEF LineInv, PulseHasTimer, FloodPinKnown
  <2> QED BY <2>2, <2>4, <2>5, <2>6 DEF LineInv
<1>4. CASE Command([p \in {other} |-> "clear"], {}) /\ UNCHANGED <<brk, break_timer, ctx>>
  <2>2. {other} \in SUBSET ModemPins /\ [p \in {other} |-> "clear"] \in [{other} -> Levels]
    BY DEF ModemPins, Levels
  <2>3. /\ lines' \in [Pins -> Levels]
        /\ in_reset' \subseteq Pins
        /\ stuck' \subseteq Pins
        /\ BreakHeldByMachine'
        /\ ResetHeldByFlood => ResetHeldByFlood'
    <3> DEFINE to == [p \in {other} |-> "clear"]
    <3>1. Command(to, {}) /\ to \in [{other} -> Levels]
      BY <1>4, <2>2
    <3> HIDE DEF to, other
    <3> QED BY <1>2, <2>2, <3>1
  <2> QED
    BY <1>1, <1>4, <2>3 DEF LineInv, LineTypeOK, CompletedOnce, PulseHasTimer, FloodPinKnown
<1>5. CASE GiveUp(pin, "set", {other}) /\ UNCHANGED <<brk, break_timer, ctx>>
  <2>1. pin \in Pins /\ {other} \in SUBSET ModemPins
    BY DEF ModemPins, Pins
  <2> HIDE DEF other
  <2> QED BY <1>1, <1>5, <2>1, AbandonSafe
<1> QED BY <1>3, <1>4, <1>5 DEF sm_broker_schedule_line_reset

\* The pulse timer: the line is released, and the machine waits or is done.
LEMMA BreakTimerSafe ==
  ASSUME LineInv, handle_break_timer
  PROVE  LineInv' /\ (ResetHeldByFlood => ResetHeldByFlood')
<1>1. flood' = flood /\ flood_timer' = flood_timer /\ flood_clock' = flood_clock
  BY DEF handle_break_timer
<1>2. FloodPinKnown'
  BY <1>1 DEF LineInv, FloodPinKnown
<1>3. ASSUME brk.state = "ASSERTED", NEW bad \in SUBSET {brk.pin}, ReleaseLines({brk.pin}, {}, bad)
      PROVE  /\ lines' \in [Pins -> Levels]
             /\ in_reset' \subseteq Pins
             /\ stuck' \subseteq Pins
             /\ lines'["break"] = "set" => "break" \in stuck'
             /\ ResetHeldByFlood => ResetHeldByFlood'
  <2>1. {brk.pin} \in SUBSET Pins /\ {} \in SUBSET ModemPins /\ bad \in SUBSET ({brk.pin} \cup {})
    BY <1>3 DEF LineInv, LineTypeOK
  <2>2. /\ lines' \in [Pins -> Levels]
        /\ in_reset' \subseteq Pins
        /\ stuck' \subseteq Pins
        /\ lines'["break"] = "set" =>
             \/ "break" \in {brk.pin} /\ "break" \in stuck'
             \/ "break" \notin {brk.pin} /\ lines["break"] = "set" /\ ("break" \in stuck <=> "break" \in stuck')
        /\ in_reset' \subseteq in_reset
        /\ in_reset' \subseteq (in_reset \ ({brk.pin} \cup {})) \cup stuck'
        /\ stuck \ ({brk.pin} \cup {}) \subseteq stuck'
    BY <1>3, <2>1, ReleaseType DEF LineInv
  <2>3. lines'["break"] = "set" => "break" \in stuck'
    BY <2>2 DEF LineInv, BreakHeldByMachine
  <2>4. ResetHeldByFlood => ResetHeldByFlood'
    BY <1>1, <2>2 DEF ResetHeldByFlood, FloodHeld
  <2> QED BY <2>2, <2>3, <2>4
<1>4. CASE /\ brk.state = "ASSERTED"
           /\ \E bad \in SUBSET {brk.pin} :
                /\ ReleaseLines({brk.pin}, {}, bad)
                /\ \/ /\ bad = {} /\ brk.followup /\ brk.delay
                      /\ brk' = [brk EXCEPT !.state = "DELAY"]
                      /\ break_timer' = "armed"
                      /\ UNCHANGED ctx
                   \/ break_complete
  <2>1. PICK bad \in SUBSET {brk.pin} :
                /\ ReleaseLines({brk.pin}, {}, bad)
                /\ \/ /\ brk' = [brk EXCEPT !.state = "DELAY"]
                      /\ break_timer' = "armed"
                      /\ ctx' = ctx
                   \/ break_complete
    BY <1>4
  <2>2. /\ lines' \in [Pins -> Levels]
        /\ in_reset' \subseteq Pins
        /\ stuck' \subseteq Pins
        /\ BreakHeldByMachine'
        /\ ResetHeldByFlood => ResetHeldByFlood'
    BY <1>3, <1>4, <2>1 DEF BreakHeldByMachine
  <2>3. CASE /\ brk' = [brk EXCEPT !.state = "DELAY"]
             /\ break_timer' = "armed"
             /\ ctx' = ctx
    <3>1. /\ brk' \in [state: {"IDLE", "ASSERTED", "DELAY"}, pin: Pins,
                       followup: BOOLEAN, delay: BOOLEAN, done: Actors \cup {NoActor}]
          /\ brk'.state = "DELAY" /\ brk'.done = brk.done
      BY <2>3 DEF LineInv, LineTypeOK
    <3>2. CompletedOnce'
      BY <1>4, <2>3, <3>1 DEF LineInv, CompletedOnce
    <3>3. LineTypeOK' /\ PulseHasTimer'
      BY <1>1, <2>2, <2>3, <3>1 DEF LineInv, LineTypeOK, Timer, PulseHasTimer
    <3> QED BY <1>2, <2>2, <3>2, <3>3 DEF LineInv
  <2>4. CASE break_complete
    <3>1. brk' = NoPulse /\ break_timer' = "off" /\ ctx' \in [Actors -> Int] /\ CompletedOnce'
      BY <1>4, <2>4, Completed DEF LineInv
    <3>2. LineTypeOK' /\ PulseHasTimer'
      BY <1>1, <2>2, <3>1, NoPulseType DEF LineInv, LineTypeOK, Timer, PulseHasTimer
    <3> QED BY <1>2, <2>2, <3>1, <3>2 DEF LineInv
  <2> QED BY <2>1, <2>3, <2>4
<1>5. CASE brk.state = "DELAY" /\ break_complete /\ LinesUnchanged
  <2>1. brk' = NoPulse /\ break_timer' = "off" /\ ctx' \in [Actors -> Int] /\ CompletedOnce'
    BY <1>5, Completed DEF LineInv
  <2>2. LineTypeOK' /\ PulseHasTimer'
    BY <1>1, <1>5, <2>1, NoPulseType DEF LineInv, LineTypeOK, Timer, PulseHasTimer, LinesUnchanged
  <2>3. BreakHeldByMachine' /\ (ResetHeldByFlood => ResetHeldByFlood')
    BY <1>1, <1>5 DEF LineInv, BreakHeldByMachine, ResetHeldByFlood, FloodHeld, LinesUnchanged
  <2> QED BY <1>2, <2>1, <2>2, <2>3 DEF LineInv
<1>6. CASE /\ brk.state = "IDLE"
           /\ break_timer' = IF break_timer = "expired" THEN "off" ELSE break_timer
           /\ LinesUnchanged
           /\ UNCHANGED <<brk, ctx>>
  <2>1. LineTypeOK'
    BY <1>1, <1>6 DEF LineInv, LineTypeOK, Timer, LinesUnchanged
  <2>2. CompletedOnce' /\ PulseHasTimer' /\ BreakHeldByMachine' /\ (ResetHeldByFlood => ResetHeldByFlood')
    BY <1>1, <1>6 DEF LineInv, CompletedOnce, PulseHasTimer, BreakHeldByMachine, ResetHeldByFlood,
       FloodHeld, LinesUnchanged
  <2> QED BY <1>2, <2>1, <2>2 DEF LineInv
<1> QED BY <1>4, <1>5, <1>6 DEF handle_break_timer

\* A client drives a modem line.
LEMMA DrivePinSafe ==
  ASSUME LineInv, NEW pin \in ModemPins, NEW level \in Levels, DrivePin(pin, level)
  PROVE  LineInv' /\ (ResetHeldByFlood => ResetHeldByFlood')
<1> DEFINE P == {pin}
           to == [p \in P |-> level]
<1>1. P \in SUBSET Pins /\ to \in [P -> Levels] /\ Command(to, {}) /\ "break" \in Pins /\ "break" \notin P
  BY DEF Pins, ModemPins, DrivePin
<1>2. /\ lines' \in [Pins -> Levels]
      /\ in_reset' \subseteq Pins
      /\ stuck' \subseteq Pins
      /\ \A p \in Pins : p \notin P => lines'[p] = lines[p] /\ (p \in stuck <=> p \in stuck')
      /\ in_reset' = in_reset \ P
      /\ stuck' = stuck \ P
  <2> HIDE DEF to, P
  <2> QED BY <1>1, CommandAll DEF LineInv
<1>3. lines'["break"] = lines["break"] /\ ("break" \in stuck <=> "break" \in stuck')
  BY <1>1, <1>2
<1>4. /\ brk' = brk /\ break_timer' = break_timer /\ flood' = flood
      /\ flood_timer' = flood_timer /\ flood_clock' = flood_clock /\ ctx' = ctx
  BY DEF DrivePin
<1>5. LineTypeOK'
  BY <1>2, <1>4 DEF LineInv, LineTypeOK
<1>6. CompletedOnce' /\ PulseHasTimer' /\ BreakHeldByMachine' /\ FloodPinKnown'
  BY <1>3, <1>4 DEF LineInv, CompletedOnce, PulseHasTimer, BreakHeldByMachine, FloodPinKnown
<1>7. ResetHeldByFlood => ResetHeldByFlood'
  BY <1>2, <1>4 DEF ResetHeldByFlood, FloodHeld
<1> QED BY <1>5, <1>6, <1>7 DEF LineInv

(***************************************************************************)
(* The flood.                                                              *)
(***************************************************************************)

\* Only the flood's own variables and the lines change, and BREAK keeps what
\* it had: the invariants of the pulse machine carry over.
LEMMA PulseUntouched ==
  ASSUME LineInv, UNCHANGED <<brk, break_timer, ctx>>,
         lines'["break"] = "set" => lines["break"] = "set" /\ ("break" \in stuck => "break" \in stuck')
  PROVE  CompletedOnce' /\ PulseHasTimer' /\ BreakHeldByMachine'
BY DEF LineInv, CompletedOnce, PulseHasTimer, BreakHeldByMachine

\* Starting a flood, with or without a reset, or failing to.
LEMMA StartFloodSafe ==
  ASSUME LineInv, NEW pin \in ModemPins \cup {"none"}, NEW level \in Levels,
         sm_broker_start_flood(pin, level)
  PROVE  LineInv' /\ (ResetHeldByFlood => ResetHeldByFlood')
<1>1. ~flood.active /\ UNCHANGED <<brk, break_timer, ctx>>
  BY DEF sm_broker_start_flood
<1>2. CASE /\ flood' = [active |-> TRUE, reset |-> pin # "none", pin |-> pin, level |-> level]
           /\ flood_timer' = "armed"
           /\ flood_clock' = IF pin = "none" THEN "running" ELSE "hold"
           /\ IF pin = "none"
              THEN LinesUnchanged
              ELSE /\ lines' = [lines EXCEPT ![pin] = level]
                   /\ in_reset' = in_reset \cup {pin}
                   /\ stuck' = stuck \ {pin}
  <2>1. /\ flood' \in [active: BOOLEAN, reset: BOOLEAN, pin: ModemPins \cup {"none"}, level: Levels]
        /\ flood'.active /\ (flood'.reset <=> pin # "none") /\ flood'.pin = pin
    BY <1>2
  <2>2. /\ lines' \in [Pins -> Levels]
        /\ in_reset' \subseteq Pins
        /\ stuck' \subseteq Pins
        /\ lines'["break"] = lines["break"] /\ ("break" \in stuck => "break" \in stuck')
    <3>1. lines \in [Pins -> Levels] /\ in_reset \subseteq Pins /\ stuck \subseteq Pins
      BY DEF LineInv, LineTypeOK
    <3>2. CASE pin = "none"
      BY <1>2, <3>1, <3>2 DEF LinesUnchanged
    <3>3. CASE pin # "none"
      <4>1. pin \in Pins /\ "break" \in Pins /\ pin # "break"
        BY <3>3 DEF Pins, ModemPins
      <4> QED BY <1>2, <3>1, <3>3, <4>1
    <3> QED BY <3>2, <3>3
  <2>3. CompletedOnce' /\ PulseHasTimer' /\ BreakHeldByMachine'
    BY <1>1, <2>2, PulseUntouched
  <2>4. LineTypeOK' /\ FloodPinKnown'
    BY <1>1, <1>2, <2>1, <2>2 DEF LineInv, LineTypeOK, Timer, FloodPinKnown
  <2>5. ResetHeldByFlood => ResetHeldByFlood'
    BY <1>1, <1>2, <2>1 DEF ResetHeldByFlood, FloodHeld, LinesUnchanged
  <2> QED BY <2>3, <2>4, <2>5 DEF LineInv
<1>3. CASE /\ pin # "none"
           /\ GiveUp(pin, level, {})
           /\ flood' = NoFlood
           /\ UNCHANGED <<flood_timer, flood_clock>>
  <2>1. pin \in Pins /\ pin # "break" /\ {} \in SUBSET ModemPins
    BY <1>3 DEF Pins, ModemPins
  <2>2. /\ lines' \in [Pins -> Levels]
        /\ in_reset' \subseteq Pins
        /\ stuck' \subseteq Pins
        /\ in_reset' \subseteq (in_reset \ ({pin} \cup {})) \cup stuck'
        /\ stuck \ ({pin} \cup {}) \subseteq stuck'
        /\ lines'["break"] = lines["break"] /\ ("break" \in stuck <=> "break" \in stuck')
    BY <1>3, <2>1, GiveUpLines
  <2>4. CompletedOnce' /\ PulseHasTimer' /\ BreakHeldByMachine'
    BY <1>1, <2>2, PulseUntouched
  <2>5. flood' \in [active: BOOLEAN, reset: BOOLEAN, pin: ModemPins \cup {"none"}, level: Levels] /\ ~flood'.active
    BY <1>3 DEF NoFlood, Levels
  <2>6. LineTypeOK' /\ FloodPinKnown'
    BY <1>1, <1>3, <2>2, <2>5 DEF LineInv, LineTypeOK, FloodPinKnown
  <2>7. ResetHeldByFlood => ResetHeldByFlood'
    BY <1>1, <2>2, <2>5 DEF ResetHeldByFlood, FloodHeld
  <2> QED BY <2>4, <2>6, <2>7 DEF LineInv
<1> QED BY <1>2, <1>3 DEF sm_broker_start_flood

\* The flood lets go of the line it holds: what ResetHeldByFlood needs.
LEMMA FloodRelease ==
  ASSUME LineInv, NEW bad \in SUBSET FloodHeld, ReleaseLines({}, FloodHeld, bad)
  PROVE  /\ lines' \in [Pins -> Levels]
         /\ in_reset' \subseteq Pins
         /\ stuck' \subseteq Pins
         /\ lines'["break"] = "set" => lines["break"] = "set" /\ ("break" \in stuck => "break" \in stuck')
         /\ ResetHeldByFlood => in_reset' \subseteq stuck'
<1>1. FloodHeld \in SUBSET ModemPins
  BY DEF LineInv, FloodPinKnown, FloodHeld
<1> HIDE DEF FloodHeld
<1>2. {} \in SUBSET Pins /\ bad \in SUBSET ({} \cup FloodHeld)
  OBVIOUS
<1>3. /\ lines' \in [Pins -> Levels]
      /\ in_reset' \subseteq Pins
      /\ stuck' \subseteq Pins
      /\ lines'["break"] = "set" =>
           \/ "break" \in {} /\ "break" \in stuck'
           \/ "break" \notin {} /\ lines["break"] = "set" /\ ("break" \in stuck <=> "break" \in stuck')
      /\ in_reset' \subseteq in_reset
      /\ in_reset' \subseteq (in_reset \ ({} \cup FloodHeld)) \cup stuck'
      /\ stuck \ ({} \cup FloodHeld) \subseteq stuck'
  BY <1>1, <1>2, ReleaseType DEF LineInv
<1> QED BY <1>3 DEF ResetHeldByFlood

\* The end of a flood.
LEMMA FloodFinishSafe ==
  ASSUME LineInv, NEW bad \in SUBSET FloodHeld, flood_finish(bad), UNCHANGED <<brk, break_timer, ctx>>
  PROVE  LineInv' /\ (ResetHeldByFlood => ResetHeldByFlood')
<1>1. /\ flood' = NoFlood /\ flood_timer' = "off" /\ flood_clock' = "over"
      /\ ReleaseLines({}, FloodHeld, bad)
  BY DEF flood_finish
<1>2. /\ lines' \in [Pins -> Levels]
      /\ in_reset' \subseteq Pins
      /\ stuck' \subseteq Pins
      /\ lines'["break"] = "set" => lines["break"] = "set" /\ ("break" \in stuck => "break" \in stuck')
      /\ ResetHeldByFlood => in_reset' \subseteq stuck'
  BY <1>1, FloodRelease
<1>3. CompletedOnce' /\ PulseHasTimer' /\ BreakHeldByMachine'
  BY <1>2, PulseUntouched
<1>4. flood' \in [active: BOOLEAN, reset: BOOLEAN, pin: ModemPins \cup {"none"}, level: Levels] /\ ~flood'.active
  BY <1>1 DEF NoFlood, Levels
<1>5. LineTypeOK' /\ FloodPinKnown'
  BY <1>1, <1>2, <1>4 DEF LineInv, LineTypeOK, Timer, FloodPinKnown
<1>6. ResetHeldByFlood => ResetHeldByFlood'
  BY <1>2 DEF ResetHeldByFlood
<1> QED BY <1>3, <1>5, <1>6 DEF LineInv

\* A tick of the flood: stale, the last, or one more.
LEMMA FloodTimerSafe ==
  ASSUME LineInv, NEW usable \in BOOLEAN, handle_flood_timer(usable)
  PROVE  LineInv' /\ (ResetHeldByFlood => ResetHeldByFlood')
<1>1. UNCHANGED <<brk, break_timer, ctx>>
  BY DEF handle_flood_timer
<1>2. CASE /\ flood_timer' \in Timer
           /\ LinesUnchanged
           /\ UNCHANGED <<flood, flood_clock>>
  BY <1>1, <1>2 DEF LineInv, LineTypeOK, CompletedOnce, PulseHasTimer, BreakHeldByMachine, FloodPinKnown,
     ResetHeldByFlood, FloodHeld, LinesUnchanged
<1>3. CASE \E bad \in SUBSET FloodHeld : flood_finish(bad)
  BY <1>1, <1>3, FloodFinishSafe
<1>4. CASE /\ flood_timer' = "armed"
           /\ UNCHANGED flood_clock
           /\ \E bad \in SUBSET FloodHeld : ReleaseLines({}, FloodHeld, bad)
           /\ flood' = [flood EXCEPT !.reset = FALSE]
  <2>1. PICK bad \in SUBSET FloodHeld : ReleaseLines({}, FloodHeld, bad)
    BY <1>4
  <2>2. /\ lines' \in [Pins -> Levels]
        /\ in_reset' \subseteq Pins
        /\ stuck' \subseteq Pins
        /\ lines'["break"] = "set" => lines["break"] = "set" /\ ("break" \in stuck => "break" \in stuck')
        /\ ResetHeldByFlood => in_reset' \subseteq stuck'
    BY <2>1, FloodRelease
  <2>3. CompletedOnce' /\ PulseHasTimer' /\ BreakHeldByMachine'
    BY <1>1, <2>2, PulseUntouched
  <2>4. /\ flood' \in [active: BOOLEAN, reset: BOOLEAN, pin: ModemPins \cup {"none"}, level: Levels]
        /\ flood'.reset = FALSE
    BY <1>4 DEF LineInv, LineTypeOK
  <2>5. LineTypeOK' /\ FloodPinKnown'
    BY <1>1, <1>4, <2>2, <2>4 DEF LineInv, LineTypeOK, Timer, FloodPinKnown
  <2>6. ResetHeldByFlood => ResetHeldByFlood'
    BY <2>2 DEF ResetHeldByFlood
  <2> QED BY <2>3, <2>5, <2>6 DEF LineInv
<1>5. (IF flood_timer = "expired" THEN "off" ELSE flood_timer) \in Timer /\ "armed" \in Timer
  BY DEF LineInv, LineTypeOK, Timer
<1> QED BY <1>2, <1>3, <1>4, <1>5 DEF handle_flood_timer

\* The stop pattern matches.
LEMMA FloodFeedSafe == ASSUME LineInv, flood_feed PROVE LineInv' /\ (ResetHeldByFlood => ResetHeldByFlood')
BY FloodFinishSafe DEF flood_feed

\* Both machines are cancelled.
LEMMA CancelSafe ==
  ASSUME LineInv, CancelMachines
  PROVE  LineInv' /\ (ResetHeldByFlood => ResetHeldByFlood')
<1>1. PICK bad \in SUBSET (PulseHeld \cup FloodHeld) : ReleaseLines(PulseHeld, FloodHeld, bad)
  BY DEF CancelMachines
<1>2. PulseHeld \in SUBSET Pins /\ FloodHeld \in SUBSET ModemPins
  BY DEF LineInv, LineTypeOK, FloodPinKnown, PulseHeld, FloodHeld
<1>3. /\ lines' \in [Pins -> Levels]
      /\ in_reset' \subseteq Pins
      /\ stuck' \subseteq Pins
      /\ lines'["break"] = "set" =>
           \/ "break" \in PulseHeld /\ "break" \in stuck'
           \/ "break" \notin PulseHeld /\ lines["break"] = "set" /\ ("break" \in stuck <=> "break" \in stuck')
      /\ in_reset' \subseteq in_reset
      /\ in_reset' \subseteq (in_reset \ (PulseHeld \cup FloodHeld)) \cup stuck'
      /\ stuck \ (PulseHeld \cup FloodHeld) \subseteq stuck'
  <2> HIDE DEF PulseHeld, FloodHeld
  <2> QED BY <1>1, <1>2, ReleaseType DEF LineInv
<1>4. lines'["break"] = "set" => "break" \in stuck'
  BY <1>3 DEF LineInv, BreakHeldByMachine, PulseHeld
<1>5. ResetHeldByFlood => ResetHeldByFlood'
  BY <1>3 DEF ResetHeldByFlood
<1>6. /\ brk' \in [state: {"IDLE", "ASSERTED", "DELAY"}, pin: Pins,
                   followup: BOOLEAN, delay: BOOLEAN, done: Actors \cup {NoActor}]
      /\ break_timer' \in Timer
      /\ ctx' \in [Actors -> Int]
      /\ CompletedOnce' /\ PulseHasTimer'
  <2>1. CASE brk.state = "IDLE"
    <3>1. brk' = brk /\ break_timer' = break_timer /\ ctx' = ctx
      BY <2>1 DEF CancelMachines
    <3> QED BY <3>1 DEF LineInv, LineTypeOK, CompletedOnce, PulseHasTimer
  <2>2. CASE brk.state # "IDLE"
    <3>1. break_complete
      BY <2>2 DEF CancelMachines
    <3>2. brk' = NoPulse /\ break_timer' = "off" /\ ctx' \in [Actors -> Int] /\ CompletedOnce'
      BY <2>2, <3>1, Completed DEF LineInv
    <3> QED BY <3>2, NoPulseType DEF Timer, PulseHasTimer
  <2> QED BY <2>1, <2>2
<1>7. /\ flood' \in [active: BOOLEAN, reset: BOOLEAN, pin: ModemPins \cup {"none"}, level: Levels]
      /\ flood_timer' \in Timer
      /\ flood_clock' \in {"hold", "running", "over"}
      /\ FloodPinKnown'
  <2>1. CASE flood.active
    <3>1. flood' = NoFlood /\ flood_timer' = "off" /\ flood_clock' = "over"
      BY <2>1 DEF CancelMachines
    <3> QED BY <3>1 DEF NoFlood, Levels, Timer, FloodPinKnown
  <2>2. CASE ~flood.active
    <3>1. flood' = flood /\ flood_timer' = flood_timer /\ flood_clock' = flood_clock
      BY <2>2 DEF CancelMachines
    <3> QED BY <3>1 DEF LineInv, LineTypeOK, FloodPinKnown
  <2> QED BY <2>1, <2>2
<1>8. LineTypeOK' /\ BreakHeldByMachine'
  BY <1>3, <1>4, <1>6, <1>7 DEF LineTypeOK, BreakHeldByMachine
<1> QED BY <1>5, <1>6, <1>7, <1>8 DEF LineInv

\* Nothing happens, or the clock moves.
LEMMA LineClockSafe ==
  ASSUME LineInv,
         UNCHANGED lineVars \/ BreakTimerExpires \/ FloodTimerExpires \/ FloodClockAdvances
  PROVE  LineInv' /\ (ResetHeldByFlood => ResetHeldByFlood')
<1> USE DEF LineInv, LineTypeOK, CompletedOnce, PulseHasTimer, BreakHeldByMachine, FloodPinKnown,
        ResetHeldByFlood, FloodHeld
<1>1. CASE UNCHANGED lineVars
  BY <1>1 DEF lineVars
<1>2. CASE BreakTimerExpires
  BY <1>2 DEF BreakTimerExpires, Timer
<1>3. CASE FloodTimerExpires
  BY <1>3 DEF FloodTimerExpires, Timer
<1>4. CASE FloodClockAdvances
  BY <1>4 DEF FloodClockAdvances
<1> QED BY <1>1, <1>2, <1>3, <1>4

\* The invariants of the two machines are inductive.
THEOREM LineStepSafe ==
  ASSUME LineInv, LineStep
  PROVE  LineInv' /\ (ResetHeldByFlood => ResetHeldByFlood')
BY ScheduleBreakSafe, ScheduleResetSafe, BreakTimerSafe, DrivePinSafe, StartFloodSafe, FloodTimerSafe,
   FloodFeedSafe, CancelSafe, LineClockSafe DEF LineStep

(***************************************************************************)
(* The broker.                                                             *)
(***************************************************************************)

\* The loop's own variables.
LoopTypeOK ==
  /\ BootTypeOK
  /\ pc \in {"wait", "reconnect", "deadline", "events", "stopping", "cleanup", "destroyed"}
  /\ batch \subseteq Tags
  /\ link_ev \subseteq {"IN", "OUT", "HUP"}
  /\ cur \in Actors \cup {NoActor}
  /\ stopped \in BOOLEAN
  /\ live \subseteq Clients
  /\ takeover_client \in Clients \cup {NoActor}
  /\ chunks \in 0..MaxChunks

\* Only a connected client's messages are being handled: this is what makes
\* TakeoverIsLive inductive.
CurIsLive == pc # "destroyed" => cur \in live \cup Sinks \cup {NoActor}

\* While the sinks are being stopped no pulse is left: the timer may be closed.
IdleOnceLeft == pc = "stopping" => brk.state = "IDLE"

\* The inductive invariant. Shutdown closes the descriptor and leaves the
\* flags, and forgets a flood: FlagsMatchFd and ResetHeldByFlood end there.
IInv ==
  /\ LinkTypeOK /\ SuspendOwnsWire /\ BackoffNeverZero /\ BackoffKept
  /\ LinkFlagsTrue
  /\ LineInv
  /\ ResetReleased
  /\ LoopTypeOK
  /\ CurIsLive
  /\ TakeoverIsLive
  /\ IdleOnceLeft

\* Outside shutdown the link's part of IInv is LinkInv.
LEMMA LinkPart ==
  ASSUME pc # "destroyed"
  PROVE  LinkTypeOK /\ SuspendOwnsWire /\ BackoffNeverZero /\ BackoffKept /\ LinkFlagsTrue <=> LinkInv
BY DEF LinkFlagsTrue, LinkInv

(***************************************************************************)
(* The link's part of a step.                                              *)
(***************************************************************************)

\* The actions of a client or the sink: which of them touch the link.
LEMMA ActorLinkStep == ASSUME NEW a \in Actors, ActorStep(a) PROVE LinkStep /\ pc' = pc
<1>1. CASE ActorDone(a)
  BY <1>1 DEF ActorDone, Handling, LinkStep
<1>2. CASE handle_takeover(a)
  BY <1>2 DEF handle_takeover, Handling, LinkStep
<1>3. CASE handle_release(a)
  BY <1>3 DEF handle_release, Handling, LinkStep
<1>4. CASE \E followup, delay \in BOOLEAN : RequestBreak(a, followup, delay)
  BY <1>4 DEF RequestBreak, Handling, LinkStep
<1>5. CASE \E pin \in PulsePins \cap ModemPins : RequestReset(a, pin)
  BY <1>5 DEF RequestReset, Handling, LinkStep
<1>6. CASE \E pin \in PulsePins \cap ModemPins, level \in Levels : handle_pin_control(a, pin, level)
  BY <1>6 DEF handle_pin_control, Handling, LinkStep
<1>7. CASE \E pin \in FloodPins, level \in Levels : handle_interrupt_autoboot(a, pin, level)
  BY <1>7 DEF handle_interrupt_autoboot, Handling, LinkStep
<1>8. CASE handle_suspend(a)
  BY <1>8 DEF handle_suspend, Handling, LinkStep
<1>9. CASE handle_resume(a)
  BY <1>9 DEF handle_resume, Handling, LinkStep
<1>10. CASE Hangup(a)
  BY <1>10 DEF Hangup, remove_client, Handling, LinkStep
<1> QED BY <1>1, <1>2, <1>3, <1>4, <1>5, <1>6, <1>7, <1>8, <1>9, <1>10 DEF ActorStep

\* The environment's steps.
LEMMA EnvLinkStep == ASSUME Env PROVE LinkStep /\ pc' = pc
<1>1. CASE DeviceSends
  BY <1>1 DEF DeviceSends, LinkStep, loopVars
<1>2. CASE LinkEnv
  BY <1>2 DEF LinkEnv, LinkStep, loopVars
<1>3. CASE LineEnv
  BY <1>3 DEF LineEnv, LinkStep, loopVars
<1>4. CASE StallEnv
  BY <1>4 DEF StallEnv, LinkStep, loopVars
<1> QED BY <1>1, <1>2, <1>3, <1>4 DEF Env

\* The loop's steps, but for the last one.
LEMMA LoopLinkStep == ASSUME LoopStep, ~sm_broker_destroy PROVE LinkStep /\ pc # "destroyed"
<1>1. CASE EpollWait
  BY <1>1 DEF EpollWait, LinkStep
<1>2. CASE CheckReconnect
  BY <1>2 DEF CheckReconnect, LinkStep, ReconnectWanted
<1>3. CASE CheckDeadline
  BY <1>3 DEF CheckDeadline, LinkStep
<1>4. CASE OnBreakTimer
  BY <1>4 DEF OnBreakTimer, Take, LinkStep
<1>5. CASE OnFloodTimer
  BY <1>5 DEF OnFloodTimer, Take, LinkStep
<1>6. CASE OnStallTimer
  BY <1>6 DEF OnStallTimer, Take, LinkStep
<1>7. CASE OnLinkConnecting
  BY <1>7 DEF OnLinkConnecting, Take, LinkStep
<1>8. CASE OnLinkData
  <2>1. LinkRead /\ pc = "events"
    BY <1>8 DEF OnLinkData, Take, LinkRead
  <2> QED BY <2>1 DEF LinkStep
<1>9. CASE OnLinkLost
  BY <1>9 DEF OnLinkLost, Take, LinkStep
<1>10. CASE OnLinkStale
  BY <1>10 DEF OnLinkStale, Take, LinkStep
<1>11. CASE \E a \in Actors : OnActor(a)
  BY <1>11 DEF OnActor, Take, LinkStep
<1>12. CASE EndTurn
  BY <1>12 DEF EndTurn, LinkStep
<1>13. CASE LeaveLoop
  BY <1>13 DEF LeaveLoop, LinkStep
<1> QED
  BY <1>1, <1>2, <1>3, <1>4, <1>5, <1>6, <1>7, <1>8, <1>9, <1>10, <1>11, <1>12, <1>13 DEF LoopStep

\* A step of the broker is a step of the link, or destroys the broker.
LEMMA LinkOf ==
  ASSUME [Next]_vars
  PROVE  \/ LinkStep /\ (pc' = "destroyed" => pc = "destroyed")
         \/ sm_broker_destroy
<1>1. CASE LoopStep /\ ~sm_broker_destroy
  <2>1. LinkStep
    BY <1>1, LoopLinkStep
  <2>2. pc' # "destroyed"
    BY <1>1 DEF LoopStep, EpollWait, CheckReconnect, CheckDeadline, OnBreakTimer, OnFloodTimer,
       OnStallTimer, OnLinkConnecting, OnLinkData, OnLinkLost, OnLinkStale, OnActor, Take, EndTurn, LeaveLoop
  <2> QED BY <2>1, <2>2
<1>2. CASE \E a \in Actors : ActorStep(a)
  BY <1>2, ActorLinkStep
<1>3. CASE \E c \in Clients : DropClient(c)
  BY <1>3 DEF DropClient, remove_client, loopVars, LinkStep
<1>4. CASE sm_broker_stop
  BY <1>4 DEF sm_broker_stop, LinkStep
<1>5. CASE Env
  BY <1>5, EnvLinkStep
<1>6. CASE UNCHANGED vars
  BY <1>6 DEF vars, loopVars, LinkStep
<1>7. CASE RunCleanup
  BY <1>7 DEF RunCleanup, LinkStep
<1> QED BY <1>1, <1>2, <1>3, <1>4, <1>5, <1>6, <1>7 DEF Next, Destroyed

\* A destroyed broker does nothing more; sm_broker_stop may still be called.
LEMMA DestroyedStays ==
  ASSUME [Next]_vars, pc = "destroyed"
  PROVE  /\ UNCHANGED <<pc, batch, link_ev, cur, clientVars, chunks, linkVars, lineVars, bootVars>>
         /\ stopped' \in {stopped, TRUE}
<1>1. ~LoopStep
  BY DEF LoopStep, EpollWait, CheckReconnect, CheckDeadline, OnBreakTimer, OnFloodTimer, OnStallTimer,
     OnLinkConnecting, OnLinkData, OnLinkLost, OnLinkStale, OnActor, Take, EndTurn, LeaveLoop, sm_broker_destroy
<1>2. \A a \in Actors : ~ActorStep(a)
  BY DEF ActorStep, ActorDone, handle_takeover, handle_release, RequestBreak, RequestReset,
     handle_pin_control, handle_interrupt_autoboot, handle_suspend, handle_resume, Hangup, Handling
<1>3. (\A c \in Clients : ~DropClient(c)) /\ ~Env /\ ~RunCleanup
  BY DEF DropClient, Env, Running, RunCleanup
<1>4. CASE sm_broker_stop
  BY <1>4 DEF sm_broker_stop
<1>5. CASE UNCHANGED vars
  BY <1>5 DEF vars, loopVars
<1> QED BY <1>1, <1>2, <1>3, <1>4, <1>5 DEF Next, Destroyed

\* The link's part of IInv is preserved.
LEMMA LinkPreserved ==
  ASSUME IInv, [Next]_vars
  PROVE  (LinkTypeOK /\ SuspendOwnsWire /\ BackoffNeverZero /\ BackoffKept /\ LinkFlagsTrue)'
<1>1. CASE pc = "destroyed"
  <2>1. UNCHANGED <<pc, linkVars>>
    BY <1>1, DestroyedStays
  <2> QED
    BY <2>1 DEF IInv, LinkTypeOK, SuspendOwnsWire, BackoffNeverZero, BackoffKept, LinkFlagsTrue, FlagsMatchFd,
       LinkUsable, linkVars
<1>2. CASE pc # "destroyed" /\ sm_broker_destroy
  BY <1>2 DEF IInv, LinkTypeOK, SuspendOwnsWire, BackoffNeverZero, BackoffKept, LinkFlagsTrue, sm_broker_destroy,
     CloseFd
<1>3. CASE pc # "destroyed" /\ ~sm_broker_destroy
  <2>1. LinkStep
    BY <1>3, LinkOf
  <2>2. LinkInv
    BY <1>3, LinkPart DEF IInv
  <2>3. LinkInv'
    BY <2>1, <2>2, LinkStepSafe
  <2> QED BY <2>3 DEF LinkInv, LinkFlagsTrue
<1> QED BY <1>1, <1>2, <1>3

(***************************************************************************)
(* The lines' part of a step.                                              *)
(***************************************************************************)

\* The requests drive the lines they name.
LEMMA ActorLineStep == ASSUME NEW a \in Actors, ActorStep(a) PROVE LineStep
<1>1. CASE ActorDone(a) \/ handle_takeover(a) \/ handle_release(a) \/ handle_resume(a) \/ Hangup(a)
  BY <1>1 DEF ActorDone, handle_takeover, handle_release, handle_resume, Hangup, remove_client, LineStep
<1>2. CASE \E followup, delay \in BOOLEAN : RequestBreak(a, followup, delay)
  BY <1>2 DEF RequestBreak, LineStep
<1>3. CASE \E pin \in PulsePins \cap ModemPins : RequestReset(a, pin)
  BY <1>3 DEF RequestReset, LineStep
<1>4. CASE \E pin \in PulsePins \cap ModemPins, level \in Levels : handle_pin_control(a, pin, level)
  BY <1>4 DEF handle_pin_control, LineStep
<1>5. CASE \E pin \in FloodPins, level \in Levels : handle_interrupt_autoboot(a, pin, level)
  BY <1>5, PinsAssumption DEF handle_interrupt_autoboot, LineStep
<1>6. CASE handle_suspend(a)
  BY <1>6 DEF handle_suspend, LineStep
<1> QED BY <1>1, <1>2, <1>3, <1>4, <1>5, <1>6 DEF ActorStep

\* A step of the broker is a step of the line machines, or leaves the loop.
LEMMA LinesOf == ASSUME [Next]_vars PROVE LineStep \/ LeaveLoop \/ RunCleanup
<1>1. CASE LoopStep
  <2>1. LinkUsable \in BOOLEAN
    BY DEF LinkUsable
  <2>2. CASE EpollWait \/ CheckReconnect \/ CheckDeadline \/ EndTurn
    BY <2>2 DEF EpollWait, CheckReconnect, CheckDeadline, EndTurn, LineStep
  <2>3. CASE OnBreakTimer
    BY <2>3 DEF OnBreakTimer, LineStep
  <2>4. CASE OnFloodTimer
    BY <2>1, <2>4 DEF OnFloodTimer, LineStep
  <2>5. CASE OnStallTimer \/ OnLinkConnecting \/ OnLinkStale \/ \E a \in Actors : OnActor(a)
    BY <2>5 DEF OnStallTimer, OnLinkConnecting, OnLinkStale, OnActor, LineStep
  <2>6. CASE OnLinkData
    BY <2>6 DEF OnLinkData, LineStep
  <2>7. CASE OnLinkLost \/ sm_broker_destroy
    BY <2>7 DEF OnLinkLost, sm_broker_destroy, LineStep
  <2> QED BY <1>1, <2>2, <2>3, <2>4, <2>5, <2>6, <2>7 DEF LoopStep
<1>2. CASE \E a \in Actors : ActorStep(a)
  BY <1>2, ActorLineStep
<1>3. CASE (\E c \in Clients : DropClient(c)) \/ sm_broker_stop
  BY <1>3 DEF DropClient, remove_client, sm_broker_stop, LineStep
<1>4. CASE Env
  BY <1>4 DEF Env, DeviceSends, LinkEnv, LineEnv, StallEnv, LineStep
<1>5. CASE UNCHANGED vars
  BY <1>5 DEF vars, LineStep
<1> QED BY <1>1, <1>2, <1>3, <1>4, <1>5 DEF Next, Destroyed

\* Leaving the loop cancels the pulse and leaves the flood as it is.
LEMMA LeaveLines == ASSUME LineInv, LeaveLoop PROVE LineInv' /\ brk'.state = "IDLE"
<1>1. flood' = flood /\ flood_timer' = flood_timer /\ flood_clock' = flood_clock
  BY DEF LeaveLoop
<1>2. FloodPinKnown'
  BY <1>1 DEF LineInv, FloodPinKnown
<1>3. CASE brk.state = "IDLE"
  <2>1. LinesUnchanged /\ brk' = brk /\ ctx' = ctx /\ break_timer' = break_timer
    BY <1>3 DEF LeaveLoop
  <2>2. LineTypeOK'
    BY <1>1, <2>1 DEF LineInv, LineTypeOK, LinesUnchanged
  <2>3. CompletedOnce' /\ BreakHeldByMachine' /\ PulseHasTimer'
    BY <1>3, <2>1 DEF LineInv, CompletedOnce, BreakHeldByMachine, PulseHasTimer, LinesUnchanged
  <2> QED BY <1>2, <1>3, <2>1, <2>2, <2>3 DEF LineInv
<1>4. CASE brk.state # "IDLE"
  <2>1. break_complete /\ \E bad \in SUBSET PulseHeld : ReleaseLines(PulseHeld, {}, bad)
    BY <1>4 DEF LeaveLoop
  <2>2. PICK bad \in SUBSET PulseHeld : ReleaseLines(PulseHeld, {}, bad)
    BY <2>1
  <2>3. PulseHeld \in SUBSET Pins /\ {} \in SUBSET ModemPins /\ bad \in SUBSET (PulseHeld \cup {})
    BY DEF LineInv, LineTypeOK, PulseHeld
  <2>4. /\ lines' \in [Pins -> Levels]
        /\ in_reset' \subseteq Pins
        /\ stuck' \subseteq Pins
        /\ lines'["break"] = "set" =>
             \/ "break" \in PulseHeld /\ "break" \in stuck'
             \/ "break" \notin PulseHeld /\ lines["break"] = "set" /\ ("break" \in stuck <=> "break" \in stuck')
        /\ in_reset' \subseteq in_reset
        /\ in_reset' \subseteq (in_reset \ (PulseHeld \cup {})) \cup stuck'
        /\ stuck \ (PulseHeld \cup {}) \subseteq stuck'
    <3> HIDE DEF PulseHeld
    <3> QED BY <2>2, <2>3, ReleaseType DEF LineInv
  <2>5. lines'["break"] = "set" => "break" \in stuck'
    BY <2>4 DEF LineInv, BreakHeldByMachine, PulseHeld
  <2>6. brk' = NoPulse /\ break_timer' = "off" /\ ctx' \in [Actors -> Int] /\ CompletedOnce'
    BY <1>4, <2>1, Completed DEF LineInv
  <2>7. LineTypeOK'
    BY <1>1, <2>4, <2>6, NoPulseType DEF LineInv, LineTypeOK, Timer
  <2>8. BreakHeldByMachine' /\ PulseHasTimer' /\ brk'.state = "IDLE"
    BY <2>5, <2>6, NoPulseType DEF BreakHeldByMachine, PulseHasTimer
  <2> QED BY <1>2, <2>6, <2>7, <2>8 DEF LineInv
<1> QED BY <1>3, <1>4

\* With the pulse gone the timers are closed and the flood is forgotten.
LEMMA CleanupLines == ASSUME LineInv, brk.state = "IDLE", RunCleanup PROVE LineInv'
<1>1. /\ flood' = [flood EXCEPT !.active = FALSE]
      /\ flood_timer' = "off" /\ flood_clock' = "over" /\ break_timer' = "off"
      /\ LinesUnchanged /\ brk' = brk /\ ctx' = ctx
  BY DEF RunCleanup
<1>2. flood' \in [active: BOOLEAN, reset: BOOLEAN, pin: ModemPins \cup {"none"}, level: Levels] /\ ~flood'.active
  BY <1>1 DEF LineInv, LineTypeOK
<1>3. LineTypeOK'
  BY <1>1, <1>2 DEF LineInv, LineTypeOK, LinesUnchanged, Timer
<1>4. CompletedOnce' /\ BreakHeldByMachine' /\ PulseHasTimer' /\ FloodPinKnown'
  BY <1>1, <1>2 DEF LineInv, CompletedOnce, BreakHeldByMachine, PulseHasTimer, FloodPinKnown, LinesUnchanged
<1> QED BY <1>3, <1>4 DEF LineInv

\* While the sinks are being stopped nothing but the end of that moves.
LEMMA StoppingStays ==
  ASSUME [Next]_vars, pc = "stopping"
  PROVE  RunCleanup \/ UNCHANGED <<pc, brk>>
<1>1. ~LoopStep
  BY DEF LoopStep, EpollWait, CheckReconnect, CheckDeadline, OnBreakTimer, OnFloodTimer, OnStallTimer,
     OnLinkConnecting, OnLinkData, OnLinkLost, OnLinkStale, OnActor, Take, EndTurn, LeaveLoop, sm_broker_destroy
<1>2. \A a \in Actors : ~ActorStep(a)
  BY DEF ActorStep, ActorDone, handle_takeover, handle_release, RequestBreak, RequestReset,
     handle_pin_control, handle_interrupt_autoboot, handle_suspend, handle_resume, Hangup, Handling
<1>3. (\A c \in Clients : ~DropClient(c)) /\ ~Env
  BY DEF DropClient, Env, Running
<1>4. CASE sm_broker_stop
  BY <1>4 DEF sm_broker_stop, lineVars
<1>5. CASE UNCHANGED vars
  BY <1>5 DEF vars, loopVars, lineVars
<1> QED BY <1>1, <1>2, <1>3, <1>4, <1>5 DEF Next, Destroyed

\* Only by leaving the loop does the broker come to stop its sinks.
LEMMA StoppingBefore == ASSUME [Next]_vars, pc' = "stopping" PROVE pc = "stopping" \/ LeaveLoop
<1>1. CASE LoopStep
  BY <1>1 DEF LoopStep, EpollWait, CheckReconnect, CheckDeadline, OnBreakTimer, OnFloodTimer,
     OnStallTimer, OnLinkConnecting, OnLinkData, OnLinkLost, OnLinkStale, OnActor, Take, EndTurn, sm_broker_destroy
<1>2. CASE \E a \in Actors : ActorStep(a)
  BY <1>2, ActorLinkStep
<1>3. CASE (\E c \in Clients : DropClient(c)) \/ sm_broker_stop \/ RunCleanup \/ UNCHANGED vars
  BY <1>3 DEF DropClient, sm_broker_stop, RunCleanup, vars, loopVars
<1>4. CASE Env
  BY <1>4, EnvLinkStep
<1> QED BY <1>1, <1>2, <1>3, <1>4 DEF Next, Destroyed

\* The loop, once left, is not entered again.
LEMMA RunningBefore == ASSUME [Next]_vars, Running' PROVE Running /\ ~LeaveLoop /\ ~RunCleanup
<1>1. CASE pc = "destroyed"
  BY <1>1, DestroyedStays DEF Running
<1>2. CASE pc = "cleanup"
  <2>1. CASE LoopStep
    <3>1. sm_broker_destroy
      BY <1>2, <2>1 DEF LoopStep, EpollWait, CheckReconnect, CheckDeadline, OnBreakTimer, OnFloodTimer,
         OnStallTimer, OnLinkConnecting, OnLinkData, OnLinkLost, OnLinkStale, OnActor, Take, EndTurn, LeaveLoop
    <3> QED BY <3>1 DEF sm_broker_destroy, Running
  <2>2. CASE \E a \in Actors : ActorStep(a)
    BY <1>2, <2>2, ActorLinkStep DEF Running
  <2>3. CASE (\E c \in Clients : DropClient(c)) \/ Env \/ RunCleanup
    BY <1>2, <2>3 DEF DropClient, Env, Running, RunCleanup
  <2>4. CASE sm_broker_stop \/ UNCHANGED vars
    BY <1>2, <2>4 DEF sm_broker_stop, vars, loopVars, Running
  <2> QED BY <2>1, <2>2, <2>3, <2>4 DEF Next, Destroyed
<1>3. ~LeaveLoop /\ ~RunCleanup
  BY DEF LeaveLoop, RunCleanup, Running
<1>4. CASE pc = "stopping"
  BY <1>3, <1>4, StoppingStays DEF Running
<1> QED BY <1>1, <1>2, <1>3, <1>4 DEF Running

\* The lines' part of IInv is preserved.
LEMMA LinePreserved == ASSUME IInv, [Next]_vars PROVE LineInv' /\ ResetReleased' /\ IdleOnceLeft'
<1>1. LineInv
  BY DEF IInv
<1>2. CASE LeaveLoop \/ RunCleanup
  <2>1. ~Running' /\ (RunCleanup => pc' # "stopping" /\ brk.state = "IDLE")
    BY <1>2 DEF LeaveLoop, RunCleanup, Running, IInv, IdleOnceLeft
  <2> QED BY <1>1, <1>2, <2>1, LeaveLines, CleanupLines DEF ResetReleased, IdleOnceLeft
<1>3. CASE LineStep
  <2>1. LineInv' /\ (ResetHeldByFlood => ResetHeldByFlood')
    BY <1>1, <1>3, LineStepSafe
  <2>2. Running' => Running
    BY RunningBefore
  <2>3. IdleOnceLeft'
    <3>1. CASE LeaveLoop \/ RunCleanup
      BY <1>2, <3>1
    <3>2. CASE ~LeaveLoop /\ ~RunCleanup
      BY <3>2, StoppingBefore, StoppingStays DEF IInv, IdleOnceLeft
    <3> QED BY <3>1, <3>2
  <2> QED BY <2>1, <2>2, <2>3 DEF IInv, ResetReleased
<1> QED BY <1>2, <1>3, LinesOf

(***************************************************************************)
(* The boot tracker's and the loop's part of a step.                       *)
(***************************************************************************)

\* What a step of the broker may do to the boot tracker.
BootStep ==
  \/ UNCHANGED bootVars
  \/ BootRestart
  \/ stall_disarm /\ UNCHANGED <<reached, stall_pushes>>
  \/ stall_disarm /\ \E hits \in SUBSET Stages, fresh \in BOOLEAN : Advance(hits, fresh)
  \/ \E hits \in SUBSET Stages, fresh \in BOOLEAN : sm_boot_feed(hits, fresh)
  \/ handle_stall_timer(LinkUsable)
  \/ StallTimerExpires
  \/ stall_timer' = "off" /\ UNCHANGED <<reached, stall_notified, stall_pushes>>

\* The tracker keeps its types.
LEMMA BootTypePreserved == ASSUME BootTypeOK, BootStep PROVE BootTypeOK'
<1>1. CASE UNCHANGED bootVars \/ BootRestart \/ (stall_disarm /\ UNCHANGED <<reached, stall_pushes>>)
           \/ StallTimerExpires \/ (stall_timer' = "off" /\ UNCHANGED <<reached, stall_notified, stall_pushes>>)
  <2>1. CASE UNCHANGED bootVars
    BY <2>1 DEF BootTypeOK, bootVars
  <2>2. CASE BootRestart
    BY <2>2 DEF BootTypeOK, BootRestart, stall_disarm
  <2>3. CASE stall_disarm /\ UNCHANGED <<reached, stall_pushes>>
    BY <2>3 DEF BootTypeOK, stall_disarm
  <2>4. CASE StallTimerExpires
    BY <2>4 DEF BootTypeOK, StallTimerExpires
  <2>5. CASE stall_timer' = "off" /\ UNCHANGED <<reached, stall_notified, stall_pushes>>
    BY <2>5 DEF BootTypeOK
  <2> QED BY <1>1, <2>1, <2>2, <2>3, <2>4, <2>5
<1>2. ASSUME NEW hits \in SUBSET Stages, NEW fresh \in BOOLEAN, Advance(hits, fresh)
      PROVE  reached' \subseteq Stages /\ stall_pushes' \in Nat
  BY <1>2 DEF BootTypeOK, Advance, Kept
<1>3. CASE stall_disarm /\ \E hits \in SUBSET Stages, fresh \in BOOLEAN : Advance(hits, fresh)
  BY <1>2, <1>3 DEF BootTypeOK, stall_disarm
<1>4. CASE \E hits \in SUBSET Stages, fresh \in BOOLEAN : sm_boot_feed(hits, fresh)
  <2>1. PICK hits \in SUBSET Stages, fresh \in BOOLEAN : sm_boot_feed(hits, fresh)
    BY <1>4
  <2>2. reached' \subseteq Stages /\ stall_pushes' \in Nat
    BY <1>2, <2>1 DEF sm_boot_feed
  <2>3. stall_timer' \in {"off", "armed", "expired"} /\ stall_notified' \in BOOLEAN
    BY <2>1 DEF sm_boot_feed, BootTypeOK
  <2> QED BY <2>2, <2>3 DEF BootTypeOK
<1>5. CASE handle_stall_timer(LinkUsable)
  <2>1. reached' \subseteq Stages /\ stall_timer' \in {"off", "armed", "expired"} /\ stall_pushes' \in Nat
    BY <1>5 DEF handle_stall_timer, BootTypeOK
  <2>2. stall_notified' \in BOOLEAN
    BY <1>5 DEF handle_stall_timer
  <2> QED BY <2>1, <2>2 DEF BootTypeOK
<1> QED BY <1>1, <1>3, <1>4, <1>5 DEF BootStep

\* A step of the broker is a step of the tracker.
LEMMA BootOf == ASSUME [Next]_vars PROVE BootStep
<1>1. CASE LoopStep
  <2>1. CASE EpollWait \/ CheckDeadline \/ OnBreakTimer \/ OnFloodTimer \/ OnLinkStale \/ EndTurn
             \/ \E a \in Actors : OnActor(a)
    BY <2>1 DEF EpollWait, CheckDeadline, OnBreakTimer, OnFloodTimer, OnLinkStale, EndTurn, OnActor, BootStep
  <2>2. CASE CheckReconnect \/ OnLinkConnecting
    BY <2>2 DEF CheckReconnect, OnLinkConnecting, BootStep
  <2>3. CASE OnStallTimer
    BY <2>3 DEF OnStallTimer, BootStep
  <2>4. CASE OnLinkData
    BY <2>4 DEF OnLinkData, BootStep
  <2>5. CASE OnLinkLost
    BY <2>5 DEF OnLinkLost, BootStep
  <2>6. CASE LeaveLoop \/ sm_broker_destroy
    BY <2>6 DEF LeaveLoop, sm_broker_destroy, BootStep
  <2> QED BY <1>1, <2>1, <2>2, <2>3, <2>4, <2>5, <2>6 DEF LoopStep
<1>2. CASE \E a \in Actors : ActorStep(a)
  BY <1>2 DEF ActorStep, ActorDone, handle_takeover, handle_release, RequestBreak, RequestReset,
     handle_pin_control, handle_interrupt_autoboot, handle_suspend, handle_resume, Hangup, remove_client, BootStep
<1>3. CASE (\E c \in Clients : DropClient(c)) \/ sm_broker_stop \/ RunCleanup
  BY <1>3 DEF DropClient, remove_client, sm_broker_stop, RunCleanup, BootStep
<1>4. CASE Env
  BY <1>4 DEF Env, DeviceSends, LinkEnv, LineEnv, StallEnv, BootStep
<1>5. CASE UNCHANGED vars
  BY <1>5 DEF vars, BootStep
<1> QED BY <1>1, <1>2, <1>3, <1>4, <1>5 DEF Next, Destroyed

\* The loop's part of IInv, without the tracker.
LoopInv ==
  /\ pc \in {"wait", "reconnect", "deadline", "events", "stopping", "cleanup", "destroyed"}
  /\ batch \subseteq Tags
  /\ link_ev \subseteq {"IN", "OUT", "HUP"}
  /\ cur \in Actors \cup {NoActor}
  /\ stopped \in BOOLEAN
  /\ live \subseteq Clients
  /\ takeover_client \in Clients \cup {NoActor}
  /\ chunks \in 0..MaxChunks
  /\ CurIsLive
  /\ TakeoverIsLive

\* A client that leaves takes its takeover with it.
LEMMA RemovePreserves ==
  ASSUME LoopInv, pc # "destroyed", NEW c \in Clients, remove_client(c), cur' = NoActor,
         UNCHANGED <<pc, batch, link_ev, stopped>>
  PROVE  LoopInv'
BY DEF LoopInv, remove_client, CurIsLive, TakeoverIsLive

\* A client's messages: only the client being handled takes over.
LEMMA ActorLoopStep == ASSUME LoopInv, NEW a \in Actors, ActorStep(a) PROVE LoopInv'
<1>1. pc = "events" /\ cur = a /\ UNCHANGED <<pc, batch, link_ev, stopped>>
  BY DEF ActorStep, ActorDone, handle_takeover, handle_release, RequestBreak, RequestReset,
     handle_pin_control, handle_interrupt_autoboot, handle_suspend, handle_resume, Hangup, Handling
<1>2. CASE Hangup(a)
  <2>1. remove_client(a) /\ cur' = NoActor /\ a \in Clients
    BY <1>2 DEF Hangup, remove_client, LoopInv
  <2> QED BY <1>1, <2>1, RemovePreserves
<1>3. CASE handle_takeover(a)
  <2>1. /\ a \in Clients /\ takeover_client' = a
        /\ cur' = cur /\ live' = live /\ chunks' = chunks
    BY <1>3 DEF handle_takeover
  <2>2. a \in live
    BY <1>1, <2>1, ActorsAssumption DEF LoopInv, CurIsLive, Actors
  <2> QED BY <1>1, <2>1, <2>2 DEF LoopInv, CurIsLive, TakeoverIsLive
<1>4. CASE /\ cur' \in {cur, NoActor} /\ takeover_client' \in {takeover_client, NoActor}
           /\ live' = live /\ chunks' = chunks
  BY <1>1, <1>4 DEF LoopInv, CurIsLive, TakeoverIsLive
<1>5. \/ Hangup(a)
      \/ handle_takeover(a)
      \/ /\ cur' \in {cur, NoActor} /\ takeover_client' \in {takeover_client, NoActor}
         /\ live' = live /\ chunks' = chunks
  BY DEF ActorStep, ActorDone, handle_release, RequestBreak, RequestReset,
     handle_pin_control, handle_interrupt_autoboot, handle_suspend, handle_resume, clientVars
<1> QED BY <1>2, <1>3, <1>4, <1>5

\* The loop's part is preserved.
LEMMA LoopPreserved == ASSUME LinkTypeOK, LoopInv, [Next]_vars PROVE LoopInv'
<1> USE DEF LoopInv, CurIsLive, TakeoverIsLive
<1>1. CASE LoopStep
  <2>1. CASE EpollWait
    BY <2>1, ActorsAssumption DEF EpollWait, clientVars, Tags, Actors, ReadyTimers, LinkTypeOK
  <2>2. CASE CheckReconnect \/ CheckDeadline
    BY <2>2 DEF CheckReconnect, CheckDeadline, clientVars
  <2>3. CASE OnBreakTimer \/ OnFloodTimer \/ OnStallTimer
    BY <2>3 DEF OnBreakTimer, OnFloodTimer, OnStallTimer, Take, clientVars
  <2>4. CASE OnLinkConnecting \/ OnLinkData \/ OnLinkLost \/ OnLinkStale
    BY <2>4 DEF OnLinkConnecting, OnLinkData, OnLinkLost, OnLinkStale, Take, clientVars
  <2>5. CASE \E a \in Actors : OnActor(a)
    BY <2>5 DEF OnActor, Take, clientVars
  <2>6. CASE EndTurn \/ LeaveLoop
    BY <2>6 DEF EndTurn, LeaveLoop, clientVars
  <2>7. CASE sm_broker_destroy
    BY <2>7 DEF sm_broker_destroy
  <2> QED BY <1>1, <2>1, <2>2, <2>3, <2>4, <2>5, <2>6, <2>7 DEF LoopStep
<1>2. CASE \E a \in Actors : ActorStep(a)
  BY <1>2, ActorLoopStep
<1>3. CASE \E c \in Clients : DropClient(c)
  BY <1>3, RemovePreserves DEF DropClient, loopVars
<1>4. CASE sm_broker_stop \/ RunCleanup
  BY <1>4 DEF sm_broker_stop, RunCleanup, clientVars
<1>5. CASE Env
  <2>1. CASE DeviceSends
    <3>1. chunks' \in 0..MaxChunks
      BY <2>1, BrokerAssumption DEF DeviceSends
    <3>2. UNCHANGED <<pc, batch, link_ev, cur, stopped, live, takeover_client>>
      BY <2>1 DEF DeviceSends, loopVars, clientVars
    <3> QED BY <3>1, <3>2
  <2>2. CASE LinkEnv \/ LineEnv \/ StallEnv
    BY <2>2 DEF LinkEnv, LineEnv, StallEnv, loopVars, clientVars
  <2> QED BY <1>5, <2>1, <2>2 DEF Env
<1>6. CASE UNCHANGED vars
  BY <1>6 DEF vars, loopVars, clientVars
<1> QED BY <1>1, <1>2, <1>3, <1>4, <1>5, <1>6 DEF Next, Destroyed

(***************************************************************************)
(* The theorems.                                                           *)
(***************************************************************************)

\* IInv holds when the broker has set up.
LEMMA InitIInv == Init => IInv
<1> SUFFICES ASSUME Init PROVE IInv
  OBVIOUS
<1>1. LinkInv
  BY LinkInitInv DEF Init
<1>2. LineInv /\ ResetHeldByFlood
  BY LineInitInv DEF Init
<1>3. BootTypeOK
  BY DEF Init, BootInit, BootTypeOK
<1>4. 0 \in 0..MaxChunks
  BY BrokerAssumption
<1>5. LoopTypeOK /\ CurIsLive /\ TakeoverIsLive /\ IdleOnceLeft
  BY <1>3, <1>4 DEF Init, LoopTypeOK, CurIsLive, TakeoverIsLive, IdleOnceLeft, Tags
<1> QED BY <1>1, <1>2, <1>5 DEF IInv, LinkInv, LinkFlagsTrue, ResetReleased

\* IInv is inductive.
LEMMA NextIInv == IInv /\ [Next]_vars => IInv'
<1> SUFFICES ASSUME IInv, [Next]_vars PROVE IInv'
  OBVIOUS
<1>1. (LinkTypeOK /\ SuspendOwnsWire /\ BackoffNeverZero /\ BackoffKept /\ LinkFlagsTrue)'
  BY LinkPreserved
<1>2. LineInv' /\ ResetReleased' /\ IdleOnceLeft'
  BY LinePreserved
<1>3. BootTypeOK'
  BY BootOf, BootTypePreserved DEF IInv, LoopTypeOK
<1>4. LoopInv'
  BY LoopPreserved DEF IInv, LoopTypeOK, LoopInv
<1> QED BY <1>1, <1>2, <1>3, <1>4 DEF IInv, LoopTypeOK, LoopInv

\* Every reachable state of the broker satisfies IInv.
THEOREM InductiveInvariant == Spec => []IInv
BY InitIInv, NextIInv, PTL DEF Spec

\* The variables of the broker keep their types.
THEOREM TypeCorrect == Spec => []TypeOK
<1>1. IInv => TypeOK
  BY DEF IInv, LineInv, LoopTypeOK, TypeOK
<1> QED BY <1>1, InductiveInvariant, PTL

\* A suspended broker holds no descriptor of the device.
THEOREM SuspendSafety == Spec => []SuspendOwnsWire
<1>1. IInv => SuspendOwnsWire
  BY DEF IInv
<1> QED BY <1>1, InductiveInvariant, PTL

\* The flags the handlers test agree with the descriptor.
THEOREM FlagSafety == Spec => []LinkFlagsTrue
<1>1. IInv => LinkFlagsTrue
  BY DEF IInv
<1> QED BY <1>1, InductiveInvariant, PTL

\* A lost link never retries without a pause.
THEOREM BackoffSafety == Spec => []BackoffNeverZero
<1>1. IInv => BackoffNeverZero
  BY DEF IInv
<1> QED BY <1>1, InductiveInvariant, PTL

\* Every accepted pulse is completed exactly once.
THEOREM CompletionSafety == Spec => []CompletedOnce
<1>1. IInv => CompletedOnce
  BY DEF IInv, LineInv
<1> QED BY <1>1, InductiveInvariant, PTL

\* BREAK is given back, by a timer that a pulse in flight always has.
THEOREM BreakSafety == Spec => [](PulseHasTimer /\ BreakHeldByMachine)
<1>1. IInv => PulseHasTimer /\ BreakHeldByMachine
  BY DEF IInv, LineInv
<1> QED BY <1>1, InductiveInvariant, PTL

\* While the loop runs, no board is left in reset by a flood that has ended.
THEOREM FloodSafety == Spec => []ResetReleased
<1>1. IInv => ResetReleased
  BY DEF IInv
<1> QED BY <1>1, InductiveInvariant, PTL

\* The takeover pointer never dangles.
THEOREM TakeoverSafety == Spec => []TakeoverIsLive
<1>1. IInv => TakeoverIsLive
  BY DEF IInv
<1> QED BY <1>1, InductiveInvariant, PTL

(***************************************************************************)
(* boot_stall, on a link that opens at once. On a serial-tcp link a resume *)
(* that is still connecting keeps the tracker of the old boot.             *)
(***************************************************************************)

\* While the link is usable a push is remembered until the next advance.
StallInv ==
  /\ StallPushedOnce
  /\ pc # "destroyed" /\ LinkUsable /\ ~stall_notified => stall_pushes = 0

\* A link that is not usable becomes usable only as a new boot begins.
LEMMA UsableAgain ==
  ASSUME ~Async, [Next]_vars, LinkUsable', ~LinkUsable
  PROVE  BootRestart
<1> USE DEF LinkUsable
<1>1. pc # "destroyed"
  BY DestroyedStays DEF linkVars
<1>2. CASE LoopStep
  <2>1. CASE CheckReconnect
    BY <2>1 DEF CheckReconnect, attempt_reconnect, linkVars
  <2>2. CASE CheckDeadline
    BY <2>2 DEF CheckDeadline, link_connect_give_up, linkVars
  <2>3. CASE OnLinkConnecting
    <3>1. CASE link_connect_give_up
      BY <3>1 DEF link_connect_give_up
    <3>2. CASE UNCHANGED linkVars
      BY <3>2 DEF linkVars
    <3> QED BY <2>3, <3>1, <3>2 DEF OnLinkConnecting
  <2>4. CASE OnLinkData \/ OnLinkLost
    BY <2>4 DEF OnLinkData, OnLinkLost
  <2>5. CASE EpollWait \/ OnBreakTimer \/ OnFloodTimer \/ OnStallTimer \/ OnLinkStale \/ EndTurn
             \/ LeaveLoop \/ sm_broker_destroy \/ \E a \in Actors : OnActor(a)
    BY <2>5 DEF EpollWait, OnBreakTimer, OnFloodTimer, OnStallTimer, OnLinkStale, EndTurn, LeaveLoop,
       sm_broker_destroy, OnActor, linkVars
  <2> QED BY <1>2, <2>1, <2>2, <2>3, <2>4, <2>5 DEF LoopStep
<1>3. CASE \E a \in Actors : ActorStep(a)
  BY <1>3 DEF ActorStep, ActorDone, handle_takeover, handle_release, RequestBreak, RequestReset,
     handle_pin_control, handle_interrupt_autoboot, handle_suspend, sm_broker_do_suspend, handle_resume,
     ResumeConnecting, Hangup, remove_client, linkVars
<1>4. CASE (\E c \in Clients : DropClient(c)) \/ sm_broker_stop \/ RunCleanup
  BY <1>4 DEF DropClient, remove_client, sm_broker_stop, RunCleanup, linkVars
<1>5. CASE Env
  BY <1>5 DEF Env, DeviceSends, LinkEnv, LineEnv, StallEnv, DeviceSignals, ConnectSettles,
     ConnectDeadlinePasses, BackoffElapses, linkVars
<1>6. CASE UNCHANGED vars
  BY <1>6 DEF vars, linkVars
<1> QED BY <1>2, <1>3, <1>4, <1>5, <1>6 DEF Next, Destroyed

\* On a usable link only an advance or a new boot forgets a push: the timer
\* is disarmed by suspend, a lost link and destruction alone.
LEMMA DisarmedUnusable ==
  ASSUME LoopTypeOK, [Next]_vars, LinkUsable', LinkUsable, pc' # "destroyed"
  PROVE  \/ UNCHANGED bootVars
         \/ BootRestart
         \/ \E hits \in SUBSET Stages, fresh \in BOOLEAN : sm_boot_feed(hits, fresh)
         \/ handle_stall_timer(LinkUsable)
         \/ StallTimerExpires
         \/ stall_timer' = "off" /\ UNCHANGED <<reached, stall_notified, stall_pushes>>
<1>1. CASE LoopStep
  <2>1. CASE EpollWait \/ CheckDeadline \/ OnBreakTimer \/ OnFloodTimer \/ OnLinkStale \/ EndTurn
             \/ \E a \in Actors : OnActor(a)
    BY <2>1 DEF EpollWait, CheckDeadline, OnBreakTimer, OnFloodTimer, OnLinkStale, EndTurn, OnActor
  <2>2. CASE CheckReconnect \/ OnLinkConnecting
    BY <2>2 DEF CheckReconnect, OnLinkConnecting
  <2>3. CASE OnStallTimer
    BY <2>3 DEF OnStallTimer
  <2>4. CASE OnLinkData
    BY <2>4 DEF OnLinkData
  <2>5. CASE OnLinkLost
    BY <2>5 DEF OnLinkLost, handle_link_disconnect, LinkUsable
  <2>6. CASE LeaveLoop
    BY <2>6 DEF LeaveLoop
  <2>7. CASE sm_broker_destroy
    BY <2>7 DEF sm_broker_destroy
  <2> QED BY <1>1, <2>1, <2>2, <2>3, <2>4, <2>5, <2>6, <2>7 DEF LoopStep
<1>2. CASE \E a \in Actors : ActorStep(a)
  BY <1>2 DEF ActorStep, ActorDone, handle_takeover, handle_release, RequestBreak, RequestReset,
     handle_pin_control, handle_interrupt_autoboot, handle_suspend, sm_broker_do_suspend, handle_resume, Hangup,
     remove_client, LinkUsable
<1>3. CASE (\E c \in Clients : DropClient(c)) \/ sm_broker_stop \/ RunCleanup
  BY <1>3 DEF DropClient, remove_client, sm_broker_stop, RunCleanup
<1>4. CASE Env
  BY <1>4 DEF Env, DeviceSends, LinkEnv, LineEnv, StallEnv
<1>5. CASE UNCHANGED vars
  BY <1>5 DEF vars
<1> QED BY <1>1, <1>2, <1>3, <1>4, <1>5 DEF Next, Destroyed

\* StallInv is inductive, given the types.
LEMMA StallPreserved == ASSUME ~Async, LoopTypeOK, StallInv, [Next]_vars PROVE StallInv'
<1>1. stall_pushes \in Nat /\ stall_pushes <= 1
  BY DEF LoopTypeOK, BootTypeOK, StallInv, StallPushedOnce
<1>2. CASE pc = "destroyed"
  <2>1. pc' = pc /\ UNCHANGED bootVars
    BY <1>2, DestroyedStays
  <2> QED BY <1>1, <1>2, <2>1 DEF StallInv, StallPushedOnce, bootVars
<1>3. CASE pc # "destroyed" /\ BootRestart
  BY <1>3 DEF StallInv, StallPushedOnce, BootRestart
<1>4. CASE pc # "destroyed" /\ handle_stall_timer(LinkUsable)
  <2> DEFINE push == ~stall_notified /\ LinkUsable /\ reached # {} /\ ~sm_boot_terminal_reached(reached)
  <2>1. stall_pushes' = IF push THEN stall_pushes + 1 ELSE stall_pushes
    BY <1>4 DEF handle_stall_timer
  <2>2. stall_notified' = (stall_notified \/ push)
    BY <1>4 DEF handle_stall_timer
  <2>3. push => stall_pushes = 0 /\ stall_notified'
    BY <1>4, <2>2 DEF StallInv
  <2>4. ~push => (stall_notified' <=> stall_notified)
    BY <2>2
  <2>5. CASE push
    BY <2>1, <2>3, <2>5 DEF StallInv, StallPushedOnce
  <2>6. CASE ~push
    <3>1. stall_pushes' = stall_pushes
      BY <2>1, <2>6
    <3>2. LinkUsable' => LinkUsable \/ BootRestart
      BY UsableAgain
    <3> HIDE DEF push
    <3> QED BY <1>1, <1>3, <1>4, <2>4, <2>6, <3>1, <3>2 DEF StallInv, StallPushedOnce
  <2> QED BY <2>5, <2>6
<1>5. CASE pc # "destroyed" /\ \E hits \in SUBSET Stages, fresh \in BOOLEAN : sm_boot_feed(hits, fresh)
  <2>1. PICK hits \in SUBSET Stages, fresh \in BOOLEAN : sm_boot_feed(hits, fresh)
    BY <1>5
  <2>2. stall_pushes' \in {0, stall_pushes}
    BY <2>1 DEF sm_boot_feed, Advance
  <2>3. stall_pushes' # 0 => stall_notified' = stall_notified
    BY <2>1 DEF sm_boot_feed, Advance
  <2>4. LinkUsable' => LinkUsable \/ BootRestart
    BY UsableAgain
  <2> QED BY <1>1, <1>3, <1>5, <2>2, <2>3, <2>4 DEF StallInv, StallPushedOnce
<1>6. CASE pc # "destroyed" /\ UNCHANGED <<stall_pushes, stall_notified>>
  <2>1. LinkUsable' => LinkUsable \/ BootRestart
    BY UsableAgain
  <2> QED BY <1>1, <1>3, <1>6, <2>1 DEF StallInv, StallPushedOnce
<1>7. CASE pc # "destroyed" /\ ~LinkUsable' /\ stall_pushes' \in {0, stall_pushes}
  BY <1>1, <1>7 DEF StallInv, StallPushedOnce
<1>8. CASE pc # "destroyed" /\ pc' = "destroyed" /\ stall_pushes' \in {0, stall_pushes}
  BY <1>1, <1>8 DEF StallInv, StallPushedOnce
<1>9. \/ handle_stall_timer(LinkUsable)
      \/ stall_pushes' \in {0, stall_pushes}
  BY BootOf DEF BootStep, bootVars, BootRestart, Advance, sm_boot_feed, StallTimerExpires
<1>10. CASE pc # "destroyed" /\ LinkUsable' /\ pc' # "destroyed"
  <2>1. CASE LinkUsable
    BY <1>3, <1>4, <1>5, <1>6, <1>10, <2>1, DisarmedUnusable DEF bootVars, StallTimerExpires
  <2>2. CASE ~LinkUsable
    BY <1>3, <1>10, <2>2, UsableAgain
  <2> QED BY <2>1, <2>2
<1> QED BY <1>2, <1>4, <1>7, <1>8, <1>9, <1>10

\* On a UART or GDB link a stalled boot is reported once per stage.
THEOREM StallSafety == ASSUME ~Async PROVE Spec => []StallPushedOnce
<1>1. Init => StallInv
  BY DEF Init, BootInit, StallInv, StallPushedOnce
<1>2. IInv /\ StallInv /\ [Next]_vars => StallInv'
  BY StallPreserved DEF IInv
<1>3. StallInv => StallPushedOnce
  BY DEF StallInv
<1> QED BY <1>1, <1>2, <1>3, InductiveInvariant, PTL DEF Spec


(***************************************************************************)
(* What the clients know of the link, on a link that opens at once. On a   *)
(* serial-tcp link a resume whose acknowledgement is still pending may     *)
(* suspend the broker without a word.                                      *)
(***************************************************************************)

\* No connect is ever in flight.
KnowInv == ClientsKnowLink /\ ~link_connecting /\ fd # "connecting"

\* A step of the link tells the clients of its new state.
LEMMA LinkStepTells == ASSUME ~Async, LinkTypeOK, KnowInv, LinkStep PROVE KnowInv'
<1> USE DEF KnowInv, ClientsKnowLink, LinkUsable
<1>1. CASE sm_broker_do_suspend
  BY <1>1 DEF sm_broker_do_suspend, CloseFd
<1>2. CASE ResumeAtOnce \/ ResumeConnecting
  BY <1>2 DEF ResumeAtOnce, ResumeConnecting, link_bring_up
<1>3. CASE LinkUsable /\ ~link_connecting /\ handle_link_disconnect
  BY <1>3 DEF handle_link_disconnect, CloseFd
<1>4. CASE ~suspended /\ ConnectDone
  BY <1>4 DEF ConnectDone, link_bring_up
<1>5. CASE ReconnectWanted /\ attempt_reconnect
  <2>1. UNCHANGED <<suspended, link_disconnected, link_connecting, fd, said>>
    BY <1>5 DEF attempt_reconnect
  <2> QED BY <2>1
<1>6. CASE UNCHANGED linkVars \/ LinkRead
  BY <1>6 DEF linkVars, LinkRead
<1>7. CASE (\E bit \in {"IN", "HUP"} : DeviceSignals(bit)) \/ (\E bit \in {"OUT", "HUP"} : ConnectSettles(bit))
  BY <1>7 DEF DeviceSignals, ConnectSettles
<1>8. CASE ConnectDeadlinePasses \/ BackoffElapses
  BY <1>8 DEF ConnectDeadlinePasses, BackoffElapses
<1>9. CASE link_connecting /\ link_connect_give_up
  BY <1>9
<1> QED BY <1>1, <1>2, <1>3, <1>4, <1>5, <1>6, <1>7, <1>8, <1>9, Zenon DEF LinkStep

\* On a UART or GDB link what the clients were last told agrees with what the
\* link is, whatever is lost, suspended, resumed and retried, and in whatever
\* order a batch has its events handled (ClientsKnowLink).
THEOREM ToldSafety == ASSUME ~Async PROVE Spec => []ClientsKnowLink
<1>1. Init => KnowInv
  BY DEF Init, LinkInit, KnowInv, ClientsKnowLink, LinkUsable
<1>2. ASSUME IInv, KnowInv, [Next]_vars PROVE KnowInv'
  <2>1. CASE sm_broker_destroy
    BY <1>2, <2>1 DEF sm_broker_destroy, CloseFd, KnowInv, ClientsKnowLink, LinkUsable
  <2>2. CASE LinkStep
    BY <1>2, <2>2, LinkStepTells DEF IInv
  <2> QED BY <1>2, <2>1, <2>2, LinkOf
<1>3. KnowInv => ClientsKnowLink
  BY DEF KnowInv
<1> QED BY <1>1, <1>2, <1>3, InductiveInvariant, PTL DEF Spec
=============================================================================
