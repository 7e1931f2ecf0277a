---------------------------- MODULE LineControl ----------------------------
(***************************************************************************)
(* The two machines of the broker that drive the control lines of a link   *)
(* from timerfds, never blocking the event loop:                           *)
(*                                                                         *)
(*  - the deferred pulse machine (a BREAK with an optional SysRq           *)
(*    follow-up, or an RTS/DTR reset), one pulse in flight, whose          *)
(*    requester is answered by a completion callback;                      *)
(*  - the autoboot flood, which streams a key until a prompt matches or a  *)
(*    deadline passes, optionally holding the device in reset at first.    *)
(*                                                                         *)
(* The definitions are fragments of the actions of module Broker: each     *)
(* gives the new value of every variable declared here.                    *)
(***************************************************************************)
EXTENDS Integers

CONSTANTS
  Clients,    \* socket clients, all past their hello
  Sinks,      \* in-process MCP sinks (none or one)
  NoActor,    \* no client and no sink
  PulsePins,  \* pins a request of this instance pulses
  FloodPins   \* reset pins a flood of this instance may name, or "none"

Pins == {"break", "rts", "dtr"}
ModemPins == {"rts", "dtr"}
Levels == {"set", "clear"}
Actors == Clients \cup Sinks

ASSUME ActorsAssumption == NoActor \notin Actors /\ Clients \cap Sinks = {}
ASSUME PinsAssumption == PulsePins \subseteq Pins /\ FloodPins \subseteq ModemPins \cup {"none"}

VARIABLES
  brk,         \* break_state, break_pin, break_followup_len > 0, break_delay_ms > 0, requester
  break_timer, \* the pulse machine's timerfd
  flood,       \* flood_active, flood_reset_pending, the reset pin and its asserted level
  flood_timer, \* the flood's repeating timerfd
  flood_clock, \* where the flood is between its start, its reset hold and its deadline
  lines,       \* the level last commanded on each pin
  ctx,         \* completion contexts allocated and not yet freed, by requester
  in_reset,    \* pins a flood asserted and nobody has commanded since
  stuck        \* pins whose last release was refused by the driver

lineVars == <<brk, break_timer, flood, flood_timer, flood_clock, lines, ctx, in_reset, stuck>>

Timer == {"off", "armed", "expired"}

NoPulse == [state |-> "IDLE", pin |-> "break", followup |-> FALSE, delay |-> FALSE, done |-> NoActor]
NoFlood == [active |-> FALSE, reset |-> FALSE, pin |-> "none", level |-> "clear"]

LineTypeOK ==
  /\ brk \in [state: {"IDLE", "ASSERTED", "DELAY"}, pin: Pins,
              followup: BOOLEAN, delay: BOOLEAN, done: Actors \cup {NoActor}]
  /\ break_timer \in Timer
  /\ flood \in [active: BOOLEAN, reset: BOOLEAN, pin: ModemPins \cup {"none"}, level: Levels]
  /\ flood_timer \in Timer
  /\ flood_clock \in {"hold", "running", "over"}
  /\ lines \in [Pins -> Levels]
  /\ ctx \in [Actors -> Int]
  /\ in_reset \subseteq Pins
  /\ stuck \subseteq Pins

LineInit ==
  /\ brk = NoPulse
  /\ break_timer = "off"
  /\ flood = NoFlood
  /\ flood_timer = "off"
  /\ flood_clock = "over"
  /\ lines = [p \in Pins |-> "clear"]
  /\ ctx = [a \in Actors |-> 0]
  /\ in_reset = {}
  /\ stuck = {}

(***************************************************************************)
(* Driving the lines.                                                      *)
(***************************************************************************)

Opposite(level) == IF level = "set" THEN "clear" ELSE "set"

\* Mutant: a cancelled BREAK is not released.
PulseHeld_modem_only == IF brk.state = "ASSERTED" /\ brk.pin # "break" THEN {brk.pin} ELSE {}

\* The pins each machine has asserted and must release.
PulseHeld == IF brk.state = "ASSERTED" THEN {brk.pin} ELSE {}
FloodHeld == IF flood.active /\ flood.reset THEN {flood.pin} ELSE {}

\* Command the pins of `to` to its levels; the driver refuses those of `bad`.
Command(to, bad) ==
  /\ lines' = [p \in Pins |-> IF p \in DOMAIN to \ bad THEN to[p] ELSE lines[p]]
  /\ in_reset' = in_reset \ (DOMAIN to \ bad)
  /\ stuck' = (stuck \ DOMAIN to) \cup bad

\* Release what the machines hold: the pulse first, then the flood.
ReleaseLines(pulse, fld, bad) ==
  Command([p \in pulse \cup fld |-> IF p \in fld THEN Opposite(flood.level) ELSE "clear"], bad)

LinesUnchanged == UNCHANGED <<lines, in_reset, stuck>>

\* The timer fails after the pins of `off` were cleared and pin driven to
\* level: pin is taken back at once, and the driver may refuse that.
GiveUp(pin, level, off) ==
  \E kept \in SUBSET {pin} :
    /\ lines' = [p \in Pins |-> IF p \in kept THEN level
                               ELSE IF p = pin THEN Opposite(level)
                               ELSE IF p \in off THEN "clear" ELSE lines[p]]
    /\ in_reset' = (in_reset \ ({pin} \cup off)) \cup (kept \cap ModemPins)
    /\ stuck' = (stuck \ ({pin} \cup off)) \cup kept

\* The completion callback frees its context and answers the requester.
RunDone(a) == ctx' = IF a \in Actors THEN [ctx EXCEPT ![a] = @ - 1] ELSE ctx

(***************************************************************************)
(* The pulse machine.                                                      *)
(***************************************************************************)

\* Mutant: the completion callback is not run.
break_complete_unanswered ==
  /\ brk' = NoPulse
  /\ break_timer' = "off"
  /\ UNCHANGED ctx

\* break_complete: back to idle, the timer disarmed, the requester answered.
break_complete ==
  /\ brk' = NoPulse
  /\ break_timer' = "off"
  /\ RunDone(brk.done)

\* Mutant: the timer of an accepted BREAK is not armed.
sm_broker_schedule_break_unarmed(a, followup, delay) ==
  /\ brk.state = "IDLE"
  /\ Command([p \in {"break"} |-> "set"], {})
  /\ brk' = [state |-> "ASSERTED", pin |-> "break", followup |-> followup, delay |-> delay, done |-> a]
  /\ ctx' = [ctx EXCEPT ![a] = @ + 1]
  /\ UNCHANGED <<break_timer, flood, flood_timer, flood_clock>>

\* Requester a starts a BREAK, with a SysRq follow-up when followup holds; or
\* the timer cannot be made or armed.
sm_broker_schedule_break(a, followup, delay) ==
  /\ brk.state = "IDLE"
  /\ UNCHANGED <<flood, flood_timer, flood_clock>>
  /\ \/ /\ Command([p \in {"break"} |-> "set"], {})
        /\ brk' = [state |-> "ASSERTED", pin |-> "break", followup |-> followup, delay |-> delay, done |-> a]
        /\ break_timer' = "armed"
        /\ ctx' = [ctx EXCEPT ![a] = @ + 1]
     \/ /\ GiveUp("break", "set", {})
        /\ UNCHANGED <<brk, break_timer, ctx>>

\* Requester a resets the board: the other modem line cleared, pin held.
sm_broker_schedule_line_reset(a, pin) ==
  LET other == IF pin = "rts" THEN "dtr" ELSE "rts"
  IN  /\ brk.state = "IDLE"
      /\ UNCHANGED <<flood, flood_timer, flood_clock>>
      /\ \/ /\ Command([p \in {pin, other} |-> IF p = pin THEN "set" ELSE "clear"], {})
            /\ brk' = [state |-> "ASSERTED", pin |-> pin, followup |-> FALSE, delay |-> FALSE, done |-> a]
            /\ break_timer' = "armed"
            /\ ctx' = [ctx EXCEPT ![a] = @ + 1]
         \/ \* refused half-way: the other line stays cleared, pin untouched or taken back
            /\ Command([p \in {other} |-> "clear"], {}) \/ GiveUp(pin, "set", {other})
            /\ UNCHANGED <<brk, break_timer, ctx>>

\* The timerfd of the pulse machine is readable (or was, when the batch was
\* taken): release the line, then wait for the delay or finish.
handle_break_timer ==
  /\ UNCHANGED <<flood, flood_timer, flood_clock>>
  /\ \/ /\ brk.state = "ASSERTED"
        /\ \E bad \in SUBSET {brk.pin} :
             /\ ReleaseLines({brk.pin}, {}, bad)
             /\ \/ /\ bad = {} /\ brk.followup /\ brk.delay
                   /\ brk' = [brk EXCEPT !.state = "DELAY"]
                   /\ break_timer' = "armed"
                   /\ UNCHANGED ctx
                \/ break_complete  \* nothing to wait for, or the timer is not armed again
     \/ /\ brk.state = "DELAY"
        /\ break_complete
        /\ LinesUnchanged
     \/ /\ brk.state = "IDLE"  \* stale expiry after cancel
        /\ break_timer' = IF break_timer = "expired" THEN "off" ELSE break_timer
        /\ LinesUnchanged
        /\ UNCHANGED <<brk, ctx>>

(***************************************************************************)
(* The autoboot flood.                                                     *)
(***************************************************************************)

\* Start a flood, holding reset pin at level when pin is a modem line. The
\* timer may refuse to arm: then the line is released at once.
sm_broker_start_flood(pin, level) ==
  /\ ~flood.active
  /\ UNCHANGED <<brk, break_timer, ctx>>
  /\ \/ /\ flood' = [active |-> TRUE, reset |-> pin # "none", pin |-> pin, level |-> level]
        /\ flood_timer' = "armed"
        /\ flood_clock' = IF pin = "none" THEN "running" ELSE "hold"
        /\ IF pin = "none"
           THEN LinesUnchanged
           ELSE /\ lines' = [lines EXCEPT ![pin] = level]
                /\ in_reset' = in_reset \cup {pin}
                /\ stuck' = stuck \ {pin}
     \/ /\ pin # "none"
        /\ GiveUp(pin, level, {})
        /\ flood' = NoFlood
        /\ UNCHANGED <<flood_timer, flood_clock>>

\* Mutant: the flood ends with the line still asserted.
flood_finish_holding(bad) ==
  /\ flood' = NoFlood
  /\ flood_timer' = "off"
  /\ flood_clock' = "over"
  /\ LinesUnchanged

\* flood_finish: disarm, release the line if it is still held, report.
flood_finish(bad) ==
  /\ flood' = NoFlood
  /\ flood_timer' = "off"
  /\ flood_clock' = "over"
  /\ ReleaseLines({}, FloodHeld, bad)

\* Mutant: the deadline is not looked at.
handle_flood_timer_no_deadline(linkUsable) ==
  /\ UNCHANGED <<brk, break_timer, ctx>>
  /\ \/ /\ ~flood.active
        /\ flood_timer' = "off"
        /\ LinesUnchanged
        /\ UNCHANGED <<flood, flood_clock>>
     \/ /\ flood.active
        /\ ~linkUsable
        /\ \E bad \in SUBSET FloodHeld : flood_finish(bad)
     \/ /\ flood.active
        /\ linkUsable
        /\ flood_timer' = "armed"
        /\ LinesUnchanged
        /\ UNCHANGED <<flood, flood_clock>>

\* A tick of the flood timer: release the reset once the hold is over, stop
\* at the deadline or when the key cannot be written, else go on.
handle_flood_timer(linkUsable) ==
  /\ UNCHANGED <<brk, break_timer, ctx>>
  /\ \/ /\ ~flood.active
        /\ flood_timer' = IF flood_timer = "expired" THEN "off" ELSE flood_timer
        /\ LinesUnchanged
        /\ UNCHANGED <<flood, flood_clock>>
     \/ \* deadline, link suspended or down, or write_data refuses the key
        /\ flood.active
        /\ \E bad \in SUBSET FloodHeld : flood_finish(bad)
     \/ /\ flood.active
        /\ flood_clock # "over"
        /\ linkUsable
        /\ flood_timer' = "armed"
        /\ UNCHANGED flood_clock
        /\ IF flood.reset /\ flood_clock # "hold"
           THEN /\ \E bad \in SUBSET FloodHeld : ReleaseLines({}, FloodHeld, bad)
                /\ flood' = [flood EXCEPT !.reset = FALSE]
           ELSE /\ LinesUnchanged
                /\ UNCHANGED flood

\* Inbound bytes complete the stop pattern: the flood ends in the read path.
flood_feed ==
  /\ flood.active
  /\ \E bad \in SUBSET FloodHeld : flood_finish(bad)
  /\ UNCHANGED <<brk, break_timer, ctx>>

(***************************************************************************)
(* break_cancel and flood_cancel, as suspend and a lost link call them.    *)
(***************************************************************************)
CancelMachines ==
  /\ \E bad \in SUBSET (PulseHeld \cup FloodHeld) : ReleaseLines(PulseHeld, FloodHeld, bad)
  /\ IF brk.state = "IDLE" THEN UNCHANGED <<brk, break_timer, ctx>> ELSE break_complete
  /\ IF flood.active
     THEN flood' = NoFlood /\ flood_timer' = "off" /\ flood_clock' = "over"
     ELSE UNCHANGED <<flood, flood_timer, flood_clock>>

\* A client drives a modem line by hand (pin_control set, clear, toggle, pulse).
DrivePin(pin, level) ==
  /\ Command([p \in {pin} |-> level], {})
  /\ UNCHANGED <<brk, break_timer, flood, flood_timer, flood_clock, ctx>>

(***************************************************************************)
(* The clock: armed timers expire, the flood's hold and deadline pass.     *)
(***************************************************************************)
BreakTimerExpires ==
  /\ break_timer = "armed"
  /\ break_timer' = "expired"
  /\ UNCHANGED <<brk, flood, flood_timer, flood_clock, lines, ctx, in_reset, stuck>>

FloodTimerExpires ==
  /\ flood_timer = "armed"
  /\ flood_timer' = "expired"
  /\ UNCHANGED <<brk, break_timer, flood, flood_clock, lines, ctx, in_reset, stuck>>

FloodClockAdvances ==
  /\ flood_clock # "over"
  /\ flood_clock' = IF flood_clock = "hold" THEN "running" ELSE "over"
  /\ UNCHANGED <<brk, break_timer, flood, flood_timer, lines, ctx, in_reset, stuck>>

(***************************************************************************)
(* What the machines promise.                                              *)
(***************************************************************************)

\* Every accepted pulse request is completed once, whatever ends the pulse:
\* a requester's completion context exists exactly while its pulse runs, so
\* it is answered and freed once and never leaked (break_complete).
CompletedOnce ==
  \A a \in Actors : ctx[a] = IF brk.state # "IDLE" /\ brk.done = a THEN 1 ELSE 0

\* BREAK is asserted only while the pulse machine is about to release it, or
\* when the driver refused the release: nothing else may block TX for good.
BreakHeldByMachine ==
  lines["break"] = "set" => (brk.state = "ASSERTED" /\ brk.pin = "break") \/ "break" \in stuck

\* A pulse in flight always has its timer running or its expiry pending, so
\* the line is released even if every client goes away.
PulseHasTimer == brk.state # "IDLE" => break_timer # "off"

\* A board a flood holds in reset is let go: a pin a flood asserted, and
\* nobody has driven since, is still to be released by the flood, or the
\* driver refused the release (flood_finish).
ResetHeldByFlood == in_reset \subseteq FloodHeld \cup stuck

=============================================================================
