---------------------------- MODULE BootProgress ----------------------------
(***************************************************************************)
(* The boot-stage tracker of a device profile and the one-shot stall timer *)
(* that pushes a boot_stall event when a boot stops advancing. Stages are  *)
(* numbered from 1; a chunk of device output is abstracted to the stages   *)
(* whose markers it completes. Fragments of the actions of module Broker.  *)
(***************************************************************************)
EXTENDS Integers

CONSTANT LastStage  \* stages in the profile; 0 is no profile

ASSUME LastStageAssumption == LastStage \in Nat

VARIABLES
  reached,        \* stages reached (and announced) in this boot
  stall_timer,    \* the stall timerfd
  stall_notified, \* boot_stall already pushed for the current stage
  stall_pushes    \* boot_stall events broadcast since the last advance

bootVars == <<reached, stall_timer, stall_notified, stall_pushes>>

Stages == 1..LastStage

BootTypeOK ==
  /\ reached \subseteq Stages
  /\ stall_timer \in {"off", "armed", "expired"}
  /\ stall_notified \in BOOLEAN
  /\ stall_pushes \in Nat

BootInit ==
  /\ reached = {}
  /\ stall_timer = "off"
  /\ stall_notified = FALSE
  /\ stall_pushes = 0

sm_boot_terminal_reached(r) == LastStage \in r

\* stall_disarm, by suspend and by a lost link: the tracker keeps its stages.
stall_disarm ==
  /\ stall_timer' = "off"
  /\ stall_notified' = FALSE

\* A first-stage marker among fresh bytes, past that stage, is a new boot.
Kept(fresh) == IF fresh /\ \E s \in reached : s >= 2 THEN {} ELSE reached

\* The tracker and the announcements: the markers in hits are seen.
Advance(hits, fresh) ==
  /\ fresh => 1 \in hits
  /\ reached' = Kept(fresh) \cup hits
  /\ stall_pushes' = IF hits \subseteq Kept(fresh) THEN stall_pushes ELSE 0

\* Mutant: only the first advance of a boot arms the timer.
sm_boot_feed_arms_once(hits, fresh) ==
  /\ Advance(hits, fresh)
  /\ IF hits \subseteq Kept(fresh)
     THEN UNCHANGED <<stall_timer, stall_notified>>
     ELSE /\ stall_timer' = IF sm_boot_terminal_reached(reached') THEN "off"
                            ELSE IF reached = {} THEN "armed" ELSE stall_timer
          /\ stall_notified' = FALSE

\* sm_boot_feed and what process_link_chunk does of its result: an advance
\* re-arms the stall timer, the last stage disarms it.
sm_boot_feed(hits, fresh) ==
  /\ Advance(hits, fresh)
  /\ IF hits \subseteq Kept(fresh)
     THEN UNCHANGED <<stall_timer, stall_notified>>
     ELSE /\ stall_timer' = IF sm_boot_terminal_reached(reached') THEN "off" ELSE "armed"
          /\ stall_notified' = FALSE

\* sm_boot_restart and stall_disarm, when a link comes up: a fresh boot.
BootRestart ==
  /\ reached' = {}
  /\ stall_disarm
  /\ stall_pushes' = 0

\* Mutant: a stage already reported is reported again.
handle_stall_timer_again(linkUsable) ==
  LET push == linkUsable /\ reached # {} /\ ~sm_boot_terminal_reached(reached)
  IN  /\ stall_timer' = IF stall_timer = "expired" THEN "off" ELSE stall_timer
      /\ stall_notified' = (stall_notified \/ push)
      /\ stall_pushes' = IF push THEN stall_pushes + 1 ELSE stall_pushes
      /\ UNCHANGED reached

\* The stall timerfd is readable, or was when the batch was taken: the
\* result of reading it is not looked at.
handle_stall_timer(linkUsable) ==
  LET push == /\ ~stall_notified
              /\ linkUsable
              /\ reached # {}
              /\ ~sm_boot_terminal_reached(reached)
  IN  /\ stall_timer' = IF stall_timer = "expired" THEN "off" ELSE stall_timer
      /\ stall_notified' = (stall_notified \/ push)
      /\ stall_pushes' = IF push THEN stall_pushes + 1 ELSE stall_pushes
      /\ UNCHANGED reached

StallTimerExpires ==
  /\ stall_timer = "armed"
  /\ stall_timer' = "expired"
  /\ UNCHANGED <<reached, stall_notified, stall_pushes>>

\* The boot has started and has not reached its last stage.
MidBoot == reached # {} /\ ~sm_boot_terminal_reached(reached)

=============================================================================
