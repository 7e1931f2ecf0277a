--------------------------- MODULE MCClientQueue ---------------------------
(***************************************************************************)
(* Instances of ClientQueue for TLC.                                       *)
(***************************************************************************)
EXTENDS ClientQueue

\* A line is shared by several queues, a queue wraps and overflows, and a
\* line that has been merged may be too long to be merged again.
ASSUME QueuesOverflow ==
  /\ Cardinality(Clients) > 1
  /\ WqCap > 1
  /\ MaxMsgs > WqCap + 1
  /\ CoalesceMax \in 3..MaxMsgs

=============================================================================
