--------------------------- MODULE MCClientInput ---------------------------
(***************************************************************************)
(* Instances of ClientInput for TLC: a message has at least two bytes.     *)
(***************************************************************************)
EXTENDS ClientInput

\* The peer can send more messages than one round hands out.
ASSUME RoundsOverflow == 2 * FeedMax < MaxStream

=============================================================================
