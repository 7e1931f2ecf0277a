------------------------------ MODULE MCExpect ------------------------------
(***************************************************************************)
(* Instances of Expect for TLC: a table of three, two results a round.     *)
(***************************************************************************)
EXTENDS Expect

\* The table can hold more results than one collection delivers.
ASSUME CollectionsOverflow == CollectMax < MaxPending

=============================================================================
