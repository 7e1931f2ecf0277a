------------------------------ MODULE MCRules ------------------------------
(***************************************************************************)
(* Model checking Rules with the code's sizes scaled down: a pattern of    *)
(* two bytes, an overlap that holds one of them, and windows that a few    *)
(* chunks overflow.                                                        *)
(***************************************************************************)
EXTENDS Rules

NameSymmetry == Permutations(Names)
=============================================================================
