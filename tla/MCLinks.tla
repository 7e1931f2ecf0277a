------------------------------ MODULE MCLinks ------------------------------
(***************************************************************************)
(* Model checking Links: what clients type, with a literal 0xFF on a wire  *)
(* and a command that GDB is not given.                                    *)
(***************************************************************************)
EXTENDS Links

TypedInputs ==
  [tcp |-> {<<"IAC", "DO">>}, uart |-> {<<"IAC", "DO">>}, gdb |-> {<<"next">>, <<"shell">>}]
=============================================================================
