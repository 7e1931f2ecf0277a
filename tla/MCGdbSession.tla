---------------------------- MODULE MCGdbSession ----------------------------
(* smolmux-gdb-mcp over small bounds; every value comes from the cfg.      *)
EXTENDS GdbSession
=============================================================================
