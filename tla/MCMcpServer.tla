----------------------------- MODULE MCMcpServer -----------------------------
(* smolmux-mcp over small bounds; every value comes from the cfg.          *)
EXTENDS McpServer
=============================================================================
