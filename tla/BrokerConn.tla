----------------------------- MODULE BrokerConn -----------------------------
(***************************************************************************)
(* The broker connection that smolmux-mcp and smolmux-gdb-mcp share        *)
(* (mcp_broker_conn.c): which of the lines a read has brought in are       *)
(* handled, which one is handed back as the answer, and which stay in      *)
(* read_buf.                                                               *)
(*                                                                         *)
(* A line is a record with a type and an id; id NoId means the message     *)
(* carries none.  Bytes of an unfinished line, and lines longer than       *)
(* SM_MCP_READ_BUF_MAX, are data and left out.                             *)
(***************************************************************************)
EXTENDS Naturals, Sequences, FiniteSetsExt

NoId == 0

\* The line that ends a read: with a wire id, the message that carries it;
\* without one, any welcome or error.
Answers(line, wire_id) ==
  /\ line.type # "output"
  /\ IF wire_id # NoId THEN line.id = wire_id
                       ELSE line.type \in {"welcome", "error"}

\* A bug kept for the checks: what is behind the answer is thrown away.
sm_broker_conn_read_discards(lines, wire_id) ==
  LET hits == {i \in DOMAIN lines : Answers(lines[i], wire_id)}
      last == IF hits = {} THEN Len(lines) ELSE Min(hits)
  IN  [taken  |-> SubSeq(lines, 1, last),
       rest   |-> <<>>,
       answer |-> IF hits = {} THEN <<>> ELSE <<lines[last]>>]

\* A bug kept for the checks: any answer to some request will do.
sm_broker_conn_read_any_id(lines, wire_id) ==
  LET hits == {i \in DOMAIN lines : lines[i].type # "output"}
      last == IF hits = {} THEN Len(lines) ELSE Min(hits)
  IN  [taken  |-> SubSeq(lines, 1, last),
       rest   |-> SubSeq(lines, last + 1, Len(lines)),
       answer |-> IF hits = {} THEN <<>> ELSE <<lines[last]>>]

\* One read of the lines in read_buf: they are handled in order up to and
\* including the first answer; the lines behind it wait for the next read.
sm_broker_conn_read(lines, wire_id) ==
  LET hits == {i \in DOMAIN lines : Answers(lines[i], wire_id)}
      last == IF hits = {} THEN Len(lines) ELSE Min(hits)
  IN  [taken  |-> SubSeq(lines, 1, last),
       rest   |-> SubSeq(lines, last + 1, Len(lines)),
       answer |-> IF hits = {} THEN <<>> ELSE <<lines[last]>>]
=============================================================================
