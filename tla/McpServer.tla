------------------------------ MODULE McpServer ------------------------------
(***************************************************************************)
(* smolmux-mcp (mcp_client.c): an MCP server on standard input and output  *)
(* whose tools are scripts of broker requests, each waited for by its wire *)
(* id; it connects again when a tool needs a broker that was lost, and     *)
(* keeps read_buf and the numbering of wire ids across connections.        *)
(*                                                                         *)
(* The buffer of serial output, the last link event and the texts of       *)
(* results are data.  External: the broker, which answers a request late,  *)
(* in any order or never, and may close the connection in the middle of a  *)
(* line.  The connect and the writes have no deadline: while the broker    *)
(* neither accepts nor reads, the server stays in connect or in send.      *)
(***************************************************************************)
EXTENDS BrokerConn, SequencesExt

CONSTANTS
  Anomalies,    \* the profile has anomaly patterns to configure
  MaxCalls,     \* bound: tool calls of one behaviour
  MaxConnects,  \* bound: connections of one behaviour
  MaxNet        \* bound: lines in the socket

ASSUME McpBounds ==
  /\ Anomalies \in BOOLEAN
  /\ MaxCalls \in Nat /\ MaxConnects \in Nat \ {0} /\ MaxNet \in Nat \ {0}

VARIABLES
  pc,       \* idle, connect, hello, send, await, answered, exited
  script,   \* the steps left of the call being served
  running,  \* conn.running
  fd,       \* the connection is open on this side
  buf,      \* what read_buf holds
  next_seq, \* the next wire id
  wait_id,  \* the id of serial_reset's early listen
  cur,      \* the request awaited: its wire id and its number
  answer,   \* what the wait was handed
  told,     \* standard input closed, or a signal
  net,      \* lines in the socket, oldest first
  open,     \* the broker has the connection open
  asked,    \* requests the broker has not answered
  welcomed, \* the broker accepted this connection's hello
  stale,    \* history: this connection began with an earlier welcome in read_buf
  count     \* calls, connections and requests so far

conn == <<running, fd, buf, next_seq>>
peer == <<net, open, asked, welcomed>>
vars == <<pc, script, conn, wait_id, cur, answer, told, peer, stale, count>>

NoReq == [id |-> NoId, req |-> 0]

Line(type, r) == [type |-> type, id |-> r.id, req |-> r.req]

\* The beginning of a line whose end never came.
Cut == Line("cut", NoReq)

-----------------------------------------------------------------------------
(* The tools as scripts of requests.  must: an error or no answer ends the *)
(* tool; ask: only an error does; tell: the same, and the answer is        *)
(* awaited even if the write failed; try: nothing does; fire: no answer is *)
(* awaited; listen: the same, but its id is kept; late: the answer to that *)
(* id is awaited.                                                          *)

tool_serial_send_command == {<<"must">>}
tool_serial_read == {<<"try">>}
tool_serial_write == {<<"ask">>}
tool_serial_port_status == {<<"must">>}
tool_serial_boot_status == {<<"must">>}
tool_serial_add_autoresponder == {<<"must">>}
tool_serial_pin_control == {<<"must">>}
tool_serial_reset == {<<"must">>, <<"listen", "must", "late">>}
tool_serial_sysrq == {<<"must", "fire">>}
tool_serial_suspend == {<<"tell">>}
tool_serial_resume == {<<"tell">>}
tool_serial_wait_for == {<<"must">>}
tool_serial_output_history == {<<"must">>}
tool_serial_get_incidents == {<<"must">>}
tool_serial_add_watchdog == {<<"must">>}
tool_serial_monitor == {<<"ask", "try">>}
tool_serial_generate_report == {<<"try", "try", "try">>}

\* With a broker: the tool, or nothing where an argument is missing or the
\* tool is not allowed.
dispatch_tool ==
  {<<>>} \cup
  UNION {tool_serial_send_command, tool_serial_read, tool_serial_write,
         tool_serial_port_status, tool_serial_boot_status,
         tool_serial_add_autoresponder, tool_serial_pin_control,
         tool_serial_reset, tool_serial_sysrq, tool_serial_suspend,
         tool_serial_resume, tool_serial_wait_for, tool_serial_output_history,
         tool_serial_get_incidents, tool_serial_add_watchdog,
         tool_serial_monitor, tool_serial_generate_report}

configure_broker_anomalies == IF Anomalies THEN <<"try">> ELSE <<>>

-----------------------------------------------------------------------------
(* The call and its steps.                                                 *)

\* Serve the steps s, or answer the call if there are none.
GoOn(s) == script' = s /\ pc' = IF s = <<>> THEN "idle" ELSE "send"

\* handle_tools_call and dispatch_tool: a tool connects first when there is
\* no broker, all but serial_list_ports, which needs none.
handle_tools_call ==
  /\ pc = "idle" /\ count.calls < MaxCalls
  /\ count' = [count EXCEPT !.calls = @ + 1]
  /\ \/ GoOn(<<>>)
     \/ \E s \in dispatch_tool :
          IF fd /\ running THEN GoOn(s) ELSE script' = s /\ pc' = "connect"
  /\ UNCHANGED <<conn, wait_id, cur, answer, told, peer, stale>>

\* What the end of a step means to the tool.
StepDone(got) ==
  LET need   == Head(script)
      failed == \/ need = "must" /\ (got = <<>> \/ Head(got).type = "error")
                \/ need \in {"ask", "tell"} /\ got # <<>> /\ Head(got).type = "error"
  IN  GoOn(IF failed THEN <<>> ELSE Tail(script))

\* sm_broker_conn_request up to its wait: a new wire id and a write, which
\* blocks until the broker has read enough.  Where the broker no longer has
\* the connection the write may fail.
broker_send ==
  LET need == Head(script)
      r    == [id |-> next_seq, req |-> count.reqs + 1]
  IN  /\ pc = "send" /\ need # "late"
      /\ next_seq' = next_seq + 1
      /\ count' = [count EXCEPT !.reqs = @ + 1]
      /\ wait_id' = IF need = "listen" THEN r ELSE wait_id
      /\ \/ /\ asked' = IF open /\ fd THEN asked \cup {r} ELSE asked
            /\ IF need \in {"fire", "listen"}
                 THEN GoOn(Tail(script)) /\ UNCHANGED cur
                 ELSE cur' = r /\ pc' = "await" /\ UNCHANGED script
         \/ /\ (~open \/ ~fd) /\ need # "tell"
            /\ IF need \in {"listen", "must"} THEN GoOn(<<>>) ELSE GoOn(Tail(script))
            /\ UNCHANGED <<asked, cur>>
      /\ UNCHANGED <<running, fd, buf, answer, told, net, open, welcomed, stale>>

\* serial_reset waits for the listen it registered first.
WaitLate ==
  /\ pc = "send" /\ Head(script) = "late"
  /\ cur' = wait_id /\ wait_id' = NoReq /\ pc' = "await"
  /\ UNCHANGED <<script, conn, answer, told, peer, count, stale>>
-----------------------------------------------------------------------------
(* Reading.                                                                *)

\* What a read finds in read_buf: a line cut short by the end of an earlier
\* connection runs into the first line of this one and spoils it.
Join(old, new) ==
  IF old = <<>> \/ new = <<>> \/ Last(old) # Cut THEN old \o new
  ELSE IF Head(new) = Cut THEN old ELSE Front(old) \o Tail(new)

\* One read of k lines of the socket; an unfinished line stays behind.
read_broker(wire_id, k) ==
  LET all == Join(buf, SubSeq(net, 1, k))
      cut == all # <<>> /\ Last(all) = Cut
      r   == sm_broker_conn_read(IF cut THEN Front(all) ELSE all, wire_id)
  IN  [r EXCEPT !.rest = IF cut THEN Append(@, Cut) ELSE @]

\* Hang-ups are seen together with the last data, or only at end of file.
Hup == IF open THEN {FALSE} ELSE BOOLEAN

\* One turn of the wait: read, then act on the hang-up, even if the socket
\* holds more.
sm_broker_conn_wait ==
  /\ pc \in {"hello", "await"} /\ running /\ fd /\ net # <<>>
  /\ \E k \in 1..Len(net), hup \in Hup :
       LET r == read_broker(IF pc = "hello" THEN NoId ELSE cur.id, k)
       IN  /\ buf' = r.rest /\ answer' = r.answer
           /\ net' = SubSeq(net, k + 1, Len(net))
           /\ running' = (r.answer # <<>> \/ ~hup)
           /\ pc' = IF r.answer = <<>> THEN pc
                    ELSE IF pc = "hello" THEN "greeted" ELSE "answered"
  /\ UNCHANGED <<script, fd, next_seq, wait_id, cur, told, open, asked, welcomed, count, stale>>

\* End of file in a wait.
BrokerDisconnected ==
  /\ pc \in {"hello", "await"} /\ running /\ fd /\ ~open /\ net = <<>>
  /\ running' = FALSE
  /\ UNCHANGED <<pc, script, fd, buf, next_seq, wait_id, cur, answer, told, peer, count, stale>>

\* The answer is there; or the deadline passed or the connection ended.
Answered ==
  /\ pc = "answered"
  /\ StepDone(answer) /\ answer' = <<>> /\ cur' = NoReq
  /\ UNCHANGED <<conn, wait_id, told, peer, count, stale>>

\* A bug kept for the checks: a wait ends only with the connection.
NoAnswerInTime_forever ==
  /\ pc = "await" /\ ~running
  /\ StepDone(<<>>) /\ cur' = NoReq
  /\ UNCHANGED <<conn, wait_id, answer, told, peer, count, stale>>

NoAnswerInTime ==
  /\ pc = "await"
  /\ StepDone(<<>>) /\ cur' = NoReq
  /\ UNCHANGED <<conn, wait_id, answer, told, peer, count, stale>>

-----------------------------------------------------------------------------
(* Connecting.                                                             *)

\* This side lets go of the connection, and with it of what is unread.
Close == fd' = FALSE /\ net' = <<>> /\ open' = FALSE /\ asked' = {} /\ welcomed' = FALSE

\* The old connection is closed and a new one opened, if a broker can be
\* found; its first message is the hello.  The connect waits for room in the
\* broker's backlog.
try_connect_broker ==
  /\ pc = "connect" /\ running' = TRUE
  /\ \/ Close /\ script' = <<>> /\ pc' = "idle" /\ UNCHANGED count
     \/ /\ count.connects < MaxConnects
        /\ count' = [count EXCEPT !.connects = @ + 1]
        /\ fd' = TRUE /\ open' = TRUE /\ net' = <<>> /\ welcomed' = FALSE
        /\ asked' = {NoReq}
        /\ pc' = "hello" /\ UNCHANGED script
  /\ stale' = \E i \in DOMAIN buf : buf[i].type = "welcome"
  /\ UNCHANGED <<buf, next_seq, wait_id, cur, answer, told>>

set_offline == Close /\ running' = TRUE /\ script' = <<>> /\ pc' = "idle"

\* A bug kept for the checks: no reply to the hello counts as success.
NoReplyToHello_online ==
  /\ pc = "hello"
  /\ GoOn(configure_broker_anomalies \o script)
  /\ UNCHANGED <<conn, wait_id, cur, answer, told, peer, count, stale>>

\* No reply to the hello.
NoReplyToHello ==
  /\ pc = "hello"
  /\ set_offline
  /\ UNCHANGED <<buf, next_seq, wait_id, cur, answer, told, count, stale>>

\* The broker accepts this client, or rejects it.
HelloReply ==
  /\ pc = "greeted" /\ answer' = <<>>
  /\ IF Head(answer).type = "welcome"
       THEN GoOn(configure_broker_anomalies \o script) /\ UNCHANGED <<running, fd, peer>>
       ELSE set_offline
  /\ UNCHANGED <<buf, next_seq, wait_id, cur, told, count, stale>>

-----------------------------------------------------------------------------
(* The main loop.                                                          *)

\* Broker data while no call is served; a hang-up closes the connection and
\* the server goes on without a broker.
LoopReads ==
  /\ pc = "idle" /\ running /\ fd /\ net # <<>>
  /\ \E k \in 1..Len(net), hup \in Hup :
       /\ buf' = read_broker(NoId, k).rest
       /\ IF hup THEN Close
          ELSE net' = SubSeq(net, k + 1, Len(net)) /\ UNCHANGED <<fd, open, asked, welcomed>>
  /\ UNCHANGED <<pc, script, running, next_seq, wait_id, cur, answer, told, count, stale>>

\* End of file in the main loop: the read clears running, which is also the
\* loop's own condition.
LoopEof ==
  /\ pc = "idle" /\ running /\ fd /\ ~open /\ net = <<>>
  /\ running' = FALSE
  /\ Close \/ UNCHANGED <<fd, peer>>
  /\ UNCHANGED <<pc, script, buf, next_seq, wait_id, cur, answer, told, count, stale>>

signal_handler ==
  /\ ~told /\ pc # "exited"
  /\ told' = TRUE /\ running' = FALSE
  /\ UNCHANGED <<pc, script, fd, buf, next_seq, wait_id, cur, answer, peer, count, stale>>

LoopEnds ==
  /\ pc = "idle" /\ ~running
  /\ pc' = "exited"
  /\ UNCHANGED <<script, conn, wait_id, cur, answer, told, peer, count, stale>>

-----------------------------------------------------------------------------
(* The broker (external).                                                  *)

\* The hello is welcomed, or refused and the connection closed.
BrokerGreets ==
  /\ open /\ NoReq \in asked /\ Len(net) < MaxNet
  /\ asked' = asked \ {NoReq}
  /\ \/ net' = Append(net, Line("welcome", NoReq)) /\ welcomed' = TRUE /\ UNCHANGED open
     \/ net' = Append(net, Line("error", NoReq)) /\ open' = FALSE /\ UNCHANGED welcomed
  /\ UNCHANGED <<pc, script, conn, wait_id, cur, answer, told, count, stale>>

\* Some request is answered, not always the oldest: an expect takes its time.
BrokerReplies ==
  /\ open /\ Len(net) < MaxNet
  /\ \E r \in asked \ {NoReq}, type \in {"reply", "error"} :
       net' = Append(net, Line(type, r)) /\ asked' = asked \ {r}
  /\ UNCHANGED <<pc, script, conn, wait_id, cur, answer, told, open, welcomed, count, stale>>

\* The broker ends the connection, perhaps in the middle of a line.
BrokerCloses ==
  /\ open /\ open' = FALSE /\ asked' = {}
  /\ \/ UNCHANGED net
     \/ Len(net) < MaxNet /\ net' = Append(net, Cut)
  /\ UNCHANGED <<pc, script, conn, wait_id, cur, answer, told, welcomed, count, stale>>

-----------------------------------------------------------------------------
\* main connects once before its loop, whether a broker is there or not.
Init ==
  /\ pc = "connect" /\ script = <<>>
  /\ running = TRUE /\ fd = FALSE /\ buf = <<>> /\ next_seq = 1
  /\ wait_id = NoReq /\ cur = NoReq /\ answer = <<>> /\ told = FALSE
  /\ net = <<>> /\ open = FALSE /\ asked = {} /\ welcomed = FALSE /\ stale = FALSE
  /\ count = [calls |-> 0, connects |-> 0, reqs |-> 0]

\* The steps of a call that do not wait for room in the broker's socket.
Serve == WaitLate \/ Answered \/ NoAnswerInTime \/ NoReplyToHello \/ HelloReply

Next ==
  \/ handle_tools_call \/ try_connect_broker \/ broker_send \/ Serve \/ sm_broker_conn_wait \/ BrokerDisconnected
  \/ LoopReads \/ LoopEof \/ signal_handler \/ LoopEnds
  \/ BrokerGreets \/ BrokerReplies \/ BrokerCloses

Spec == Init /\ [][Next]_vars

\* The server runs and its deadlines pass.  Nothing is assumed of the broker,
\* nor, therefore, that a connect or a write returns.
FairSpec == Spec /\ WF_vars(Serve)

-----------------------------------------------------------------------------
TypeOK ==
  /\ pc \in {"idle", "connect", "hello", "greeted", "send", "await", "answered", "exited"}
  /\ running \in BOOLEAN /\ fd \in BOOLEAN /\ open \in BOOLEAN /\ told \in BOOLEAN
  /\ welcomed \in BOOLEAN /\ stale \in BOOLEAN /\ Len(net) <= MaxNet /\ next_seq \in Nat \ {0}
  /\ script \in Seq({"must", "ask", "tell", "try", "fire", "listen", "late"})

\* The answer a tool is given was made for the request it waits for, even
\* when late answers, of this connection or of an earlier one, are still in
\* the socket or in read_buf (sm_broker_conn_read, gen_wire_id).
AnswerIsOwn == pc = "answered" => Head(answer).req = cur.req

\* A connection that tools use is one whose hello the broker accepted: a
\* refused, unanswered or spoilt handshake, or a late error of an earlier
\* connection, never leaves the server online, unless read_buf still held the
\* welcome of an earlier connection when this one was opened
\* (try_connect_broker).
OnlineIsWelcomed ==
  pc \in {"idle", "send", "await", "answered"} /\ fd /\ ~stale => welcomed

\* Every tool call is answered, whether or when the broker answers, as long
\* as it lets connects and writes return: these have no deadline
\* (sm_connect_unix, sm_write_all), all the waits do.
CallAnswered ==
  []<>(pc # "connect") /\ []<>(pc # "send")
    => ((pc \notin {"idle", "exited"}) ~> (pc = "idle"))

\* The server outlives its broker: it ends only when it is told to.
OutlivesBroker == pc = "exited" => told

\* "The handshake reply decides whether we are actually usable": no server is
\* online on a connection the broker has not accepted.
HelloDecides == pc \in {"idle", "send", "await", "answered"} /\ fd => welcomed
=============================================================================
