----------------------------- MODULE GdbSession -----------------------------
(***************************************************************************)
(* smolmux-gdb-mcp (gdb_mcp.c): MCP tool calls that run a script of GDB/MI *)
(* commands through the broker, one at a time, and pick their results out  *)
(* of the stream of records that the broker sends to every client.         *)
(*                                                                         *)
(* A tool is the set of calls its arguments, the profile and the memory it *)
(* reads can give: the MI commands in order, what the failure of each      *)
(* means, and what the tool does once they are through.  The texts, the    *)
(* addresses and the decoding of values are data.                          *)
(*                                                                         *)
(* External: gdb and its target, which answer late or never, in order, and *)
(* refuse what needs a halted target while it runs; the broker, which      *)
(* passes a SEND on, answers it with an error, or goes away.               *)
(***************************************************************************)
EXTENDS BrokerConn, SequencesExt

CONSTANTS
  MaxCalls,     \* bound: tool calls of one behaviour
  MaxRefusals,  \* bound: commands the broker refuses
  MaxLate,      \* bound: commands gdb has not answered
  MaxNet        \* bound: lines in the socket

ASSUME GdbBounds ==
  /\ MaxCalls \in Nat \ {0} /\ MaxRefusals \in Nat /\ MaxLate \in Nat \ {0} /\ MaxNet \in Nat \ {0, 1}

VARIABLES
  g,        \* tokens, the result, and what is believed of the target; not in
            \* the code: overridden, a stop read was dropped by gdb_reset
  call,     \* the tool call being served
  count,    \* how many calls and refusals there were
  pc,       \* where it is: idle, send, await, stop (gdb_wait_stop), exited
  running,  \* conn.running
  buf,      \* lines left in read_buf
  net,      \* lines in the socket, oldest first
  up,       \* the broker still has the connection
  queue,    \* MI commands gdb has to answer
  target    \* what the target really does

vars == <<g, call, count, pc, running, buf, net, up, queue, target>>

NoResult == [token |-> 0, class |-> "none"]

MI(rec, token, class) ==
  [type |-> "output", id |-> NoId, rec |-> rec, token |-> token, class |-> class]

Refusal == [type |-> "error", id |-> NoId, rec |-> "none", token |-> 0, class |-> "none"]

-----------------------------------------------------------------------------
(* The tools.  A step's need says what its failure means to the tool.      *)

\* must: the tool fails; try: it goes on; ends: what it found may end the
\* tool; gate: the rest is run only if it succeeds.
Needs == {"must", "try", "ends", "gate"}
Kinds == {"query", "run", "interrupt", "monitor"}

Must(mi) == [mi |-> mi, need |-> "must"]
Try(mi)  == [mi |-> mi, need |-> "try"]
Ends(mi) == [mi |-> mi, need |-> "ends"]
Gate(mi) == [mi |-> mi, need |-> "gate"]

\* A call whose end changes nothing in g.
Plain(script) == [script |-> script, finally |-> "none"]

tool_launch == {Plain(<<Must("query")>>), Plain(<<Must("query"), Try("query")>>)}
tool_breakpoint == {Plain(<<Must("query")>>)}
tool_delete_breakpoint == {Plain(<<Must("query")>>)}
tool_continue == {Plain(<<Must("run")>>)}
tool_interrupt == {Plain(<<Must("interrupt")>>)}
tool_step == {Plain(<<Must("run")>>)}
tool_backtrace == {Plain(<<Must("query")>>)}

\* With explicit names an unknown name, or no table of names, ends the tool.
tool_read_registers == {Plain(<<first, Must("query")>>) : first \in {Gate("query"), Try("query")}}

tool_read_memory == {Plain(<<Must("query")>>)}
tool_evaluate == {Plain(<<Must("query")>>)}
tool_threads == {Plain(<<Must("query")>>), Plain(<<Must("query"), Try("query")>>)}
tool_load == {Plain(<<Must("query")>>)}

gdb_flush_register_cache == Try("query")

tool_reset ==
  {[script  |-> IF mode = "run" THEN <<Must("monitor"), gdb_flush_register_cache, Must("run")>>
                              ELSE <<Must("monitor"), gdb_flush_register_cache>>,
    finally |-> IF mode = "run" THEN "continued" ELSE "halted"] : mode \in {"halt", "init", "run"}}

tool_status == {Plain(<<>>)}
tool_wait_stop == {[script |-> <<>>, finally |-> "wait"]}
tool_console_output == {Plain(<<>>)}
tool_read_fault_registers == {Plain(<<>>), Plain(<<Try("query"), Try("query")>>)}
tool_read_peripheral == {Plain(<<>>), Plain(<<Must("query")>>)}

\* A raw command may be any; the tool reports an error as it does a success.
tool_command == {Plain(<<>>)} \cup {Plain(<<Try(mi)>>) : mi \in Kinds}

\* CPUID, ROM table, then vendor registers until one answers; the nRF part
\* is followed by its RAM and flash sizes.
identify_findings ==
  <<Try("query"), Try("query"), Ends("query"), Ends("query"),
    Gate("query"), Try("query"), Try("query")>>

tool_identify_target == {Plain(identify_findings)}
tool_generate_profile == {Plain(identify_findings)}

dispatch_tool ==
  UNION {tool_launch, tool_breakpoint, tool_delete_breakpoint, tool_continue,
         tool_interrupt, tool_step, tool_backtrace, tool_read_registers,
         tool_read_memory, tool_evaluate, tool_threads, tool_load, tool_reset,
         tool_status, tool_wait_stop, tool_console_output,
         tool_read_fault_registers, tool_read_peripheral, tool_identify_target,
         tool_generate_profile, tool_command}

-----------------------------------------------------------------------------
(* The stream of records.                                                  *)

\* A bug kept for the checks: any result is taken for the one awaited.
handle_mi_record_any_token(s, line) ==
  CASE line.rec = "result" /\ s.pending_token # 0 ->
         [s EXCEPT !.result = [token |-> line.token, class |-> line.class],
                   !.have_result = TRUE, !.pending_token = 0]
    [] line.rec = "stopped" ->
         [s EXCEPT !.target_running = FALSE, !.have_stopped = TRUE, !.overridden = FALSE]
    [] line.rec = "running" -> [s EXCEPT !.target_running = TRUE, !.overridden = FALSE]
    [] OTHER -> s

\* One line of broker output: a result is taken only for the command in
\* flight, *stopped and *running always count, the rest is console text.
handle_mi_record(s, line) ==
  CASE line.rec = "result" /\ s.pending_token # 0 /\ line.token = s.pending_token ->
         [s EXCEPT !.result = [token |-> line.token, class |-> line.class],
                   !.have_result = TRUE, !.pending_token = 0]
    [] line.rec = "stopped" ->
         [s EXCEPT !.target_running = FALSE, !.have_stopped = TRUE, !.overridden = FALSE]
    [] line.rec = "running" -> [s EXCEPT !.target_running = TRUE, !.overridden = FALSE]
    [] OTHER -> s

\* The lines a read has taken, in order.
gdb_on_broker_output(s, lines) ==
  LET after[k \in 0..Len(lines)] ==
        IF k = 0 THEN s ELSE handle_mi_record(after[k - 1], lines[k])
  IN  after[Len(lines)]

\* The reads of the pump and of the main loop: some of the socket's lines
\* come in behind what read_buf still holds.
sm_broker_conn_pump ==
  /\ running /\ net # <<>>
  /\ \/ pc = "idle"
     \/ pc = "await" /\ ~g.have_result
     \/ pc = "stop" /\ ~g.have_stopped
  /\ \E k \in 1..Len(net) :
       LET r == sm_broker_conn_read(buf \o SubSeq(net, 1, k), NoId)
       IN  /\ g' = gdb_on_broker_output(g, r.taken)
           /\ buf' = r.rest
           /\ net' = SubSeq(net, k + 1, Len(net))
  /\ UNCHANGED <<call, count, pc, running, up, queue, target>>

\* End of file: the broker went away and everything it sent was read.
BrokerDisconnected ==
  /\ running /\ ~up /\ net = <<>> /\ pc \in {"idle", "await", "stop"}
  /\ running' = FALSE
  /\ UNCHANGED <<g, call, count, pc, buf, net, up, queue, target>>
-----------------------------------------------------------------------------
(* One tool call.                                                          *)

\* What a tool leaves behind when its script is through.  gdb_reset with mode
\* "run" says that the target runs, and drops a stop that was read before.
Finish(s, finally) ==
  CASE finally = "halted"    ->
         [s EXCEPT !.target_running = FALSE, !.have_stopped = TRUE, !.overridden = FALSE]
    [] finally = "continued" ->
         [s EXCEPT !.target_running = TRUE, !.have_stopped = FALSE, !.overridden = s.have_stopped]
    [] OTHER                 -> s

\* The call goes on with the script rest, or is at its end and answered.
GoOn(s, rest, finally) ==
  /\ call' = [script |-> rest,
              finally |-> IF rest = <<>> /\ finally # "wait" THEN "none" ELSE finally]
  /\ IF rest # <<>> THEN g' = s /\ pc' = "send"
     ELSE IF finally = "wait" THEN g' = s /\ pc' = "stop"
     ELSE g' = Finish(s, finally) /\ pc' = "idle"

\* handle_tools_call: a call begins when the loop is idle.
handle_tools_call ==
  /\ pc = "idle" /\ count.calls < MaxCalls
  /\ count' = [count EXCEPT !.calls = @ + 1]
  /\ \E c \in dispatch_tool : GoOn(g, c.script, c.finally)
  /\ UNCHANGED <<running, buf, net, up, queue, target>>

\* The command in flight succeeded or failed: what the tool does next.
StepDone(s, ok) ==
  LET step == Head(call.script)
      rest == Tail(call.script)
      Fail == GoOn(s, <<>>, "none")
  IN  CASE step.need = "must" -> IF ok THEN GoOn(s, rest, call.finally) ELSE Fail
        [] step.need = "try"  -> GoOn(s, rest, call.finally)
        [] step.need = "ends" -> GoOn(s, rest, call.finally) \/ (ok /\ Fail)
        [] step.need = "gate" -> (ok /\ GoOn(s, rest, call.finally)) \/ Fail

\* gdb_mi_command up to its pump: the old result is dropped, the token
\* taken, the SEND written.  The broker passes it on or answers it with an
\* error, or gdb never reads it; to a closed connection the write fails.
gdb_mi_command ==
  LET token == g.next_token
      s == [g EXCEPT !.result = NoResult, !.have_result = FALSE,
                     !.pending_token = token, !.next_token = token + 1]
  IN  /\ pc = "send"
      /\ \/ /\ up /\ Len(queue) < MaxLate
            /\ queue' = Append(queue, [token |-> token, mi |-> Head(call.script).mi])
            /\ g' = s /\ pc' = "await"
            /\ UNCHANGED <<call, count, net>>
         \/ /\ up /\ count.refusals < MaxRefusals /\ Len(net) < MaxNet
            /\ count' = [count EXCEPT !.refusals = @ + 1]
            /\ net' = Append(net, Refusal)
            /\ g' = s /\ pc' = "await"
            /\ UNCHANGED <<call, queue>>
         \/ /\ g' = s /\ pc' = "await"
            /\ UNCHANGED <<call, count, net, queue>>
         \/ /\ ~up
            /\ StepDone([s EXCEPT !.pending_token = 0], FALSE)
            /\ UNCHANGED <<count, net, queue>>
      /\ UNCHANGED <<running, buf, up, target>>

\* The pump loop ends: with the result, or without one because the deadline
\* passed or the connection ended.
GotResult ==
  /\ pc = "await" /\ g.have_result
  /\ StepDone([g EXCEPT !.have_result = FALSE, !.result = NoResult], g.result.class # "error")
  /\ UNCHANGED <<count, running, buf, net, up, queue, target>>

\* A bug kept for the checks: the wait has no deadline of its own.
NoResultInTime_forever ==
  /\ pc = "await" /\ ~g.have_result /\ ~running
  /\ StepDone([g EXCEPT !.pending_token = 0], FALSE)
  /\ UNCHANGED <<count, running, buf, net, up, queue, target>>

NoResultInTime ==
  /\ pc = "await" /\ ~g.have_result
  /\ StepDone([g EXCEPT !.pending_token = 0], FALSE)
  /\ UNCHANGED <<count, running, buf, net, up, queue, target>>

\* gdb_wait_stop returns: the stop is consumed, or the deadline passed.
StopTaken ==
  /\ pc = "stop"
  /\ g' = [g EXCEPT !.have_stopped = FALSE]
  /\ pc' = "idle"
  /\ call' = [call EXCEPT !.finally = "none"]
  /\ UNCHANGED <<count, running, buf, net, up, queue, target>>

\* Standard input closed, or a signal.
signal_handler ==
  /\ running /\ pc # "exited"
  /\ running' = FALSE
  /\ UNCHANGED <<g, call, count, pc, buf, net, up, queue, target>>

\* The main loop ends.
LoopEnds ==
  /\ pc = "idle" /\ ~running
  /\ pc' = "exited"
  /\ UNCHANGED <<g, call, count, running, buf, net, up, queue, target>>

-----------------------------------------------------------------------------
(* gdb, its target and the broker (external).                              *)

\* gdb answers its oldest command.  A running target refuses all but an
\* interrupt; resuming it is answered ^running and followed by *running.
GdbAnswers ==
  /\ up /\ queue # <<>> /\ Len(net) + 2 <= MaxNet
  /\ LET c == Head(queue)
         Says(class) == MI("result", c.token, class)
     IN  \/ /\ net' = Append(net, Says("error")) /\ UNCHANGED target
         \/ /\ target = "stopped" /\ c.mi = "run"
            /\ net' = net \o <<Says("running"), MI("running", 0, "none")>>
            /\ target' = "running"
         \/ /\ (target = "stopped" /\ c.mi # "run") \/ c.mi = "interrupt"
            /\ net' = Append(net, Says("done")) /\ UNCHANGED target
  /\ queue' = Tail(queue)
  /\ UNCHANGED <<g, call, count, pc, running, buf, up>>

\* The target stops: a breakpoint, a fault or an interrupt.
TargetStops ==
  /\ up /\ target = "running" /\ Len(net) < MaxNet
  /\ target' = "stopped"
  /\ net' = Append(net, MI("stopped", 0, "none"))
  /\ UNCHANGED <<g, call, count, pc, running, buf, up, queue>>

BrokerGoes ==
  /\ up /\ up' = FALSE
  /\ UNCHANGED <<g, call, count, pc, running, buf, net, queue, target>>

-----------------------------------------------------------------------------
Init ==
  /\ g = [next_token |-> 1, pending_token |-> 0, have_result |-> FALSE,
          result |-> NoResult, target_running |-> FALSE, have_stopped |-> FALSE,
          overridden |-> FALSE]
  /\ call = Plain(<<>>) /\ count = [calls |-> 0, refusals |-> 0] /\ pc = "idle"
  /\ running = TRUE /\ up = TRUE
  /\ buf = <<>> /\ net = <<>> /\ queue = <<>>
  /\ target \in {"stopped", "running"}

\* The steps of the server itself.
Server ==
  \/ gdb_mi_command \/ GotResult \/ NoResultInTime \/ StopTaken
  \/ sm_broker_conn_pump \/ BrokerDisconnected \/ LoopEnds

Next ==
  \/ handle_tools_call \/ Server \/ signal_handler
  \/ GdbAnswers \/ TargetStops \/ BrokerGoes

Spec == Init /\ [][Next]_vars

\* The deadlines pass: each wait ends, whatever gdb and the broker do.
FairSpec ==
  /\ Spec
  /\ WF_vars(gdb_mi_command) /\ WF_vars(GotResult \/ NoResultInTime) /\ WF_vars(StopTaken)

-----------------------------------------------------------------------------
Lines == [type: {"output", "error"}, id: {NoId}, rec: {"result", "stopped", "running", "none"},
          token: Nat, class: {"done", "running", "error", "none"}]

TypeOK ==
  /\ g.next_token \in Nat \ {0} /\ g.pending_token \in 0..(g.next_token - 1)
  /\ pc \in {"idle", "send", "await", "stop", "exited"}
  /\ buf \in Seq(Lines) /\ net \in Seq(Lines)
  /\ Len(net) <= MaxNet /\ Len(queue) <= MaxLate

\* A tool's answer is made from the result of its own last command, however
\* late the results of commands given up on come in (handle_mi_record).
AnswerIsOwn ==
  g.have_result => g.result.token = g.next_token - 1 /\ pc = "await"

\* The session says the target runs only while it does, or while the record
\* of its stop is still on the way: a stop is never read and forgotten
\* (handle_mi_record, sm_broker_conn_read).  The exception is gdb_reset with
\* mode "run": it sets target_running after its -exec-continue even if the
\* stop that followed has been read, and the session is then wrong until the
\* next *running or *stopped, or the next reset (tool_reset).
RunningIsTrue ==
  g.target_running /\ ~ g.overridden =>
    target = "running" \/ \E line \in ToSet(buf \o net) : line.rec = "stopped"

\* Every tool call is answered, whether gdb, the target and the broker
\* answer or not.
CallAnswered == (pc \in {"send", "await", "stop"}) ~> (pc = "idle")
=============================================================================
