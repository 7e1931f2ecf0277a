------------------------------- MODULE Links -------------------------------
(***************************************************************************)
(* A link as the broker's loop drives it: a UART, a serial-tcp link or a   *)
(* GDB behind the same operations, with the loop's interest in writability *)
(* (broker_update_link_epoll), which decides whether a queued byte is ever *)
(* flushed.                                                                *)
(***************************************************************************)
EXTENDS SerialTcp, Uart, GdbLink

CONSTANTS
  Kinds,        \* the kinds of link tried: "tcp", "uart", "gdb"
  Typed,        \* what clients write to a link of each kind
  Params,       \* the parameters of a serial-tcp link that clients set
  MaxTaken,     \* writes and parameters accepted on one connection
  MaxOpens      \* how often the link is opened

ASSUME LinksAssumption ==
  /\ Kinds \subseteq {"tcp", "uart", "gdb"}
  /\ \A k \in Kinds : Typed[k] \subseteq Seq(STRING)
  /\ MaxTaken \in Nat /\ MaxOpens \in Nat

VARIABLES
  kind,         \* which link this broker has
  watched,      \* the descriptor is watched for EPOLLOUT
  writes,       \* writes and parameters tried on this connection
  opens,        \* opens tried
  wrote         \* history: the last thing queued was queued by sm_broker_do_write

loopVars == <<watched, writes, opens, wrote>>
vars == <<queueVars, tcpVars, uartVars, gdbVars, kind, loopVars>>

Init ==
  /\ LinkQueueInit /\ SerialTcpInit /\ UartInit /\ GdbInit
  /\ kind \in Kinds
  /\ kind # "uart" => ud = tty /\ tty = CHOOSE s \in Settings : TRUE
  /\ kind # "gdb" => target_spec = "none"
  /\ watched = FALSE /\ writes = 0 /\ opens = 0 /\ wrote = FALSE

Tcp == kind = "tcp" /\ UNCHANGED <<uartVars, gdbVars, kind>>
Serial == kind = "uart" /\ UNCHANGED <<tcpVars, gdbVars, kind>>
Gdb == kind = "gdb" /\ UNCHANGED <<tcpVars, uartVars, kind>>

\* broker_setup, attempt_reconnect and sm_broker_do_resume open the link; once
\* it is up link_bring_up watches it.
OpenLink ==
  /\ opens < MaxOpens /\ opens' = opens + 1
  /\ writes' = 0 /\ watched' = FALSE /\ wrote' = FALSE
  /\ \/ Tcp /\ \E addr, connects \in BOOLEAN : st_open(addr, connects)
     \/ /\ Tcp
        /\ \E addr \in BOOLEAN, outcome \in {"closed", "connecting", "open"} :
             st_connect_begin(addr, outcome)
     \/ /\ Serial
        /\ \E outcome \in {"refused", "fails", "opens"}, claims \in BOOLEAN : uart_open(outcome, claims)
     \/ Gdb /\ \E fails, lost \in BOOLEAN : gdb_open(fails, lost)

\* handle_link_connecting: a connect in progress settles.
SettleConnect ==
  /\ Tcp
  /\ \E connects \in BOOLEAN : st_connect_poll(connects)
  /\ UNCHANGED loopVars

\* A suspend, a lost link or a connect given up closes the descriptor.
CloseLink ==
  /\ \/ Tcp /\ st_close
     \/ Serial /\ uart_close
     \/ Gdb /\ \E quick \in BOOLEAN : gdb_close(quick)
  /\ watched' = FALSE /\ wrote' = FALSE
  /\ UNCHANGED <<writes, opens>>

WireBytes(data) == IF kind = "tcp" THEN Escaped(data) ELSE data

WriteData(data, k, err) ==
  \/ Tcp /\ st_write(data, k, err)
  \/ Serial /\ uart_write(data, k, err)
  \/ Gdb /\ gdb_write_data(data, k, err)

\* The watch is left as it was after a write.
sm_broker_do_write_unwatched(data, k, err) ==
  /\ fd = "open" /\ writes < MaxTaken /\ writes' = writes + 1
  /\ WriteData(data, k, err)
  /\ wrote' = TRUE
  /\ UNCHANGED <<watched, opens>>

\* sm_broker_do_write: the link must be up; a write that is not refused updates
\* the watch (broker_update_link_epoll).
sm_broker_do_write(data, k, err) ==
  LET rc == IF kind = "gdb" /\ Blocked(data) THEN -1
            ELSE sm_link_wq_write(wq, sent, WireBytes(data), k, err).rc
  IN  /\ fd = "open" /\ writes < MaxTaken /\ writes' = writes + 1
      /\ WriteData(data, k, err)
      /\ watched' = IF rc = 0 THEN wq' # <<>> ELSE watched
      /\ wrote' = (rc = 0 \/ wrote)
      /\ UNCHANGED opens

Write ==
  \E data \in Typed[kind], err \in BOOLEAN : \E k \in Takes(Len(WireBytes(data))) :
    sm_broker_do_write(data, k, err)

\* A pin, a pulse or a baud rate reaches the link through set_param, or through
\* send_break, after which the watch is not updated.
SetParam ==
  /\ fd = "open" /\ writes < MaxTaken /\ writes' = writes + 1
  /\ \/ Tcp /\ \E key \in Params, err \in BOOLEAN, k \in 0 .. 9 : st_set_param(key, k, err)
     \/ Serial /\ \E baud \in Bauds, fails \in BOOLEAN : uart_set_baud(baud, fails)
     \/ Serial /\ \E frame \in Frames, fails \in BOOLEAN : uart_set_frame(frame, fails)
     \/ Gdb /\ \E err \in BOOLEAN, k \in 0 .. 1 : gdb_send_break(k, err)
  /\ wrote' = (wrote /\ kind = "uart")
  /\ UNCHANGED <<watched, opens>>

\* The loop sees a watched descriptor writable and flushes; a failure is a
\* disconnect, which closes the link.
FlushLink(k, err) ==
  LET r == sm_link_wq_flush(wq, sent, k, err)
  IN  /\ fd = "open" /\ watched /\ wq # <<>>
      /\ UNCHANGED <<kind, writes, opens>>
      /\ IF r.rc = -1
           THEN /\ CASE kind = "tcp" -> st_close /\ UNCHANGED <<uartVars, gdbVars>>
                     [] kind = "uart" -> uart_close /\ UNCHANGED <<tcpVars, gdbVars>>
                     [] kind = "gdb" -> gdb_close(FALSE) /\ UNCHANGED <<tcpVars, uartVars>>
                /\ watched' = FALSE /\ wrote' = FALSE
           ELSE /\ wq' = r.wq /\ sent' = r.sent
                /\ watched' = (r.wq # <<>>)
                /\ UNCHANGED <<fd, historyVars, tcpVars, uartVars, gdbVars, wrote>>

Flush == \E k \in Takes(Len(wq)), err \in BOOLEAN : FlushLink(k, err)

\* The kernel has room for a byte at least.
FlushSome == \E k \in 1 .. Len(wq) : FlushLink(k, FALSE)

ReadLink ==
  /\ Tcp
  /\ \E n \in 1 .. MaxChunk, k \in Takes(3) : st_filter_rx(n, k)
  /\ UNCHANGED loopVars

Server ==
  /\ Tcp
  /\ \E u \in ServerUnits : ServerSends(u)
  /\ UNCHANGED loopVars

GdbEnds ==
  /\ Gdb
  /\ \E c \in Children : ChildEnds(c)
  /\ UNCHANGED loopVars

OtherProgram ==
  /\ Serial
  /\ \E settings \in Settings : OtherProgramSets(settings)
  /\ UNCHANGED loopVars

Next ==
  \/ OpenLink \/ SettleConnect \/ CloseLink
  \/ Write \/ SetParam \/ Flush \/ ReadLink
  \/ Server \/ OtherProgram \/ GdbEnds

Spec == Init /\ [][Next]_vars

\* The loop flushes a watched descriptor, and the other end of the wire keeps
\* taking bytes.
FairSpec == Spec /\ WF_vars(FlushSome)

(***************************************************************************)
(* Properties.                                                             *)
(***************************************************************************)

TypeOK ==
  /\ fd \in {"closed", "connecting", "open"}
  /\ wq \in Seq(STRING) /\ Len(wq) <= QueueMax
  /\ SerialTcpTypeOK /\ UartTypeOK /\ GdbTypeOK
  /\ watched \in BOOLEAN /\ writes \in 0 .. MaxTaken /\ opens \in 0 .. MaxOpens

\* What the far end will read on the present connection, once the queue has
\* drained, is exactly what the link accepted on it, in that order: every typed
\* byte a data byte, every COM-port command and every reply whole, and nothing
\* of an earlier connection (st_write, comport_send, uart_write, gdb_write_data,
\* link_wq.c). A GDB session begins with the commands it must begin with.
\* The replies of the telnet negotiation are sent past the queue
\* (serial_tcp.c:269, 284): a connection on which the kernel cut one short, or
\* took it while a tail was queued, is excepted, and so is one on which a write
\* failed midway.
WireFaithful ==
  (fd = "open" /\ ~spoilt) =>
    IF kind # "tcp" THEN sent \o wq = taken
    ELSE LET view == ServerView(sent \o wq) IN view.units = taken /\ view.at = "text"

\* A server that never negotiated on this connection, a raw byte pipe, is sent
\* data only: control negotiated with an earlier server is not used on it
\* (telnet_comport, st_socket_connect).
RawServerSeesNoTelnet ==
  (kind = "tcp" /\ fd = "open" /\ ~offered) =>
    LET seen == ServerView(sent \o wq).units
    IN  \A i \in DOMAIN seen : seen[i][1] = "data"

\* Both directions: what is sent, and what the broker reads of a serial-tcp
\* server, whatever its telnet commands and wherever a read cuts them.
BytesFaithful == WireFaithful /\ RawServerSeesNoTelnet /\ RxFaithful

\* A closed link lets go of what it held, the claim on the port and the GDB
\* with its debug probe, so that another program can have it; excepted is the
\* claim of an open that failed after TIOCEXCL (PortHandedBack).
HandedBack == PortHandedBack /\ NoGdbLeftRunning

\* What a write had to queue reaches the wire, or the link is closed: the loop
\* never sleeps on a queue it does not watch (sm_broker_do_write,
\* broker_update_link_epoll, sm_link_wq_flush).
Drains == (wq # <<>> /\ wrote) ~> (wq = <<>>)

\* The same of everything that is queued, a COM-port command included.
NothingStaysQueued == (fd = "open" /\ wq # <<>>) => watched
=============================================================================
