----------------------------- MODULE SerialTcp -----------------------------
(***************************************************************************)
(* A serial port behind a terminal server (links/serial_tcp.c): the TCP    *)
(* connection with its cached address, the telnet filter on what arrives,  *)
(* the telnet escape on what leaves, and the COM-port control (RFC 2217)   *)
(* that rides in the same stream.                                          *)
(*                                                                         *)
(* Bytes are named for what telnet makes of them: the same byte is data or *)
(* a command depending on where it stands, so "DO" may well be typed by a  *)
(* user.                                                                   *)
(***************************************************************************)
EXTENDS LinkQueue

CONSTANTS
  MaxChunk,   \* bytes one read delivers; 3 lets at most one request end in it
  MaxUnits    \* units the server sends on one connection

ASSUME ChunkAssumption == MaxChunk \in 1 .. 3 /\ MaxUnits \in Nat

VARIABLES
  caddr_valid,      \* the resolved address is cached
  tstate,           \* the parser of what arrives: TS_DATA, TS_IAC, ...
  topt_cmd,         \* the command that waits for its option byte
  rfc2217_active,   \* the server asked for COM-port control
  net,              \* bytes of the server not yet read
  units,            \* how many units the server sent on this connection
  offered,          \* history: the server spoke telnet on this connection
  meant,            \* history: the data bytes the server sent on this connection
  delivered         \* history: the data bytes handed to the broker

telnetVars == <<tstate, topt_cmd, rfc2217_active>>
serverVars == <<net, units, offered, meant>>
tcpVars == <<caddr_valid, telnetVars, serverVars, delivered>>

Commands == {"WILL", "WONT", "DO", "DONT"}
Bytes == Commands \cup {"IAC", "SB", "SE", "COM", "opt", "a"}
TStates == {"TS_DATA", "TS_IAC", "TS_OPT", "TS_SB", "TS_SB_IAC"}

SerialTcpInit ==
  /\ caddr_valid = FALSE
  /\ tstate = "TS_DATA" /\ topt_cmd = "WILL" /\ rfc2217_active = FALSE
  /\ net = <<>> /\ units = 0 /\ offered = FALSE /\ meant = <<>>
  /\ delivered = <<>>

(***************************************************************************)
(* The units of a telnet stream, as the peer reads them.                   *)
(***************************************************************************)
Data(b) == <<"data", b>>
Option(cmd, opt) == <<"option", cmd, opt>>
Block(payload) == <<"block", payload>>
DataUnits(data) == [i \in 1 .. Len(data) |-> Data(data[i])]

\* Every IAC of the bytes doubled.
Escaped(bytes) ==
  FlattenSeq([i \in 1 .. Len(bytes) |->
                IF bytes[i] = "IAC" THEN <<"IAC", "IAC">> ELSE <<bytes[i]>>])

\* How a telnet server reads one more byte of the client's stream (RFC 854).
ServerReads(b, p) ==
  CASE p.at = "text" -> IF b = "IAC" THEN [p EXCEPT !.at = "iac"]
                        ELSE [p EXCEPT !.units = Append(@, Data(b))]
    [] p.at = "iac" ->
         CASE b = "IAC" -> [p EXCEPT !.at = "text", !.units = Append(@, Data(b))]
           [] b \in Commands -> [p EXCEPT !.at = "option", !.held = <<b>>]
           [] b = "SB" -> [p EXCEPT !.at = "block", !.held = <<>>]
           [] OTHER -> [p EXCEPT !.at = "text"]
    [] p.at = "option" ->
         [p EXCEPT !.at = "text", !.units = Append(@, Option(p.held[1], b))]
    [] p.at = "block" -> IF b = "IAC" THEN [p EXCEPT !.at = "block_iac"]
                         ELSE [p EXCEPT !.held = Append(@, b)]
    [] p.at = "block_iac" ->
         IF b = "SE" THEN [p EXCEPT !.at = "text", !.units = Append(@, Block(p.held))]
         ELSE [p EXCEPT !.at = "block", !.held = Append(@, b)]

\* What a server makes of a whole stream.
ServerView(bytes) ==
  FoldLeft(LAMBDA p, b : ServerReads(b, p),
           [at |-> "text", units |-> <<>>, held |-> <<>>], bytes)

(***************************************************************************)
(* The connection.                                                         *)
(***************************************************************************)

\* st_resolve: an address is needed once; a failed connect forgets it.
st_resolve(found) == caddr_valid \/ found

\* The parser starts afresh but the negotiated control is taken as kept.
st_socket_connect_keeps_control ==
  /\ tstate' = "TS_DATA" /\ UNCHANGED <<topt_cmd, rfc2217_active>>
  /\ net' = <<>> /\ units' = 0 /\ offered' = FALSE /\ meant' = <<>>
  /\ delivered' = <<>> /\ FreshStream

\* st_socket_connect: a fresh descriptor, a fresh parser, no control yet.  The
\* stream of the new connection starts empty on both sides.
st_socket_connect ==
  /\ tstate' = "TS_DATA" /\ rfc2217_active' = FALSE /\ UNCHANGED topt_cmd
  /\ net' = <<>> /\ units' = 0 /\ offered' = FALSE /\ meant' = <<>>
  /\ delivered' = <<>> /\ FreshStream

\* Nothing of the connection changes when no address or no socket is had.
NoSocket == UNCHANGED <<queueVars, telnetVars, serverVars, delivered>>

\* st_open: the connect of the start, which waits for its outcome.
st_open(found, connects) ==
  /\ fd = "closed"
  /\ \/ ~st_resolve(found) /\ UNCHANGED caddr_valid /\ NoSocket
     \/ /\ st_resolve(found)
        /\ caddr_valid' = connects
        /\ fd' = IF connects THEN "open" ELSE "closed"
        /\ st_socket_connect
        /\ UNCHANGED wq

\* st_connect_begin: the connect of a reconnect or a resume, which does not wait.
st_connect_begin(found, outcome) ==
  /\ fd = "closed"
  /\ \/ ~st_resolve(found) /\ UNCHANGED caddr_valid /\ NoSocket
     \/ /\ st_resolve(found)
        /\ caddr_valid' = (outcome # "closed")
        /\ fd' = outcome
        /\ st_socket_connect
        /\ UNCHANGED wq

\* st_connect_poll: the descriptor of a failed connect is left to st_close.
st_connect_poll(connects) ==
  /\ fd = "connecting"
  /\ fd' = IF connects THEN "open" ELSE fd
  /\ caddr_valid' = (connects /\ caddr_valid)
  /\ UNCHANGED <<wq, sent, historyVars, telnetVars, serverVars, delivered>>

\* st_close, of a suspend, a lost link or a connect that failed.
st_close ==
  /\ fd # "closed" /\ fd' = "closed"
  /\ wq' = <<>>
  /\ UNCHANGED <<sent, historyVars, tcpVars>>

(***************************************************************************)
(* What leaves.                                                            *)
(***************************************************************************)

\* raw_send: the order rule of the UART, nothing is written past a queued tail.
raw_send(bytes, asUnits, k, err) == QueuedWrite(bytes, asUnits, k, err)

\* The data goes out as it is.
st_write_raw(data, k, err) ==
  /\ fd # "closed" /\ k <= Len(data)
  /\ raw_send(data, DataUnits(data), k, err)
  /\ UNCHANGED <<fd, caddr_valid, telnetVars, serverVars, delivered>>

\* st_write: the escaped data.
st_write(data, k, err) ==
  /\ fd # "closed" /\ k <= Len(Escaped(data))
  /\ raw_send(Escaped(data), DataUnits(data), k, err)
  /\ UNCHANGED <<fd, caddr_valid, telnetVars, serverVars, delivered>>

\* comport_send: one COM-port command with its value, framed and escaped.
comport_send(cmd, val, k, err) ==
  LET frame == <<"IAC", "SB", "COM", cmd>> \o Escaped(val) \o <<"IAC", "SE">>
  IN  /\ fd # "closed" /\ rfc2217_active /\ k <= Len(frame)
      /\ raw_send(frame, <<Block(<<"COM", cmd>> \o val)>>, k, err)
      /\ UNCHANGED <<fd, caddr_valid, telnetVars, serverVars, delivered>>

(***************************************************************************)
(* st_set_param: the keys and values it knows, each with the command and   *)
(* the value it sends.  A baud rate is four bytes, one of which may be an  *)
(* IAC; everything else is one small number.                               *)
(***************************************************************************)
ParamFrame == [baud         |-> <<"SET_BAUDRATE", <<"a", "IAC">>>>,
               data_bits    |-> <<"SET_DATASIZE", <<"a">>>>,
               parity       |-> <<"SET_PARITY", <<"a">>>>,
               stop_bits    |-> <<"SET_STOPSIZE", <<"a">>>>,
               flow_control |-> <<"SET_CONTROL", <<"a">>>>,
               dtr          |-> <<"SET_CONTROL", <<"a">>>>,
               rts          |-> <<"SET_CONTROL", <<"a">>>>,
               break        |-> <<"SET_CONTROL", <<"a">>>>]

st_set_param(key, k, err) ==
  comport_send(ParamFrame[key][1], ParamFrame[key][2], k, err)

(***************************************************************************)
(* What arrives.                                                           *)
(***************************************************************************)

\* The reply a request gets, if it gets one: control of the COM port is
\* accepted, every other option refused, an acknowledgement left unanswered.
Reply(cmd, opt) ==
  CASE cmd = "DO"   -> IF opt = "COM" THEN <<"IAC", "WILL", opt>>
                       ELSE <<"IAC", "WONT", opt>>
    [] cmd = "WILL" /\ opt # "COM" -> <<"IAC", "DONT", opt>>
    [] OTHER        -> <<>>

\* telnet_refuse, telnet_comport: the reply goes straight to the socket, past
\* the queue, and the k bytes the kernel takes of it are all that is ever sent.
Answered(f, opt, k) ==
  LET reply == Reply(f.topt, opt)
      n == IF k > Len(reply) THEN Len(reply) ELSE k
  IN  [f EXCEPT !.tstate = "TS_DATA",
                !.active = IF opt # "COM" THEN @
                           ELSE f.topt = "DO" \/ (@ /\ f.topt # "DONT"),
                !.sent = @ \o First(reply, n),
                !.taken = IF n = 3 THEN Append(@, Option(reply[2], opt)) ELSE @,
                !.spoilt = @ \/ n \in 1 .. 2 \/ (n > 0 /\ wq # <<>>)]

\* One byte through the filter; f is the filter's state with what it has put out.
FilterByte(f, c, k) ==
  CASE f.tstate = "TS_DATA" -> IF c = "IAC" THEN [f EXCEPT !.tstate = "TS_IAC"]
                               ELSE [f EXCEPT !.out = Append(@, c)]
    [] f.tstate = "TS_IAC" ->
         CASE c = "IAC" -> [f EXCEPT !.out = Append(@, c), !.tstate = "TS_DATA"]
           [] c \in Commands -> [f EXCEPT !.topt = c, !.tstate = "TS_OPT"]
           [] c = "SB" -> [f EXCEPT !.tstate = "TS_SB"]
           [] OTHER -> [f EXCEPT !.tstate = "TS_DATA"]
    [] f.tstate = "TS_OPT" -> Answered(f, c, k)
    [] f.tstate = "TS_SB" -> IF c = "IAC" THEN [f EXCEPT !.tstate = "TS_SB_IAC"] ELSE f
    [] f.tstate = "TS_SB_IAC" ->
         [f EXCEPT !.tstate = IF c = "SE" THEN "TS_DATA" ELSE "TS_SB"]

FilterStart(state) ==
  [tstate |-> state, topt |-> topt_cmd, active |-> rfc2217_active, out |-> <<>>,
   sent |-> sent, taken |-> taken, spoilt |-> spoilt]

\* The first n bytes of the net go through a filter that starts in that state.
Filtered(state, n, k) ==
  LET f == FoldLeft(LAMBDA g, c : FilterByte(g, c, k), FilterStart(state), First(net, n))
  IN  /\ tstate' = f.tstate /\ topt_cmd' = f.topt /\ rfc2217_active' = f.active
      /\ sent' = f.sent /\ taken' = f.taken /\ spoilt' = f.spoilt
      /\ delivered' = delivered \o f.out
      /\ net' = After(net, n)
      /\ UNCHANGED <<fd, wq, caddr_valid, units, offered, meant>>

\* The filter forgets between two reads where it was.
st_filter_rx_stateless(n, k) ==
  fd = "open" /\ n \in 1 .. MaxChunk /\ n <= Len(net) /\ Filtered("TS_DATA", n, k)

\* st_filter_rx of one chunk; k is what the kernel takes of the reply in it.
st_filter_rx(n, k) ==
  fd = "open" /\ n \in 1 .. MaxChunk /\ n <= Len(net) /\ Filtered(tstate, n, k)

(***************************************************************************)
(* The server: it sends its device's data, escaped, and negotiates.        *)
(***************************************************************************)
ServerUnits ==
  {Data(b) : b \in {"a", "IAC"}}
    \cup {Option(cmd, "COM") : cmd \in {"DO", "DONT"}}
    \cup {Option(cmd, "opt") : cmd \in {"DO", "WILL"}}
    \cup {Block(<<"COM", "IAC">>)}

OnWire(u) ==
  CASE u[1] = "data"   -> Escaped(<<u[2]>>)
    [] u[1] = "option" -> <<"IAC", u[2], u[3]>>
    [] u[1] = "block"  -> <<"IAC", "SB">> \o Escaped(u[2]) \o <<"IAC", "SE">>

ServerSends(u) ==
  /\ fd = "open" /\ units < MaxUnits
  /\ net' = net \o OnWire(u)
  /\ units' = units + 1
  /\ offered' = (offered \/ u[1] # "data")
  /\ meant' = IF u[1] = "data" THEN Append(meant, u[2]) ELSE meant
  /\ UNCHANGED <<queueVars, caddr_valid, telnetVars, delivered>>

(***************************************************************************)
(* Properties.                                                             *)
(***************************************************************************)

SerialTcpTypeOK ==
  /\ caddr_valid \in BOOLEAN /\ rfc2217_active \in BOOLEAN
  /\ tstate \in TStates /\ topt_cmd \in Commands
  /\ offered \in BOOLEAN /\ units \in 0 .. MaxUnits
  /\ \A s \in {net, meant, delivered} : s \in Seq(Bytes)

\* Whatever way the stream is cut into reads, the broker is handed the data
\* bytes the server sent on this connection and no others, in order
\* (st_filter_rx keeps its state from one chunk to the next).
RxFaithful ==
  /\ IsPrefix(delivered, meant)
  /\ (fd = "open" /\ net = <<>>) => delivered = meant
=============================================================================
