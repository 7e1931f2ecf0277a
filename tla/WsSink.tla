------------------------------- MODULE WsSink -------------------------------
(***************************************************************************)
(* The WebSocket sink: one thread that accepts peers, hands the broker one *)
(* end of a socketpair for each and relays between the peer's frames and   *)
(* the broker's lines on the other end; composed with Registration.        *)
(*                                                                         *)
(* A frame is a sequence of units: a header, which says what it is, whether*)
(* it is masked, its size in units and its message, and the rest of it. A  *)
(* read takes as much of what was written as has arrived and has room.     *)
(***************************************************************************)
EXTENDS Registration

CONSTANTS
  WsClientCap,  \* SM_WS_MAX_CLIENTS
  FrameCap,     \* units ws_buf holds (SM_WS_READ_BUF_SIZE)
  LineCap,      \* units br_buf holds (SM_WS_READ_BUF_SIZE)
  SockCap,      \* frames the kernel holds for a peer that does not read
  TextSize,     \* units of a text frame
  FrameOps,     \* the frames peers send besides text
  MaxFrames,    \* bound on the frames of all peers
  MaxSaid       \* bound on the messages on the broker's own sockets

VARIABLES
  up,        \* per peer: units it wrote that the thread has not read
  unread,    \* per peer: frames written to it that it has not read
  frames,    \* frames peers have sent so far
  talk,      \* messages peers have sent on the broker's own sockets so far
  ws,        \* the thread's clients: their peer and their two buffers
  pc,        \* what the thread is at
  polled,    \* poll's answer: the descriptors to serve, by slot
  slots,     \* poll_client_count
  idx        \* the slot being served

wireVars == <<up, unread, frames, talk>>
threadVars == <<ws, pc, polled, slots, idx>>
wsVars == <<regVars, wireVars, threadVars>>

WsInit ==
  /\ RegistrationInit
  /\ up = [p \in Peers |-> <<>>]
  /\ unread = [p \in Peers |-> 0] /\ frames = 0 /\ talk = 0
  /\ ws = <<>> /\ pc = "poll" /\ polled = {} /\ slots = 0 /\ idx = 1

Bridged == {ws[i].peer : i \in DOMAIN ws}

\* The peer's side of a WebSocket connection: open as long as the thread has it.
WsOpen(p) == p \in Bridged

(***************************************************************************)
(* What the peers write.                                                   *)
(***************************************************************************)
Frame(op, msg) == [op |-> op, masked |-> op # "unmasked",
                   size |-> IF op = "text" THEN TextSize
                            ELSE IF op = "oversize" THEN FrameCap + 1 ELSE 1,
                   msg |-> msg]

Rest == [i \in 1..(TextSize - 1) |-> [op |-> "more"]]

\* A peer writes a frame; of one that is too large the beginning is enough.
SendFrame(p) ==
  /\ WsOpen(p) /\ p \notin left
  /\ frames < MaxFrames /\ frames' = frames + 1
  /\ \/ \E m \in MessagesOf[p] :
          /\ up' = [up EXCEPT ![p] = @ \o <<Frame("text", m)>> \o Rest]
          /\ due' = IF fd[p] = "closed" THEN due ELSE [due EXCEPT ![p] = Append(@, m)]
     \/ \E op \in FrameOps :
          /\ up' = [up EXCEPT ![p] = Append(@, Frame(op, [t |-> op]))]
          /\ UNCHANGED due
  /\ UNCHANGED <<peer, left, unbridged, heap, clients, fd, closings, inbox, outbox, owed,
                 proper, pipe, batch, phase, stopped, unread, talk, threadVars>>

PeerReads(p) ==
  /\ unread[p] > 0
  /\ unread' = [unread EXCEPT ![p] = 0]
  /\ UNCHANGED <<regVars, up, frames, talk, threadVars>>

PeerSays(p) ==
  /\ talk < MaxSaid /\ talk' = talk + 1
  /\ \E m \in MessagesOf[p] : Say(p, m)
  /\ UNCHANGED <<up, unread, frames, threadVars>>

(***************************************************************************)
(* The thread.                                                             *)
(***************************************************************************)

\* The slots whose descriptors poll reports.
Readable ==
  {[slot |-> i, side |-> "ws"] : i \in {j \in DOMAIN ws : up[ws[j].peer] # <<>> \/ ws[j].peer \in left}}
  \cup {[slot |-> i, side |-> "bridge"] :
          i \in {j \in DOMAIN ws : outbox[ws[j].peer] # <<>> \/ fd[ws[j].peer] = "closed"}}

Settled(p) == peer' = [peer EXCEPT ![p].state = "open"]

\* A knock the thread answers by closing: too many clients, a handshake that
\* fails or takes too long, no socketpair. Its connection counts as closed.
TurnAway(p) ==
  /\ Settled(p)
  /\ SetTable(TableClosing(Table, p, 1))
  /\ UNCHANGED <<pipe, ws>>

\* ws_handshake: whether a proper upgrade request came within its time is up to
\* the peer.
ws_handshake == BOOLEAN

\* The accept branch of ws_thread: what comes of ws_handshake and of socketpair.
Accept(p, handshake, pair) ==
  IF Len(ws) < WsClientCap /\ handshake /\ pair
  THEN /\ sm_broker_register_client_async(p, TRUE)
       /\ ws' = Append(ws, [peer |-> p, wbuf |-> <<>>, bbuf |-> <<>>])
       /\ Settled(p)
  ELSE TurnAway(p)

\* One poll: a shutdown comes before everything else, then a knock; the clients
\* served afterwards are those that were polled.
Poll ==
  /\ pc = "poll"
  /\ IF phase = "joining"
     THEN pc' = "exit" /\ UNCHANGED <<peer, tableVars, pipe, ws, polled, slots, idx>>
     ELSE /\ Readable # {} \/ Knocking("ws") # {}
          /\ IF Readable = {} THEN UNCHANGED <<pc, polled, slots, idx>>
             ELSE /\ polled' = Readable /\ slots' = Len(ws) /\ pc' = "serve"
                  /\ idx' = Min({e.slot : e \in Readable})
          /\ IF Knocking("ws") = {} THEN UNCHANGED <<peer, tableVars, pipe, ws>>
             ELSE \E p \in Knocking("ws"), handshake \in ws_handshake, pair \in BOOLEAN :
                    Accept(p, handshake, pair)
  /\ UNCHANGED <<left, unbridged, batch, phase, stopped, wireVars>>

\* ws_remove_client: both descriptors are closed, with what was not read from
\* them, and the last entry takes the place.
ws_remove_client(i) ==
  /\ ws' = SwapOut(ws, i)
  /\ up' = [up EXCEPT ![ws[i].peer] = <<>>]
  /\ unbridged' = unbridged \cup {ws[i].peer}

\* A round of the thread is over: the poll set is built anew.
EndRound == pc' = "poll" /\ polled' = {} /\ slots' = 0 /\ idx' = 1

\* The next slot poll reported something for, if it still has a client.
NextSlot ==
  LET ahead == {e.slot : e \in polled} \cap ((idx + 1)..Min({slots, Len(ws)}))
  IN  IF ahead = {} THEN EndRound
      ELSE pc' = "serve" /\ idx' = Min(ahead) /\ UNCHANGED <<polled, slots>>

\* Mutant: the slot's next holder is served with poll's answer for the old one.
AfterRemoval_same_slot ==
  IF idx < Len(ws) THEN pc' = "serve" /\ UNCHANGED <<polled, slots, idx>> ELSE EndRound

\* After a removal the slots no longer fit poll's answer, so the round ends.
AfterRemoval == EndRound

Drop == ws_remove_client(idx) /\ AfterRemoval

Reported(side) == [slot |-> idx, side |-> side] \in polled
StaysAt(label) == pc' = label /\ UNCHANGED <<polled, slots, idx>>

Take(s, n) == SubSeq(s, 1, n)
Skip(s, n) == SubSeq(s, n + 1, Len(s))
Fits(s, buf, cap) == Min({Len(s), cap - Len(buf)})

\* The peer's descriptor is readable: read it, or find the end of it.
ReadPeer ==
  /\ pc = "serve" /\ Reported("ws")
  /\ LET p == ws[idx].peer
         n == Fits(up[p], ws[idx].wbuf, FrameCap)
     IN  IF n = 0 THEN Drop
         ELSE \E k \in 1..n :
                /\ ws' = [ws EXCEPT ![idx].wbuf = @ \o Take(up[p], k)]
                /\ up' = [up EXCEPT ![p] = Skip(@, k)]
                /\ StaysAt("frames")
                /\ UNCHANGED unbridged
  /\ UNCHANGED <<peer, left, tableVars, pipe, batch, phase, stopped, unread, frames, talk>>

\* ws_decode_frame: what the buffer begins with.
ws_decode_frame(buf) ==
  IF buf = <<>> THEN "incomplete"
  ELSE IF ~buf[1].masked \/ buf[1].op = "cont" \/ buf[1].size > FrameCap THEN "error"
  ELSE IF Len(buf) < buf[1].size THEN "incomplete" ELSE buf[1].op

\* write_all towards the peer: it waits as long as the peer does not read; the
\* frame is lost if the peer has left.
write_all(p) ==
  \/ p \in left /\ UNCHANGED unread
  \/ p \notin left /\ unread[p] < SockCap /\ unread' = [unread EXCEPT ![p] = @ + 1]

\* write_line towards the broker: it waits as long as the broker does not read.
write_line(p, msg) ==
  /\ Len(inbox[p]) < BridgeCap
  /\ inbox' = [inbox EXCEPT ![p] = Append(@, msg)]

\* One round of the loop that decodes what was read.
RelayFrame ==
  /\ pc = "frames"
  /\ LET c == ws[idx]
         p == c.peer
         op == ws_decode_frame(c.wbuf)
         Consume == /\ ws' = [ws EXCEPT ![idx].wbuf = Skip(@, c.wbuf[1].size)]
                    /\ StaysAt("frames") /\ UNCHANGED <<up, unbridged>>
     IN  \/ /\ op = "incomplete"
            /\ IF Reported("bridge") THEN StaysAt("bridge") ELSE NextSlot
            /\ UNCHANGED <<up, ws, unbridged, inbox, unread>>
         \/ op = "error" /\ write_all(p) /\ Drop /\ UNCHANGED inbox
         \/ op = "text" /\ fd[p] # "closed" /\ write_line(p, c.wbuf[1].msg) /\ Consume
            /\ UNCHANGED unread
         \/ op = "text" /\ fd[p] = "closed" /\ Drop /\ UNCHANGED <<inbox, unread>>
         \/ op = "ping" /\ write_all(p) /\ Consume /\ UNCHANGED inbox
         \/ op = "close" /\ Drop /\ UNCHANGED <<inbox, unread>>
  /\ UNCHANGED <<peer, left, heap, clients, fd, closings, outbox, due, owed, proper, pipe,
                 batch, phase, stopped, frames, talk>>

\* The bridge is readable: read the broker's lines, or find the end of them.
ReadBridge ==
  /\ pc = "bridge" \/ (pc = "serve" /\ ~Reported("ws"))
  /\ LET p == ws[idx].peer
         n == Fits(outbox[p], ws[idx].bbuf, LineCap)
     IN  IF outbox[p] = <<>> THEN Drop /\ UNCHANGED outbox
         ELSE \E k \in 1..n :
                /\ ws' = [ws EXCEPT ![idx].bbuf = @ \o Take(outbox[p], k)]
                /\ outbox' = [outbox EXCEPT ![p] = Skip(@, k)]
                /\ StaysAt("lines")
                /\ UNCHANGED <<up, unbridged>>
  /\ UNCHANGED <<peer, left, heap, clients, fd, closings, inbox, due, owed, proper, pipe, batch,
                 phase, stopped, unread, frames, talk>>

\* Mutant: a line that is not complete yet is sent as far as it is there.
LineEnd_any(buf) == IF "nl" \in Range(buf) THEN SelectInSeq(buf, LAMBDA u : u = "nl") ELSE Len(buf)
\* Where the buffer's first line ends; 0 if it has none.
LineEnd(buf) == SelectInSeq(buf, LAMBDA u : u = "nl")

\* One round of the loop that turns lines into text frames; a buffer full of
\* a line without end is thrown away.
RelayLine ==
  /\ pc = "lines"
  /\ LET c == ws[idx]
         e == LineEnd(c.bbuf)
     IN  \/ /\ e = 0
            /\ ws' = IF Len(c.bbuf) >= LineCap THEN [ws EXCEPT ![idx].bbuf = <<>>] ELSE ws
            /\ NextSlot
            /\ UNCHANGED <<up, unbridged, unread, owed>>
         \/ /\ e > 0 /\ c.peer \notin left
            /\ write_all(c.peer)
            /\ owed' = [owed EXCEPT ![c.peer] = Tail(@)]
            /\ ws' = [ws EXCEPT ![idx].bbuf = Skip(@, e)]
            /\ StaysAt("lines") /\ UNCHANGED <<up, unbridged>>
         \/ e > 0 /\ c.peer \in left /\ Drop /\ UNCHANGED <<unread, owed>>
  /\ UNCHANGED <<peer, left, heap, clients, fd, closings, inbox, outbox, due, proper, pipe,
                 batch, phase, stopped, frames, talk>>

\* The thread's end: every client is removed.
Exit ==
  /\ pc = "exit" /\ pc' = "gone"
  /\ unbridged' = unbridged \cup Bridged
  /\ ws' = <<>>
  /\ UNCHANGED <<peer, left, tableVars, pipe, batch, phase, stopped, wireVars, polled,
                 slots, idx>>

(***************************************************************************)
(* The whole.                                                              *)
(***************************************************************************)
ThreadStep == \/ Poll \/ ReadPeer \/ RelayFrame
              \/ ReadBridge \/ RelayLine \/ Exit

LoopStep == \/ EpollWait \/ ServeClient \/ StopSinks \/ sm_broker_destroy
            \/ \E outcome \in Outcomes : ServeDoor(outcome)
            \/ pc = "gone" /\ CloseDoors

BrokerStep ==
  /\ LoopStep \/ sm_broker_stop \/ \E late \in SUBSET WithoutHello : Housekeeping(late)
  /\ UNCHANGED <<wireVars, threadVars>>

PeerStep ==
  \E p \in Peers :
    \/ (Knock(p) \/ PeerLeaves(p) \/ PeerExits(p)) /\ UNCHANGED <<wireVars, threadVars>>
    \/ PeerSays(p) \/ SendFrame(p) \/ PeerReads(p)

WsNext == ThreadStep \/ BrokerStep \/ PeerStep

WsSpec == WsInit /\ [][WsNext]_wsVars

(***************************************************************************)
(* Properties.                                                             *)
(***************************************************************************)
WsTypeOK ==
  /\ fd \in [Peers -> {"none", "pipe", "held", "closed"}]
  /\ phase \in {"run", "joining", "returned", "destroyed"}
  /\ Range(clients) \subseteq Addresses /\ IsInjective(clients)
  /\ batch = {} \/ phase = "run"
  /\ Len(pipe) <= PipeCap /\ Len(ws) <= WsClientCap
  /\ idx \in Nat /\ pc \in {"poll", "serve", "frames", "bridge", "lines", "exit", "gone"}

\* Every descriptor handed to the broker has one owner: a record in reg_pipe,
\* a client in the array, or nobody, and then it was closed once. The two
\* threads pass it through the pipe, the pipe and the array may be full, the
\* record may come after the peer has left, and an entry is moved on removal.
OneOwner ==
  /\ \A p \in Peers :
       LET records == {i \in DOMAIN pipe : pipe[i].peer = p}
           holders == {i \in DOMAIN clients : heap[clients[i]].peer = p}
       IN  /\ Cardinality(records) + Cardinality(holders) <= 1
           /\ fd[p] = "pipe" /\ phase \in {"run", "joining"} => Cardinality(records) = 1
           /\ fd[p] = "held" => Cardinality(holders) = 1
           /\ fd[p] \in {"none", "closed"} => records = {} /\ holders = {}
           /\ closings[p] = (IF fd[p] = "closed" THEN 1 ELSE 0)
  /\ \A a \in Addresses : heap[a] # Free <=> a \in Range(clients)
  /\ \A p \in Bridged : fd[p] # "none"

\* The messages whose frames begin in a sequence of units.
TextsIn(units) ==
  LET texts == SelectSeq(units, LAMBDA u : u.op = "text")
  IN  [i \in DOMAIN texts |-> texts[i].msg]

\* What a peer sent and the broker has not handled is, in order and once, on
\* its way to the broker as that peer's, and what the broker replied and no
\* frame has carried is on its way to that peer: whatever slots the thread's
\* array moves the two through and wherever reads cut frames and lines.
RelayFaithful ==
  \A i \in DOMAIN ws :
    LET p == ws[i].peer
    IN  /\ fd[p] # "closed" => due[p] = inbox[p] \o TextsIn(ws[i].wbuf \o up[p])
        /\ ws[i].bbuf \o outbox[p] = FlattenSeq([j \in DOMAIN owed[p] |-> Line(owed[p][j])])

\* The thread drops a peer only for a reason of that peer's own: it left, the
\* broker closed its bridge, it sent a frame that ends the connection, or the
\* sink is stopping.
DroppedForCause ==
  \A i \in DOMAIN ws :
    LET p == ws[i].peer
    IN  p \notin {ws'[j].peer : j \in DOMAIN ws'} =>
          \/ p \in left \/ fd[p] = "closed" \/ pc = "exit"
          \/ ws_decode_frame(ws[i].wbuf) \in {"close", "error"}

\* A client is past its hello only if an acceptable one came on its
\* connection, for a network peer one with the token, whichever door and
\* thread it came by; and no two clients past their hello have one name, also
\* when the name came with an earlier hello that was refused.
HelloGoverns ==
  /\ \A a \in Range(clients) : heap[a].hello => heap[a].peer \in proper
  /\ \A a, b \in Range(clients) :
       a # b /\ heap[a].hello /\ heap[b].hello => heap[a].name = "" \/ heap[a].name # heap[b].name

\* Neither thread has anything left to do: nothing to accept, read, relay,
\* register or sweep, and no peer with frames to read.
Quiet ==
  /\ Between /\ ~stopped /\ ReadyEvents = {} /\ Overdue(WithoutHello) = {}
  /\ pc = "poll" /\ Readable = {} /\ Knocking("ws") = {}

\* Whoever connected is in the end a client past its hello or turned away, and
\* whoever left, died or was closed on one side is closed on the other: no knock
\* is lost, no record stays in reg_pipe, no slot is kept by a connection without
\* a hello or without a process, no half of a bridge outlives the other.
NobodyForgotten ==
  Quiet =>
    \A p \in Peers :
      LET member == \E a \in Range(clients) : heap[a].peer = p /\ heap[a].hello
      IN  /\ peer[p].state # "away" => member \/ fd[p] = "closed"
          /\ p \in left \/ peer[p].state = "exited" => fd[p] = "closed"
          /\ peer[p].door = "ws" => (member <=> p \in Bridged)
          /\ member => inbox[p] = <<>> /\ outbox[p] = <<>>

\* The door is kept: nobody gets past the hello but by it, and everybody else
\* is either let in or turned away.
DoorKept == HelloGoverns /\ NobodyForgotten

\* A peer of the thread is served: its messages and the replies pass whole and
\* in order, and it is dropped for nothing but its own doing.
PeersServed == [][RelayFaithful' /\ DroppedForCause]_wsVars

\* While the broker waits for the thread to exit (and reads nothing), the
\* thread is not waiting for the broker to read.
JoinEnds ==
  phase = "joining" /\ pc = "frames" =>
    LET p == ws[idx].peer
    IN  ws_decode_frame(ws[idx].wbuf) = "text" =>
          fd[p] = "closed" \/ Len(inbox[p]) < BridgeCap

\* A client that has not hung up is not removed for an event reported for a
\* connection that had its address before.
EventIsOwn ==
  [][\A e \in batch \ batch' : e.tag = "client" /\ IsLive(e.addr) /\ e.hup =>
       Hung(heap[e.addr].peer)]_wsVars

\* Nothing handed over is left open when the broker is gone.
NothingLeaks == phase = "destroyed" => \A p \in Peers : fd[p] \in {"none", "closed"}
=============================================================================
