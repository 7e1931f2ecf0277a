---------------------------- MODULE Registration ----------------------------
(***************************************************************************)
(* How a connection becomes a client of the broker, and stops being one:   *)
(* the Unix listener and the TCP sink accept on the broker's own thread,   *)
(* the WebSocket thread (module WsSink) hands its descriptors over through *)
(* reg_pipe; the client says hello; a newer client of the same name, a     *)
(* hang-up, the hello time-out or the death of its process removes it.     *)
(*                                                                         *)
(* One peer makes one connection. The events of one epoll_wait are a set,  *)
(* served in any order; a client's event carries the address of its        *)
(* sm_client_t, as events[].data.ptr does, and the allocator may give a    *)
(* freed address to the next client.                                       *)
(***************************************************************************)
EXTENDS Integers, Sequences, SequencesExt, FiniteSets, FiniteSetsExt

CONSTANTS
  Peers,          \* connections
  DoorsOf,        \* the doors each peer may knock at: "unix", "tcp", "ws"
  MessagesOf,     \* what each peer may say: hellos and commands
  HasToken,       \* the broker was given an auth token
  AllocFailures,  \* ways sm_client_new may fail: "struct", "buffers"
  ClientCap,      \* SM_MAX_CLIENTS
  PipeCap,        \* records reg_pipe holds
  BridgeCap       \* lines a connection's kernel buffer holds towards the broker

ASSUME RegistrationAssumption ==
  /\ IsFiniteSet(Peers) /\ "nobody" \notin Peers
  /\ DoorsOf \in [Peers -> (SUBSET {"unix", "tcp", "ws"}) \ {{}}]
  /\ ClientCap \in Nat \ {0} /\ PipeCap \in Nat \ {0} /\ BridgeCap \in Nat \ {0}
  /\ HasToken \in BOOLEAN
  /\ AllocFailures \subseteq {"struct", "buffers"}

None == 0
Addresses == 1..ClientCap

NewClient(p, auth) ==
  [peer |-> p, auth |-> auth, hello |-> FALSE, name |-> "", dropped |-> FALSE]
Free == NewClient("nobody", FALSE)

VARIABLES
  peer,      \* per peer: its state and the door it chose
  inbox,     \* per peer: messages on the broker's descriptor for it, unread
  outbox,    \* per peer: units the broker wrote that the WebSocket thread has to read
  left,      \* peers that closed their connection
  unbridged, \* WebSocket peers whose bridge to the broker the thread closed
  fd,        \* where the broker's descriptor is: "none", "pipe", "held", "closed"
  closings,  \* how often it was closed
  heap,      \* per address: an sm_client_t, or Free
  clients,   \* b->clients, addresses
  pipe,      \* reg_pipe: records of a peer's descriptor and requires_auth
  batch,     \* events of this round not served yet
  phase,     \* "run", "joining" the sinks, "returned" from sm_broker_run, "destroyed"
  stopped,   \* b->stopped
  due,       \* history, per peer: messages it sent that are not handled yet
  owed,      \* history, per peer: replies to it that no frame has carried yet
  proper     \* history: peers from which an acceptable hello has come

regVars == <<peer, inbox, outbox, left, unbridged, fd, closings, heap, clients,
             pipe, batch, phase, stopped, due, owed, proper>>

tableVars == <<heap, clients, fd, closings, inbox, outbox, due, owed, proper>>

RegistrationInit ==
  /\ peer = [p \in Peers |-> [state |-> "away", door |-> CHOOSE d \in DoorsOf[p] : TRUE]]
  /\ inbox = [p \in Peers |-> <<>>] /\ outbox = [p \in Peers |-> <<>>]
  /\ left = {} /\ unbridged = {}
  /\ fd = [p \in Peers |-> "none"] /\ closings = [p \in Peers |-> 0]
  /\ heap = [a \in Addresses |-> Free] /\ clients = <<>>
  /\ pipe = <<>> /\ batch = {}
  /\ phase = "run" /\ stopped = FALSE
  /\ due = [p \in Peers |-> <<>>] /\ owed = [p \in Peers |-> <<>>] /\ proper = {}

\* The other end of the broker's descriptor for p is closed.
Hung(p) == p \in (IF peer[p].door = "ws" THEN unbridged ELSE left)

IsLive(a) == a \in Range(clients)

\* The broker's table, its descriptors and what was done on them, as one value.
Table == [heap |-> heap, clients |-> clients, fd |-> fd, closings |-> closings,
          inbox |-> inbox, outbox |-> outbox, due |-> due, owed |-> owed, proper |-> proper]
SetTable(t) == /\ heap' = t.heap /\ clients' = t.clients
               /\ fd' = t.fd /\ closings' = t.closings
               /\ inbox' = t.inbox /\ outbox' = t.outbox
               /\ due' = t.due /\ owed' = t.owed /\ proper' = t.proper

\* A descriptor is closed; what was not read from it is lost.
TableClosing(t, p, times) ==
  [t EXCEPT !.fd[p] = "closed", !.closings[p] = @ + times, !.inbox[p] = <<>>,
            !.due[p] = <<>>]

(***************************************************************************)
(* Removing clients.                                                       *)
(***************************************************************************)

\* Array removal: the last entry takes the place of entry i.
SwapOut(s, i) == SubSeq([s EXCEPT ![i] = s[Len(s)]], 1, Len(s) - 1)

\* Entry i goes if it is in gone.
Swept(s, i, gone) == IF s[i] \in gone THEN SwapOut(s, i) ELSE s

\* The loops that remove several clients walk the array downwards.
Without(s, gone) ==
  LET after[k \in 0..Len(s)] ==
        IF k = 0 THEN s ELSE Swept(after[k - 1], Len(s) + 1 - k, gone)
  IN  after[Len(s)]

\* remove_client for each client in gone: out of the array, its descriptor
\* closed, its memory freed.
remove_clients(t, gone) ==
  LET kept == Without(t.clients, gone)
      freed == Range(t.clients) \ Range(kept)
      Of(p) == {a \in freed : t.heap[a].peer = p}
  IN  [t EXCEPT !.clients = kept,
                !.heap = [a \in Addresses |-> IF a \in freed THEN Free ELSE t.heap[a]],
                !.fd = [p \in Peers |-> IF Of(p) = {} THEN t.fd[p] ELSE "closed"],
                !.closings = [p \in Peers |-> t.closings[p] + Cardinality(Of(p))],
                !.inbox = [p \in Peers |-> IF Of(p) = {} THEN t.inbox[p] ELSE <<>>],
                !.due = [p \in Peers |-> IF Of(p) = {} THEN t.due[p] ELSE <<>>]]

(***************************************************************************)
(* Becoming a client.                                                      *)
(***************************************************************************)

\* sm_broker_register_client: full, out of memory (a client whose buffers
\* cannot be had is destroyed, which closes the descriptor, and the caller
\* closes it again), refused by epoll_ctl, or in.
sm_broker_register_client(t, p, auth, outcome) ==
  LET a == Min({x \in Addresses : t.heap[x] = Free})
  IN  IF Len(t.clients) >= ClientCap THEN TableClosing(t, p, 1)
      ELSE CASE outcome = "struct" -> TableClosing(t, p, 1)
             [] outcome = "buffers" -> TableClosing(t, p, 2)
             [] outcome = "epoll" -> TableClosing(t, p, 1)
             [] outcome = "ok" ->
             [t EXCEPT !.heap[a] = NewClient(p, auth),
                       !.clients = Append(@, a),
                       !.fd[p] = "held"]

Outcomes == {"ok", "epoll"} \cup AllocFailures

\* The same for every record of a list.
RegisterAll(t, records, outcome) ==
  LET after[k \in 0..Len(records)] ==
        IF k = 0 THEN t
        ELSE sm_broker_register_client(after[k - 1], records[k].peer, records[k].auth, outcome)
  IN  after[Len(records)]

Knocking(door) == {p \in Peers : peer[p] = [state |-> "knocking", door |-> door]}
Admit(ps) == peer' = [p \in Peers |-> IF p \in ps THEN [peer[p] EXCEPT !.state = "open"]
                                      ELSE peer[p]]

\* accept_client: one connection per event of the Unix listener.
accept_client(outcome) ==
  \E p \in Knocking("unix") :
    /\ SetTable(sm_broker_register_client(Table, p, FALSE, outcome))
    /\ Admit({p})

\* The connections of ps, in some order.
Arrivals(ps, auth) ==
  LET order == SetToSeq(ps) IN [i \in DOMAIN order |-> [peer |-> order[i], auth |-> auth]]

\* Mutant: the token is not asked of TCP clients.
tcp_on_readable_trusts(outcome) ==
  /\ SetTable(RegisterAll(Table, Arrivals(Knocking("tcp"), FALSE), outcome))
  /\ Admit(Knocking("tcp"))

\* tcp_on_readable: every connection waiting at the TCP sink.
tcp_on_readable(outcome) ==
  /\ SetTable(RegisterAll(Table, Arrivals(Knocking("tcp"), TRUE), outcome))
  /\ Admit(Knocking("tcp"))

\* Mutant: the loop forgets requires_auth.
ReadRegPipe_trusts(outcome) ==
  /\ SetTable(RegisterAll(Table, [i \in DOMAIN pipe |-> [pipe[i] EXCEPT !.auth = FALSE]], outcome))
  /\ pipe' = <<>>

\* EPOLL_TAG_PIPE: every record in reg_pipe.
ReadRegPipe(outcome) ==
  /\ SetTable(RegisterAll(Table, pipe, outcome))
  /\ pipe' = <<>>

\* Mutant: the descriptor of a record that did not fit is kept.
sm_broker_register_client_async_keeps(p, auth) ==
  IF Len(pipe) < PipeCap
  THEN /\ pipe' = Append(pipe, [peer |-> p, auth |-> auth])
       /\ fd' = [fd EXCEPT ![p] = "pipe"]
       /\ UNCHANGED <<heap, clients, closings, inbox, outbox, due, owed, proper>>
  ELSE UNCHANGED <<pipe, tableVars>>

\* sm_broker_register_client_async: a record that does not fit closes its
\* descriptor.
sm_broker_register_client_async(p, auth) ==
  IF Len(pipe) < PipeCap
  THEN /\ pipe' = Append(pipe, [peer |-> p, auth |-> auth])
       /\ fd' = [fd EXCEPT ![p] = "pipe"]
       /\ UNCHANGED <<heap, clients, closings, inbox, outbox, due, owed, proper>>
  ELSE SetTable(TableClosing(Table, p, 1)) /\ UNCHANGED pipe

(***************************************************************************)
(* What clients say.                                                       *)
(***************************************************************************)

\* Replies as the units of their line.
Line(reply) == <<reply, "nl">>

Reply(t, p, reply) ==
  IF peer[p].door = "ws" /\ p \notin unbridged
  THEN [t EXCEPT !.owed[p] = Append(@, reply), !.outbox[p] = @ \o Line(reply)]
  ELSE t

\* A hello the broker may accept from that peer, by the door it came through.
Acceptable(p, msg) ==
  /\ msg.t = "hello" /\ msg.role /\ msg.version
  /\ peer[p].door # "unix" /\ HasToken => msg.token

TokenRefused(c, msg) == c.auth /\ HasToken /\ ~msg.token

\* The older clients a hello of that name replaces.
Namesakes(t, a, name) ==
  {o \in Range(t.clients) \ {a} : name # "" /\ t.heap[o].hello /\ t.heap[o].name = name}

\* Mutant: the name of a hello replaces its namesakes only if it came with it.
handle_hello_own_name(t, a, msg) ==
  LET c == t.heap[a]
      named == IF msg.name = "" THEN c.name ELSE msg.name
      refused == IF c.hello THEN c
                 ELSE IF TokenRefused(c, msg) THEN [c EXCEPT !.dropped = TRUE]
                 ELSE IF ~msg.role THEN c ELSE [c EXCEPT !.name = named]
      accepted == ~c.hello /\ ~TokenRefused(c, msg) /\ msg.role /\ msg.version
  IN  IF accepted
      THEN Reply(remove_clients([t EXCEPT !.heap[a] = [c EXCEPT !.hello = TRUE, !.name = named]],
                                Namesakes(t, a, msg.name)), c.peer, "welcome")
      ELSE Reply([t EXCEPT !.heap[a] = refused], c.peer, "error")

\* handle_hello, in the order of its checks: a second hello, the token, the
\* role, the name (kept even if the hello is then refused), the version. A
\* hello that is accepted replaces the older clients of its name.
handle_hello(t, a, msg) ==
  LET c == t.heap[a]
      named == IF msg.name = "" THEN c.name ELSE msg.name
      refused == IF c.hello THEN c
                 ELSE IF TokenRefused(c, msg) THEN [c EXCEPT !.dropped = TRUE]
                 ELSE IF ~msg.role THEN c ELSE [c EXCEPT !.name = named]
      accepted == ~c.hello /\ ~TokenRefused(c, msg) /\ msg.role /\ msg.version
  IN  IF accepted
      THEN Reply(remove_clients([t EXCEPT !.heap[a] = [c EXCEPT !.hello = TRUE, !.name = named]],
                                Namesakes(t, a, named)), c.peer, "welcome")
      ELSE Reply([t EXCEPT !.heap[a] = refused], c.peer, "error")

\* handle_client_message: nothing but a hello is obeyed before the hello, and
\* nothing at all once the client is to be dropped.
handle_client_message(t, a, msg) ==
  LET p == t.heap[a].peer
      noted == [t EXCEPT !.due[p] = Tail(@),
                         !.proper = @ \cup {q \in {p} : Acceptable(p, msg)}]
  IN  IF t.heap[a].dropped THEN t
      ELSE IF msg.t = "hello" THEN handle_hello(noted, a, msg)
      ELSE Reply(noted, p, IF t.heap[a].hello THEN "ack" ELSE "error")

(***************************************************************************)
(* The loop of sm_broker_run.                                              *)
(***************************************************************************)
Between == phase = "run" /\ batch = {}

ListenEvent == [tag |-> "listen", addr |-> None, hup |-> FALSE]
TcpEvent == [tag |-> "tcp", addr |-> None, hup |-> FALSE]
PipeEvent == [tag |-> "pipe", addr |-> None, hup |-> FALSE]
ClientEvent(a) == [tag |-> "client", addr |-> a, hup |-> Hung(heap[a].peer)]

ReadyEvents ==
  {e \in {ListenEvent} : Knocking("unix") # {}}
  \cup {e \in {TcpEvent} : Knocking("tcp") # {}}
  \cup {e \in {PipeEvent} : pipe # <<>>}
  \cup {ClientEvent(a) : a \in {x \in Range(clients) :
                                  inbox[heap[x].peer] # <<>> \/ Hung(heap[x].peer)}}

EpollWait ==
  /\ Between /\ ~stopped
  /\ ReadyEvents # {}
  /\ batch' = ReadyEvents
  /\ UNCHANGED <<peer, left, unbridged, tableVars, pipe, phase, stopped>>

\* A listener, the TCP sink or reg_pipe is served.
ServeDoor(outcome) ==
  /\ phase = "run"
  /\ \E e \in batch :
       /\ batch' = batch \ {e}
       /\ CASE e.tag = "listen" -> accept_client(outcome) /\ UNCHANGED pipe
            [] e.tag = "tcp" -> tcp_on_readable(outcome) /\ UNCHANGED pipe
            [] e.tag = "pipe" -> ReadRegPipe(outcome) /\ UNCHANGED peer
            [] OTHER -> FALSE
  /\ UNCHANGED <<left, unbridged, phase, stopped>>

\* The event of a client that is gone by now is skipped (is_client_live).
Served(e) == IsLive(e.addr)

\* The messages of a client, one after the other.
HandleAll(t, a, msgs) ==
  LET after[k \in 0..Len(msgs)] ==
        IF k = 0 THEN t ELSE handle_client_message(after[k - 1], a, msgs[k])
  IN  after[Len(msgs)]

\* process_client_event: what has come is read and handled, then a hang-up is
\* honoured; the end of the stream counts when nothing else is left to read.
ClientEventDone(t, a, hup) ==
  LET p == t.heap[a].peer
      after == HandleAll([t EXCEPT !.inbox[p] = <<>>], a, t.inbox[p])
      over == hup \/ after.heap[a].dropped \/ (t.inbox[p] = <<>> /\ Hung(p))
  IN  IF over THEN remove_clients(after, {a}) ELSE after

ServeClient ==
  /\ phase = "run"
  /\ \E e \in batch :
       /\ e.tag = "client"
       /\ batch' = batch \ {e}
       /\ IF Served(e)
          THEN SetTable(ClientEventDone(Table, e.addr, e.hup))
          ELSE UNCHANGED tableVars
  /\ UNCHANGED <<peer, left, unbridged, pipe, phase, stopped>>

\* Mutant: the sweep spares the clients without a hello.
Overdue_patient(late) == {a \in Range(clients) : peer[heap[a].peer].state = "exited"}

\* The clients the housekeeping drops: those late with their hello, and (on a
\* Unix socket, where the kernel names the process) those whose process is gone.
Overdue(late) == late \cup {a \in Range(clients) : peer[heap[a].peer].state = "exited"}

WithoutHello == {a \in Range(clients) : ~heap[a].hello}

\* The two-second sweep at the end of a round; SM_HELLO_TIMEOUT_S have passed
\* for some of the clients without a hello.
Housekeeping(late) ==
  /\ Between
  /\ Overdue(late) # {}
  /\ SetTable(remove_clients(Table, Overdue(late)))
  /\ UNCHANGED <<peer, left, unbridged, pipe, batch, phase, stopped>>

(***************************************************************************)
(* Stopping: sm_broker_stop, the end of sm_broker_run, sm_broker_destroy.  *)
(***************************************************************************)
sm_broker_stop ==
  /\ ~stopped
  /\ stopped' = TRUE
  /\ UNCHANGED <<peer, left, unbridged, tableVars, pipe, batch, phase>>

\* The loop ends and the sinks are stopped: the WebSocket thread is told to
\* exit and waited for.
StopSinks ==
  /\ Between /\ stopped
  /\ phase' = "joining"
  /\ UNCHANGED <<peer, left, unbridged, tableVars, pipe, batch, stopped>>

\* The thread has been joined: the listeners and reg_pipe are closed.
CloseDoors ==
  /\ phase = "joining"
  /\ phase' = "returned"
  /\ pipe' = <<>>
  /\ UNCHANGED <<peer, left, unbridged, tableVars, batch, stopped>>

sm_broker_destroy ==
  /\ phase = "returned"
  /\ phase' = "destroyed"
  /\ SetTable(remove_clients(Table, Range(clients)))
  /\ UNCHANGED <<peer, left, unbridged, pipe, batch, stopped>>

(***************************************************************************)
(* The peers.                                                              *)
(***************************************************************************)
Knock(p) ==
  /\ peer[p].state = "away"
  /\ \E d \in DoorsOf[p] : peer' = [peer EXCEPT ![p] = [state |-> "knocking", door |-> d]]
  /\ UNCHANGED <<left, unbridged, tableVars, pipe, batch, phase, stopped>>

\* A peer writes a message to the broker's own socket, if there is room.
Say(p, msg) ==
  /\ peer[p].state = "open" /\ peer[p].door # "ws"
  /\ p \notin left /\ fd[p] # "closed"
  /\ Len(inbox[p]) < BridgeCap
  /\ inbox' = [inbox EXCEPT ![p] = Append(@, msg)]
  /\ due' = [due EXCEPT ![p] = Append(@, msg)]
  /\ UNCHANGED <<peer, left, unbridged, heap, clients, fd, closings, outbox, owed, proper,
                 pipe, batch, phase, stopped>>

PeerLeaves(p) ==
  /\ peer[p].state \in {"knocking", "open"} /\ p \notin left /\ fd[p] # "closed"
  /\ left' = left \cup {p}
  /\ UNCHANGED <<peer, unbridged, tableVars, pipe, batch, phase, stopped>>

\* The process of a Unix peer ends while another one keeps its socket open, so
\* that the broker sees no hang-up.
PeerExits(p) ==
  /\ peer[p].state = "open" /\ peer[p].door = "unix" /\ p \notin left
  /\ peer' = [peer EXCEPT ![p].state = "exited"]
  /\ UNCHANGED <<left, unbridged, tableVars, pipe, batch, phase, stopped>>
=============================================================================
