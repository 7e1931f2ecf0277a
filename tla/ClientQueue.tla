---------------------------- MODULE ClientQueue ----------------------------
(***************************************************************************)
(* A client's messages on their way out: a bounded circular queue of lines *)
(* per client, filled by broadcasts, which share one counted line between  *)
(* the clients, and by replies, which do not; neighbouring output lines    *)
(* are merged; the kernel takes some bytes at a time (client.c,            *)
(* util/shared_line.c).                                                    *)
(*                                                                         *)
(* A line is the sequence of the messages merged in it. Each message is    *)
(* one byte and the newline one more, so that a line can be partly sent.   *)
(***************************************************************************)
EXTENDS Integers, Sequences, SequencesExt, FiniteSets, FiniteSetsExt

CONSTANTS
  Clients,
  NoClient,
  WqCap,        \* SM_CLIENT_WRITE_QUEUE_SIZE
  CoalesceMax,  \* SM_CLIENT_COALESCE_MAX_BYTES
  MaxMsgs       \* bound on the messages sent

ASSUME QueueAssumption ==
  /\ IsFiniteSet(Clients) /\ NoClient \notin Clients
  /\ WqCap \in Nat \ {0}
  /\ CoalesceMax \in Nat
  /\ MaxMsgs \in Nat

VARIABLES
  unborn,  \* clients that have not connected yet
  live,    \* clients that are connected and past hello
  wq,      \* per client: slots, head, count, drops
  refs,    \* reference count of every line ever shared; 0 once freed
  sent,    \* messages sent so far
  wire     \* per client, the bytes the kernel took: message numbers, 0 a newline

queueVars == <<unborn, live, wq, refs, sent, wire>>

Message == [n : 1..MaxMsgs, output : BOOLEAN]

\* A broadcast shares one line; a client that merges makes a line of its own.
LineIds == [n : 1..MaxMsgs, by : Clients \cup {NoClient}]
NoLine == [n |-> 0, by |-> NoClient]

\* sm_write_entry_t. The length and the offset of a free slot are not read.
Entry == [data : Seq(Message), shared : LineIds \cup {NoLine}, offset : Nat]
FreeSlot == [data |-> <<>>, shared |-> NoLine, offset |-> 0]

sm_client_new == [slots |-> [i \in 0..(WqCap - 1) |-> FreeSlot], head |-> 0, count |-> 0, drops |-> 0]

QueueTypeOK ==
  /\ live \subseteq Clients
  /\ unborn \subseteq Clients \ live
  /\ wq \in [Clients -> [slots : [0..(WqCap - 1) -> Entry],
                         head : 0..(WqCap - 1), count : 0..WqCap, drops : 0..MaxMsgs]]
  /\ refs \in [LineIds -> Nat]
  /\ sent \in 0..MaxMsgs
  /\ wire \in [Clients -> Seq(0..MaxMsgs)]

QueueInit ==
  /\ unborn = Clients
  /\ live = {}
  /\ wq = [c \in Clients |-> sm_client_new]
  /\ refs = [l \in LineIds |-> 0]
  /\ sent = 0
  /\ wire = [c \in Clients |-> <<>>]

SlotOf(q, i) == (q.head + i) % WqCap
LastSlot(q) == SlotOf(q, q.count - 1)
Queued(q) == [i \in 1..q.count |-> q.slots[SlotOf(q, i - 1)]]

Bytes(data) == [i \in 1..(Len(data) + 1) |-> IF i <= Len(data) THEN data[i].n ELSE 0]
LineLen(data) == Len(data) + 1

Acquire(r, l) == [r EXCEPT ![l] = @ + 1]
Release(r, l) == IF l = NoLine THEN r ELSE [r EXCEPT ![l] = @ - 1]

(***************************************************************************)
(* Sending: operators on one client's queue and on the reference counts,   *)
(* s = [q, r].                                                             *)
(***************************************************************************)

HasRoom(q) == q.count < WqCap

Dropped(q) == [q EXCEPT !.drops = @ + 1]
Put(q, e) == [q EXCEPT !.slots[SlotOf(q, q.count)] = e, !.count = @ + 1]

\* A reply. The slot's shared field is not written.
sm_client_send(q, msg) ==
  IF ~HasRoom(q) THEN Dropped(q)
  ELSE Put(q, [q.slots[SlotOf(q, q.count)] EXCEPT !.data = <<msg>>, !.offset = 0])

\* Mutant: a partly sent line is merged, too.
CanCoalesce_partly_sent(q, msg) ==
  /\ msg.output
  /\ q.count > 0
  /\ LET prev == q.slots[LastSlot(q)]
     IN  /\ LineLen(prev.data) < CoalesceMax
         /\ prev.shared # NoLine
         /\ prev.data[1].output

\* The newest line is output, not too long and not partly sent.
CanCoalesce(q, msg) ==
  /\ msg.output
  /\ q.count > 0
  /\ LET prev == q.slots[LastSlot(q)]
     IN  /\ prev.offset = 0
         /\ LineLen(prev.data) < CoalesceMax
         /\ prev.shared # NoLine
         /\ prev.data[1].output

\* Mutant: the line that was merged is not released.
try_coalesce_output_leaks(s, msg, merged) ==
  LET prev == s.q.slots[LastSlot(s.q)]
  IN  [q |-> [s.q EXCEPT !.slots[LastSlot(s.q)] =
                [data |-> Append(prev.data, msg), shared |-> merged, offset |-> 0]],
       r |-> [s.r EXCEPT ![merged] = 1]]

\* The newest line is replaced by a line of the client's own, one message longer.
try_coalesce_output(s, msg, merged) ==
  LET prev == s.q.slots[LastSlot(s.q)]
  IN  [q |-> [s.q EXCEPT !.slots[LastSlot(s.q)] =
                [data |-> Append(prev.data, msg), shared |-> merged, offset |-> 0]],
       r |-> Release([s.r EXCEPT ![merged] = 1], prev.shared)]

\* mergeable is FALSE when the merged line cannot be built.
sm_client_send_shared(s, msg, line, merged, mergeable) ==
  IF mergeable /\ CanCoalesce(s.q, msg) THEN try_coalesce_output(s, msg, merged)
  ELSE IF ~HasRoom(s.q) THEN [s EXCEPT !.q = Dropped(@)]
  ELSE [q |-> Put(s.q, [data |-> <<msg>>, shared |-> line, offset |-> 0]),
        r |-> Acquire(s.r, line)]

(***************************************************************************)
(* Actions.                                                                *)
(***************************************************************************)
Connect(c) ==
  /\ c \in unborn
  /\ unborn' = unborn \ {c}
  /\ live' = live \cup {c}
  /\ wq' = [wq EXCEPT ![c] = sm_client_new]
  /\ UNCHANGED <<refs, sent, wire>>

\* One client gets the line.
SendTo(all, c, msg, line, able) ==
  LET s == sm_client_send_shared([q |-> all.wq[c], r |-> all.refs], msg, line,
                                 [line EXCEPT !.by = c], c \in able)
  IN  [wq |-> [all.wq EXCEPT ![c] = s.q], refs |-> s.r]

\* The clients of order get it, one after the other.
SendToAll(all, order, msg, line, able) ==
  LET after[k \in 0..Len(order)] ==
        IF k = 0 THEN all ELSE SendTo(after[k - 1], order[k], msg, line, able)
  IN  after[Len(order)]

\* One line for all connected clients but one; the broker's own reference is
\* held while it goes round. The order of the clients makes no difference.
broadcast(output, exclude, able) ==
  LET msg == [n |-> sent + 1, output |-> output]
      line == [n |-> sent + 1, by |-> NoClient]
      after == SendToAll([wq |-> wq, refs |-> Acquire(refs, line)],
                         SetToSeq(live \ {exclude}), msg, line, able)
  IN  /\ sent < MaxMsgs
      /\ sent' = sent + 1
      /\ wq' = after.wq
      /\ refs' = Release(after.refs, line)
      /\ UNCHANGED <<unborn, live, wire>>

\* A reply to one client. Output is only ever broadcast.
send_to_client(c) ==
  /\ c \in live
  /\ sent < MaxMsgs
  /\ sent' = sent + 1
  /\ wq' = [wq EXCEPT ![c] = sm_client_send(@, [n |-> sent + 1, output |-> FALSE])]
  /\ UNCHANGED <<unborn, live, refs, wire>>

\* The head line after n more of its bytes went out: freed when all have.
Written(q, n) ==
  IF q.slots[q.head].offset + n < LineLen(q.slots[q.head].data)
  THEN [q EXCEPT !.slots[q.head].offset = @ + n]
  ELSE [q EXCEPT !.slots[q.head] = FreeSlot, !.head = (@ + 1) % WqCap, !.count = @ - 1]

\* One write() of sm_client_flush, of n bytes; a flush is any number of them
\* and ends when the queue is empty or the kernel takes no more.
sm_client_flush(c, n) ==
  LET e == wq[c].slots[wq[c].head]
  IN  /\ c \in live
      /\ wq[c].count > 0
      /\ n \in 1..(LineLen(e.data) - e.offset)
      /\ wire' = [wire EXCEPT ![c] = @ \o SubSeq(Bytes(e.data), e.offset + 1, e.offset + n)]
      /\ wq' = [wq EXCEPT ![c] = Written(@, n)]
      /\ refs' = IF wq'[c].count < wq[c].count THEN Release(refs, e.shared) ELSE refs
      /\ UNCHANGED <<unborn, live, sent>>

\* sm_client_destroy: the lines of queue q are released, oldest first.
Released(r, q) ==
  LET after[k \in 0..q.count] ==
        IF k = 0 THEN r ELSE Release(after[k - 1], Queued(q)[k].shared)
  IN  after[q.count]

\* A write fails, or the client hangs up: its queue is freed.
remove_client(c) ==
  /\ c \in live
  /\ live' = live \ {c}
  /\ refs' = Released(refs, wq[c])
  /\ wq' = [wq EXCEPT ![c] = [sm_client_new EXCEPT !.drops = wq[c].drops]]
  /\ UNCHANGED <<unborn, sent, wire>>

\* Mutant: the last line waits for the next.
Flush_keeps_last(c) == wq[c].count > 1 /\ \E n \in 1..(MaxMsgs + 1) : sm_client_flush(c, n)

\* flush_client_queues, and the EPOLLOUT event, for one client.
Flush(c) == \E n \in 1..(MaxMsgs + 1) : sm_client_flush(c, n)

QueueNext ==
  \/ \E exclude \in live \cup {NoClient} :
       broadcast(FALSE, exclude, {}) \/ \E able \in SUBSET live : broadcast(TRUE, exclude, able)
  \/ \E c \in Clients : Connect(c) \/ send_to_client(c) \/ Flush(c) \/ remove_client(c)

QueueSpec == QueueInit /\ [][QueueNext]_queueVars

\* Every turn of the loop flushes every queue; a connected client reads.
QueueFairSpec == QueueSpec /\ \A c \in Clients : WF_queueVars(Flush(c))

(***************************************************************************)
(* Properties.                                                             *)
(***************************************************************************)

\* A line is counted once for every entry that points to it, in whichever
\* queue: none is freed while a client still has to send it, none is kept.
RefsExact ==
  LET pointers == UNION {{<<c, i>> : i \in 1..wq[c].count} : c \in Clients}
      LineOf(p) == Queued(wq[p[1]])[p[2]].shared
  IN  \A l \in LineIds : refs[l] = Cardinality({p \in pointers : LineOf(p) = l})

\* The messages of the first n lines.
Numbers(data) == [k \in 1..Len(data) |-> data[k].n]
Joined(lines, n) ==
  LET all[i \in 0..n] == IF i = 0 THEN <<>> ELSE all[i - 1] \o Numbers(lines[i].data)
  IN  all[n]

\* The messages among the first n bytes.
TextOf(bytes, n) ==
  LET text[i \in 0..n] ==
        IF i = 0 THEN <<>>
        ELSE IF bytes[i] = 0 THEN text[i - 1] ELSE Append(text[i - 1], bytes[i])
  IN  text[n]

\* Where the last whole line ends.
LastEnd(bytes) == Max({0} \cup {i \in DOMAIN bytes : bytes[i] = 0})

\* The messages waiting in a queue, and those whose line has fully arrived.
Waiting(c) == Joined(Queued(wq[c]), wq[c].count)
Arrived(c) == TextOf(wire[c], LastEnd(wire[c]))

\* A client receives the lines it was sent, whole, once and in order, however
\* they were merged and however the kernel cut them; a message is missing only
\* where it was counted in wq_drops, and only a full queue drops.
Fifo == INSTANCE LossyFifo WITH
  offered <- sent,
  connected <- live,
  fifo <- [c \in Clients |-> Waiting(c)],
  got <- [c \in Clients |-> Arrived(c)],
  drops <- [c \in Clients |-> wq[c].drops]
DeliversInOrder == Fifo!Spec

InQueue(n) ==
  \E c \in Clients : \E i \in 1..wq[c].count :
    LET data == Queued(wq[c])[i].data IN \E k \in DOMAIN data : data[k].n = n

\* A message that was queued leaves every queue again, which by DeliversInOrder
\* it does only by arriving or with its client: clients that read are served,
\* although others of the line's clients leave or are served later.
NoneLeftQueued == \A n \in 1..MaxMsgs : InQueue(n) ~> ~InQueue(n)

=============================================================================
