----------------------------- MODULE LossyFifo -----------------------------
(***************************************************************************)
(* What the output queue of a client promises, whatever it does with its   *)
(* slots: messages are offered in the order of their numbers, each client  *)
(* a message is meant for keeps it or, if it has fallen far enough behind, *)
(* counts it as dropped, and what is kept arrives once and in order.       *)
(***************************************************************************)
EXTENDS Naturals, Sequences

CONSTANTS
  Clients,
  WqCap    \* messages a client may be behind before one is dropped

VARIABLES
  offered,    \* messages offered so far
  connected,  \* the clients that are there
  fifo,       \* per client, what was kept and has not arrived
  got,        \* per client, what has arrived
  drops       \* per client, how many were dropped

vars == <<offered, connected, fifo, got, drops>>

Init ==
  /\ offered = 0
  /\ connected = {}
  /\ fifo = [c \in Clients |-> <<>>]
  /\ got = [c \in Clients |-> <<>>]
  /\ drops = [c \in Clients |-> 0]

Keep(c) ==
  /\ fifo'[c] = Append(fifo[c], offered + 1)
  /\ drops'[c] = drops[c]

Drop(c) ==
  /\ Len(fifo[c]) >= WqCap
  /\ fifo'[c] = fifo[c]
  /\ drops'[c] = drops[c] + 1

\* The next message goes to the clients it is meant for.
Offer(to) ==
  /\ to \subseteq connected
  /\ offered' = offered + 1
  /\ DOMAIN fifo' = Clients
  /\ DOMAIN drops' = Clients
  /\ \A c \in Clients :
       IF c \in to THEN Keep(c) \/ Drop(c) ELSE fifo'[c] = fifo[c] /\ drops'[c] = drops[c]
  /\ UNCHANGED <<connected, got>>

\* One or more of the oldest messages arrive together.
Deliver(c) ==
  \E k \in 1..Len(fifo[c]) :
    /\ got' = [got EXCEPT ![c] = @ \o SubSeq(fifo[c], 1, k)]
    /\ fifo' = [fifo EXCEPT ![c] = SubSeq(@, k + 1, Len(@))]
    /\ UNCHANGED <<offered, connected, drops>>

Join(c) ==
  /\ c \notin connected
  /\ connected' = connected \cup {c}
  /\ UNCHANGED <<offered, fifo, got, drops>>

\* What a client that leaves has not received, it never receives.
Leave(c) ==
  /\ c \in connected
  /\ connected' = connected \ {c}
  /\ fifo' = [fifo EXCEPT ![c] = <<>>]
  /\ UNCHANGED <<offered, got, drops>>

Next ==
  \/ \E to \in SUBSET Clients : Offer(to)
  \/ \E c \in Clients : Deliver(c) \/ Join(c) \/ Leave(c)

Spec == Init /\ [][Next]_vars

=============================================================================
