------------------------------- MODULE Expect -------------------------------
(***************************************************************************)
(* The expect engine in the broker: who asks, what the device output, a    *)
(* critical anomaly, a lost link, a suspend and a leaving client do to the *)
(* pending requests, and how their results reach the socket clients and    *)
(* the calls the in-process MCP sink has open. A call of the sink waits    *)
(* for its pattern ("wait"), collects whatever comes until the time is up  *)
(* ("silent") or reports on the device ("monitor").                        *)
(*                                                                         *)
(* Handlers run to completion on the event loop, and the results are       *)
(* collected at the top of every turn and on an abort, so every handler    *)
(* and every collection is one action.                                     *)
(***************************************************************************)
EXTENDS ExpectTable

CONSTANTS
  Clients,     \* socket clients
  Observers,   \* those of them that may only listen
  Mcp,         \* the in-process MCP sink
  Ids,         \* ids a client may choose for a request
  CollectMax,  \* results one process_expect_results delivers (16)
  McpSlots,    \* SM_MCP_MAX_PENDING_CALLS
  MaxRequests  \* bound on the requests accepted in a behaviour

ASSUME ExpectAssumption ==
  /\ Mcp \notin Clients
  /\ Observers \subseteq Clients
  /\ CollectMax \in Nat \ {0}
  /\ McpSlots \in Nat
  /\ MaxPerClient < McpSlots
  /\ MaxRequests \in Nat

VARIABLES
  requests,  \* the table
  link,      \* up, down or suspended
  live,      \* connected clients
  pending,   \* the sink's slots for open calls: a request and the call's kind
  issued,    \* requests accepted so far
  outcome,   \* what each of them has come to
  asked,     \* the kind of call behind a request of the sink
  reply      \* what the sink answered to that call

callVars == <<pending, asked, reply>>
vars == <<requests, link, live, issued, outcome, callVars>>

N == 1..MaxRequests
Results == {"matched", "timeout", "aborted"}
Kinds == {"wait", "silent", "monitor"}
Replies == {"text", "timeout", "aborted", "report", "nothing"}

TypeOK ==
  /\ requests \in Seq([n: N, id: Ids \cup {Mcp}, client: Clients \cup {Mcp},
                       matched: BOOLEAN, aborted: BOOLEAN, late: BOOLEAN, heard: BOOLEAN])
  /\ Len(requests) <= MaxPending
  /\ \A a \in Clients \cup {Mcp} :
       Cardinality({i \in DOMAIN requests : requests[i].client = a}) <= MaxPerClient
  /\ link \in {"up", "down", "suspended"}
  /\ live \subseteq Clients
  /\ pending \in [1..McpSlots -> [n: {0} \cup N, kind: Kinds]]
  /\ issued \in 0..MaxRequests
  /\ outcome \in [N -> {"new", "waiting", "cancelled"} \cup Results]
  /\ asked \in [N -> {"none"} \cup Kinds]
  /\ reply \in [N -> {"none", "error"} \cup Replies]

Init ==
  /\ requests = <<>>
  /\ link = "up"
  /\ live = Clients
  /\ pending = [i \in 1..McpSlots |-> [n |-> 0, kind |-> "wait"]]
  /\ issued = 0
  /\ outcome = [n \in N |-> "new"]
  /\ asked = [n \in N |-> "none"]
  /\ reply = [n \in N |-> "none"]

\* The table becomes t; the requests gone from it have been withdrawn.
Withdraw(t) ==
  /\ requests' = t
  /\ outcome' = [n \in N |-> IF n \in Numbers(requests) \ Numbers(t) THEN "cancelled" ELSE outcome[n]]

Result(r) == IF r.aborted THEN "aborted" ELSE IF r.matched THEN "matched" ELSE "timeout"

\* What a call of the given kind is told of result r: the capture under a
\* heading that fits, the report of a monitor, or that nothing was heard.
mcp_on_expect_result(r, kind) ==
  IF r.aborted /\ kind # "monitor" THEN "aborted"
  ELSE IF ~r.heard THEN "nothing"
  ELSE IF ~r.matched /\ kind = "wait" THEN "timeout"
  ELSE IF kind = "monitor" THEN "report"
  ELSE "text"

\* process_expect_results over table t: a client's result is sent to it, the
\* sink's answers and frees the open call that waits for it, if there is one.
process_expect_results(t) ==
  \E c \in {sm_expect_collect(t, CollectMax)} :
    LET Of(n) == c.out[CHOOSE i \in DOMAIN c.out : c.out[i].n = n]
        slots == {i \in 1..McpSlots : pending[i].n \in Numbers(c.out)}
        KindOf(n) == pending[CHOOSE i \in slots : pending[i].n = n].kind
    IN  /\ requests' = c.t
        /\ outcome' = [n \in N |-> IF n \in Numbers(c.out) THEN Result(Of(n)) ELSE outcome[n]]
        /\ reply' = [n \in N |-> IF \E i \in slots : pending[i].n = n
                                 THEN mcp_on_expect_result(Of(n), KindOf(n)) ELSE reply[n]]
        /\ pending' = [i \in 1..McpSlots |-> IF i \in slots THEN [pending[i] EXCEPT !.n = 0] ELSE pending[i]]
        /\ UNCHANGED asked

(***************************************************************************)
(* Asking. A refused request draws an error reply and changes nothing.     *)
(***************************************************************************)

\* sm_expect_add accepts a request: the table after the whole call, and what
\* became of the request in it.
Accepted(t, became) ==
  LET n == issued + 1
  IN  /\ requests' = t
      /\ issued' = n
      /\ outcome' = [m \in N |->
                       IF m = n THEN became
                       ELSE IF m \in Numbers(requests) \ Numbers(t) THEN "cancelled" ELSE outcome[m]]

MayAsk(a) ==
  /\ issued < MaxRequests
  /\ HasRoom(requests, a)

\* send_expect: registered before the data is written; when the write is
\* refused, everything registered under this id is taken out again.
handle_send_expect(c, id) ==
  LET t == sm_expect_add(requests, issued + 1, id, c)
  IN  /\ c \in live \ Observers
      /\ link = "up" /\ MayAsk(c)
      /\ \/ Accepted(t, "waiting")
         \/ Accepted(sm_expect_cancel_id(t, id), "cancelled")
      /\ UNCHANGED <<link, live, callVars>>

\* listen_expect writes nothing, so nothing can fail after the registration.
handle_listen_expect(c, id) ==
  /\ c \in live
  /\ link = "up" /\ MayAsk(c)
  /\ Accepted(sm_expect_add(requests, issued + 1, id, c), "waiting")
  /\ UNCHANGED <<link, live, callVars>>

\* Mutant: the slot keeps the kind of the call that had it last.
mcp_alloc_pending_stale_kind(slot, kind) ==
  pending' = [pending EXCEPT ![slot] = [n |-> issued + 1, kind |-> IF kind = "wait" THEN @.kind ELSE kind]]

\* A slot is taken for the request just accepted; the tool sets the kind.
mcp_alloc_pending(slot, kind) ==
  pending' = [pending EXCEPT ![slot] = [n |-> issued + 1, kind |-> kind]]

FreeSlots == {i \in 1..McpSlots : pending[i].n = 0}

\* A tool registers a request, under an id of the sink's own
\* (mcp_gen_expect_id; Mcp stands for a fresh one), and opens a call of the
\* given kind for it. Without a slot the table becomes t and the call fails.
OpenCall(kind, t) ==
  /\ MayAsk(Mcp)
  /\ IF FreeSlots # {}
     THEN /\ Accepted(sm_expect_add(requests, issued + 1, Mcp, Mcp), "waiting")
          /\ mcp_alloc_pending(CHOOSE i \in FreeSlots : \A j \in FreeSlots : i <= j, kind)
          /\ UNCHANGED reply
     ELSE /\ Accepted(t, "cancelled")
          /\ reply' = [reply EXCEPT ![issued + 1] = "error"]
          /\ UNCHANGED pending
  /\ asked' = [asked EXCEPT ![issued + 1] = kind]
  /\ UNCHANGED <<link, live>>

WriteFails ==
  /\ link # "suspended" /\ MayAsk(Mcp)
  /\ Accepted(requests, "cancelled")
  /\ reply' = [reply EXCEPT ![issued + 1] = "error"]
  /\ UNCHANGED <<link, live, pending, asked>>

\* serial_send_command, for the profile's prompt or until the time is up: when
\* the write fails its request is taken out; when no call can be opened, all
\* the sink's requests are.
tool_serial_send_command ==
  \/ /\ link = "up"
     /\ \E kind \in {"wait", "silent"} : OpenCall(kind, sm_expect_cancel_client(requests, Mcp))
  \/ WriteFails

\* A tool that only waits asks for a descriptor, which a link that is down has
\* while a connect is in flight.
HasDescriptor == link # "suspended"

\* serial_wait_for takes out its own request only.
tool_serial_wait_for == HasDescriptor /\ OpenCall("wait", requests)

\* serial_reset with a wait_pattern: the reset has been started (LineControl)
\* and goes on whatever becomes of the wait.
tool_serial_reset == link = "up" /\ OpenCall("wait", requests)

\* serial_monitor waits for a pattern that never matches.
tool_serial_monitor == HasDescriptor /\ OpenCall("monitor", sm_expect_cancel_client(requests, Mcp))

\* A call that changes the device is refused, with an error and no other
\* effect, without the permission to do so or while a client holds the device.
mcp_tool_dispatch ==
  \/ tool_serial_send_command
  \/ tool_serial_wait_for
  \/ tool_serial_reset
  \/ tool_serial_monitor

(***************************************************************************)
(* The device, the link and the clock.                                     *)
(***************************************************************************)

\* A chunk completes the patterns of hits, never that of a monitor; a critical
\* anomaly in it aborts all the others and delivers what it can at once.
process_link_chunk(hits, critical) ==
  LET fed == sm_expect_feed(requests, hits)
  IN  /\ link = "up"
      /\ \A n \in hits : asked[n] \notin {"silent", "monitor"}
      /\ IF critical
         THEN process_expect_results(sm_expect_abort_all(fed))
         ELSE requests' = fed /\ UNCHANGED <<outcome, callVars>>
      /\ UNCHANGED <<link, live, issued>>

handle_link_disconnect ==
  /\ link = "up"
  /\ link' = "down"
  /\ process_expect_results(sm_expect_abort_all(requests))
  /\ UNCHANGED <<live, issued>>

LinkBack ==
  /\ link # "up"
  /\ link' = "up"
  /\ UNCHANGED <<requests, live, issued, outcome, callVars>>

\* sm_broker_do_suspend: the requests are freed, nobody is told.
sm_broker_do_suspend ==
  /\ link # "suspended"
  /\ link' = "suspended"
  /\ Withdraw(sm_expect_cancel_all(requests))
  /\ UNCHANGED <<live, issued, callVars>>

remove_client(c) ==
  /\ c \in live
  /\ live' = live \ {c}
  /\ Withdraw(sm_expect_cancel_client(requests, c))
  /\ UNCHANGED <<link, issued, callVars>>

\* The top of a turn of the loop.
CollectTurn ==
  /\ requests # <<>>
  /\ process_expect_results(requests)
  /\ UNCHANGED <<link, live, issued>>

DeadlinePasses(n) ==
  /\ \E i \in DOMAIN requests :
       /\ requests[i].n = n
       /\ ~requests[i].late
       /\ requests' = [requests EXCEPT ![i].late = TRUE]
  /\ UNCHANGED <<link, live, issued, outcome, callVars>>

Next ==
  \/ \E c \in Clients, id \in Ids : handle_send_expect(c, id) \/ handle_listen_expect(c, id)
  \/ mcp_tool_dispatch
  \/ \E hits \in SUBSET Numbers(requests), critical \in BOOLEAN : process_link_chunk(hits, critical)
  \/ handle_link_disconnect
  \/ LinkBack
  \/ sm_broker_do_suspend
  \/ \E c \in Clients : remove_client(c)
  \/ CollectTurn
  \/ \E n \in N : DeadlinePasses(n)

Spec == Init /\ [][Next]_vars

\* The loop turns at least every SM_EPOLL_TIMEOUT_MS, and time passes.
Fairness ==
  /\ WF_vars(CollectTurn)
  /\ \A n \in N : WF_vars(DeadlinePasses(n))

FairSpec == Spec /\ Fairness

(***************************************************************************)
(* Properties.                                                             *)
(***************************************************************************)

\* The table holds every waiting request once and no other, and none of a
\* departed client: the moves of swap-removal, a bounded collection, an abort
\* and the cancellations lose no request and leave none behind, and no result
\* is looked up for a client that is gone (expect.c, remove_client).
TableHoldsWaiting ==
  /\ Numbers(requests) = {n \in N : outcome[n] = "waiting"}
  /\ Cardinality(Numbers(requests)) = Len(requests)
  /\ \A i \in DOMAIN requests : requests[i].client \in live \cup {Mcp}

\* A collection that had room for more has delivered everything that was
\* ready: no request is skipped by the swap.
CollectComplete ==
  \A n \in Numbers(requests) :
    CollectTurn /\ Done(requests[CHOOSE i \in DOMAIN requests : requests[i].n = n])
      => outcome'[n] # "waiting"
         \/ Cardinality({m \in N : outcome[m] # outcome'[m]}) = CollectMax

\* Every request a client or the sink makes gets one final outcome.
Promise == INSTANCE ExpectPromise
KeepsPromise == Promise!Spec

\* Both: the engine delivers what is ready as soon as it can, and keeps its
\* promise.
Delivers == [][CollectComplete]_vars /\ KeepsPromise

\* An agent is told what became of its own call, once and in the terms of
\* that call: slots are reused for calls of another kind, results come in the
\* order of the table and not of the calls, and a request may be aborted after
\* its deadline or fed after its abort (mcp_on_expect_result).
AnswerFits ==
  \A n \in {m \in N : asked[m] # "none"} :
    /\ outcome[n] \in Results <=> reply[n] \in Replies
    /\ reply[n] = "text" => outcome[n] = "matched" \/ (asked[n] = "silent" /\ outcome[n] = "timeout")
    /\ reply[n] = "timeout" => outcome[n] = "timeout" /\ asked[n] = "wait"
    /\ reply[n] = "aborted" => outcome[n] = "aborted" /\ asked[n] # "monitor"
    /\ reply[n] = "report" => asked[n] = "monitor"
    /\ reply[n] = "nothing" => outcome[n] # "matched"

\* "(matched stays 0)": a request that has been aborted never matches.
AbortedNeverMatches == \A i \in DOMAIN requests : ~(requests[i].matched /\ requests[i].aborted)

\* Expects of different clients are independent: a listener, which can only
\* lose its request by its own doing through leaving, loses it without an
\* answer only then or when the port is suspended.
ListenerUndisturbed ==
  [][\A i \in DOMAIN requests :
       LET r == requests[i]
       IN  r.client \in Observers /\ outcome'[r.n] = "cancelled" => link' # link \/ r.client \notin live']_vars

\* "Response will be sent when expect resolves": a call the sink has open
\* waits for a request of the table.
OpenCallsWait == \A i \in 1..McpSlots : pending[i].n \in {0} \cup Numbers(requests)

=============================================================================
