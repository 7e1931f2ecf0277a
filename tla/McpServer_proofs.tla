-------------------------- MODULE McpServer_proofs --------------------------
(***************************************************************************)
(* Proofs about smolmux-mcp: an answer handed to a tool belongs to the     *)
(* request it waits for, and a connection in use was welcomed, for any     *)
(* number of calls, connections and lines.                                 *)
(***************************************************************************)
EXTENDS McpServer, SequenceTheorems, WellFoundedInduction, TLAPS

-----------------------------------------------------------------------------
(* Reading.                                                                *)

\* A nonempty set of natural numbers has a least element.
LEMMA LeastNatural ==
  ASSUME NEW S \in SUBSET Nat, S # {}
  PROVE  \E x \in S : \A y \in S : x <= y
<1> DEFINE R == {ss \in Nat \X Nat : ss[1] < ss[2]}
<1>1. R = OpToRel(<, Nat)
  BY Zenon DEF OpToRel
<1>2. IsWellFoundedOn(R, Nat)
  BY <1>1, NatLessThanWellFounded, Zenon
<1>3. ASSUME NEW a \in Nat, NEW b \in Nat, a < b
      PROVE  <<a, b>> \in R
  <2> DEFINE p == <<a, b>>
  <2>1. p \in Nat \X Nat /\ p[1] = a /\ p[2] = b
    OBVIOUS
  <2> HIDE DEF p
  <2>2. p \in R
    BY <2>1, <1>3
  <2>3. QED
    BY <2>2 DEF p
<1> HIDE DEF R
<1>4. PICK x \in S : \A y \in S : ~ (<<y, x>> \in R)
  BY <1>2, WFMin
<1>5. \A y \in S : ~ (y < x)
  BY <1>3, <1>4, Zenon
<1>6. QED
  BY <1>5

\* Min finds it.
LEMMA MinIsLeast ==
  ASSUME NEW S \in SUBSET Nat, S # {}
  PROVE  Min(S) \in S /\ \A y \in S : Min(S) <= y
BY LeastNatural DEF Min

\* A part of a sequence has the elements of the whole.
LEMMA PartOfSeq ==
  ASSUME NEW S, NEW s \in Seq(S), NEW m \in Nat \ {0}, NEW n \in Int, n <= Len(s)
  PROVE  SubSeq(s, m, n) \in Seq(S)
<1>1. \A i \in m..n : s[i] \in S
  BY ElementOfSeq, LenProperties
<1>2. QED
  BY <1>1, SubSeqProperties

\* The front of a nonempty sequence has the elements of the whole.
LEMMA FrontOfSeq ==
  ASSUME NEW S, NEW s \in Seq(S)
  PROVE  Front(s) \in Seq(S)
BY PartOfSeq, LenProperties DEF Front

\* Joining read_buf and what is read brings in no other line.
LEMMA JoinTakesBoth ==
  ASSUME NEW S, NEW old \in Seq(S), NEW new \in Seq(S)
  PROVE  Join(old, new) \in Seq(S)
<1>1. CASE old = <<>> \/ new = <<>> \/ Last(old) # Cut
  BY <1>1, ConcatProperties DEF Join
<1>2. CASE ~(old = <<>> \/ new = <<>> \/ Last(old) # Cut)
  <2>1. Front(old) \in Seq(S) /\ Tail(new) \in Seq(S)
    BY <1>2, FrontOfSeq, HeadTailProperties
  <2>2. Front(old) \o Tail(new) \in Seq(S)
    BY <2>1, ConcatProperties
  <2>3. QED
    BY <1>2, <2>2 DEF Join
<1>3. QED
  BY <1>1, <1>2

\* sm_broker_conn_read hands out one line, and one that answers; it keeps
\* lines only behind an answer.
LEMMA ReadHandsOutAnswer ==
  ASSUME NEW S, NEW lines \in Seq(S), NEW wire_id
  PROVE  LET r == sm_broker_conn_read(lines, wire_id)
         IN  /\ r.rest \in Seq(S)
             /\ \/ r.answer = <<>> /\ r.rest = <<>>
                \/ \E l \in S : Answers(l, wire_id) /\ r.answer = <<l>>
<1> DEFINE hits == {i \in DOMAIN lines : Answers(lines[i], wire_id)}
           last == IF hits = {} THEN Len(lines) ELSE Min(hits)
           r == sm_broker_conn_read(lines, wire_id)
<1>1. DOMAIN lines = 1..Len(lines) /\ Len(lines) \in Nat
  BY LenProperties
<1>2. hits \in SUBSET Nat
  BY <1>1
<1>3. last \in 0..Len(lines) /\ (hits # {} => last \in hits)
  <2>1. CASE hits = {}
    BY <1>1, <2>1
  <2>2. CASE hits # {}
    <3> HIDE DEF hits
    <3>1. Min(hits) \in hits
      BY <1>2, <2>2, MinIsLeast
    <3>2. Min(hits) \in 1..Len(lines)
      BY <1>1, <3>1 DEF hits
    <3>3. QED
      BY <1>1, <2>2, <3>1, <3>2
  <2>3. QED
    BY <2>1, <2>2
<1>4. r.rest = SubSeq(lines, last + 1, Len(lines))
  BY DEF sm_broker_conn_read
<1>5. r.answer = IF hits = {} THEN <<>> ELSE <<lines[last]>>
  BY DEF sm_broker_conn_read
<1> HIDE DEF last, r
<1>6. r.rest \in Seq(S)
  BY <1>1, <1>3, <1>4, PartOfSeq
<1>7. CASE hits = {}
  BY <1>7, <1>1, <1>4, <1>5, <1>6, SubSeqEmpty DEF last, r
<1>8. CASE hits # {}
  BY <1>8, <1>1, <1>3, <1>5, <1>6, ElementOfSeq DEF r
<1>9. QED
  BY <1>7, <1>8

-----------------------------------------------------------------------------
(* The inductive invariant.                                                *)

\* A request's number is its wire id: ids are never used again, not even for
\* another connection.
ReqSet == {r \in [id : Nat, req : Nat] : r.id = r.req}
LineSet == {l \in [type : {"welcome", "error", "reply", "cut"}, id : Nat, req : Nat] :
              l.id = l.req}

DataOK ==
  /\ buf \in Seq(LineSet) /\ net \in Seq(LineSet) /\ answer \in Seq(LineSet)
  /\ wait_id \in ReqSet /\ cur \in ReqSet /\ asked \subseteq ReqSet
  /\ count \in [calls : Nat, connects : Nat, reqs : Nat]
  /\ next_seq = count.reqs + 1

\* What is awaited has an id, and what was handed over carries it.
AwaitedById ==
  /\ pc \in {"send", "await", "answered"} => script # <<>>
  /\ pc \in {"await", "answered"} => cur.id # NoId /\ script[1] \notin {"listen", "fire"}
  /\ pc \in {"greeted", "answered"} => answer # <<>>
  /\ pc = "answered" => answer[1].id = cur.id

\* In a script, a step that waits for an early listen comes once, and behind
\* the listen unless its id is kept.
Steps == {"must", "ask", "tell", "try", "fire", "listen", "late"}
Once(s) == \A i, j \in DOMAIN s : s[i] = "late" /\ s[j] = "late" => i = j
Behind(s, kept) ==
  \A i \in DOMAIN s : s[i] = "late" => kept \/ \E j \in 1..(i - 1) : s[j] = "listen"

ListenFirst ==
  /\ Once(script)
  /\ Behind(script, wait_id.id # NoId \/ (pc \in {"await", "answered"} /\ script[1] = "late"))

\* On a connection that began without an old welcome, a welcome in sight is
\* the broker's for this connection.
WelcomeIsOwn ==
  ~stale =>
    /\ pc = "hello" => /\ \A i \in DOMAIN buf : buf[i].type # "welcome"
                       /\ \A i \in DOMAIN net : net[i].type = "welcome" => welcomed
    /\ pc = "greeted" /\ answer[1].type = "welcome" => welcomed

IInv == TypeOK /\ DataOK /\ AwaitedById /\ ListenFirst /\ WelcomeIsOwn /\ OnlineIsWelcomed

\* The hello has no id of its own.
LEMMA NoReqTyped == NoReq \in ReqSet
BY DEF NoReq, ReqSet, NoId

\* An empty socket.
LEMMA NoLines == <<>> \in Seq(LineSet) /\ Len(<<>>) <= MaxNet
BY McpBounds, EmptySeq

-----------------------------------------------------------------------------
(* Scripts.                                                                *)

\* Every tool is a script in order.
LEMMA ToolsInOrder ==
  ASSUME NEW s \in dispatch_tool
  PROVE  s \in Seq(Steps) /\ Once(s) /\ Behind(s, FALSE)
<1>1. s \in {<<>>, <<"must">>, <<"try">>, <<"ask">>, <<"tell">>, <<"listen", "must", "late">>,
            <<"must", "fire">>, <<"ask", "try">>, <<"try", "try", "try">>}
  BY DEF dispatch_tool, tool_serial_send_command, tool_serial_read, tool_serial_write,
         tool_serial_port_status, tool_serial_boot_status, tool_serial_add_autoresponder,
         tool_serial_pin_control, tool_serial_reset, tool_serial_sysrq,
         tool_serial_suspend, tool_serial_resume, tool_serial_wait_for,
         tool_serial_output_history, tool_serial_get_incidents, tool_serial_add_watchdog,
         tool_serial_monitor, tool_serial_generate_report
<1>2. CASE s = <<"listen", "must", "late">>
  BY <1>2 DEF Steps, Once, Behind
<1>3. ASSUME s \in Seq(Steps \ {"late"})
      PROVE  s \in Seq(Steps) /\ Once(s) /\ Behind(s, FALSE)
  <2>1. s \in Seq(Steps)
    BY <1>3, SeqMonotonic
  <2>2. \A i \in DOMAIN s : s[i] # "late"
    BY <1>3, LenProperties, ElementOfSeq
  <2>3. QED
    BY <2>1, <2>2 DEF Once, Behind
<1>4. CASE s # <<"listen", "must", "late">>
  <2> DEFINE T == Steps \ {"late"}
  <2>1. "must" \in T /\ "try" \in T /\ "ask" \in T /\ "tell" \in T /\ "fire" \in T
    BY DEF Steps
  <2> HIDE DEF T
  <2>2. <<>> \in Seq(T) /\ <<"must">> \in Seq(T) /\ <<"try">> \in Seq(T) /\ <<"ask">> \in Seq(T)
    BY <2>1
  <2>3. <<"must", "fire">> \in Seq(T) /\ <<"ask", "try">> \in Seq(T) /\ <<"tell">> \in Seq(T)
    BY <2>1
  <2>4. <<"try", "try", "try">> \in Seq(T)
    BY <2>1
  <2>5. s \in Seq(T)
    BY <1>1, <1>4, <2>2, <2>3, <2>4, Zenon
  <2>6. QED
    BY <1>3, <2>5 DEF T
<1>5. QED
  BY <1>2, <1>4

\* The empty script is in order.
LEMMA NoneInOrder == <<>> \in Seq(Steps) /\ Once(<<>>) /\ \A kept : Behind(<<>>, kept)
BY DEF Once, Behind

\* What follows a served step is in order.
LEMMA RestInOrder ==
  ASSUME NEW s \in Seq(Steps), s # <<>>, Once(s),
         NEW k \in BOOLEAN, NEW kept \in BOOLEAN, Behind(s, k),
         k => kept \/ s[1] = "late", s[1] = "listen" => kept
  PROVE  Tail(s) \in Seq(Steps) /\ Once(Tail(s)) /\ Behind(Tail(s), kept)
<1>1. /\ Tail(s) \in Seq(Steps) /\ DOMAIN Tail(s) = 1..Len(Tail(s))
      /\ Len(Tail(s)) = Len(s) - 1 /\ Len(s) \in Nat \ {0} /\ DOMAIN s = 1..Len(s)
      /\ \A i \in 1..Len(Tail(s)) : Tail(s)[i] = s[i + 1]
  BY HeadTailProperties, LenProperties, EmptySeq
<1>2. Once(Tail(s))
  BY <1>1 DEF Once
<1>3. ASSUME NEW i \in DOMAIN Tail(s), Tail(s)[i] = "late", ~kept
      PROVE  \E j \in 1..(i - 1) : Tail(s)[j] = "listen"
  <2>1. i + 1 \in DOMAIN s /\ s[i + 1] = "late" /\ 1 \in DOMAIN s /\ i \in Nat
    BY <1>1, <1>3
  <2>2. s[1] # "late" /\ s[1] # "listen"
    BY <1>3, <2>1 DEF Once
  <2>3. PICK j \in 1..i : s[j] = "listen"
    BY <1>3, <2>1, <2>2 DEF Behind
  <2>4. j - 1 \in 1..(i - 1) /\ j - 1 \in 1..Len(Tail(s)) /\ Tail(s)[j - 1] = s[j]
    BY <1>1, <1>3, <2>1, <2>2, <2>3
  <2>5. QED
    BY <2>3, <2>4
<1>4. QED
  BY <1>1, <1>2, <1>3 DEF Behind

\* The script that configures the anomalies first is in order.
LEMMA ConfiguredInOrder ==
  ASSUME NEW s \in Seq(Steps), Once(s), NEW kept \in BOOLEAN, Behind(s, kept)
  PROVE  LET c == configure_broker_anomalies \o s
         IN  c \in Seq(Steps) /\ Once(c) /\ Behind(c, kept)
<1> DEFINE c == configure_broker_anomalies \o s
<1>1. CASE ~Anomalies
  BY <1>1, ConcatEmptySeq DEF configure_broker_anomalies
<1>2. CASE Anomalies
  <2>1. configure_broker_anomalies = <<"try">> /\ <<"try">> \in Seq(Steps)
    BY <1>2 DEF configure_broker_anomalies, Steps
  <2>2. /\ c \in Seq(Steps) /\ Len(c) = Len(s) + 1
        /\ \A i \in 1..(Len(s) + 1) : c[i] = IF i <= 1 THEN <<"try">>[i] ELSE s[i - 1]
    BY <2>1, ConcatProperties
  <2>3. /\ DOMAIN c = 1..Len(c) /\ DOMAIN s = 1..Len(s) /\ Len(s) \in Nat
        /\ c[1] = "try" /\ \A i \in 2..Len(c) : c[i] = s[i - 1]
    BY <2>2, LenProperties
  <2> HIDE DEF c
  <2>4. Once(c)
    <3>1. \A i \in DOMAIN c : c[i] = "late" => i - 1 \in DOMAIN s /\ s[i - 1] = "late"
      BY <2>2, <2>3
    <3>2. \A i, j \in DOMAIN c : c[i] = "late" /\ c[j] = "late" => i - 1 = j - 1
      BY <3>1 DEF Once
    <3>3. QED
      BY <2>3, <3>2 DEF Once
  <2>5. ASSUME NEW i \in DOMAIN c, c[i] = "late", ~kept
        PROVE  \E j \in 1..(i - 1) : c[j] = "listen"
    <3>1. i - 1 \in DOMAIN s /\ s[i - 1] = "late"
      BY <2>2, <2>3, <2>5
    <3>2. PICK j \in 1..(i - 2) : s[j] = "listen"
      BY <2>3, <2>5, <3>1 DEF Behind
    <3>3. j + 1 \in 1..(i - 1) /\ c[j + 1] = "listen"
      BY <2>2, <2>3, <3>1, <3>2
    <3>4. QED
      BY <3>3
  <2>6. QED
    BY <2>2, <2>4, <2>5 DEF c, Behind
<1>3. QED
  BY <1>1, <1>2, McpBounds

-----------------------------------------------------------------------------
(* The steps of a call.                                                    *)

\* GoOn takes up a script in order.
LEMMA GoOnKeeps ==
  ASSUME NEW s \in Seq(Steps), GoOn(s), Once(s), Behind(s, wait_id'.id # NoId)
  PROVE  /\ script' \in Seq(Steps) /\ pc' \in {"idle", "send"}
         /\ pc' = "send" => script' # <<>>
         /\ ListenFirst'
BY DEF GoOn, ListenFirst, Behind

\* What a step's end means to the tool: the rest of its script, or nothing.
LEMMA StepDoneKeeps ==
  ASSUME IInv, pc \in {"await", "answered"}, NEW got, StepDone(got), wait_id' = wait_id
  PROVE  /\ script' \in Seq(Steps) /\ pc' \in {"idle", "send"}
         /\ pc' = "send" => script' # <<>>
         /\ ListenFirst'
<1>1. PICK s \in {<<>>, Tail(script)} : GoOn(s)
  BY DEF StepDone
<1>2. script \in Seq(Steps) /\ script # <<>> /\ script[1] # "listen"
  BY DEF IInv, TypeOK, AwaitedById, Steps
<1>3. /\ Tail(script) \in Seq(Steps) /\ Once(Tail(script))
      /\ Behind(Tail(script), wait_id.id # NoId)
  BY <1>2, RestInOrder DEF IInv, ListenFirst
<1>4. QED
  BY <1>1, <1>3, NoneInOrder, GoOnKeeps

\* A call is taken up.
LEMMA CallKeeps == IInv /\ handle_tools_call => IInv'
<1> SUFFICES ASSUME IInv, handle_tools_call
             PROVE  IInv'
  OBVIOUS
<1>1. PICK s \in dispatch_tool \cup {<<>>} : GoOn(s) \/ (script' = s /\ pc' = "connect")
  BY DEF handle_tools_call
<1>2. s \in Seq(Steps) /\ Once(s) /\ \A kept \in BOOLEAN : Behind(s, kept)
  BY ToolsInOrder, NoneInOrder DEF Behind
<1>3. /\ script' \in Seq(Steps) /\ ListenFirst' /\ pc' \in {"idle", "send", "connect"}
      /\ pc' = "send" => script' # <<>>
      /\ pc = "idle"
  <2>1. CASE GoOn(s)
    BY <1>2, <2>1, GoOnKeeps DEF handle_tools_call
  <2>2. CASE script' = s /\ pc' = "connect"
    BY <1>2, <2>2 DEF ListenFirst, handle_tools_call
  <2>3. QED
    BY <1>1, <2>1, <2>2
<1>4. TypeOK'
  BY <1>3 DEF handle_tools_call, IInv, TypeOK, Steps, conn, peer
<1>5. DataOK'
  BY DEF handle_tools_call, IInv, DataOK, conn, peer
<1>6. AwaitedById' /\ WelcomeIsOwn' /\ OnlineIsWelcomed'
  BY <1>3 DEF handle_tools_call, IInv, AwaitedById, WelcomeIsOwn, OnlineIsWelcomed, conn, peer
<1>7. QED
  BY <1>3, <1>4, <1>5, <1>6 DEF IInv

\* A request is sent under a new id.
LEMMA SendKeeps == IInv /\ broker_send => IInv'
<1> SUFFICES ASSUME IInv, broker_send
             PROVE  IInv'
  OBVIOUS
<1> DEFINE r == [id |-> next_seq, req |-> count.reqs + 1]
<1>1. /\ script \in Seq(Steps) /\ script # <<>> /\ Head(script) = script[1]
      /\ pc = "send" /\ script[1] # "late"
  BY DEF IInv, TypeOK, AwaitedById, broker_send, Steps
<1>2. r \in ReqSet /\ r.id # NoId
  BY DEF IInv, TypeOK, DataOK, ReqSet, NoId
<1>3. wait_id' = IF script[1] = "listen" THEN r ELSE wait_id
  BY <1>1 DEF broker_send
<1>4. DataOK'
  <2>1. asked' \subseteq ReqSet
    BY <1>2 DEF broker_send, IInv, DataOK
  <2>2. cur' \in ReqSet
    BY <1>2 DEF broker_send, IInv, DataOK
  <2>3. wait_id' \in ReqSet
    BY <1>2, <1>3 DEF IInv, DataOK
  <2>4. /\ count' \in [calls : Nat, connects : Nat, reqs : Nat]
        /\ next_seq' = count'.reqs + 1
    BY DEF broker_send, IInv, DataOK
  <2>5. QED
    BY <2>1, <2>2, <2>3, <2>4 DEF broker_send, IInv, DataOK
<1>5. /\ Tail(script) \in Seq(Steps) /\ Once(Tail(script))
      /\ Behind(Tail(script), wait_id'.id # NoId)
  <2>1. Behind(script, wait_id.id # NoId) /\ Once(script)
    BY <1>1 DEF IInv, ListenFirst, Behind
  <2>2. wait_id.id # NoId => wait_id'.id # NoId
    BY <1>2, <1>3
  <2>3. script[1] = "listen" => wait_id'.id # NoId
    BY <1>2, <1>3
  <2>4. QED
    BY <1>1, <2>1, <2>2, <2>3, RestInOrder
<1>6. CASE \E s \in {<<>>, Tail(script)} : GoOn(s)
  <2>1. /\ script' \in Seq(Steps) /\ pc' \in {"idle", "send"}
        /\ pc' = "send" => script' # <<>>
        /\ ListenFirst'
    BY <1>5, <1>6, NoneInOrder, GoOnKeeps
  <2>2. TypeOK'
    BY <2>1 DEF broker_send, IInv, TypeOK, Steps
  <2>3. AwaitedById' /\ WelcomeIsOwn' /\ OnlineIsWelcomed'
    BY <1>1, <2>1 DEF broker_send, IInv, AwaitedById, WelcomeIsOwn, OnlineIsWelcomed
  <2>4. QED
    BY <1>4, <2>1, <2>2, <2>3 DEF IInv
<1>7. CASE script[1] \notin {"fire", "listen"} /\ cur' = r /\ pc' = "await" /\ script' = script
  <2>1. TypeOK'
    BY <1>7 DEF broker_send, IInv, TypeOK
  <2>2. AwaitedById' /\ WelcomeIsOwn' /\ OnlineIsWelcomed'
    BY <1>1, <1>2, <1>7 DEF broker_send, IInv, AwaitedById, WelcomeIsOwn, OnlineIsWelcomed
  <2>3. ListenFirst'
    BY <1>1, <1>3, <1>7 DEF IInv, ListenFirst, Behind
  <2>4. QED
    BY <1>4, <2>1, <2>2, <2>3 DEF IInv
<1>8. QED
  BY <1>1, <1>6, <1>7 DEF broker_send

\* The wait for the early listen is a wait for its id.
LEMMA WaitLateKeeps == IInv /\ WaitLate => IInv'
<1> SUFFICES ASSUME IInv, WaitLate
             PROVE  IInv'
  OBVIOUS
<1>1. /\ script \in Seq(Steps) /\ script # <<>> /\ script[1] = "late" /\ 1 \in DOMAIN script
      /\ pc = "send" /\ pc' = "await" /\ script' = script /\ cur' = wait_id
  BY LenProperties, EmptySeq DEF IInv, TypeOK, AwaitedById, WaitLate, Steps
<1>2. wait_id.id # NoId
  BY <1>1 DEF IInv, ListenFirst, Behind
<1>3. TypeOK' /\ DataOK'
  BY <1>1 DEF WaitLate, IInv, TypeOK, DataOK, conn, peer, NoReq, ReqSet, NoId
<1>4. AwaitedById' /\ WelcomeIsOwn' /\ OnlineIsWelcomed'
  BY <1>1, <1>2 DEF WaitLate, IInv, AwaitedById, WelcomeIsOwn, OnlineIsWelcomed, conn, peer
<1>5. ListenFirst'
  BY <1>1 DEF IInv, ListenFirst, Behind
<1>6. QED
  BY <1>3, <1>4, <1>5 DEF IInv

\* A wait ends with its answer, or without one.
LEMMA WaitEndsKeeps == IInv /\ (Answered \/ NoAnswerInTime) => IInv'
<1> SUFFICES ASSUME IInv, Answered \/ NoAnswerInTime
             PROVE  IInv'
  OBVIOUS
<1>1. /\ pc \in {"await", "answered"} /\ wait_id' = wait_id
      /\ \E got : StepDone(got)
      /\ answer' \in {answer, <<>>} /\ cur' = NoReq
      /\ UNCHANGED <<conn, told, peer, count, stale>>
  BY DEF Answered, NoAnswerInTime
<1>2. /\ script' \in Seq(Steps) /\ pc' \in {"idle", "send"}
      /\ pc' = "send" => script' # <<>>
      /\ ListenFirst'
  BY <1>1, StepDoneKeeps
<1>3. TypeOK'
  BY <1>1, <1>2 DEF IInv, TypeOK, conn, peer, Steps
<1>4. DataOK'
  <2>1. answer' \in Seq(LineSet)
    BY <1>1, NoLines DEF IInv, DataOK
  <2>2. QED
    BY <1>1, <2>1, NoReqTyped DEF IInv, DataOK, conn, peer
<1>5. AwaitedById' /\ WelcomeIsOwn' /\ OnlineIsWelcomed'
  BY <1>1, <1>2 DEF IInv, AwaitedById, WelcomeIsOwn, OnlineIsWelcomed, conn, peer
<1>6. QED
  BY <1>2, <1>3, <1>4, <1>5 DEF IInv

-----------------------------------------------------------------------------
(* Connecting and reading.                                                 *)

\* A connection is opened, or none can be.
LEMMA ConnectKeeps == IInv /\ try_connect_broker => IInv'
<1> SUFFICES ASSUME IInv, try_connect_broker
             PROVE  IInv'
  OBVIOUS
<1>1. /\ buf \in Seq(LineSet) /\ script \in Seq(Steps) /\ pc = "connect"
      /\ buf' = buf /\ wait_id' = wait_id /\ net' = <<>>
      /\ stale' = \E i \in DOMAIN buf : buf[i].type = "welcome"
  BY DEF IInv, TypeOK, DataOK, try_connect_broker, Close, Steps
<1>2. stale' \in BOOLEAN
  BY <1>1, Zenon
<1>3. CASE Close /\ script' = <<>> /\ pc' = "idle" /\ UNCHANGED count
  <2>1. TypeOK'
    BY <1>1, <1>2, <1>3, NoneInOrder, NoLines DEF try_connect_broker, IInv, TypeOK, Close, Steps
  <2>2. DataOK'
    BY <1>1, <1>3, NoLines DEF try_connect_broker, IInv, DataOK, Close
  <2>3. AwaitedById' /\ WelcomeIsOwn' /\ OnlineIsWelcomed'
    BY <1>3 DEF AwaitedById, WelcomeIsOwn, OnlineIsWelcomed, Close
  <2>4. ListenFirst'
    BY <1>3, NoneInOrder DEF ListenFirst
  <2>5. QED
    BY <2>1, <2>2, <2>3, <2>4 DEF IInv
<1>4. CASE /\ count' = [count EXCEPT !.connects = @ + 1]
           /\ fd' = TRUE /\ open' = TRUE /\ welcomed' = FALSE
           /\ asked' = {NoReq}
           /\ pc' = "hello" /\ script' = script
  <2>1. TypeOK'
    BY <1>1, <1>2, <1>4, NoLines DEF try_connect_broker, IInv, TypeOK
  <2>2. DataOK'
    <3>1. asked' \subseteq ReqSet
      BY <1>4, NoReqTyped
    <3>2. count' \in [calls : Nat, connects : Nat, reqs : Nat] /\ count'.reqs = count.reqs
      BY <1>4 DEF IInv, DataOK
    <3>3. QED
      BY <1>1, <3>1, <3>2, NoLines DEF try_connect_broker, IInv, DataOK
  <2>3. AwaitedById' /\ WelcomeIsOwn' /\ OnlineIsWelcomed'
    BY <1>1, <1>4 DEF AwaitedById, WelcomeIsOwn, OnlineIsWelcomed
  <2>4. ListenFirst'
    BY <1>1, <1>4 DEF IInv, ListenFirst, Behind
  <2>5. QED
    BY <2>1, <2>2, <2>3, <2>4 DEF IInv
<1>5. QED
  BY <1>3, <1>4 DEF try_connect_broker

\* The server goes offline.
LEMMA OfflineKeeps ==
  ASSUME IInv, set_offline, answer' \in {answer, <<>>},
         UNCHANGED <<buf, next_seq, wait_id, cur, told, count, stale>>
  PROVE  IInv'
<1>1. TypeOK'
  BY NoneInOrder, NoLines DEF IInv, TypeOK, set_offline, Close, Steps
<1>2. DataOK'
  <2>1. answer' \in Seq(LineSet)
    BY NoLines DEF IInv, DataOK
  <2>2. QED
    BY <2>1, NoLines DEF IInv, DataOK, set_offline, Close
<1>3. AwaitedById' /\ WelcomeIsOwn' /\ OnlineIsWelcomed'
  BY DEF AwaitedById, WelcomeIsOwn, OnlineIsWelcomed, set_offline, Close
<1>4. ListenFirst'
  BY NoneInOrder DEF ListenFirst, set_offline
<1>5. QED
  BY <1>1, <1>2, <1>3, <1>4 DEF IInv

\* The hello is answered or not.
LEMMA HelloEndsKeeps == IInv /\ (NoReplyToHello \/ HelloReply) => IInv'
<1> SUFFICES ASSUME IInv, NoReplyToHello \/ HelloReply
             PROVE  IInv'
  OBVIOUS
<1>1. CASE NoReplyToHello
  BY <1>1, OfflineKeeps DEF NoReplyToHello
<1>2. CASE HelloReply /\ Head(answer).type # "welcome"
  BY <1>2, OfflineKeeps DEF HelloReply
<1>3. CASE HelloReply /\ Head(answer).type = "welcome"
  <2> DEFINE c == configure_broker_anomalies \o script
  <2>1. GoOn(c) /\ pc = "greeted" /\ answer' = <<>> /\ wait_id' = wait_id
    BY <1>3 DEF HelloReply
  <2>2. c \in Seq(Steps) /\ Once(c) /\ Behind(c, wait_id.id # NoId)
    <3>1. script \in Seq(Steps) /\ Once(script) /\ Behind(script, wait_id.id # NoId)
      BY <2>1 DEF IInv, TypeOK, ListenFirst, Steps, Behind
    <3>2. QED
      BY <3>1, ConfiguredInOrder
  <2> HIDE DEF c
  <2>3. /\ script' \in Seq(Steps) /\ pc' \in {"idle", "send"}
        /\ pc' = "send" => script' # <<>>
        /\ ListenFirst'
    BY <2>1, <2>2, GoOnKeeps
  <2>4. answer # <<>> /\ answer[1].type = "welcome"
    BY <1>3, <2>1 DEF IInv, DataOK, AwaitedById
  <2>5. TypeOK'
    BY <1>3, <2>3 DEF HelloReply, IInv, TypeOK, peer, Steps
  <2>6. DataOK'
    BY <1>3 DEF HelloReply, IInv, DataOK, peer
  <2>7. AwaitedById' /\ WelcomeIsOwn' /\ OnlineIsWelcomed'
    BY <1>3, <2>1, <2>3, <2>4
    DEF HelloReply, IInv, AwaitedById, WelcomeIsOwn, OnlineIsWelcomed, peer
  <2>8. QED
    BY <2>3, <2>5, <2>6, <2>7 DEF IInv
<1>4. QED
  BY <1>1, <1>2, <1>3

\* A read hands out one line, of read_buf or of the socket, that answers; or
\* it uses up every whole line.
LEMMA ReadBroker ==
  ASSUME NEW S, Cut \in S, buf \in Seq(S), net \in Seq(S), NEW k \in 1..Len(net), NEW wire_id
  PROVE  LET r == read_broker(wire_id, k)
         IN  /\ r.rest \in Seq(S)
             /\ \/ r.answer = <<>> /\ r.rest \in {<<>>, <<Cut>>}
                \/ \E l \in S : Answers(l, wire_id) /\ r.answer = <<l>>
<1> DEFINE all == Join(buf, SubSeq(net, 1, k))
           cut == all # <<>> /\ Last(all) = Cut
           whole == IF cut THEN Front(all) ELSE all
           q == sm_broker_conn_read(whole, wire_id)
           r == read_broker(wire_id, k)
<1>1. Len(net) \in Nat /\ SubSeq(net, 1, k) \in Seq(S)
  BY LenProperties, PartOfSeq
<1>2. all \in Seq(S)
  BY <1>1, JoinTakesBoth
<1>3. whole \in Seq(S)
  BY <1>2, FrontOfSeq
<1>4. /\ q.rest \in Seq(S)
      /\ \/ q.answer = <<>> /\ q.rest = <<>>
         \/ \E l \in S : Answers(l, wire_id) /\ q.answer = <<l>>
  BY <1>3, ReadHandsOutAnswer
<1>5. r = [q EXCEPT !.rest = IF cut THEN Append(@, Cut) ELSE @]
  BY DEF read_broker
<1>6. r.answer = q.answer /\ r.rest = IF cut THEN Append(q.rest, Cut) ELSE q.rest
  <2>1. DOMAIN q = {"taken", "rest", "answer"}
    BY DEF sm_broker_conn_read
  <2>2. QED
    BY <1>5, <2>1
<1> HIDE DEF cut, q, r
<1>7. r.rest \in Seq(S)
  BY <1>4, <1>6, AppendProperties
<1>8. q.rest = <<>> => r.rest \in {<<>>, <<Cut>>}
  <2>1. Append(<<>>, Cut) = <<Cut>>
    OBVIOUS
  <2>2. QED
    BY <1>6, <2>1
<1>9. QED
  BY <1>4, <1>6, <1>7, <1>8 DEF r

\* The beginning of a line is a line of no request.
LEMMA CutTyped == Cut \in LineSet
BY DEF Cut, Line, NoReq, NoId, LineSet

\* What is read leaves the socket.
LEMMA ReadShortens ==
  ASSUME net \in Seq(LineSet), Len(net) \in Nat, Len(net) <= MaxNet, NEW k \in 1..Len(net),
         net' = SubSeq(net, k + 1, Len(net))
  PROVE  /\ net' \in Seq(LineSet) /\ Len(net') <= MaxNet
         /\ \A i \in DOMAIN net' : \E j \in DOMAIN net : net'[i] = net[j]
<1>1. \A i \in (k + 1)..Len(net) : net[i] \in LineSet
  BY ElementOfSeq
<1>2. /\ net' \in Seq(LineSet)
      /\ Len(net') = IF k + 1 <= Len(net) THEN Len(net) - k ELSE 0
      /\ \A i \in 1..(Len(net) - k) : net'[i] = net[k + i]
  BY <1>1, SubSeqProperties
<1>3. DOMAIN net' = 1..Len(net') /\ DOMAIN net = 1..Len(net)
  BY <1>2, LenProperties
<1>4. Len(net') = Len(net) - k /\ Len(net') <= MaxNet
  BY <1>2, McpBounds
<1>5. \A n \in Nat : \A i \in 1..(n - k) : k + i \in 1..n
  OBVIOUS
<1>6. \A i \in DOMAIN net' : i \in 1..(Len(net) - k) /\ k + i \in DOMAIN net
  BY <1>3, <1>4, <1>5
<1>7. QED
  BY <1>2, <1>4, <1>6

\* A wait reads.
LEMMA WaitReadsKeeps == IInv /\ sm_broker_conn_wait => IInv'
<1> SUFFICES ASSUME IInv, sm_broker_conn_wait
             PROVE  IInv'
  OBVIOUS
<1> DEFINE wire_id == IF pc = "hello" THEN NoId ELSE cur.id
           Read(k) == read_broker(wire_id, k)
<1>1. PICK k \in 1..Len(net), hup \in Hup :
        /\ buf' = Read(k).rest /\ answer' = Read(k).answer
        /\ net' = SubSeq(net, k + 1, Len(net))
        /\ running' = (Read(k).answer # <<>> \/ ~hup)
        /\ pc' = IF Read(k).answer = <<>> THEN pc
                 ELSE IF pc = "hello" THEN "greeted" ELSE "answered"
  BY DEF sm_broker_conn_wait
<1>2. /\ pc \in {"hello", "await"} /\ net \in Seq(LineSet) /\ buf \in Seq(LineSet)
      /\ Len(net) \in Nat /\ Len(net) <= MaxNet
      /\ UNCHANGED <<script, fd, next_seq, wait_id, cur, told, open, asked, welcomed, count, stale>>
  BY LenProperties DEF sm_broker_conn_wait, IInv, TypeOK, DataOK
<1>3. /\ buf' \in Seq(LineSet)
      /\ \/ answer' = <<>> /\ buf' \in {<<>>, <<Cut>>} /\ pc' = pc
         \/ \E l \in LineSet : /\ Answers(l, wire_id) /\ answer' = <<l>>
                               /\ pc' = IF pc = "hello" THEN "greeted" ELSE "answered"
  <2>1. /\ Read(k).rest \in Seq(LineSet)
        /\ \/ Read(k).answer = <<>> /\ Read(k).rest \in {<<>>, <<Cut>>}
           \/ \E l \in LineSet : Answers(l, wire_id) /\ Read(k).answer = <<l>>
    BY <1>2, CutTyped, ReadBroker
  <2> HIDE DEF Read
  <2>2. CASE Read(k).answer = <<>> /\ Read(k).rest \in {<<>>, <<Cut>>}
    BY <1>1, <2>1, <2>2
  <2>3. ASSUME NEW l \in LineSet, Answers(l, wire_id), Read(k).answer = <<l>>
        PROVE  /\ Answers(l, wire_id) /\ answer' = <<l>>
               /\ pc' = IF pc = "hello" THEN "greeted" ELSE "answered"
    <3>1. <<l>> # <<>>
      OBVIOUS
    <3>2. QED
      BY <1>1, <2>3, <3>1
  <2>4. QED
    BY <1>1, <2>1, <2>2, <2>3
<1>4. /\ net' \in Seq(LineSet) /\ Len(net') <= MaxNet
      /\ \A i \in DOMAIN net' : \E j \in DOMAIN net : net'[i] = net[j]
  BY <1>1, <1>2, ReadShortens
<1>5. answer' \in Seq(LineSet) /\ pc' \in {"hello", "await", "greeted", "answered"}
  <2>1. \A l \in LineSet : <<l>> \in Seq(LineSet)
    OBVIOUS
  <2>2. answer' \in Seq(LineSet)
    BY <1>3, <2>1, NoLines, Zenon
  <2>3. QED
    BY <1>2, <1>3, <2>2
<1>6. TypeOK'
  <2>1. running' \in BOOLEAN
    BY <1>1, Zenon
  <2>2. QED
    BY <1>2, <1>4, <1>5, <2>1 DEF IInv, TypeOK
<1>7. DataOK'
  BY <1>2, <1>3, <1>4, <1>5 DEF IInv, DataOK
<1>8. AwaitedById'
  <2>1. CASE answer' = <<>> /\ pc' = pc
    BY <1>2, <2>1 DEF IInv, AwaitedById
  <2>2. ASSUME NEW l \in LineSet, Answers(l, wire_id), answer' = <<l>>,
               pc' = IF pc = "hello" THEN "greeted" ELSE "answered"
        PROVE  AwaitedById'
    <3>1. answer' # <<>> /\ answer'[1] = l
      BY <2>2
    <3>2. pc = "await" => l.id = cur.id
      BY <2>2 DEF Answers, IInv, AwaitedById
    <3>3. QED
      BY <1>2, <2>2, <3>1, <3>2 DEF IInv, AwaitedById
  <2>3. QED
    BY <1>3, <2>1, <2>2
<1>9. ListenFirst'
  BY <1>2, <1>3 DEF IInv, ListenFirst, Behind
<1>10. WelcomeIsOwn' /\ OnlineIsWelcomed'
  <2>1. CASE stale \/ welcomed \/ pc = "await"
    BY <1>2, <1>3, <2>1, <1>4 DEF IInv, WelcomeIsOwn, OnlineIsWelcomed, Cut, Line
  <2>2. CASE ~stale /\ ~welcomed /\ pc = "hello"
    <3> DEFINE S == {l \in LineSet : l.type # "welcome"}
    <3>1. buf \in Seq(S) /\ net \in Seq(S) /\ Cut \in S
      <4>1. \A i \in DOMAIN buf : buf[i] \in S
        BY <1>2, <2>2, ElementOfSeq, LenProperties DEF IInv, WelcomeIsOwn
      <4>2. \A i \in DOMAIN net : net[i] \in S
        BY <1>2, <2>2, ElementOfSeq, LenProperties DEF IInv, WelcomeIsOwn
      <4>3. QED
        BY <1>2, <4>1, <4>2, CutTyped, LenProperties DEF Cut, Line
    <3> HIDE DEF S
    <3>2. \/ answer' = <<>> /\ buf' \in {<<>>, <<Cut>>}
          \/ \E l \in S : answer' = <<l>>
      BY <1>1, <3>1, ReadBroker
    <3>3. QED
      BY <1>2, <1>3, <1>4, <2>2, <3>2
      DEF IInv, WelcomeIsOwn, OnlineIsWelcomed, Cut, Line, S
  <2>3. QED
    BY <1>2, <2>1, <2>2
<1>11. QED
  BY <1>6, <1>7, <1>8, <1>9, <1>10 DEF IInv

\* The main loop reads, or lets go of the connection.
LEMMA LoopReadsKeeps == IInv /\ LoopReads => IInv'
<1> SUFFICES ASSUME IInv, LoopReads
             PROVE  IInv'
  OBVIOUS
<1>1. PICK k \in 1..Len(net), hup \in Hup :
        /\ buf' = read_broker(NoId, k).rest
        /\ IF hup THEN Close
           ELSE net' = SubSeq(net, k + 1, Len(net)) /\ UNCHANGED <<fd, open, asked, welcomed>>
  BY DEF LoopReads
<1>2. /\ net \in Seq(LineSet) /\ buf \in Seq(LineSet) /\ Len(net) \in Nat /\ Len(net) <= MaxNet
      /\ pc = "idle"
      /\ UNCHANGED <<pc, script, running, next_seq, wait_id, cur, answer, told, count, stale>>
  BY LenProperties DEF LoopReads, IInv, TypeOK, DataOK
<1>3. buf' \in Seq(LineSet)
  BY <1>1, <1>2, CutTyped, ReadBroker
<1>4. net' \in Seq(LineSet) /\ Len(net') <= MaxNet
  BY <1>1, <1>2, ReadShortens, NoLines DEF Close
<1>5. /\ fd' \in BOOLEAN /\ open' \in BOOLEAN /\ welcomed' \in BOOLEAN
      /\ asked' \subseteq ReqSet
      /\ fd' => fd /\ welcomed' = welcomed
  BY <1>1 DEF IInv, TypeOK, DataOK, Close
<1>6. TypeOK' /\ DataOK'
  BY <1>2, <1>3, <1>4, <1>5 DEF IInv, TypeOK, DataOK
<1>7. AwaitedById' /\ WelcomeIsOwn' /\ OnlineIsWelcomed'
  BY <1>2, <1>5 DEF IInv, AwaitedById, WelcomeIsOwn, OnlineIsWelcomed
<1>8. ListenFirst'
  BY <1>2 DEF IInv, ListenFirst, Behind
<1>9. QED
  BY <1>6, <1>7, <1>8 DEF IInv

\* Ends of file, a signal and the end of the loop leave the lines alone.
LEMMA EndsKeep == IInv /\ (BrokerDisconnected \/ LoopEof \/ signal_handler \/ LoopEnds) => IInv'
<1> SUFFICES ASSUME IInv, BrokerDisconnected \/ LoopEof \/ signal_handler \/ LoopEnds
             PROVE  IInv'
  OBVIOUS
<1>1. /\ pc' = pc \/ (pc = "idle" /\ pc' = "exited")
      /\ (UNCHANGED <<fd, net, open, asked, welcomed>>) \/ (Close /\ pc = "idle")
      /\ running' \in BOOLEAN /\ told' \in BOOLEAN
      /\ UNCHANGED <<script, buf, next_seq, wait_id, cur, answer, stale, count>>
  BY DEF BrokerDisconnected, LoopEof, signal_handler, LoopEnds, IInv, TypeOK, conn, peer
<1>2. TypeOK' /\ DataOK'
  BY <1>1, NoLines DEF IInv, TypeOK, DataOK, Close
<1>3. AwaitedById' /\ WelcomeIsOwn' /\ OnlineIsWelcomed'
  BY <1>1 DEF IInv, AwaitedById, WelcomeIsOwn, OnlineIsWelcomed, Close
<1>4. ListenFirst'
  BY <1>1 DEF IInv, ListenFirst, Behind
<1>5. QED
  BY <1>2, <1>3, <1>4 DEF IInv

\* The broker greets, answers and closes.
LEMMA BrokerKeeps == IInv /\ (BrokerGreets \/ BrokerReplies \/ BrokerCloses) => IInv'
<1> SUFFICES ASSUME IInv, BrokerGreets \/ BrokerReplies \/ BrokerCloses
             PROVE  IInv'
  OBVIOUS
<1>1. /\ UNCHANGED <<pc, script, conn, wait_id, cur, answer, told, count, stale>>
      /\ asked' \subseteq ReqSet /\ open' \in BOOLEAN /\ welcomed' \in BOOLEAN
      /\ welcomed => welcomed'
  BY DEF BrokerGreets, BrokerReplies, BrokerCloses, IInv, TypeOK, DataOK
<1>2. \/ net' = net
      \/ \E l \in LineSet : /\ Len(net) < MaxNet /\ net' = Append(net, l)
                            /\ l.type = "welcome" => welcomed'
  <2>1. CASE BrokerGreets
    <3>1. \A type \in {"welcome", "error"} :
            Line(type, NoReq) \in LineSet /\ Line(type, NoReq).type = type
      BY NoReqTyped DEF LineSet, Line, ReqSet
    <3>2. CASE net' = Append(net, Line("welcome", NoReq)) /\ welcomed' = TRUE
      BY <2>1, <3>1, <3>2 DEF BrokerGreets
    <3>3. CASE net' = Append(net, Line("error", NoReq))
      <4>1. Line("error", NoReq) \in LineSet /\ Line("error", NoReq).type # "welcome"
        BY <3>1
      <4>2. QED
        BY <2>1, <3>3, <4>1 DEF BrokerGreets
    <3>4. QED
      BY <2>1, <3>2, <3>3 DEF BrokerGreets
  <2>2. CASE BrokerReplies
    <3>1. PICK r \in asked, type \in {"reply", "error"} :
            net' = Append(net, Line(type, r)) /\ Len(net) < MaxNet
      BY <2>2 DEF BrokerReplies
    <3>2. Line(type, r) \in LineSet /\ Line(type, r).type # "welcome"
      BY <3>1 DEF IInv, DataOK, ReqSet, LineSet, Line
    <3>3. QED
      BY <3>1, <3>2
  <2>3. CASE BrokerCloses
    BY <2>3, CutTyped DEF BrokerCloses, Cut, Line
  <2>4. QED
    BY <2>1, <2>2, <2>3
<1>3. /\ net' \in Seq(LineSet) /\ Len(net') <= MaxNet
      /\ \A i \in DOMAIN net' : (\E j \in DOMAIN net : net'[i] = net[j])
                                \/ (net'[i].type = "welcome" => welcomed')
  <2>1. net \in Seq(LineSet) /\ Len(net) <= MaxNet /\ DOMAIN net = 1..Len(net) /\ Len(net) \in Nat
    BY LenProperties DEF IInv, TypeOK, DataOK
  <2>2. ASSUME NEW l \in LineSet, Len(net) < MaxNet, net' = Append(net, l),
               l.type = "welcome" => welcomed'
        PROVE  /\ net' \in Seq(LineSet) /\ Len(net') <= MaxNet
               /\ \A i \in DOMAIN net' : (\E j \in DOMAIN net : net'[i] = net[j])
                                         \/ (net'[i].type = "welcome" => welcomed')
    <3>1. /\ net' \in Seq(LineSet) /\ Len(net') = Len(net) + 1
          /\ \A i \in 1..Len(net) : net'[i] = net[i]
          /\ net'[Len(net) + 1] = l
      BY <2>1, <2>2, AppendProperties
    <3>2. DOMAIN net' = 1..(Len(net) + 1)
      BY <3>1, LenProperties
    <3>3. QED
      BY <2>1, <2>2, <3>1, <3>2, McpBounds
  <2>3. QED
    BY <1>2, <2>1, <2>2
<1>4. TypeOK' /\ DataOK'
  BY <1>1, <1>3 DEF IInv, TypeOK, DataOK, conn
<1>5. AwaitedById' /\ WelcomeIsOwn' /\ OnlineIsWelcomed'
  BY <1>1, <1>3 DEF IInv, AwaitedById, WelcomeIsOwn, OnlineIsWelcomed, conn
<1>6. ListenFirst'
  BY <1>1 DEF IInv, ListenFirst, Behind
<1>7. QED
  BY <1>4, <1>5, <1>6 DEF IInv

-----------------------------------------------------------------------------
(* The theorems.                                                           *)

\* The invariant holds throughout: wire ids stay the requests' numbers across
\* connections, waits are for ids, a kept listen is awaited by its id, and a
\* fresh connection's welcome is its own.
THEOREM InductiveInvariant == Spec => []IInv
<1>1. Init => IInv
  <2> SUFFICES ASSUME Init
               PROVE  IInv
    OBVIOUS
  <2>1. TypeOK
    <3>1. Len(net) <= MaxNet /\ script \in Seq(Steps)
      BY NoLines, NoneInOrder DEF Init
    <3>2. /\ running \in BOOLEAN /\ fd \in BOOLEAN /\ open \in BOOLEAN /\ told \in BOOLEAN
          /\ welcomed \in BOOLEAN /\ stale \in BOOLEAN
      BY Zenon DEF Init
    <3>3. pc = "connect" /\ next_seq \in Nat \ {0}
      BY DEF Init
    <3>4. QED
      BY <3>1, <3>2, <3>3 DEF TypeOK, Steps
  <2>2. DataOK
    BY NoLines, NoReqTyped DEF Init, DataOK
  <2>3. AwaitedById /\ WelcomeIsOwn /\ OnlineIsWelcomed
    BY DEF Init, AwaitedById, WelcomeIsOwn, OnlineIsWelcomed
  <2>4. ListenFirst
    BY NoneInOrder DEF Init, ListenFirst
  <2>5. QED
    BY <2>1, <2>2, <2>3, <2>4 DEF IInv
<1>2. IInv /\ [Next]_vars => IInv'
  <2>1. IInv /\ Next => IInv'
    BY CallKeeps, SendKeeps, WaitLateKeeps, WaitEndsKeeps, ConnectKeeps, HelloEndsKeeps,
       WaitReadsKeeps, LoopReadsKeeps, EndsKeep, BrokerKeeps
    DEF Next, Serve
  <2>2. IInv /\ UNCHANGED vars => IInv'
    BY DEF vars, conn, peer, IInv, TypeOK, DataOK, AwaitedById, ListenFirst, WelcomeIsOwn,
           OnlineIsWelcomed, Once, Behind
  <2>3. QED
    BY <2>1, <2>2
<1>3. QED
  BY <1>1, <1>2, PTL DEF Spec

\* The answer a tool is given was made for the request it waits for
\* (sm_broker_conn_read, gen_wire_id), however many requests went unanswered
\* and however many connections they were sent on.
THEOREM AnswersMatch == Spec => []AnswerIsOwn
<1>1. IInv => AnswerIsOwn
  <2> SUFFICES ASSUME IInv, pc = "answered"
               PROVE  Head(answer).req = cur.req
    BY DEF AnswerIsOwn
  <2>1. answer \in Seq(LineSet) /\ answer # <<>> /\ answer[1].id = cur.id /\ cur \in ReqSet
    BY DEF IInv, DataOK, AwaitedById
  <2>2. Head(answer) = answer[1] /\ Head(answer) \in LineSet
    BY <2>1, HeadTailProperties
  <2>3. QED
    BY <2>1, <2>2 DEF LineSet, ReqSet
<1>2. QED
  BY <1>1, InductiveInvariant, PTL

\* No handshake that was refused, unanswered or spoilt leaves the server
\* online (try_connect_broker), on every connection that began without an
\* earlier welcome in read_buf.
THEOREM OnlineSafety == Spec => []OnlineIsWelcomed
<1>1. IInv => OnlineIsWelcomed
  BY DEF IInv
<1>2. QED
  BY <1>1, InductiveInvariant, PTL
=============================================================================
