---------------------------- MODULE Client_proofs ----------------------------
(***************************************************************************)
(* Proofs about a client's commands on their way in, its messages on their *)
(* way out, and its connection from the door to its end.  For a stream of  *)
(* any length, a buffer of any size and any bound on the rounds, commands  *)
(* are handled exactly and a client is removed for no reason but its own.  *)
(* For any number of clients and any size of their queues, a shared line   *)
(* is counted exactly and what a client is sent arrives whole, once and in *)
(* order, unless it was counted as dropped.  For any number of peers and   *)
(* any size of the tables and of the pipe between the threads, every       *)
(* connection has one owner, and nobody gets past the hello unasked or is  *)
(* forgotten.                                                              *)
(***************************************************************************)
EXTENDS ClientInput, ClientQueue, WsSink, FiniteSetTheorems, FunctionTheorems, SequenceTheorems,
        WellFoundedInduction, TLAPS

-----------------------------------------------------------------------------
(* Least and greatest elements.                                            *)

\* A nonempty set of natural numbers has a least element.
LEMMA LeastNatural ==
  ASSUME NEW S \in SUBSET Nat, S # {}
  PROVE  \E x \in S : \A y \in S : x <= y
<1> DEFINE R == {ss \in Nat \X Nat : ss[1] < ss[2]}
<1>1. R = OpToRel(<, Nat)
  BY Zenon DEF OpToRel
<1>2. IsWellFoundedOn(R, Nat)
  BY <1>1, NatLessThanWellFounded, Zenon
<1>3. ASSUME NEW a \in Nat, NEW b \in Nat, a < b
      PROVE  <<a, b>> \in R
  <2> DEFINE p == <<a, b>>
  <2>1. p \in Nat \X Nat /\ p[1] = a /\ p[2] = b
    OBVIOUS
  <2> HIDE DEF p
  <2>2. p \in R
    BY <2>1, <1>3
  <2>3. QED
    BY <2>2 DEF p
<1> HIDE DEF R
<1>4. PICK x \in S : \A y \in S : ~ (<<y, x>> \in R)
  BY <1>2, WFMin
<1>5. \A y \in S : ~ (y < x)
  BY <1>3, <1>4, Zenon
<1>6. QED
  BY <1>5

\* Min finds it.
LEMMA MinIsLeast ==
  ASSUME NEW S \in SUBSET Nat, S # {}
  PROVE  Min(S) \in S /\ \A y \in S : Min(S) <= y
BY LeastNatural DEF Min

\* Max finds the greatest element of a bounded one.
LEMMA MaxIsGreatest ==
  ASSUME NEW S \in SUBSET Nat, S # {}, NEW n \in Nat, \A y \in S : y <= n
  PROVE  Max(S) \in S /\ \A y \in S : Max(S) >= y
<1> DEFINE T == {n - y : y \in S}
<1>1. T \in SUBSET Nat /\ T # {}
  <2>1. \A y \in S : y \in Nat /\ y <= n
    OBVIOUS
  <2>2. \A y \in S : n - y \in Nat
    BY <2>1
  <2>3. QED
    BY <2>2
<1>2. PICK z \in T : \A y \in T : z <= y
  BY <1>1, LeastNatural
<1>3. PICK x \in S : z = n - x
  BY <1>2
<1>4. \A y \in S : n - x <= n - y
  BY <1>2, <1>3
<1>5. \A y \in S : x >= y
  BY <1>4
<1>6. QED
  BY <1>5 DEF Max

-----------------------------------------------------------------------------
(* The inductive invariant.                                                *)

\* A full buffer holds no line end: whatever a round extracts makes room.
FullIsOneLine ==
  taken - used = ReadCap - 1 => {e \in newlines : used < e /\ e <= taken} = {}

\* A message stays in the buffer only behind a full round.
AllOrMany == MessagesIn(used, taken) = {} \/ handled >= FeedMax

\* A client that was removed is not read again.
GoneIsIdle == gone # "no" => event = {}

IInv == TypeOK /\ CommandsExact /\ FullIsOneLine /\ AllOrMany /\ GoneIsIdle

-----------------------------------------------------------------------------
(* Messages.                                                               *)

\* Positions are natural numbers.
LEMMA Positions ==
  ASSUME TypeOK
  PROVE  /\ written \in Nat /\ taken \in Nat /\ used \in Nat /\ handled \in Nat
         /\ used <= taken /\ taken <= written /\ written <= MaxStream
         /\ \A e \in newlines : e \in Nat /\ e >= 1 /\ e <= written
BY InputAssumption DEF TypeOK

\* Messages are finitely many, no more than the bytes they end in.
LEMMA MessagesFinite ==
  ASSUME TypeOK, NEW from \in Nat, NEW to \in Nat
  PROVE  /\ IsFiniteSet(MessagesIn(from, to)) /\ Cardinality(MessagesIn(from, to)) \in Nat
         /\ Cardinality(MessagesIn(from, to)) <= to
<1>1. MessagesIn(from, to) \in SUBSET (1..to)
  BY Positions DEF MessagesIn
<1>2. IsFiniteSet(1..to) /\ Cardinality(1..to) = to
  BY FS_Interval
<1>3. QED
  BY <1>1, <1>2, FS_Subset, FS_CardinalityType

\* The messages of two adjacent stretches add up.
LEMMA MessagesAdd ==
  ASSUME TypeOK, NEW a \in Nat, NEW b \in Nat, NEW c \in Nat, a <= b, b <= c
  PROVE  Cardinality(MessagesIn(a, c))
           = Cardinality(MessagesIn(a, b)) + Cardinality(MessagesIn(b, c))
<1>1. MessagesIn(a, c) = MessagesIn(a, b) \cup MessagesIn(b, c)
  BY Positions DEF MessagesIn
<1>2. MessagesIn(a, b) \cap MessagesIn(b, c) = {}
  BY Positions DEF MessagesIn
<1>3. IsFiniteSet(MessagesIn(a, b)) /\ IsFiniteSet(MessagesIn(b, c))
  BY MessagesFinite
<1>4. /\ Cardinality(MessagesIn(a, b)) \in Nat /\ Cardinality(MessagesIn(b, c)) \in Nat
  BY MessagesFinite
<1>5. Cardinality(MessagesIn(a, b) \cup MessagesIn(b, c))
        = Cardinality(MessagesIn(a, b)) + Cardinality(MessagesIn(b, c))
          - Cardinality(MessagesIn(a, b) \cap MessagesIn(b, c))
  BY <1>3, FS_Union
<1>6. QED
  BY <1>1, <1>2, <1>4, <1>5, FS_EmptySet

\* What one round extracts: whole lines of what was read, and it leaves a
\* message behind only when it has a full round.
LEMMA Extraction ==
  ASSUME TypeOK, NEW to \in taken..written
  PROVE  LET upto == ExtractedTo(to)
         IN  /\ upto \in used..to
             /\ upto = used \/ upto \in newlines
             /\ upto = used => {e \in newlines : used < e /\ e <= to} = {}
             /\ \/ MessagesIn(upto, to) = {}
                \/ Cardinality(MessagesIn(used, upto)) >= FeedMax
<1> DEFINE ends == {e \in newlines : used < e /\ e <= to}
           enough == {e \in ends : Cardinality(MessagesIn(used, e)) >= FeedMax}
           upto == ExtractedTo(to)
<1>1. /\ used \in Nat /\ to \in Nat /\ used <= to /\ ends \in SUBSET Nat
      /\ enough \in SUBSET ends /\ enough \in SUBSET Nat
  <2>1. used \in Nat /\ to \in Nat /\ used <= to
    BY Positions
  <2>2. ends \in SUBSET Nat
    BY Positions
  <2>3. QED
    BY <2>1, <2>2
<1>2. upto = IF ends = {} THEN used ELSE IF enough = {} THEN Max(ends) ELSE Min(enough)
  BY DEF ExtractedTo
<1>3. CASE ends = {}
  <2>1. MessagesIn(used, to) = {}
    BY <1>3 DEF MessagesIn
  <2>2. QED
    BY <1>1, <1>2, <1>3, <2>1
<1>4. CASE ends # {} /\ enough = {}
  <2>1. \A e \in ends : e <= to
    OBVIOUS
  <2> HIDE DEF ends, enough
  <2>2. upto \in ends /\ \A e \in ends : upto >= e
    BY <1>1, <1>2, <1>4, <2>1, MaxIsGreatest
  <2>3. MessagesIn(upto, to) = {}
    <3>1. ASSUME NEW e \in MessagesIn(upto, to)
          PROVE  FALSE
      <4>1. e \in newlines /\ e \in Nat /\ upto < e /\ e <= to /\ upto \in Nat
        BY <1>1, <2>2, Positions DEF MessagesIn
      <4>2. used < e
        BY <1>1, <2>2, <4>1 DEF ends
      <4>3. QED
        BY <2>2, <4>1, <4>2 DEF ends
    <3>2. QED
      BY <3>1
  <2>4. QED
    BY <1>1, <2>2, <2>3 DEF ends
<1>5. CASE enough # {}
  <2> HIDE DEF enough
  <2>1. upto \in enough
    BY <1>1, <1>2, <1>5, MinIsLeast
  <2>2. QED
    BY <1>1, <2>1 DEF enough
<1>6. QED
  BY <1>3, <1>4, <1>5

-----------------------------------------------------------------------------
(* The steps.                                                              *)

\* What the peer writes changes nothing of what was read.
LEMMA WriteKeeps ==
  ASSUME IInv, NEW newline \in BOOLEAN, PeerWrites(newline)
  PROVE  IInv'
<1>1. \A e \in Nat : e <= written => (e \in newlines' <=> e \in newlines)
  BY Positions DEF IInv, PeerWrites
<1>2. /\ taken' = taken /\ used' = used /\ handled' = handled /\ written' = written + 1
      /\ gone = "no" /\ gone' = gone /\ event' = event
      /\ \A e \in newlines' : e \in Nat /\ e >= 1 /\ e <= written + 1
  BY Positions DEF IInv, PeerWrites
<1>3. /\ written \in Nat /\ taken \in Nat /\ used \in Nat /\ used <= taken /\ taken <= written
  BY Positions DEF IInv
<1>4. MessagesIn(0, used)' = MessagesIn(0, used)
  <2>1. \A e \in Nat : e <= written => (e - 1 \in newlines' <=> e - 1 \in newlines)
    BY <1>1, <1>2, <1>3, Positions DEF IInv
  <2>2. ASSUME NEW e \in Nat
        PROVE  e \in MessagesIn(0, used)' <=> e \in MessagesIn(0, used)
    BY <1>1, <1>2, <1>3, <2>1 DEF MessagesIn, IsMessage
  <2>3. MessagesIn(0, used)' \subseteq Nat /\ MessagesIn(0, used) \subseteq Nat
    BY <1>2, Positions DEF MessagesIn, IInv
  <2>4. QED
    BY <2>2, <2>3
<1>5. MessagesIn(used, taken)' = MessagesIn(used, taken)
  <2>1. \A e \in Nat : e <= written => (e - 1 \in newlines' <=> e - 1 \in newlines)
    BY <1>1, <1>2, <1>3, Positions DEF IInv
  <2>2. ASSUME NEW e \in Nat
        PROVE  e \in MessagesIn(used, taken)' <=> e \in MessagesIn(used, taken)
    BY <1>1, <1>2, <1>3, <2>1 DEF MessagesIn, IsMessage
  <2>3. MessagesIn(used, taken)' \subseteq Nat /\ MessagesIn(used, taken) \subseteq Nat
    BY <1>2, Positions DEF MessagesIn, IInv
  <2>4. QED
    BY <2>2, <2>3
<1>6. TypeOK'
  BY <1>2, <1>3, InputAssumption DEF IInv, TypeOK, PeerWrites
<1>7. HandledUpToBuffer'
  BY <1>1, <1>2, <1>3, <1>4 DEF IInv, CommandsExact, HandledUpToBuffer
<1>8. FullIsOneLine'
  BY <1>1, <1>2, <1>3, InputAssumption DEF IInv, FullIsOneLine
<1>9. AllOrMany' /\ GoneIsIdle'
  BY <1>2, <1>5 DEF IInv, AllOrMany, GoneIsIdle
<1>10. OverlongIsOneLine' /\ ShortFarewellHandled'
  BY <1>2 DEF OverlongIsOneLine, ShortFarewellHandled
<1>11. QED
  BY <1>6, <1>7, <1>8, <1>9, <1>10 DEF IInv, CommandsExact

\* The end of the stream and the event change nothing of what was read.
LEMMA NoticeKeeps == IInv /\ (PeerCloses \/ Ready) => IInv'
<1> SUFFICES ASSUME IInv, PeerCloses \/ Ready
             PROVE  IInv'
  OBVIOUS
<1>1. /\ UNCHANGED <<written, newlines, taken, used, handled, gone>>
      /\ closed' \in BOOLEAN /\ event' \subseteq {"IN", "HUP"} /\ loops' \in 0..(MaxLoops - 1)
      /\ gone # "no" => event' = {}
  <2>1. CASE PeerCloses
    BY <2>1 DEF PeerCloses, IInv, TypeOK, GoneIsIdle
  <2>2. CASE Ready
    <3>1. 0 \in 0..(MaxLoops - 1)
      BY InputAssumption
    <3>2. closed' = closed /\ closed \in BOOLEAN
      BY <2>2 DEF Ready, peerVars, IInv, TypeOK
    <3>3. QED
      BY <2>2, <3>1, <3>2 DEF Ready, peerVars
  <2>3. QED
    BY <2>1, <2>2
<1>2. TypeOK' /\ FullIsOneLine' /\ GoneIsIdle'
  BY <1>1 DEF IInv, TypeOK, FullIsOneLine, GoneIsIdle
<1>3. AllOrMany' /\ CommandsExact'
  BY <1>1 DEF IInv, AllOrMany, CommandsExact, HandledUpToBuffer, OverlongIsOneLine,
              ShortFarewellHandled, Sent, MessagesIn, IsMessage
<1>4. QED
  BY <1>2, <1>3 DEF IInv

\* A client is removed: as overlong when the buffer is full, or on a hang-up
\* when what it sent was handled or was more than a round.
LEMMA RemoveKeeps ==
  ASSUME IInv, UNCHANGED <<peerVars, taken, used, handled>>,
         \/ RemovedFor("overlong") /\ Avail = 0
         \/ RemovedFor("hangup") /\ Avail > 0 /\ taken = written
  PROVE  IInv'
<1>1. 0 \in 0..(MaxLoops - 1)
  BY InputAssumption
<1>2. TypeOK' /\ GoneIsIdle'
  BY <1>1 DEF IInv, TypeOK, GoneIsIdle, RemovedFor, peerVars
<1>3. FullIsOneLine' /\ AllOrMany' /\ HandledUpToBuffer'
  BY DEF IInv, FullIsOneLine, AllOrMany, CommandsExact, HandledUpToBuffer, MessagesIn, IsMessage,
         peerVars
<1>4. OverlongIsOneLine'
  <2>1. Avail = 0 => taken - used = ReadCap - 1
    BY Positions, InputAssumption DEF IInv, Avail
  <2>2. QED
    BY <2>1 DEF IInv, OverlongIsOneLine, FullIsOneLine, RemovedFor, peerVars
<1>5. ShortFarewellHandled'
  <2> SUFFICES ASSUME gone' = "hangup", (Sent <= FeedMax)'
               PROVE  (handled = Sent)'
    BY DEF ShortFarewellHandled
  <2>1. taken = written
    BY DEF RemovedFor
  <2>2. /\ Sent = Cardinality(MessagesIn(0, used)) + Cardinality(MessagesIn(used, written))
        /\ Cardinality(MessagesIn(0, used)) \in Nat
        /\ Cardinality(MessagesIn(used, written)) \in Nat
    BY <2>1, Positions, MessagesAdd, MessagesFinite DEF IInv, Sent
  <2>3. handled = Cardinality(MessagesIn(0, used))
    BY DEF IInv, CommandsExact, HandledUpToBuffer
  <2>4. Sent' = Sent /\ handled' = handled
    BY DEF Sent, MessagesIn, IsMessage, peerVars
  <2>5. CASE MessagesIn(used, taken) = {}
    BY <2>1, <2>2, <2>3, <2>4, <2>5, FS_EmptySet
  <2>6. CASE handled >= FeedMax
    BY <2>2, <2>3, <2>4, <2>6, InputAssumption
  <2>7. QED
    BY <2>5, <2>6 DEF IInv, AllOrMany
<1>6. QED
  BY <1>2, <1>3, <1>4, <1>5 DEF IInv, CommandsExact

\* A round keeps count, leaves no line end in a full buffer, and hangs up on
\* a short farewell only when all of it was handled.
LEMMA FeedKeeps ==
  ASSUME IInv, UNCHANGED peerVars, event # {}, Avail > 0,
         sm_client_feed(IF written - taken < Avail THEN written ELSE taken + Avail)
  PROVE  IInv'
<1> DEFINE to == IF written - taken < Avail THEN written ELSE taken + Avail
           upto == ExtractedTo(to)
           count == Cardinality(MessagesIn(used, upto))
<1>1. /\ written \in Nat /\ taken \in Nat /\ used \in Nat /\ handled \in Nat
      /\ used <= taken /\ taken <= written /\ taken - used < ReadCap /\ ReadCap \in Nat
      /\ Avail = ReadCap - (taken - used) - 1
  BY Positions, InputAssumption DEF IInv, TypeOK, Avail
<1>2. to \in taken..written /\ to - used < ReadCap /\ to \in Nat
  BY <1>1
<1>3. /\ written < ReadCap => to = written
  BY <1>1
<1>4. /\ taken' = to /\ used' = upto /\ handled' = handled + count
      /\ gone = "no" /\ gone' \in {"no", "hangup"}
      /\ gone' # "no" => event' = {}
      /\ event' \subseteq {"IN", "HUP"} /\ loops' \in 0..(MaxLoops - 1)
      /\ written' = written /\ newlines' = newlines /\ closed' = closed
  <2>1. /\ gone = "no" /\ event \subseteq {"IN", "HUP"} /\ loops \in Nat
        /\ MaxLoops \in Nat \ {0}
    <3>1. gone = "no"
      BY DEF IInv, GoneIsIdle
    <3>2. loops \in Nat /\ MaxLoops \in Nat \ {0}
      BY InputAssumption DEF IInv, TypeOK
    <3>3. QED
      BY <3>1, <3>2 DEF IInv, TypeOK
  <2> HIDE DEF to
  <2>2. /\ taken' = to /\ used' = upto /\ handled' = handled + count
        /\ IF count = FeedMax /\ loops + 1 < MaxLoops
           THEN loops' = loops + 1 /\ UNCHANGED <<event, gone>>
           ELSE IF "HUP" \in event THEN RemovedFor("hangup")
                ELSE event' = {} /\ loops' = 0 /\ UNCHANGED gone
    BY DEF sm_client_feed, to
  <2> HIDE DEF count, upto
  <2>3. 0 \in 0..(MaxLoops - 1) /\ (loops + 1 < MaxLoops => loops + 1 \in 0..(MaxLoops - 1))
    BY <2>1
  <2>4. /\ gone' \in {"no", "hangup"} /\ (gone' # "no" => event' = {})
        /\ event' \in {event, {}} /\ loops' \in 0..(MaxLoops - 1)
    BY <2>1, <2>2, <2>3 DEF RemovedFor
  <2>5. event' \subseteq {"IN", "HUP"}
    BY <2>1, <2>4
  <2>6. written' = written /\ newlines' = newlines /\ closed' = closed
    BY DEF peerVars
  <2>7. QED
    BY <2>1, <2>2, <2>4, <2>5, <2>6
<1> HIDE DEF to
<1>5. /\ upto \in used..to
      /\ upto = used \/ upto \in newlines
      /\ upto = used => {e \in newlines : used < e /\ e <= to} = {}
      /\ \/ MessagesIn(upto, to) = {}
         \/ count >= FeedMax
  BY <1>2, Extraction DEF IInv
<1> HIDE DEF upto
<1>6. /\ count \in Nat /\ upto \in Nat /\ used <= upto /\ upto <= to
      /\ Cardinality(MessagesIn(0, upto)) = Cardinality(MessagesIn(0, used)) + count
      /\ Cardinality(MessagesIn(0, upto)) \in Nat /\ Cardinality(MessagesIn(0, upto)) <= upto
  BY <1>1, <1>2, <1>5, MessagesAdd, MessagesFinite DEF IInv
<1> HIDE DEF count
<1>7. handled' = Cardinality(MessagesIn(0, upto))
  BY <1>4, <1>6 DEF IInv, CommandsExact, HandledUpToBuffer
<1>8. TypeOK'
  <2>1. handled' \in 0..MaxStream
    BY <1>1, <1>2, <1>6, <1>7, Positions, InputAssumption DEF IInv
  <2>2. QED
    BY <1>1, <1>2, <1>4, <1>6, <2>1 DEF IInv, TypeOK
<1>9. HandledUpToBuffer'
  BY <1>4, <1>5, <1>7 DEF HandledUpToBuffer, IInv, CommandsExact, MessagesIn, IsMessage
<1>10. FullIsOneLine'
  BY <1>1, <1>2, <1>4, <1>5, <1>6 DEF FullIsOneLine
<1>11. AllOrMany'
  <2>1. CASE MessagesIn(upto, to) = {}
    BY <1>4, <2>1 DEF AllOrMany, MessagesIn, IsMessage
  <2>2. CASE count >= FeedMax
    BY <1>1, <1>4, <1>6, <2>2, InputAssumption DEF AllOrMany
  <2>3. QED
    BY <1>5, <2>1, <2>2 DEF count
<1>12. GoneIsIdle' /\ OverlongIsOneLine'
  BY <1>4 DEF GoneIsIdle, OverlongIsOneLine
<1>13. ShortFarewellHandled'
  <2> SUFFICES ASSUME (Sent <= FeedMax)', (written < ReadCap)'
               PROVE  (handled = Sent)'
    BY DEF ShortFarewellHandled
  <2>1. to = written
    BY <1>3, <1>4
  <2>2. Sent' = Sent
    BY <1>4 DEF Sent, MessagesIn, IsMessage
  <2>3. /\ Sent = Cardinality(MessagesIn(0, upto)) + Cardinality(MessagesIn(upto, to))
        /\ Cardinality(MessagesIn(upto, to)) \in Nat
    <3>1. Sent = Cardinality(MessagesIn(0, to))
      BY <2>1 DEF Sent
    <3>2. TypeOK /\ 0 \in Nat /\ 0 <= upto
      BY <1>6 DEF IInv
    <3>3. QED
      BY <1>2, <1>6, <3>1, <3>2, MessagesAdd, MessagesFinite
  <2>4. CASE MessagesIn(upto, to) = {}
    BY <1>6, <1>7, <2>2, <2>3, <2>4, FS_EmptySet
  <2>5. CASE count >= FeedMax
    BY <1>1, <1>4, <1>6, <1>7, <2>2, <2>3, <2>5, InputAssumption
  <2>6. QED
    BY <1>5, <2>4, <2>5 DEF count
<1>14. QED
  BY <1>8, <1>9, <1>10, <1>11, <1>12, <1>13 DEF IInv, CommandsExact

-----------------------------------------------------------------------------
(* The theorems.                                                           *)

\* The invariant holds throughout: a full buffer holds one line, and a
\* message waits in the buffer only behind a full round.
THEOREM InductiveInvariant == Spec => []IInv
<1>1. Init => IInv
  <2> SUFFICES ASSUME Init
               PROVE  IInv
    OBVIOUS
  <2>1. TypeOK
    <3>1. closed \in BOOLEAN
      BY Zenon DEF Init
    <3>2. 0 \in 0..MaxStream /\ 0 \in 0..(MaxLoops - 1) /\ 0 - 0 < ReadCap
      BY InputAssumption
    <3>3. QED
      BY <3>1, <3>2 DEF Init, TypeOK
  <2>2. \A a, b : MessagesIn(a, b) = {}
    BY DEF Init, MessagesIn
  <2>3. CommandsExact
    BY <2>2, FS_EmptySet
    DEF Init, CommandsExact, HandledUpToBuffer, OverlongIsOneLine, ShortFarewellHandled
  <2>4. FullIsOneLine /\ AllOrMany /\ GoneIsIdle
    BY <2>2 DEF Init, FullIsOneLine, AllOrMany, GoneIsIdle
  <2>5. QED
    BY <2>1, <2>3, <2>4 DEF IInv
<1>2. IInv /\ [Next]_vars => IInv'
  <2>1. IInv /\ process_client_event => IInv'
    BY RemoveKeeps, FeedKeeps DEF process_client_event
  <2>2. IInv /\ UNCHANGED vars => IInv'
    BY DEF vars, IInv, TypeOK, CommandsExact, HandledUpToBuffer, OverlongIsOneLine,
           ShortFarewellHandled, FullIsOneLine, AllOrMany, GoneIsIdle, Sent, MessagesIn, IsMessage
  <2>3. QED
    BY <2>1, <2>2, WriteKeeps, NoticeKeeps DEF Next
<1>3. QED
  BY <1>1, <1>2, PTL DEF Spec

\* Commands are handled exactly, whatever the reads cut: none is lost, handled
\* twice or in part between rounds (sm_client_feed), and a client goes for
\* its own overlong line or with a hang-up behind its commands
\* (process_client_event).
THEOREM InputSafety == Spec => []CommandsExact
<1>1. IInv => CommandsExact
  BY DEF IInv
<1>2. QED
  BY <1>1, InductiveInvariant, PTL

-----------------------------------------------------------------------------
(* Iteration.                                                              *)

\* Induction up to n, over the set of the numbers at which something holds.
LEMMA Induction ==
  ASSUME NEW n \in Nat, NEW Good, 0 \in Good,
         \A k \in 1 .. n : k - 1 \in Good => k \in Good
  PROVE  \A k \in 0 .. n : k \in Good
<1> SUFFICES ASSUME \E k \in 0 .. n : k \notin Good PROVE FALSE
  OBVIOUS
<1> DEFINE Bad == {k \in 0 .. n : k \notin Good}
<1>1. Bad \in SUBSET Nat /\ Bad # {}
  OBVIOUS
<1>2. PICK k \in Bad : \A j \in Bad : k <= j
  BY <1>1, LeastNatural
<1>3. k \in 1 .. n /\ k - 1 \in 0 .. n
  BY <1>2
<1>4. k - 1 \in Good
  BY <1>2, <1>3
<1>5. QED
  BY <1>2, <1>3, <1>4

IsRun(f, start, step, n) == f[0] = start /\ \A k \in 1 .. n : f[k] = step[k][f[k - 1]]

\* Steps can be taken one after the other, each from one set to the next.
LEMMA Runs ==
  ASSUME NEW n \in Nat, NEW S, NEW start \in S[0], NEW step,
         \A k \in 1 .. n : \A x \in S[k - 1] : step[k][x] \in S[k]
  PROVE  \E f : /\ f = [k \in 0 .. n |-> f[k]] /\ IsRun(f, start, step, n)
               /\ \A k \in 0 .. n : f[k] \in S[k]
<1> DEFINE Ok(f, m) == /\ f = [k \in 0 .. m |-> f[k]] /\ IsRun(f, start, step, m)
                       /\ \A k \in 0 .. m : f[k] \in S[k]
           Good == {m \in 0 .. n : \E f : Ok(f, m)}
<1>1. 0 \in Good
  <2> DEFINE f == [k \in 0 .. 0 |-> start]
  <2>1. f[0] = start /\ f = [k \in 0 .. 0 |-> f[k]]
    OBVIOUS
  <2> HIDE DEF f
  <2>2. Ok(f, 0)
    BY <2>1 DEF IsRun
  <2>3. QED
    BY <2>2
<1>2. ASSUME NEW m \in 1 .. n, m - 1 \in Good PROVE m \in Good
  <2>1. PICK f : Ok(f, m - 1)
    BY <1>2
  <2>2. PICK next : next = step[m][f[m - 1]]
    OBVIOUS
  <2>3. next \in S[m]
    <3>1. f[m - 1] \in S[m - 1]
      BY <2>1
    <3>2. QED
      BY <2>2, <3>1
  <2> DEFINE h == [k \in 0 .. m |-> IF k = m THEN next ELSE f[k]]
  <2>4. h[m] = next /\ (\A k \in 0 .. (m - 1) : h[k] = f[k]) /\ h = [k \in 0 .. m |-> h[k]]
    OBVIOUS
  <2> HIDE DEF h
  <2>5. \A k \in 0 .. m : h[k] \in S[k]
    <3>1. \A k \in 0 .. m : k = m \/ k \in 0 .. (m - 1)
      OBVIOUS
    <3>2. \A k \in 0 .. (m - 1) : f[k] \in S[k]
      BY <2>1
    <3>3. QED
      BY <2>3, <2>4, <3>1, <3>2
  <2>6. h[0] = start
    BY <2>1, <2>4 DEF IsRun
  <2>7. ASSUME NEW k \in 1 .. m PROVE h[k] = step[k][h[k - 1]]
    <3>1. h[k - 1] = f[k - 1]
      <4>1. k - 1 \in 0 .. (m - 1)
        OBVIOUS
      <4>2. QED
        BY <2>4, <4>1
    <3>2. CASE k = m
      BY <2>2, <2>4, <3>1, <3>2
    <3>3. CASE k # m
      <4>1. k \in 1 .. (m - 1) /\ k \in 0 .. (m - 1)
        BY <3>3
      <4>2. QED
        BY <2>1, <2>4, <3>1, <4>1 DEF IsRun
    <3>4. QED
      BY <3>2, <3>3
  <2>8. Ok(h, m)
    BY <2>4, <2>5, <2>6, <2>7 DEF IsRun
  <2>9. QED
    BY <2>8
<1>3. \A m \in 0 .. n : m \in Good
  <2> HIDE DEF Good
  <2>1. QED
    BY <1>1, <1>2, Induction
<1>4. QED
  BY <1>3

-----------------------------------------------------------------------------
(* The circular queue.                                                     *)

Slots == 0 .. (WqCap - 1)

\* The place of entry i of a queue with that head, and the number of the
\* entry that place s is for.
Place(head, i) == IF head + i < WqCap THEN head + i ELSE (head + i) - WqCap
Turn(head, s) == IF s >= head THEN s - head ELSE (s - head) + WqCap

LEMMA Wraps ==
  ASSUME NEW x \in Nat, x < WqCap + WqCap
  PROVE  x % WqCap = IF x < WqCap THEN x ELSE x - WqCap
<1>1. WqCap \in Nat \ {0}
  BY QueueAssumption
<1>2. CASE x < WqCap
  BY <1>1, <1>2
<1>3. CASE x >= WqCap
  <2>1. x - WqCap \in 0 .. (WqCap - 1)
    BY <1>1, <1>3
  <2>2. QED
    BY <1>1, <1>3, <2>1
<1>4. QED
  BY <1>1, <1>2, <1>3

LEMMA PlaceIs ==
  ASSUME NEW h \in Slots, NEW i \in Slots
  PROVE  /\ (h + i) % WqCap = Place(h, i) /\ Place(h, i) \in Slots
         /\ Turn(h, Place(h, i)) = i
<1>1. WqCap \in Nat \ {0}
  BY QueueAssumption
<1>2. h + i \in Nat /\ h + i < WqCap + WqCap
  BY <1>1 DEF Slots
<1>3. (h + i) % WqCap = Place(h, i)
  BY <1>2, Wraps DEF Place
<1>4. QED
  BY <1>1, <1>3 DEF Slots, Place, Turn

LEMMA TurnIs ==
  ASSUME NEW h \in Slots, NEW s \in Slots
  PROVE  Turn(h, s) \in Slots /\ Turn(h, s) \in Nat /\ Place(h, Turn(h, s)) = s
BY QueueAssumption DEF Slots, Place, Turn

\* The head moves on by one.
LEMMA HeadMoves ==
  ASSUME NEW h \in Slots
  PROVE  /\ (h + 1) % WqCap \in Slots
         /\ \A s \in Slots : s # h => Turn((h + 1) % WqCap, s) = Turn(h, s) - 1
<1>1. WqCap \in Nat \ {0}
  BY QueueAssumption
<1>2. h + 1 \in Nat /\ h + 1 < WqCap + WqCap
  BY <1>1 DEF Slots
<1>3. PICK g : g = (h + 1) % WqCap
  OBVIOUS
<1>4. g = IF h + 1 < WqCap THEN h + 1 ELSE (h + 1) - WqCap
  BY <1>2, <1>3, Wraps
<1>5. g \in Slots /\ \A s \in Slots : s # h => Turn(g, s) = Turn(h, s) - 1
  BY <1>1, <1>4 DEF Slots, Turn
<1>6. QED
  BY <1>3, <1>5

-----------------------------------------------------------------------------
(* Counting what points to a line.                                         *)

Places == Clients \X Slots
Lines == LineIds \cup {NoLine}
At(P, l) == {h \in Places : P[h] = l}
One(b) == IF b THEN 1 ELSE 0

LEMMA PlacesFinite == IsFiniteSet(Places)
<1>1. IsFiniteSet(Slots)
  BY QueueAssumption, FS_Interval DEF Slots
<1>2. QED
  BY <1>1, QueueAssumption, FS_Product DEF Places

LEMMA AtFinite ==
  ASSUME NEW P, NEW l
  PROVE  IsFiniteSet(At(P, l)) /\ Cardinality(At(P, l)) \in Nat
<1>1. At(P, l) \in SUBSET Places
  BY DEF At
<1>2. IsFiniteSet(At(P, l))
  BY <1>1, PlacesFinite, FS_Subset
<1>3. QED
  BY <1>2, FS_CardinalityType

\* Q is P but for place h.
Differs(P, Q, h) == h \in Places /\ \A g \in Places : g # h => Q[g] = P[g]

LEMMA Recount ==
  ASSUME NEW P, NEW Q, NEW h, Differs(P, Q, h), NEW l, NEW a, NEW b, a = P[h], b = Q[h]
  PROVE  Cardinality(At(Q, l)) = (Cardinality(At(P, l)) - One(a = l)) + One(b = l)
<1> DEFINE S == At(P, l) \ {h}
<1>1. IsFiniteSet(At(P, l)) /\ IsFiniteSet(At(Q, l)) /\ IsFiniteSet(S)
  BY AtFinite, FS_RemoveElement
<1>2. /\ Cardinality(At(P, l)) \in Nat /\ Cardinality(At(Q, l)) \in Nat /\ Cardinality(S) \in Nat
  BY <1>1, FS_CardinalityType
<1>3. h \in At(P, l) <=> a = l
  BY DEF At, Differs
<1>4. h \in At(Q, l) <=> b = l
  BY DEF At, Differs
<1>5. S = At(Q, l) \ {h}
  BY DEF At, Differs
<1>6. Cardinality(S) = IF h \in At(P, l) THEN Cardinality(At(P, l)) - 1 ELSE Cardinality(At(P, l))
  BY <1>1, FS_RemoveElement
<1>7. Cardinality(S) = IF h \in At(Q, l) THEN Cardinality(At(Q, l)) - 1 ELSE Cardinality(At(Q, l))
  BY <1>1, <1>5, FS_RemoveElement
<1> HIDE DEF S
<1>8. QED
  BY <1>2, <1>3, <1>4, <1>6, <1>7 DEF One

-----------------------------------------------------------------------------
(* One client's queue.                                                     *)

Queue == [slots : [Slots -> Entry], head : Slots, count : 0 .. WqCap, drops : Nat]

\* Slots that are not in use point to nothing, and the lines the others point
\* to are of messages up to m, shared by all or the client's own.
Clean(q, c, m) ==
  \A s \in Slots :
    /\ Turn(q.head, s) >= q.count => q.slots[s].shared = NoLine
    /\ q.slots[s].shared # NoLine =>
         q.slots[s].shared.n <= m /\ q.slots[s].shared.by \in {NoClient, c}

\* Only slot s of the two queues differs in what it points to.
Points(q, p, s, l) == p.slots[s].shared = l /\ \A t \in Slots : t # s => p.slots[t].shared = q.slots[t].shared

LEMMA NoLineIsNone == NoLine \notin LineIds
BY DEF NoLine, LineIds

LEMMA QueueFields ==
  ASSUME NEW q \in Queue
  PROVE  /\ q.slots \in [Slots -> Entry] /\ q.head \in Slots /\ q.count \in 0 .. WqCap /\ q.count \in Nat
         /\ q.drops \in Nat
BY DEF Queue

LEMMA EntryFields ==
  ASSUME NEW e \in Entry
  PROVE  e.data \in Seq(Message) /\ e.shared \in Lines /\ e.offset \in Nat
BY DEF Entry, Lines

LEMMA MakeEntry ==
  ASSUME NEW d \in Seq(Message), NEW l \in Lines, NEW o \in Nat
  PROVE  [data |-> d, shared |-> l, offset |-> o] \in Entry
BY DEF Entry, Lines

\* An entry is added: its slot was free.
LEMMA PutIs ==
  ASSUME NEW q \in Queue, NEW c, NEW m \in Nat, Clean(q, c, m), HasRoom(q), NEW e \in Entry,
         NEW p, p = Put(q, e)
  PROVE  \E s \in Slots : /\ p \in Queue /\ s = Place(q.head, q.count)
                          /\ p.slots = [q.slots EXCEPT ![s] = e]
                          /\ p.head = q.head /\ p.count = q.count + 1 /\ p.drops = q.drops
                          /\ q.slots[s].shared = NoLine
<1>1. /\ q.slots \in [Slots -> Entry] /\ q.head \in Slots /\ q.count \in 0 .. WqCap /\ q.drops \in Nat
      /\ q.count \in Slots
  BY QueueFields, QueueAssumption DEF HasRoom, Slots
<1>2. PICK s : s = Place(q.head, q.count)
  OBVIOUS
<1>3. SlotOf(q, q.count) = s /\ s \in Slots /\ Turn(q.head, s) = q.count
  BY <1>1, <1>2, PlaceIs DEF SlotOf
<1>4. p = [q EXCEPT !.slots[s] = e, !.count = @ + 1]
  BY <1>3 DEF Put
<1>5. /\ p.slots = [q.slots EXCEPT ![s] = e] /\ p.head = q.head /\ p.count = q.count + 1
      /\ p.drops = q.drops
  BY <1>4 DEF Queue
<1>6. q.count + 1 \in 0 .. WqCap
  BY <1>1, QueueAssumption DEF Slots
<1>7. p \in Queue
  <2>1. [q.slots EXCEPT ![s] = e] \in [Slots -> Entry]
    BY <1>1, <1>3
  <2>2. p = [slots |-> [q.slots EXCEPT ![s] = e], head |-> q.head, count |-> q.count + 1, drops |-> q.drops]
    BY <1>4 DEF Queue
  <2>3. QED
    BY <1>1, <1>6, <2>1, <2>2 DEF Queue
<1>8. q.slots[s].shared = NoLine
  BY <1>1, <1>3 DEF Clean, Slots
<1>9. QED
  BY <1>2, <1>3, <1>5, <1>7, <1>8

\* What becomes of queue q when slot s gets entry e.
Replaced(q, s, e) == [q EXCEPT !.slots[s] = e]

LEMMA ReplacedIs ==
  ASSUME NEW q \in Queue, NEW s \in Slots, NEW e \in Entry, NEW p, p = Replaced(q, s, e)
  PROVE  /\ p \in Queue /\ p.slots = [q.slots EXCEPT ![s] = e]
         /\ p.head = q.head /\ p.count = q.count /\ p.drops = q.drops
<1>1. /\ q.slots \in [Slots -> Entry] /\ q.head \in Slots /\ q.count \in 0 .. WqCap /\ q.drops \in Nat
  BY QueueFields
<1>2. p = [q EXCEPT !.slots[s] = e]
  BY DEF Replaced
<1>3. /\ p.slots = [q.slots EXCEPT ![s] = e] /\ p.head = q.head /\ p.count = q.count /\ p.drops = q.drops
  BY <1>2 DEF Queue
<1>4. [q.slots EXCEPT ![s] = e] \in [Slots -> Entry]
  BY <1>1
<1>5. p = [slots |-> [q.slots EXCEPT ![s] = e], head |-> q.head, count |-> q.count, drops |-> q.drops]
  BY <1>2 DEF Queue
<1>6. QED
  BY <1>1, <1>3, <1>4, <1>5 DEF Queue

\* The newest entry.
LEMMA LastIs ==
  ASSUME NEW q \in Queue, q.count > 0
  PROVE  /\ LastSlot(q) = Place(q.head, q.count - 1) /\ LastSlot(q) \in Slots
         /\ Turn(q.head, LastSlot(q)) = q.count - 1
<1>1. q.head \in Slots /\ q.count \in 0 .. WqCap
  BY QueueFields
<1>2. PICK i : i = q.count - 1
  OBVIOUS
<1>3. i \in Slots
  BY <1>1, <1>2, QueueAssumption DEF Slots
<1>4. QED
  BY <1>1, <1>2, <1>3, PlaceIs DEF LastSlot, SlotOf

LEMMA DroppedIs ==
  ASSUME NEW q \in Queue, NEW p, p = Dropped(q)
  PROVE  /\ p \in Queue /\ p.slots = q.slots /\ p.head = q.head /\ p.count = q.count
         /\ p.drops = q.drops + 1
<1>1. /\ q.slots \in [Slots -> Entry] /\ q.head \in Slots /\ q.count \in 0 .. WqCap /\ q.drops \in Nat
  BY QueueFields
<1>2. p = [q EXCEPT !.drops = @ + 1]
  BY DEF Dropped
<1>3. p = [slots |-> q.slots, head |-> q.head, count |-> q.count, drops |-> q.drops + 1]
  BY <1>2 DEF Queue
<1>4. QED
  BY <1>1, <1>3 DEF Queue

\* The oldest entry is done with.
Shifted(q) == [q EXCEPT !.slots[q.head] = FreeSlot, !.head = (@ + 1) % WqCap, !.count = @ - 1]

LEMMA FreeSlotIs == FreeSlot \in Entry /\ FreeSlot.shared = NoLine /\ FreeSlot.data = <<>> /\ FreeSlot.offset = 0
<1>1. <<>> \in Seq(Message) /\ NoLine \in Lines /\ 0 \in Nat
  BY DEF Lines
<1>2. QED
  BY <1>1, MakeEntry DEF FreeSlot

LEMMA ShiftedIs ==
  ASSUME NEW q \in Queue, q.count > 0, NEW p, p = Shifted(q)
  PROVE  /\ p \in Queue /\ p.slots = [q.slots EXCEPT ![q.head] = FreeSlot]
         /\ p.head = (q.head + 1) % WqCap /\ p.count = q.count - 1 /\ p.drops = q.drops
<1>1. /\ q.slots \in [Slots -> Entry] /\ q.head \in Slots /\ q.count \in 0 .. WqCap /\ q.drops \in Nat
  BY QueueFields
<1>2. PICK g : g = (q.head + 1) % WqCap
  OBVIOUS
<1>3. g \in Slots
  BY <1>1, <1>2, HeadMoves
<1>4. p = [slots |-> [q.slots EXCEPT ![q.head] = FreeSlot], head |-> g, count |-> q.count - 1, drops |-> q.drops]
  BY <1>2 DEF Queue, Shifted
<1>5. q.count - 1 \in 0 .. WqCap
  BY <1>1, QueueAssumption
<1>6. [q.slots EXCEPT ![q.head] = FreeSlot] \in [Slots -> Entry]
  BY <1>1, FreeSlotIs
<1>7. QED
  BY <1>1, <1>2, <1>3, <1>4, <1>5, <1>6 DEF Queue

\* Line l may be in a queue of client c once message m was sent.
Known(l, c, m) == l # NoLine => l.n <= m /\ l.by \in {NoClient, c}

LEMMA CleanKnown ==
  ASSUME NEW q, NEW c, NEW m
  PROVE  Clean(q, c, m) <=> \A s \in Slots : /\ Turn(q.head, s) >= q.count => q.slots[s].shared = NoLine
                                             /\ Known(q.slots[s].shared, c, m)
BY DEF Clean, Known

LEMMA KnownLater ==
  ASSUME NEW l \in Lines, NEW c, NEW m \in Nat, Known(l, c, m), NEW k \in Nat, m <= k
  PROVE  Known(l, c, k)
BY DEF Known, Lines, LineIds

LEMMA CleanLater ==
  ASSUME NEW q \in Queue, NEW c, NEW m \in Nat, Clean(q, c, m), NEW k \in Nat, m <= k
  PROVE  Clean(q, c, k)
<1>1. \A s \in Slots : q.slots[s].shared \in Lines
  BY QueueFields, EntryFields
<1>2. QED
  BY <1>1, CleanKnown, KnownLater

LEMMA CleanPut ==
  ASSUME NEW q \in Queue, NEW c, NEW m \in Nat, Clean(q, c, m), NEW e, Known(e.shared, c, m),
         NEW s \in Slots, s = Place(q.head, q.count), NEW p, HasRoom(q),
         p.slots = [q.slots EXCEPT ![s] = e], p.head = q.head, p.count = q.count + 1
  PROVE  Clean(p, c, m)
<1>1. q.slots \in [Slots -> Entry] /\ q.head \in Slots /\ q.count \in Nat /\ q.count \in Slots
  BY QueueFields, QueueAssumption DEF HasRoom, Slots
<1>2. Turn(q.head, s) = q.count
  BY <1>1, PlaceIs
<1>3. ASSUME NEW t \in Slots
      PROVE  /\ Turn(p.head, t) >= p.count => p.slots[t].shared = NoLine
             /\ Known(p.slots[t].shared, c, m)
  <2>1. Turn(q.head, t) \in Nat
    BY <1>1, TurnIs
  <2>2. CASE t = s
    BY <1>1, <1>2, <2>2
  <2>3. CASE t # s
    <3>1. p.slots[t] = q.slots[t]
      BY <1>1, <2>3
    <3>2. /\ Turn(q.head, t) >= q.count => q.slots[t].shared = NoLine
          /\ Known(q.slots[t].shared, c, m)
      BY CleanKnown
    <3>3. QED
      BY <1>1, <2>1, <3>1, <3>2
  <2>4. QED
    BY <2>2, <2>3
<1>4. QED
  BY <1>3, CleanKnown

\* An entry in use is replaced.
LEMMA CleanReplace ==
  ASSUME NEW q \in Queue, NEW c, NEW m \in Nat, Clean(q, c, m), NEW e, Known(e.shared, c, m),
         NEW s \in Slots, Turn(q.head, s) < q.count, NEW p,
         p.slots = [q.slots EXCEPT ![s] = e], p.head = q.head, p.count = q.count
  PROVE  Clean(p, c, m)
<1>1. q.slots \in [Slots -> Entry] /\ q.head \in Slots /\ q.count \in Nat
  BY QueueFields
<1>2. ASSUME NEW t \in Slots
      PROVE  /\ Turn(p.head, t) >= p.count => p.slots[t].shared = NoLine
             /\ Known(p.slots[t].shared, c, m)
  <2>1. Turn(q.head, t) \in Nat
    BY <1>1, TurnIs
  <2>2. CASE t = s
    BY <1>1, <2>1, <2>2
  <2>3. CASE t # s
    <3>1. p.slots[t] = q.slots[t]
      BY <1>1, <2>3
    <3>2. /\ Turn(q.head, t) >= q.count => q.slots[t].shared = NoLine
          /\ Known(q.slots[t].shared, c, m)
      BY CleanKnown
    <3>3. QED
      BY <3>1, <3>2
  <2>4. QED
    BY <2>2, <2>3
<1>3. QED
  BY <1>2, CleanKnown

LEMMA CleanShift ==
  ASSUME NEW q \in Queue, NEW c, NEW m \in Nat, Clean(q, c, m), q.count > 0, NEW p, p = Shifted(q)
  PROVE  Clean(p, c, m)
<1>1. q.slots \in [Slots -> Entry] /\ q.head \in Slots /\ q.count \in Nat
  BY QueueFields
<1>2. /\ p.slots = [q.slots EXCEPT ![q.head] = FreeSlot]
      /\ p.head = (q.head + 1) % WqCap /\ p.count = q.count - 1
  BY ShiftedIs
<1>3. ASSUME NEW t \in Slots
      PROVE  /\ Turn(p.head, t) >= p.count => p.slots[t].shared = NoLine
             /\ Known(p.slots[t].shared, c, m)
  <2>1. CASE t = q.head
    <3>1. p.slots[t] = FreeSlot
      BY <1>1, <1>2, <2>1
    <3>2. QED
      BY <3>1, FreeSlotIs DEF Known
  <2>2. CASE t # q.head
    <3>1. p.slots[t] = q.slots[t]
      BY <1>1, <1>2, <2>2
    <3>2. /\ Turn(q.head, t) >= q.count => q.slots[t].shared = NoLine
          /\ Known(q.slots[t].shared, c, m)
      BY CleanKnown
    <3>3. Turn(q.head, t) \in Nat
      BY <1>1, TurnIs
    <3>4. Turn(p.head, t) = Turn(q.head, t) - 1
      BY <1>1, <1>2, <2>2, HeadMoves
    <3>5. QED
      BY <1>1, <1>2, <3>1, <3>2, <3>3, <3>4
  <2>3. QED
    BY <2>1, <2>2
<1>4. QED
  BY <1>3, CleanKnown

-----------------------------------------------------------------------------
(* Reference counts.                                                       *)

\* What every slot points to.
Ptr(w) == [h \in Places |-> w[h[1]].slots[h[2]].shared]

\* Every line is counted once for each slot that points to it, and once more
\* if it is held.
Exact(w, r, held) == \A l \in LineIds : r[l] = Cardinality(At(Ptr(w), l)) + One(l = held)

Queues == [Clients -> Queue]
Counts == [LineIds -> Nat]

LEMMA PtrOf ==
  ASSUME NEW w, NEW c \in Clients, NEW s \in Slots
  PROVE  <<c, s>> \in Places /\ Ptr(w)[<<c, s>>] = w[c].slots[s].shared
BY DEF Ptr, Places

\* One slot of one client changes.
LEMMA PtrDiffers ==
  ASSUME NEW w \in Queues, NEW v, NEW c \in Clients, NEW s \in Slots,
         \A d \in Clients : d # c => v[d] = w[d],
         \A t \in Slots : t # s => v[c].slots[t].shared = w[c].slots[t].shared
  PROVE  Differs(Ptr(w), Ptr(v), <<c, s>>)
<1>1. <<c, s>> \in Places
  BY PtrOf
<1>2. ASSUME NEW g \in Places, g # <<c, s>> PROVE Ptr(v)[g] = Ptr(w)[g]
  <2>1. PICK d \in Clients, t \in Slots : g = <<d, t>>
    BY DEF Places
  <2>2. Ptr(v)[g] = v[d].slots[t].shared /\ Ptr(w)[g] = w[d].slots[t].shared
    BY <2>1, PtrOf
  <2>3. CASE d = c
    <3>1. t # s
      BY <1>2, <2>1, <2>3
    <3>2. QED
      BY <2>2, <2>3, <3>1
  <2>4. CASE d # c
    BY <2>2, <2>4
  <2>5. QED
    BY <2>3, <2>4
<1>3. QED
  BY <1>1, <1>2 DEF Differs

\* A slot of client c now points to b where it pointed to a.
Redirects(w, v, c, s, a, b) ==
  /\ w \in Queues /\ v \in Queues /\ c \in Clients /\ s \in Slots
  /\ \A d \in Clients : d # c => v[d] = w[d]
  /\ \A t \in Slots : t # s => v[c].slots[t].shared = w[c].slots[t].shared
  /\ w[c].slots[s].shared = a /\ v[c].slots[s].shared = b

LEMMA Redirected ==
  ASSUME NEW w, NEW v, NEW c, NEW s, NEW a, NEW b, Redirects(w, v, c, s, a, b), NEW l
  PROVE  Cardinality(At(Ptr(v), l)) = (Cardinality(At(Ptr(w), l)) - One(a = l)) + One(b = l)
<1>1. c \in Clients /\ s \in Slots /\ w \in Queues
  BY DEF Redirects
<1>2. Differs(Ptr(w), Ptr(v), <<c, s>>)
  <2>1. /\ \A d \in Clients : d # c => v[d] = w[d]
        /\ \A t \in Slots : t # s => v[c].slots[t].shared = w[c].slots[t].shared
    BY DEF Redirects
  <2>2. QED
    BY <1>1, <2>1, PtrDiffers
<1>3. Ptr(w)[<<c, s>>] = a /\ Ptr(v)[<<c, s>>] = b
  BY <1>1, PtrOf DEF Redirects
<1>4. PICK h : h = <<c, s>>
  OBVIOUS
<1>5. QED
  BY <1>2, <1>3, <1>4, Recount

LEMMA CardAt ==
  ASSUME NEW w, NEW l
  PROVE  Cardinality(At(Ptr(w), l)) \in Nat
BY AtFinite

\* A free slot gets a line.
LEMMA ExactPut ==
  ASSUME NEW w, NEW v, NEW c, NEW s, NEW a \in LineIds, Redirects(w, v, c, s, NoLine, a),
         NEW r \in Counts, NEW held, Exact(w, r, held)
  PROVE  Acquire(r, a) \in Counts /\ Exact(v, Acquire(r, a), held)
<1>1. Acquire(r, a) \in Counts /\ \A l \in LineIds : Acquire(r, a)[l] = r[l] + One(a = l)
  BY DEF Acquire, Counts, One
<1>2. ASSUME NEW l \in LineIds
      PROVE  Acquire(r, a)[l] = Cardinality(At(Ptr(v), l)) + One(l = held)
  <2>1. Cardinality(At(Ptr(v), l)) = (Cardinality(At(Ptr(w), l)) - One(NoLine = l)) + One(a = l)
    BY Redirected
  <2>2. One(NoLine = l) = 0
    BY NoLineIsNone DEF One
  <2>3. r[l] = Cardinality(At(Ptr(w), l)) + One(l = held) /\ r[l] \in Nat
    BY DEF Exact, Counts
  <2>4. Cardinality(At(Ptr(w), l)) \in Nat /\ Cardinality(At(Ptr(v), l)) \in Nat
    BY CardAt
  <2>5. PICK x : x = One(l = held)
    OBVIOUS
  <2>6. PICK y : y = One(a = l)
    OBVIOUS
  <2>7. x \in Nat /\ y \in Nat
    BY <2>5, <2>6 DEF One
  <2>8. Acquire(r, a)[l] = r[l] + y
    BY <1>1, <2>6
  <2>9. QED
    BY <2>1, <2>2, <2>3, <2>4, <2>5, <2>6, <2>7, <2>8
<1>3. QED
  BY <1>1, <1>2 DEF Exact

\* A slot that pointed to a line, or to none, is free.
LEMMA ExactRelease ==
  ASSUME NEW w, NEW v, NEW c, NEW s, NEW a \in Lines, Redirects(w, v, c, s, a, NoLine),
         NEW r \in Counts, NEW held, Exact(w, r, held)
  PROVE  Release(r, a) \in Counts /\ Exact(v, Release(r, a), held)
<1>1. ASSUME NEW l \in LineIds
      PROVE  /\ Cardinality(At(Ptr(v), l)) = Cardinality(At(Ptr(w), l)) - One(a = l)
             /\ Cardinality(At(Ptr(w), l)) \in Nat /\ Cardinality(At(Ptr(v), l)) \in Nat
  <2>1. Cardinality(At(Ptr(v), l)) = (Cardinality(At(Ptr(w), l)) - One(a = l)) + One(NoLine = l)
    BY Redirected
  <2>2. One(NoLine = l) = 0
    BY NoLineIsNone DEF One
  <2>3. Cardinality(At(Ptr(w), l)) \in Nat /\ Cardinality(At(Ptr(v), l)) \in Nat /\ One(a = l) \in Nat
    BY CardAt DEF One
  <2>4. QED
    BY <2>1, <2>2, <2>3
<1>2. ASSUME NEW l \in LineIds
      PROVE  r[l] = Cardinality(At(Ptr(w), l)) + One(l = held) /\ r[l] \in Nat /\ One(l = held) \in Nat
  BY DEF Exact, Counts, One
<1>3. CASE a = NoLine
  <2>1. Release(r, a) = r
    BY <1>3 DEF Release
  <2>2. ASSUME NEW l \in LineIds PROVE One(a = l) = 0
    BY <1>3, NoLineIsNone DEF One
  <2>3. ASSUME NEW l \in LineIds PROVE r[l] = Cardinality(At(Ptr(v), l)) + One(l = held)
    BY <1>1, <1>2, <2>2
  <2>4. QED
    BY <2>1, <2>3 DEF Exact
<1>4. CASE a # NoLine
  <2>1. a \in LineIds
    BY <1>4 DEF Lines
  <2>2. Release(r, a) = [r EXCEPT ![a] = @ - 1]
    BY <1>4 DEF Release
  <2>3. r[a] > 0
    <3>1. One(a = a) = 1
      BY DEF One
    <3>2. QED
      BY <1>1, <1>2, <2>1, <3>1
  <2>4. Release(r, a) \in Counts
    <3>1. r[a] - 1 \in Nat
      BY <1>2, <2>1, <2>3
    <3>2. QED
      BY <2>1, <2>2, <3>1 DEF Counts
  <2>5. ASSUME NEW l \in LineIds PROVE Release(r, a)[l] = r[l] - One(a = l)
    <3>1. r \in [LineIds -> Nat]
      BY DEF Counts
    <3>2. r[l] \in Nat
      BY <3>1
    <3>3. QED
      BY <2>1, <2>2, <3>1, <3>2 DEF One
  <2>6. ASSUME NEW l \in LineIds PROVE Release(r, a)[l] = Cardinality(At(Ptr(v), l)) + One(l = held)
    <3>1. One(a = l) \in Nat
      BY DEF One
    <3>2. QED
      BY <1>1, <1>2, <2>5, <3>1
  <2>7. QED
    BY <2>4, <2>6 DEF Exact
<1>5. QED
  BY <1>3, <1>4

\* A slot that pointed to one line points to a new one, which is held by
\* nobody else.
LEMMA ExactMerge ==
  ASSUME NEW w, NEW v, NEW c, NEW s, NEW a \in LineIds, NEW b \in LineIds, a # b,
         Redirects(w, v, c, s, a, b), NEW r \in Counts, NEW held, Exact(w, r, held),
         At(Ptr(w), b) = {}, b # held
  PROVE  Release([r EXCEPT ![b] = 1], a) \in Counts /\ Exact(v, Release([r EXCEPT ![b] = 1], a), held)
<1>1. PICK n : n = Release([r EXCEPT ![b] = 1], a)
  OBVIOUS
<1>2. r \in [LineIds -> Nat]
  BY DEF Counts
<1>3. n = [r EXCEPT ![b] = 1, ![a] = @ - 1]
  BY <1>1, <1>2, NoLineIsNone DEF Release
<1>4. ASSUME NEW l \in LineIds
      PROVE  /\ Cardinality(At(Ptr(v), l)) = (Cardinality(At(Ptr(w), l)) - One(a = l)) + One(b = l)
             /\ Cardinality(At(Ptr(w), l)) \in Nat /\ Cardinality(At(Ptr(v), l)) \in Nat
             /\ r[l] = Cardinality(At(Ptr(w), l)) + One(l = held) /\ r[l] \in Nat /\ One(l = held) \in Nat
  <2>1. Cardinality(At(Ptr(v), l)) = (Cardinality(At(Ptr(w), l)) - One(a = l)) + One(b = l)
    BY Redirected
  <2>2. r[l] = Cardinality(At(Ptr(w), l)) + One(l = held) /\ r[l] \in Nat /\ One(l = held) \in Nat
    BY DEF Exact, Counts, One
  <2>3. QED
    BY <2>1, <2>2, CardAt
<1>5. One(a = a) = 1 /\ One(b = b) = 1 /\ One(a = b) = 0 /\ One(b = a) = 0
  BY DEF One
<1>6. r[a] > 0
  BY <1>4, <1>5
<1>7. n \in Counts
  <2>1. r[a] - 1 \in Nat
    BY <1>4, <1>6
  <2>2. QED
    BY <1>2, <1>3, <2>1 DEF Counts
<1>8. ASSUME NEW l \in LineIds PROVE n[l] = Cardinality(At(Ptr(v), l)) + One(l = held)
  <2>1. CASE l = a
    <3>1. n[a] = r[a] - 1
      BY <1>2, <1>3
    <3>2. Cardinality(At(Ptr(v), a)) = Cardinality(At(Ptr(w), a)) - 1
      BY <1>4, <1>5
    <3>3. PICK x : x = One(a = held)
      OBVIOUS
    <3>4. r[a] = Cardinality(At(Ptr(w), a)) + x /\ x \in Nat /\ Cardinality(At(Ptr(w), a)) \in Nat
      BY <1>4, <3>3
    <3>5. n[a] = Cardinality(At(Ptr(v), a)) + x
      BY <3>1, <3>2, <3>4
    <3>6. n[a] = Cardinality(At(Ptr(v), a)) + One(a = held)
      BY <3>3, <3>5
    <3>7. QED
      BY <2>1, <3>6, Zenon
  <2>2. CASE l = b
    <3>1. Cardinality(At(Ptr(w), b)) = 0
      BY FS_EmptySet
    <3>2. One(b = held) = 0
      BY DEF One
    <3>3. n[b] = 1
      BY <1>2, <1>3
    <3>4. Cardinality(At(Ptr(v), b)) = (0 - 0) + 1
      BY <1>4, <1>5, <3>1
    <3>5. n[b] = Cardinality(At(Ptr(v), b)) + One(b = held)
      BY <3>2, <3>3, <3>4
    <3>6. QED
      BY <2>2, <3>5, Zenon
  <2>3. CASE l # a /\ l # b
    <3>1. One(a = l) = 0 /\ One(b = l) = 0
      BY <2>3 DEF One
    <3>2. n[l] = r[l]
      BY <1>2, <1>3, <2>3
    <3>3. QED
      BY <1>4, <3>1, <3>2
  <2>4. QED
    BY <2>1, <2>2, <2>3
<1>9. QED
  BY <1>1, <1>7, <1>8 DEF Exact

-----------------------------------------------------------------------------
(* A broadcast.                                                            *)

\* The line of message m that all share, and the one client c merges it into.
AllLine(m) == [n |-> m, by |-> NoClient]
OwnLine(m, c) == [n |-> m, by |-> c]

LEMMA LinesAre ==
  ASSUME NEW m \in 1 .. MaxMsgs, NEW c \in Clients
  PROVE  /\ AllLine(m) \in LineIds /\ OwnLine(m, c) \in LineIds /\ AllLine(m) # OwnLine(m, c)
         /\ [AllLine(m) EXCEPT !.by = c] = OwnLine(m, c)
         /\ AllLine(m).n = m /\ AllLine(m).by = NoClient /\ OwnLine(m, c).n = m /\ OwnLine(m, c).by = c
BY QueueAssumption DEF AllLine, OwnLine, LineIds

Merged(e, msg, l) == [data |-> Append(e.data, msg), shared |-> l, offset |-> 0]
Single(msg, l) == [data |-> <<msg>>, shared |-> l, offset |-> 0]

\* What a broadcast makes of the queue of client c.
SentQ(q, c, msg, able) ==
  IF c \in able /\ CanCoalesce(q, msg)
  THEN Replaced(q, LastSlot(q), Merged(q.slots[LastSlot(q)], msg, OwnLine(msg.n, c)))
  ELSE IF ~HasRoom(q) THEN Dropped(q) ELSE Put(q, Single(msg, AllLine(msg.n)))

LEMMA EntriesAre ==
  ASSUME NEW msg \in Message, NEW l \in Lines, NEW e \in Entry
  PROVE  /\ Single(msg, l) \in Entry /\ Single(msg, l).shared = l
         /\ Merged(e, msg, l) \in Entry /\ Merged(e, msg, l).shared = l
<1>1. <<msg>> \in Seq(Message) /\ Append(e.data, msg) \in Seq(Message)
  BY EntryFields
<1>2. QED
  BY <1>1, MakeEntry DEF Single, Merged

\* The queue stays what a queue is, and one of its slots at most points
\* elsewhere: to the new line where there was none, or to a merged one.
LEMMA SentIs ==
  ASSUME NEW msg \in Message, NEW c \in Clients, NEW q \in Queue, NEW able,
         NEW m \in Nat, m = msg.n, Clean(q, c, m), NEW p, p = SentQ(q, c, msg, able)
  PROVE  /\ p \in Queue /\ Clean(p, c, m)
<1>1. m \in 1 .. MaxMsgs
  BY DEF Message
<1>2. AllLine(m) \in LineIds /\ OwnLine(m, c) \in LineIds /\ AllLine(m) \in Lines /\ OwnLine(m, c) \in Lines
  BY <1>1, LinesAre DEF Lines
<1>3. Known(AllLine(m), c, m) /\ Known(OwnLine(m, c), c, m)
  BY <1>1, LinesAre DEF Known
<1>4. CASE c \in able /\ CanCoalesce(q, msg)
  <2>1. q.count > 0
    BY <1>4 DEF CanCoalesce
  <2>2. PICK s : s = LastSlot(q)
    OBVIOUS
  <2>3. s \in Slots /\ Turn(q.head, s) = q.count - 1 /\ q.count \in Nat
    BY <2>1, <2>2, LastIs, QueueFields
  <2>4. PICK e : e = Merged(q.slots[s], msg, OwnLine(m, c))
    OBVIOUS
  <2>5. e \in Entry /\ e.shared = OwnLine(m, c)
    <3>1. q.slots[s] \in Entry
      BY <2>3, QueueFields
    <3>2. QED
      BY <1>2, <2>4, <3>1, EntriesAre
  <2>6. p = Replaced(q, s, e)
    BY <1>4, <2>2, <2>4 DEF SentQ
  <2>7. /\ p \in Queue /\ p.slots = [q.slots EXCEPT ![s] = e]
        /\ p.head = q.head /\ p.count = q.count
    BY <2>3, <2>5, <2>6, ReplacedIs
  <2>8. Turn(q.head, s) < q.count
    BY <2>3
  <2>9. Known(e.shared, c, m)
    BY <1>3, <2>5
  <2>10. QED
    BY <2>3, <2>7, <2>8, <2>9, CleanReplace
<1>5. CASE ~(c \in able /\ CanCoalesce(q, msg)) /\ ~HasRoom(q)
  <2>1. p = Dropped(q)
    BY <1>5 DEF SentQ
  <2>2. /\ p \in Queue /\ p.slots = q.slots /\ p.head = q.head /\ p.count = q.count
    BY <2>1, DroppedIs
  <2>3. QED
    BY <2>2 DEF Clean
<1>6. CASE ~(c \in able /\ CanCoalesce(q, msg)) /\ HasRoom(q)
  <2>1. PICK e : e = Single(msg, AllLine(m))
    OBVIOUS
  <2>2. p = Put(q, e)
    BY <1>6, <2>1 DEF SentQ
  <2>3. e \in Entry /\ e.shared = AllLine(m)
    <3>1. FreeSlot \in Entry
      BY FreeSlotIs
    <3>2. QED
      BY <1>2, <2>1, <3>1, EntriesAre
  <2>4. PICK s \in Slots : /\ p \in Queue /\ s = Place(q.head, q.count)
                           /\ p.slots = [q.slots EXCEPT ![s] = e]
                           /\ p.head = q.head /\ p.count = q.count + 1
    BY <1>6, <2>2, <2>3, PutIs
  <2>5. Known(e.shared, c, m)
    BY <1>3, <2>3
  <2>6. QED
    BY <1>6, <2>4, <2>5, CleanPut
<1>7. QED
  BY <1>4, <1>5, <1>6

\* What holds while a line goes round.
Underway(all, m) ==
  /\ all.wq \in Queues /\ all.refs \in Counts
  /\ \A d \in Clients : Clean(all.wq[d], d, m)
  /\ Exact(all.wq, all.refs, AllLine(m))

\* Nothing points to a line the client has not made.
LEMMA OwnIsNew ==
  ASSUME NEW all, NEW m \in 1 .. MaxMsgs, Underway(all, m), NEW c \in Clients, Clean(all.wq[c], c, m - 1)
  PROVE  At(Ptr(all.wq), OwnLine(m, c)) = {}
<1> SUFFICES ASSUME NEW h \in Places, Ptr(all.wq)[h] = OwnLine(m, c) PROVE FALSE
  BY DEF At
<1>1. PICK d \in Clients, s \in Slots : h = <<d, s>>
  BY DEF Places
<1>2. all.wq[d].slots[s].shared = OwnLine(m, c)
  BY <1>1, PtrOf
<1>3. OwnLine(m, c) # NoLine /\ OwnLine(m, c).n = m /\ OwnLine(m, c).by = c /\ c # NoClient
  BY LinesAre, NoLineIsNone, QueueAssumption
<1>4. c \in {NoClient, d}
  BY <1>2, <1>3 DEF Underway, Clean
<1>5. d = c
  BY <1>3, <1>4
<1>6. m <= m - 1
  BY <1>2, <1>3, <1>5 DEF Clean
<1>7. QED
  BY <1>6

\* One client of a broadcast is served.
LEMMA SendStep ==
  ASSUME NEW all, NEW msg \in Message, NEW m \in 1 .. MaxMsgs, m = msg.n, Underway(all, m),
         NEW c \in Clients, Clean(all.wq[c], c, m - 1), NEW able,
         NEW x, x = SendTo(all, c, msg, AllLine(m), able)
  PROVE  Underway(x, m) /\ x.wq = [all.wq EXCEPT ![c] = SentQ(all.wq[c], c, msg, able)]
<1>1. PICK q : q = all.wq[c]
  OBVIOUS
<1>2. PICK r : r = all.refs
  OBVIOUS
<1>3. q \in Queue /\ all.wq \in Queues /\ r \in Counts /\ Clean(q, c, m) /\ Exact(all.wq, r, AllLine(m))
  BY <1>1, <1>2 DEF Underway, Queues
<1>4. PICK p : p = SentQ(q, c, msg, able)
  OBVIOUS
<1>5. p \in Queue /\ Clean(p, c, m)
  BY <1>3, <1>4, SentIs
<1>6. PICK v : v = [all.wq EXCEPT ![c] = p]
  OBVIOUS
<1>7. v \in Queues /\ v[c] = p /\ \A d \in Clients : d # c => v[d] = all.wq[d]
  BY <1>3, <1>5, <1>6 DEF Queues
<1>8. PICK y : y = sm_client_send_shared([q |-> q, r |-> r], msg, AllLine(m), OwnLine(m, c), c \in able)
  OBVIOUS
<1>9. x = [wq |-> [all.wq EXCEPT ![c] = y.q], refs |-> y.r]
  BY <1>1, <1>2, <1>8, LinesAre DEF SendTo
<1>10. AllLine(m) \in LineIds /\ OwnLine(m, c) \in LineIds /\ AllLine(m) # OwnLine(m, c)
  BY LinesAre
<1>11. y.q = p /\ y.r \in Counts /\ Exact(v, y.r, AllLine(m))
  <2>1. CASE c \in able /\ CanCoalesce(q, msg)
    <3>1. PICK s : s = LastSlot(q)
      OBVIOUS
    <3>2. q.count > 0 /\ q.slots[s].shared # NoLine
      BY <2>1, <3>1 DEF CanCoalesce
    <3>3. s \in Slots /\ q.slots \in [Slots -> Entry]
      BY <1>3, <3>1, <3>2, LastIs, QueueFields
    <3>4. PICK e : e = Merged(q.slots[s], msg, OwnLine(m, c))
      OBVIOUS
    <3>5. e \in Entry /\ e.shared = OwnLine(m, c)
      BY <1>10, <3>3, <3>4, EntriesAre DEF Lines
    <3>6. p = Replaced(q, s, e)
      BY <1>4, <2>1, <3>1, <3>4 DEF SentQ
    <3>7. p.slots = [q.slots EXCEPT ![s] = e]
      BY <1>3, <3>3, <3>5, <3>6, ReplacedIs
    <3>8. PICK a : a = q.slots[s].shared
      OBVIOUS
    <3>9. y = [q |-> p, r |-> Release([r EXCEPT ![OwnLine(m, c)] = 1], a)]
      BY <1>8, <2>1, <3>1, <3>4, <3>6, <3>8 DEF sm_client_send_shared, try_coalesce_output, Replaced, Merged
    <3>10. a \in LineIds
      BY <3>2, <3>3, <3>8, EntryFields DEF Lines
    <3>11. a # OwnLine(m, c)
      <4>1. Ptr(all.wq)[<<c, s>>] = a /\ <<c, s>> \in Places
        BY <1>1, <3>3, <3>8, PtrOf
      <4>2. At(Ptr(all.wq), OwnLine(m, c)) = {}
        BY OwnIsNew
      <4>3. QED
        BY <4>1, <4>2 DEF At
    <3>12. Redirects(all.wq, v, c, s, a, OwnLine(m, c))
      BY <1>1, <1>3, <1>7, <3>3, <3>5, <3>7, <3>8 DEF Redirects
    <3>13. At(Ptr(all.wq), OwnLine(m, c)) = {}
      BY OwnIsNew
    <3>14. /\ Release([r EXCEPT ![OwnLine(m, c)] = 1], a) \in Counts
           /\ Exact(v, Release([r EXCEPT ![OwnLine(m, c)] = 1], a), AllLine(m))
      BY <1>3, <1>10, <3>10, <3>11, <3>12, <3>13, ExactMerge
    <3>15. QED
      BY <3>9, <3>14
  <2>2. CASE ~(c \in able /\ CanCoalesce(q, msg)) /\ ~HasRoom(q)
    <3>1. p = Dropped(q)
      BY <1>4, <2>2 DEF SentQ
    <3>2. y = [q |-> p, r |-> r]
      BY <1>8, <2>2, <3>1 DEF sm_client_send_shared
    <3>3. p.slots = q.slots
      BY <1>3, <3>1, DroppedIs
    <3>4. Ptr(v) = Ptr(all.wq)
      <4>1. \A d \in Clients, s \in Slots : v[d].slots[s].shared = all.wq[d].slots[s].shared
        BY <1>1, <1>7, <3>3
      <4>2. QED
        BY <4>1 DEF Ptr, Places
    <3>5. QED
      BY <1>3, <3>2, <3>4 DEF Exact
  <2>3. CASE ~(c \in able /\ CanCoalesce(q, msg)) /\ HasRoom(q)
    <3>1. PICK e : e = Single(msg, AllLine(m))
      OBVIOUS
    <3>2. e \in Entry /\ e.shared = AllLine(m)
      BY <1>10, <3>1, FreeSlotIs, EntriesAre DEF Lines
    <3>3. p = Put(q, e)
      BY <1>4, <2>3, <3>1 DEF SentQ
    <3>4. PICK s \in Slots : /\ p.slots = [q.slots EXCEPT ![s] = e]
                             /\ q.slots[s].shared = NoLine
      BY <1>3, <2>3, <3>2, <3>3, PutIs
    <3>5. y = [q |-> p, r |-> Acquire(r, AllLine(m))]
      BY <1>8, <2>3, <3>1, <3>3 DEF sm_client_send_shared, Single
    <3>6. q.slots \in [Slots -> Entry]
      BY <1>3, QueueFields
    <3>7. Redirects(all.wq, v, c, s, NoLine, AllLine(m))
      BY <1>1, <1>3, <1>7, <3>2, <3>4, <3>6 DEF Redirects
    <3>8. Acquire(r, AllLine(m)) \in Counts /\ Exact(v, Acquire(r, AllLine(m)), AllLine(m))
      BY <1>3, <1>10, <3>7, ExactPut
    <3>9. QED
      BY <3>5, <3>8
  <2>4. QED
    BY <2>1, <2>2, <2>3
<1>12. x.wq = v /\ x.refs = y.r
  BY <1>6, <1>9, <1>11
<1>13. \A d \in Clients : Clean(v[d], d, m)
  BY <1>5, <1>7 DEF Underway
<1>14. QED
  BY <1>1, <1>4, <1>6, <1>7, <1>11, <1>12, <1>13 DEF Underway

\* A broadcast is a run over the clients.
LEMMA SendRuns ==
  ASSUME NEW order, NEW n \in Nat, n = Len(order), NEW msg, NEW line, NEW able, NEW S, NEW all \in S[0],
         \A k \in 1 .. n : \A x \in S[k - 1] : SendTo(x, order[k], msg, line, able) \in S[k]
  PROVE  SendToAll(all, order, msg, line, able) \in S[n]
<1> DEFINE step == [k \in 1 .. n |-> [x \in S[k - 1] |-> SendTo(x, order[k], msg, line, able)]]
           Is(f) == f = [k \in 0 .. n |-> IF k = 0 THEN all ELSE SendTo(f[k - 1], order[k], msg, line, able)]
           pass == CHOOSE f : Is(f)
<1>1. SendToAll(all, order, msg, line, able) = pass[n]
  BY DEF SendToAll
<1> HIDE DEF pass
<1>2. \A k \in 1 .. n : \A x \in S[k - 1] : step[k][x] = SendTo(x, order[k], msg, line, able)
  OBVIOUS
<1> HIDE DEF step
<1>3. \A k \in 1 .. n : \A x \in S[k - 1] : step[k][x] \in S[k]
  BY <1>2
<1>4. PICK f : /\ f = [k \in 0 .. n |-> f[k]] /\ IsRun(f, all, step, n)
               /\ \A k \in 0 .. n : f[k] \in S[k]
  BY <1>3, Runs
<1>5. \A k \in 1 .. n : f[k] = SendTo(f[k - 1], order[k], msg, line, able)
  <2>1. \A k \in 1 .. n : f[k - 1] \in S[k - 1]
    BY <1>4
  <2>2. QED
    BY <1>2, <1>4, <2>1 DEF IsRun
<1>6. Is(f)
  <2>1. \A k \in 0 .. n : f[k] = IF k = 0 THEN all ELSE SendTo(f[k - 1], order[k], msg, line, able)
    <3>1. \A k \in 0 .. n : k = 0 \/ k \in 1 .. n
      OBVIOUS
    <3>2. QED
      BY <1>4, <1>5, <3>1 DEF IsRun
  <2>2. f \in [0 .. n -> {f[k] : k \in 0 .. n}]
    BY <1>4
  <2>3. QED
    BY <2>1, <2>2
<1>7. Is(pass)
  BY <1>6 DEF pass
<1>8. pass[0] = all /\ \A k \in 1 .. n : pass[k] = SendTo(pass[k - 1], order[k], msg, line, able)
  BY <1>7
<1> DEFINE Good == {k \in 0 .. n : pass[k] \in S[k]}
<1>9. 0 \in Good
  BY <1>8
<1>10. ASSUME NEW k \in 1 .. n, k - 1 \in Good PROVE k \in Good
  BY <1>8, <1>10
<1>11. \A k \in 0 .. n : k \in Good
  <2> HIDE DEF Good
  <2>1. QED
    BY <1>9, <1>10, Induction
<1>12. QED
  BY <1>1, <1>11

\* SetToSeq names every element once.
LEMMA SetToSeqIs ==
  ASSUME NEW T, IsFiniteSet(T), NEW s, s = SetToSeq(T)
  PROVE  /\ s \in Seq(T) /\ (\A i, j \in 1 .. Len(s) : s[i] = s[j] => i = j)
         /\ \A x \in T : \E i \in 1 .. Len(s) : s[i] = x
<1>1. PICK n \in Nat : n = Cardinality(T)
  BY FS_CardinalityType
<1>2. ExistsBijection(1 .. n, T)
  BY <1>1, FS_CardinalityType
<1>3. PICK f \in Bijection(1 .. n, T) : TRUE
  BY <1>2 DEF ExistsBijection
<1>4. f \in [1 .. n -> T] /\ IsInjective(f)
  BY <1>3 DEF Bijection, Injection, IsInjective
<1>5. s \in [1 .. n -> T] /\ IsInjective(s)
  BY <1>1, <1>4 DEF SetToSeq
<1>6. s \in Seq(T) /\ Len(s) = n
  BY <1>5
<1>7. s \in Injection(1 .. n, T)
  BY <1>5 DEF Injection, IsInjective
<1>8. s \in Surjection(1 .. n, T)
  <2>1. IsFiniteSet(1 .. n) /\ Cardinality(1 .. n) = n
    BY FS_Interval
  <2>2. QED
    BY <1>1, <1>7, <2>1, FS_Injection
<1>9. QED
  BY <1>5, <1>6, <1>8 DEF Surjection, IsInjective

\* The queues when the first k clients of order have been served.
Midway(w, order, k, msg, able) ==
  [c \in Clients |-> IF \E i \in 1 .. k : order[i] = c THEN SentQ(w[c], c, msg, able) ELSE w[c]]

Distinct(order, n) == \A i, j \in 1 .. n : order[i] = order[j] => i = j
ServedTo(v, c, msg, able) == [v EXCEPT ![c] = SentQ(v[c], c, msg, able)]

LEMMA MidwayStep ==
  ASSUME NEW w \in Queues, NEW order, NEW n \in Nat, NEW k \in 1 .. n, NEW msg, NEW able,
         Distinct(order, n), NEW j, j = k - 1,
         NEW v, v = Midway(w, order, j, msg, able), NEW c \in Clients, c = order[k]
  PROVE  /\ v[c] = w[c]
         /\ ServedTo(v, c, msg, able) = Midway(w, order, k, msg, able)
<1> USE DEF Distinct, ServedTo
<1>1. ~ \E i \in 1 .. (k - 1) : order[i] = c
  <2> SUFFICES ASSUME NEW i \in 1 .. (k - 1), order[i] = c PROVE FALSE
    OBVIOUS
  <2>1. i \in 1 .. n /\ i # k
    OBVIOUS
  <2>2. QED
    BY <2>1
<1>2. v[c] = w[c]
  BY <1>1 DEF Midway
<1>3. \A d \in Clients : d # c => ((\E i \in 1 .. (k - 1) : order[i] = d) <=> (\E i \in 1 .. k : order[i] = d))
  <2>1. \A i \in 1 .. k : i = k \/ i \in 1 .. (k - 1)
    OBVIOUS
  <2>2. \A i \in 1 .. (k - 1) : i \in 1 .. k
    OBVIOUS
  <2>3. QED
    BY <2>1, <2>2
<1>4. k \in 1 .. k
  OBVIOUS
<1>5. QED
  BY <1>2, <1>3, <1>4 DEF Midway

LEMMA BroadcastIs ==
  ASSUME NEW w \in Queues, NEW r \in Counts, NEW m \in 1 .. MaxMsgs, NEW msg \in Message, m = msg.n,
         NEW able, NEW to \in SUBSET Clients, \A d \in Clients : Clean(w[d], d, m - 1),
         Exact(w, r, AllLine(m)), NEW x, x = SendToAll([wq |-> w, refs |-> r], SetToSeq(to), msg, AllLine(m), able)
  PROVE  /\ Underway(x, m)
         /\ x.wq = [c \in Clients |-> IF c \in to THEN SentQ(w[c], c, msg, able) ELSE w[c]]
<1>1. IsFiniteSet(to)
  BY QueueAssumption, FS_Subset
<1>2. PICK order : order = SetToSeq(to)
  OBVIOUS
<1>3. /\ order \in Seq(to) /\ (\A i, j \in 1 .. Len(order) : order[i] = order[j] => i = j)
      /\ \A y \in to : \E i \in 1 .. Len(order) : order[i] = y
  BY <1>1, <1>2, SetToSeqIs
<1>4. PICK n \in Nat : n = Len(order)
  BY <1>3
<1>5. \A k \in 1 .. n : order[k] \in to /\ order[k] \in Clients
  BY <1>3, <1>4
<1>6. PICK all : all = [wq |-> w, refs |-> r]
  OBVIOUS
<1>7. all.wq = w /\ all.refs = r
  BY <1>6
<1>8. \A d \in Clients : Clean(w[d], d, m)
  <2>1. m - 1 \in Nat /\ m \in Nat /\ m - 1 <= m
    OBVIOUS
  <2>2. \A d \in Clients : w[d] \in Queue
    BY DEF Queues
  <2>3. QED
    BY <2>1, <2>2, CleanLater
<1> DEFINE S == [k \in 0 .. n |-> {y \in [wq : Queues, refs : Counts] :
                                     Underway(y, m) /\ y.wq = Midway(w, order, k, msg, able)}]
<1>9. all \in S[0]
  <2>1. w = Midway(w, order, 0, msg, able)
    <3>1. ~ \E i \in 1 .. 0 : TRUE
      OBVIOUS
    <3>2. QED
      BY <3>1 DEF Midway, Queues
  <2>2. all \in [wq : Queues, refs : Counts]
    BY <1>6
  <2>3. Underway(all, m)
    BY <1>7, <1>8 DEF Underway
  <2>4. QED
    BY <1>7, <2>1, <2>2, <2>3
<1>10. ASSUME NEW k \in 1 .. n, NEW y \in S[k - 1] PROVE SendTo(y, order[k], msg, AllLine(m), able) \in S[k]
  <2>1. /\ Underway(y, m) /\ y.wq = Midway(w, order, k - 1, msg, able)
    BY <1>10
  <2> HIDE DEF S
  <2>2. PICK c \in Clients : c = order[k]
    BY <1>5
  <2>3. PICK v : v = y.wq
    OBVIOUS
  <2>a. PICK j : j = k - 1
    OBVIOUS
  <2>b. v = Midway(w, order, j, msg, able)
    BY <2>1, <2>3, <2>a
  <2>c. Distinct(order, n)
    BY <1>3, <1>4 DEF Distinct
  <2>4. v[c] = w[c] /\ ServedTo(v, c, msg, able) = Midway(w, order, k, msg, able)
    BY <2>2, <2>a, <2>b, <2>c, MidwayStep
  <2>5. Clean(y.wq[c], c, m - 1)
    BY <2>3, <2>4
  <2>6. PICK z : z = SendTo(y, c, msg, AllLine(m), able)
    OBVIOUS
  <2>7. Underway(z, m) /\ z.wq = [y.wq EXCEPT ![c] = SentQ(y.wq[c], c, msg, able)]
    BY <2>1, <2>5, <2>6, SendStep
  <2>8. z \in [wq : Queues, refs : Counts]
    <3>1. z.wq \in Queues /\ z.refs \in Counts
      BY <2>7 DEF Underway
    <3>2. z = [wq |-> z.wq, refs |-> z.refs]
      BY <2>6 DEF SendTo
    <3>3. QED
      BY <3>1, <3>2
  <2>9. z.wq = Midway(w, order, k, msg, able)
    BY <2>3, <2>4, <2>7 DEF ServedTo
  <2>10. z \in S[k]
    BY <2>7, <2>8, <2>9 DEF S
  <2>11. QED
    BY <2>2, <2>6, <2>10
<1> HIDE DEF S
<1>11. x \in S[n]
  <2>1. x = SendToAll(all, order, msg, AllLine(m), able)
    BY <1>2, <1>6
  <2>2. QED
    BY <1>4, <1>9, <1>10, <2>1, SendRuns
<1>12. Underway(x, m) /\ x.wq = Midway(w, order, n, msg, able)
  BY <1>11 DEF S
<1>13. \A c \in Clients : c \in to <=> \E i \in 1 .. n : order[i] = c
  BY <1>3, <1>4, <1>5
<1>14. QED
  BY <1>12, <1>13 DEF Midway

-----------------------------------------------------------------------------
(* A client is freed with its queue.                                       *)

\* Freeing is a run over the queue.
LEMMA ReleaseRuns ==
  ASSUME NEW q, NEW n \in Nat, n = q.count, NEW S, NEW r \in S[0],
         \A k \in 1 .. n : \A x \in S[k - 1] : Release(x, Queued(q)[k].shared) \in S[k]
  PROVE  Released(r, q) \in S[n]
<1> DEFINE step == [k \in 1 .. n |-> [x \in S[k - 1] |-> Release(x, Queued(q)[k].shared)]]
           Is(f) == f = [k \in 0 .. n |-> IF k = 0 THEN r ELSE Release(f[k - 1], Queued(q)[k].shared)]
           pass == CHOOSE f : Is(f)
<1>1. Released(r, q) = pass[n]
  BY DEF Released
<1> HIDE DEF pass
<1>2. \A k \in 1 .. n : \A x \in S[k - 1] : step[k][x] = Release(x, Queued(q)[k].shared)
  OBVIOUS
<1> HIDE DEF step
<1>3. \A k \in 1 .. n : \A x \in S[k - 1] : step[k][x] \in S[k]
  BY <1>2
<1>4. PICK f : /\ f = [k \in 0 .. n |-> f[k]] /\ IsRun(f, r, step, n)
               /\ \A k \in 0 .. n : f[k] \in S[k]
  BY <1>3, Runs
<1>5. \A k \in 1 .. n : f[k] = Release(f[k - 1], Queued(q)[k].shared)
  <2>1. \A k \in 1 .. n : f[k - 1] \in S[k - 1]
    BY <1>4
  <2>2. QED
    BY <1>2, <1>4, <2>1 DEF IsRun
<1>6. Is(f)
  <2>1. \A k \in 0 .. n : f[k] = IF k = 0 THEN r ELSE Release(f[k - 1], Queued(q)[k].shared)
    <3>1. \A k \in 0 .. n : k = 0 \/ k \in 1 .. n
      OBVIOUS
    <3>2. QED
      BY <1>4, <1>5, <3>1 DEF IsRun
  <2>2. f \in [0 .. n -> {f[k] : k \in 0 .. n}]
    BY <1>4
  <2>3. QED
    BY <2>1, <2>2
<1>7. Is(pass)
  BY <1>6 DEF pass
<1>8. pass[0] = r /\ \A k \in 1 .. n : pass[k] = Release(pass[k - 1], Queued(q)[k].shared)
  BY <1>7
<1> DEFINE Good == {k \in 0 .. n : pass[k] \in S[k]}
<1>9. 0 \in Good
  BY <1>8
<1>10. ASSUME NEW k \in 1 .. n, k - 1 \in Good PROVE k \in Good
  BY <1>8, <1>10
<1>11. \A k \in 0 .. n : k \in Good
  <2> HIDE DEF Good
  <2>1. QED
    BY <1>9, <1>10, Induction
<1>12. QED
  BY <1>1, <1>11

\* The queues when the first k lines of client c are freed.
Freed(q, k) == [q EXCEPT !.slots = [s \in Slots |-> IF Turn(q.head, s) < k THEN FreeSlot ELSE q.slots[s]]]
Leaving(w, c, k) == [w EXCEPT ![c] = Freed(w[c], k)]

LEMMA FreedIs ==
  ASSUME NEW q \in Queue, NEW k
  PROVE  /\ Freed(q, k) \in Queue
         /\ \A s \in Slots : Freed(q, k).slots[s] = IF Turn(q.head, s) < k THEN FreeSlot ELSE q.slots[s]
<1>1. q.slots \in [Slots -> Entry]
  BY QueueFields
<1>2. PICK t : t = [s \in Slots |-> IF Turn(q.head, s) < k THEN FreeSlot ELSE q.slots[s]]
  OBVIOUS
<1>3. t \in [Slots -> Entry]
  BY <1>1, <1>2, FreeSlotIs
<1>4. Freed(q, k) = [q EXCEPT !.slots = t]
  BY <1>2 DEF Freed
<1>5. Freed(q, k) \in Queue /\ Freed(q, k).slots = t
  BY <1>3, <1>4 DEF Queue
<1>6. QED
  BY <1>2, <1>5

LEMMA LeavingStep ==
  ASSUME NEW w \in Queues, NEW c \in Clients, NEW k \in Nat, NEW j \in Nat, j = k - 1,
         k <= w[c].count, NEW a, a = Queued(w[c])[k].shared
  PROVE  a \in Lines /\ \E s \in Slots : Redirects(Leaving(w, c, j), Leaving(w, c, k), c, s, a, NoLine)
<1>1. PICK q \in Queue : q = w[c]
  BY DEF Queues
<1>2. /\ q.slots \in [Slots -> Entry] /\ q.head \in Slots /\ q.count \in 0 .. WqCap
  BY QueueFields
<1>3. PICK h \in Slots : h = q.head
  BY <1>2
<1>4. WqCap \in Nat /\ j \in Slots /\ k \in 1 .. q.count
  BY <1>1, <1>2, QueueAssumption DEF Slots
<1>5. PICK s \in Slots : s = Place(h, j) /\ Turn(h, s) = j /\ (h + j) % WqCap = s
  BY <1>3, <1>4, PlaceIs
<1>6. a = q.slots[s].shared
  <2>1. SlotOf(q, k - 1) = s
    BY <1>3, <1>5 DEF SlotOf
  <2>2. Queued(q)[k] = q.slots[SlotOf(q, k - 1)]
    BY <1>4 DEF Queued
  <2>3. QED
    BY <1>1, <2>1, <2>2
<1>7. a \in Lines
  <2>1. q.slots[s] \in Entry
    BY <1>2
  <2>2. QED
    BY <1>6, <2>1, EntryFields
<1>8. \A t \in Slots : t # s => (Turn(h, t) < j <=> Turn(h, t) < k)
  <2> SUFFICES ASSUME NEW t \in Slots, t # s PROVE Turn(h, t) < j <=> Turn(h, t) < k
    OBVIOUS
  <2>1. Turn(h, t) \in Nat /\ Place(h, Turn(h, t)) = t
    BY TurnIs
  <2>2. Turn(h, t) # j
    BY <1>5, <2>1
  <2>3. QED
    BY <2>1, <2>2
<1>9. PICK x : x = Freed(q, j)
  OBVIOUS
<1>10. PICK y : y = Freed(q, k)
  OBVIOUS
<1>11. x \in Queue /\ \A t \in Slots : x.slots[t] = IF Turn(h, t) < j THEN FreeSlot ELSE q.slots[t]
  BY <1>3, <1>9, FreedIs
<1>12. y \in Queue /\ \A t \in Slots : y.slots[t] = IF Turn(h, t) < k THEN FreeSlot ELSE q.slots[t]
  BY <1>3, <1>10, FreedIs
<1>13. x.slots[s].shared = a
  BY <1>5, <1>6, <1>11
<1>14. y.slots[s].shared = NoLine
  BY <1>5, <1>12, FreeSlotIs
<1>15. \A t \in Slots : t # s => y.slots[t].shared = x.slots[t].shared
  BY <1>8, <1>11, <1>12
<1>16. Leaving(w, c, j) = [w EXCEPT ![c] = x] /\ Leaving(w, c, k) = [w EXCEPT ![c] = y]
  BY <1>1, <1>9, <1>10 DEF Leaving
<1>17. Redirects(Leaving(w, c, j), Leaving(w, c, k), c, s, a, NoLine)
  BY <1>11, <1>12, <1>13, <1>14, <1>15, <1>16 DEF Redirects, Queues
<1>18. QED
  BY <1>7, <1>17

\* When all are freed, nothing of the client is counted any more.
LEMMA ReleasedIs ==
  ASSUME NEW w \in Queues, NEW c \in Clients, NEW m \in Nat, Clean(w[c], c, m), NEW r \in Counts, NEW held,
         Exact(w, r, held), NEW p \in Queue, \A s \in Slots : p.slots[s].shared = NoLine,
         NEW v, v = [w EXCEPT ![c] = p], NEW x, x = Released(r, w[c])
  PROVE  x \in Counts /\ Exact(v, x, held)
<1>1. PICK q \in Queue : q = w[c]
  BY DEF Queues
<1>2. PICK n \in Nat : n = q.count
  BY QueueFields
<1>3. q.head \in Slots
  BY QueueFields
<1> DEFINE S == [k \in 0 .. n |-> {y \in Counts : Exact(Leaving(w, c, k), y, held)}]
<1>4. r \in S[0]
  <2>1. \A d \in Clients, s \in Slots : Leaving(w, c, 0)[d].slots[s].shared = w[d].slots[s].shared
    <3>1. \A s \in Slots : Freed(q, 0).slots[s] = q.slots[s]
      <4>1. \A s \in Slots : ~(Turn(q.head, s) < 0)
        BY <1>3, TurnIs
      <4>2. QED
        BY <4>1, FreedIs
    <3>2. QED
      BY <1>1, <3>1 DEF Leaving, Queues
  <2>2. Ptr(Leaving(w, c, 0)) = Ptr(w)
    BY <2>1 DEF Ptr, Places
  <2>3. Exact(Leaving(w, c, 0), r, held)
    BY <2>2 DEF Exact
  <2>4. QED
    BY <2>3
<1>5. ASSUME NEW k \in 1 .. n, NEW y \in S[k - 1] PROVE Release(y, Queued(q)[k].shared) \in S[k]
  <2>1. PICK j \in Nat : j = k - 1
    OBVIOUS
  <2>2. y \in Counts /\ Exact(Leaving(w, c, j), y, held)
    BY <1>5, <2>1
  <2> HIDE DEF S
  <2>3. PICK a : a = Queued(q)[k].shared
    OBVIOUS
  <2>4. k \in Nat /\ k <= w[c].count
    BY <1>1, <1>2
  <2>5. a \in Lines /\ \E s \in Slots : Redirects(Leaving(w, c, j), Leaving(w, c, k), c, s, a, NoLine)
    BY <1>1, <2>1, <2>3, <2>4, LeavingStep
  <2>6. Release(y, a) \in Counts /\ Exact(Leaving(w, c, k), Release(y, a), held)
    BY <2>2, <2>5, ExactRelease
  <2>7. QED
    BY <2>3, <2>6 DEF S
<1> HIDE DEF S
<1>6. x \in S[n]
  <2>1. Released(r, q) \in S[n]
    BY <1>2, <1>4, <1>5, ReleaseRuns
  <2>2. QED
    BY <1>1, <2>1
<1>7. x \in Counts /\ Exact(Leaving(w, c, n), x, held)
  BY <1>6 DEF S
<1>8. Ptr(Leaving(w, c, n)) = Ptr(v)
  <2>1. \A s \in Slots : Freed(q, n).slots[s].shared = NoLine
    <3> SUFFICES ASSUME NEW s \in Slots PROVE Freed(q, n).slots[s].shared = NoLine
      OBVIOUS
    <3>1. Turn(q.head, s) \in Nat
      BY <1>3, TurnIs
    <3>2. Freed(q, n).slots[s] = IF Turn(q.head, s) < n THEN FreeSlot ELSE q.slots[s]
      BY FreedIs
    <3>3. CASE Turn(q.head, s) < n
      BY <3>2, <3>3, FreeSlotIs
    <3>4. CASE Turn(q.head, s) >= n
      <4>1. q.slots[s].shared = NoLine
        BY <1>1, <1>2, <3>4 DEF Clean
      <4>2. ~(Turn(q.head, s) < n)
        BY <3>1, <3>4
      <4>3. QED
        BY <3>2, <4>1, <4>2
    <3>5. QED
      BY <3>1, <3>3, <3>4
  <2>2. \A d \in Clients, s \in Slots : Leaving(w, c, n)[d].slots[s].shared = v[d].slots[s].shared
    BY <1>1, <2>1 DEF Leaving, Queues
  <2>3. QED
    BY <2>2 DEF Ptr, Places
<1>9. QED
  BY <1>7, <1>8 DEF Exact

-----------------------------------------------------------------------------
(* The invariant.                                                          *)

\* Every count is exact; the slots not in use are free; a client that has not
\* connected has an empty queue; no client missed more than was sent.
QInv ==
  /\ live \subseteq Clients /\ unborn \subseteq Clients \ live
  /\ sent \in 0 .. MaxMsgs
  /\ wire \in [Clients -> Seq(0 .. MaxMsgs)]
  /\ wq \in Queues /\ refs \in Counts
  /\ Exact(wq, refs, NoLine)
  /\ \A c \in Clients : Clean(wq[c], c, sent) /\ wq[c].drops <= sent
  /\ \A c \in unborn : \A s \in Slots : wq[c].slots[s].shared = NoLine

LEMMA MakeQueue ==
  ASSUME NEW t \in [Slots -> Entry], NEW h \in Slots, NEW k \in 0 .. WqCap, NEW d \in Nat
  PROVE  [slots |-> t, head |-> h, count |-> k, drops |-> d] \in Queue
BY DEF Queue

Fresh(n) == [sm_client_new EXCEPT !.drops = n]

LEMMA FreshIs ==
  ASSUME NEW n \in Nat, NEW q, q = Fresh(n)
  PROVE  /\ q \in Queue /\ q.drops = n /\ q.count = 0 /\ \A s \in Slots : q.slots[s] = FreeSlot
<1>1. 0 \in Slots
  BY QueueAssumption DEF Slots
<1>2. 0 \in 0 .. WqCap
  BY QueueAssumption
<1>3. sm_client_new = [slots |-> [i \in Slots |-> FreeSlot], head |-> 0, count |-> 0, drops |-> 0]
  BY DEF sm_client_new, Slots
<1>4. [i \in Slots |-> FreeSlot] \in [Slots -> Entry]
  BY FreeSlotIs
<1>5. PICK t \in [Slots -> Entry] : t = [i \in Slots |-> FreeSlot]
  BY <1>4
<1>6. q = [slots |-> t, head |-> 0, count |-> 0, drops |-> n]
  BY <1>3, <1>5 DEF Fresh
<1>7. q.slots = t /\ q.drops = n /\ q.count = 0
  BY <1>6
<1>8. q \in Queue
  <2>1. PICK h \in Slots : h = 0
    BY <1>1
  <2>2. PICK k \in 0 .. WqCap : k = 0
    BY <1>2
  <2>3. [slots |-> t, head |-> h, count |-> k, drops |-> n] \in Queue
    BY MakeQueue
  <2>4. q = [slots |-> t, head |-> h, count |-> k, drops |-> n]
    BY <1>6, <2>1, <2>2
  <2>5. QED
    BY <2>3, <2>4
<1>9. \A s \in Slots : q.slots[s] = FreeSlot
  BY <1>5, <1>7
<1>10. QED
  BY <1>7, <1>8, <1>9

LEMMA NewIs ==
  /\ sm_client_new \in Queue /\ sm_client_new.drops = 0 /\ sm_client_new.count = 0
  /\ \A s \in Slots : sm_client_new.slots[s] = FreeSlot
<1>1. PICK t : t = [i \in 0 .. (WqCap - 1) |-> FreeSlot]
  OBVIOUS
<1>2. sm_client_new = [slots |-> t, head |-> 0, count |-> 0, drops |-> 0]
  BY <1>1 DEF sm_client_new
<1>3. sm_client_new = Fresh(0)
  BY <1>2 DEF Fresh
<1>4. QED
  BY <1>3, FreshIs

LEMMA EmptyClean ==
  ASSUME NEW q, \A s \in Slots : q.slots[s] = FreeSlot, NEW c, NEW m
  PROVE  Clean(q, c, m)
BY FreeSlotIs DEF Clean

\* Nothing is counted at first.
LEMMA QInvInit ==
  ASSUME QueueInit
  PROVE  QInv
<1>1. \A c \in Clients : wq[c] = sm_client_new
  BY DEF QueueInit
<1>2. wq \in Queues
  BY NewIs DEF QueueInit, Queues
<1>3. refs \in Counts
  BY DEF QueueInit, Counts
<1>4. \A c \in Clients, s \in Slots : wq[c].slots[s].shared = NoLine
  BY <1>1, NewIs, FreeSlotIs
<1>5. Exact(wq, refs, NoLine)
  <2> SUFFICES ASSUME NEW l \in LineIds PROVE refs[l] = Cardinality(At(Ptr(wq), l)) + One(l = NoLine)
    BY DEF Exact
  <2>1. l # NoLine
    BY NoLineIsNone
  <2>2. At(Ptr(wq), l) = {}
    BY <1>4, <2>1 DEF At, Ptr, Places
  <2>3. Cardinality(At(Ptr(wq), l)) = 0
    BY <2>2, FS_EmptySet
  <2>4. refs[l] = 0
    BY DEF QueueInit
  <2>5. One(l = NoLine) = 0
    BY <2>1 DEF One
  <2>6. QED
    BY <2>3, <2>4, <2>5
<1>6. \A c \in Clients : Clean(wq[c], c, 0) /\ wq[c].drops = 0
  BY <1>1, NewIs, EmptyClean
<1>7. sent = 0 /\ sent \in 0 .. MaxMsgs
  BY QueueAssumption DEF QueueInit
<1>8. wire \in [Clients -> Seq(0 .. MaxMsgs)] /\ live \subseteq Clients /\ unborn \subseteq Clients \ live
  BY DEF QueueInit
<1>9. QED
  BY <1>2, <1>3, <1>4, <1>5, <1>6, <1>7, <1>8 DEF QInv

\* The broker's own reference, while a broadcast goes round.
LEMMA ExactHold ==
  ASSUME NEW w, NEW r \in Counts, Exact(w, r, NoLine), NEW a \in LineIds
  PROVE  Acquire(r, a) \in Counts /\ Exact(w, Acquire(r, a), a)
<1>1. r \in [LineIds -> Nat]
  BY DEF Counts
<1>2. Acquire(r, a) = [r EXCEPT ![a] = r[a] + 1]
  BY DEF Acquire
<1>3. r[a] + 1 \in Nat
  BY <1>1
<1>4. Acquire(r, a) \in Counts
  BY <1>1, <1>2, <1>3 DEF Counts
<1>5. ASSUME NEW l \in LineIds PROVE Acquire(r, a)[l] = Cardinality(At(Ptr(w), l)) + One(l = a)
  <2>1. r[l] = Cardinality(At(Ptr(w), l)) + One(l = NoLine)
    BY DEF Exact
  <2>2. One(l = NoLine) = 0
    BY NoLineIsNone DEF One
  <2>3. Cardinality(At(Ptr(w), l)) \in Nat
    BY CardAt
  <2>4. Acquire(r, a)[l] = IF l = a THEN r[a] + 1 ELSE r[l]
    BY <1>1, <1>2
  <2>5. QED
    BY <2>1, <2>2, <2>3, <2>4 DEF One
<1>6. QED
  BY <1>4, <1>5 DEF Exact

LEMMA ExactDrop ==
  ASSUME NEW w, NEW r \in Counts, NEW a \in LineIds, Exact(w, r, a)
  PROVE  Release(r, a) \in Counts /\ Exact(w, Release(r, a), NoLine)
<1>1. r \in [LineIds -> Nat]
  BY DEF Counts
<1>2. Release(r, a) = [r EXCEPT ![a] = r[a] - 1]
  BY NoLineIsNone DEF Release
<1>3. ASSUME NEW l \in LineIds
      PROVE r[l] = Cardinality(At(Ptr(w), l)) + One(l = a) /\ Cardinality(At(Ptr(w), l)) \in Nat
  BY CardAt DEF Exact
<1>4. r[a] - 1 \in Nat
  <2>1. One(a = a) = 1
    BY DEF One
  <2>2. QED
    BY <1>3, <2>1
<1>5. Release(r, a) \in Counts
  BY <1>1, <1>2, <1>4 DEF Counts
<1>6. ASSUME NEW l \in LineIds PROVE Release(r, a)[l] = Cardinality(At(Ptr(w), l)) + One(l = NoLine)
  <2>1. One(l = NoLine) = 0
    BY NoLineIsNone DEF One
  <2>2. Release(r, a)[l] = IF l = a THEN r[a] - 1 ELSE r[l]
    BY <1>1, <1>2
  <2>3. QED
    BY <1>3, <2>1, <2>2 DEF One
<1>7. QED
  BY <1>5, <1>6 DEF Exact

LEMMA SentDrops ==
  ASSUME NEW msg \in Message, NEW c \in Clients, NEW q \in Queue, NEW able,
         NEW m \in Nat, m = msg.n, Clean(q, c, m), NEW p, p = SentQ(q, c, msg, able)
  PROVE  p.drops \in Nat /\ p.drops <= q.drops + 1
<1>0. q.drops \in Nat /\ q.count \in Nat
  BY QueueFields
<1>1. CASE c \in able /\ CanCoalesce(q, msg)
  BY <1>0, <1>1 DEF SentQ, Replaced
<1>2. CASE ~(c \in able /\ CanCoalesce(q, msg)) /\ ~HasRoom(q)
  <2>1. p = Dropped(q)
    BY <1>2 DEF SentQ
  <2>2. QED
    BY <1>0, <2>1, DroppedIs
<1>3. CASE ~(c \in able /\ CanCoalesce(q, msg)) /\ HasRoom(q)
  BY <1>0, <1>3 DEF SentQ, Put
<1>4. QED
  BY <1>1, <1>2, <1>3

\* What a step must show of the queues it leaves.
SameLines(w, v) == \A c \in Clients, s \in Slots : v[c].slots[s].shared = w[c].slots[s].shared

LEMMA ExactSame ==
  ASSUME NEW w, NEW v, SameLines(w, v), NEW r, NEW held, Exact(w, r, held)
  PROVE  Exact(v, r, held)
<1>1. Ptr(v) = Ptr(w)
  BY DEF SameLines, Ptr, Places
<1>2. QED
  BY <1>1 DEF Exact

LEMMA QInvConnect ==
  ASSUME QInv, NEW c \in Clients, Connect(c)
  PROVE  QInv'
<1>1. c \in unborn /\ wq' = [wq EXCEPT ![c] = sm_client_new] /\ refs' = refs /\ sent' = sent /\ wire' = wire
  BY DEF Connect
<1>2. wq \in Queues /\ wq' \in Queues
  BY <1>1, NewIs DEF QInv, Queues
<1>3. \A d \in Clients : wq'[d] = IF d = c THEN sm_client_new ELSE wq[d]
  BY <1>1, <1>2 DEF Queues
<1>4. SameLines(wq, wq')
  BY <1>1, <1>3, NewIs, FreeSlotIs DEF SameLines, QInv
<1>5. Exact(wq', refs', NoLine)
  BY <1>1, <1>4, ExactSame DEF QInv
<1>6. \A d \in Clients : Clean(wq'[d], d, sent) /\ wq'[d].drops <= sent
  <2>1. Clean(sm_client_new, c, sent) /\ sm_client_new.drops <= sent
    BY NewIs, EmptyClean DEF QInv
  <2>2. QED
    BY <1>3, <2>1 DEF QInv
<1>7. live' \subseteq Clients /\ unborn' \subseteq Clients \ live'
  BY DEF QInv, Connect
<1>8. \A d \in unborn' : \A s \in Slots : wq'[d].slots[s].shared = NoLine
  BY <1>3 DEF QInv, Connect
<1>9. QED
  BY <1>1, <1>2, <1>5, <1>6, <1>7, <1>8 DEF QInv

LEMMA QInvSend ==
  ASSUME QInv, NEW c \in Clients, send_to_client(c)
  PROVE  QInv'
<1>1. PICK q \in Queue : q = wq[c]
  BY DEF QInv, Queues
<1>2. PICK m \in Nat : m = sent + 1
  BY DEF QInv
<1>3. PICK msg : msg = [n |-> m, output |-> FALSE]
  OBVIOUS
<1>4. msg \in Message /\ m \in 1 .. MaxMsgs /\ sent \in Nat /\ sent <= m
  <2>1. sent \in 0 .. MaxMsgs /\ sent < MaxMsgs /\ MaxMsgs \in Nat
    BY QueueAssumption DEF QInv, send_to_client
  <2>2. m \in 1 .. MaxMsgs /\ sent \in Nat /\ sent <= m
    BY <1>2, <2>1
  <2>3. QED
    BY <1>3, <2>2 DEF Message
<1>5. PICK p : p = sm_client_send(q, msg)
  OBVIOUS
<1>6. /\ wq' = [wq EXCEPT ![c] = p] /\ sent' = m /\ refs' = refs
      /\ c \in live /\ unborn' = unborn /\ live' = live /\ wire' = wire
  BY <1>1, <1>2, <1>3, <1>5 DEF send_to_client
<1>7. \A d \in Clients : wq[d] \in Queue /\ Clean(wq[d], d, m) /\ wq[d].drops \in Nat /\ wq[d].drops <= sent
  <2>1. \A d \in Clients : wq[d] \in Queue /\ Clean(wq[d], d, sent) /\ wq[d].drops <= sent
    BY DEF QInv, Queues
  <2>2. QED
    BY <1>4, <2>1, CleanLater, QueueFields
<1>8. /\ p \in Queue /\ Clean(p, c, m) /\ p.drops <= m
      /\ \A s \in Slots : p.slots[s].shared = q.slots[s].shared
  <2>0. q.drops \in Nat /\ q.drops <= sent /\ Clean(q, c, m) /\ q.slots \in [Slots -> Entry]
    BY <1>1, <1>7, QueueFields
  <2>1. CASE ~HasRoom(q)
    <3>1. p = Dropped(q)
      BY <1>5, <2>1 DEF sm_client_send
    <3>2. p \in Queue /\ p.slots = q.slots /\ p.head = q.head /\ p.count = q.count /\ p.drops = q.drops + 1
      BY <3>1, DroppedIs
    <3>3. Clean(p, c, m)
      BY <2>0, <3>2 DEF Clean
    <3>4. QED
      BY <1>2, <1>4, <2>0, <3>2, <3>3
  <2>2. CASE HasRoom(q)
    <3>1. PICK t : t = SlotOf(q, q.count)
      OBVIOUS
    <3>2. PICK b : b = q.slots[t]
      OBVIOUS
    <3>3. PICK e : e = [b EXCEPT !.data = <<msg>>, !.offset = 0]
      OBVIOUS
    <3>4. p = Put(q, e)
      BY <1>5, <2>2, <3>1, <3>2, <3>3 DEF sm_client_send
    <3>5. t = Place(q.head, q.count) /\ t \in Slots
      <4>1. q.head \in Slots /\ q.count \in Slots
        BY <2>2, QueueFields, QueueAssumption DEF HasRoom, Slots
      <4>2. QED
        BY <3>1, <4>1, PlaceIs DEF SlotOf
    <3>6. b \in Entry
      BY <2>0, <3>2, <3>5
    <3>7. e \in Entry /\ e.shared = b.shared
      <4>1. <<msg>> \in Seq(Message)
        BY <1>4
      <4>2. QED
        BY <3>3, <3>6, <4>1 DEF Entry
    <3>8. PICK s \in Slots : /\ p \in Queue /\ s = Place(q.head, q.count)
                             /\ p.slots = [q.slots EXCEPT ![s] = e]
                             /\ p.head = q.head /\ p.count = q.count + 1 /\ p.drops = q.drops
                             /\ q.slots[s].shared = NoLine
      BY <2>0, <2>2, <3>4, <3>7, PutIs
    <3>9. e.shared = NoLine
      BY <3>2, <3>5, <3>7, <3>8
    <3>10. Clean(p, c, m)
      <4>1. Known(e.shared, c, m)
        BY <3>9 DEF Known
      <4>2. QED
        BY <2>0, <2>2, <3>8, <4>1, CleanPut
    <3>11. \A u \in Slots : p.slots[u].shared = q.slots[u].shared
      BY <2>0, <3>8, <3>9
    <3>12. QED
      BY <1>4, <2>0, <3>8, <3>10, <3>11
  <2>3. QED
    BY <2>1, <2>2
<1>9. \A d \in Clients : wq'[d] = IF d = c THEN p ELSE wq[d]
  BY <1>6 DEF QInv, Queues
<1>10. SameLines(wq, wq')
  BY <1>1, <1>8, <1>9 DEF SameLines
<1>11. Exact(wq', refs', NoLine)
  BY <1>6, <1>10, ExactSame DEF QInv
<1>12. wq' \in Queues
  BY <1>6, <1>8 DEF QInv, Queues
<1>13. \A d \in Clients : Clean(wq'[d], d, m) /\ wq'[d].drops <= m
  BY <1>4, <1>7, <1>8, <1>9
<1>14. \A d \in unborn' : \A s \in Slots : wq'[d].slots[s].shared = NoLine
  BY <1>6, <1>10 DEF QInv, SameLines
<1>15. QED
  BY <1>4, <1>6, <1>11, <1>12, <1>13, <1>14 DEF QInv

LEMMA QInvRemove ==
  ASSUME QInv, NEW c \in Clients, remove_client(c)
  PROVE  QInv'
<1>1. wq[c] \in Queue /\ Clean(wq[c], c, sent) /\ sent \in Nat /\ wq[c].drops <= sent
  BY DEF QInv, Queues
<1>2. PICK n \in Nat : n = wq[c].drops
  BY <1>1, QueueFields
<1>3. PICK p : p = Fresh(n)
  OBVIOUS
<1>4. p \in Queue /\ p.drops = n /\ \A s \in Slots : p.slots[s] = FreeSlot
  BY <1>3, FreshIs
<1>5. /\ wq' = [wq EXCEPT ![c] = p] /\ refs' = Released(refs, wq[c]) /\ sent' = sent /\ wire' = wire
      /\ live' = live \ {c} /\ unborn' = unborn
  BY <1>2, <1>3 DEF remove_client, Fresh
<1>6. refs' \in Counts /\ Exact(wq', refs', NoLine)
  <2>1. \A s \in Slots : p.slots[s].shared = NoLine
    BY <1>4, FreeSlotIs
  <2>2. wq \in Queues /\ refs \in Counts /\ Exact(wq, refs, NoLine)
    BY DEF QInv
  <2>3. PICK v : v = wq'
    OBVIOUS
  <2>4. PICK x : x = refs'
    OBVIOUS
  <2>5. x \in Counts /\ Exact(v, x, NoLine)
    BY <1>1, <1>4, <1>5, <2>1, <2>2, <2>3, <2>4, ReleasedIs
  <2>6. QED
    BY <2>3, <2>4, <2>5
<1>7. \A d \in Clients : wq'[d] = IF d = c THEN p ELSE wq[d]
  BY <1>5 DEF QInv, Queues
<1>8. wq' \in Queues
  BY <1>4, <1>5 DEF QInv, Queues
<1>9. \A d \in Clients : Clean(wq'[d], d, sent) /\ wq'[d].drops <= sent
  <2>1. Clean(p, c, sent) /\ p.drops <= sent
    BY <1>1, <1>2, <1>4, EmptyClean
  <2>2. QED
    BY <1>7, <2>1 DEF QInv
<1>10. \A d \in unborn' : \A s \in Slots : wq'[d].slots[s].shared = NoLine
  BY <1>4, <1>5, <1>7, FreeSlotIs DEF QInv
<1>11. QED
  BY <1>5, <1>6, <1>8, <1>9, <1>10 DEF QInv

LEMMA BytesIn ==
  ASSUME NEW d \in Seq(Message)
  PROVE  Bytes(d) \in Seq(0 .. MaxMsgs) /\ Len(Bytes(d)) = Len(d) + 1
<1>1. PICK k \in Nat : k = Len(d)
  OBVIOUS
<1>2. \A i \in 1 .. k : d[i] \in Message
  BY <1>1
<1>3. \A i \in 1 .. k : d[i].n \in 0 .. MaxMsgs
  BY <1>2, QueueAssumption DEF Message
<1>4. \A i \in 1 .. (k + 1) : (IF i <= k THEN d[i].n ELSE 0) \in 0 .. MaxMsgs
  BY <1>3, QueueAssumption
<1>5. Bytes(d) \in [1 .. (k + 1) -> 0 .. MaxMsgs]
  BY <1>1, <1>4 DEF Bytes
<1>6. PICK j \in Nat : j = k + 1
  OBVIOUS
<1>7. PICK b : b = Bytes(d)
  OBVIOUS
<1>8. b \in [1 .. j -> 0 .. MaxMsgs]
  BY <1>5, <1>6, <1>7
<1>9. b \in Seq(0 .. MaxMsgs) /\ Len(b) = j
  <2>1. PICK T : T = 0 .. MaxMsgs
    OBVIOUS
  <2>2. b \in [1 .. j -> T]
    BY <1>8, <2>1
  <2>3. b \in Seq(T) /\ Len(b) = j
    BY <2>2
  <2>4. QED
    BY <2>1, <2>3
<1>10. QED
  BY <1>1, <1>6, <1>7, <1>9

\* The bytes a write takes are bytes.
LEMMA CutIn ==
  ASSUME NEW e \in Entry, NEW n \in 1 .. (LineLen(e.data) - e.offset)
  PROVE  SubSeq(Bytes(e.data), e.offset + 1, e.offset + n) \in Seq(0 .. MaxMsgs)
<1>1. PICK b \in Seq(0 .. MaxMsgs) : b = Bytes(e.data) /\ Len(b) = Len(e.data) + 1
  BY EntryFields, BytesIn
<1>2. PICK o \in Nat : o = e.offset
  BY EntryFields
<1>3. Len(e.data) \in Nat
  BY EntryFields
<1>4. o + 1 \in 1 .. (Len(b) + 1) /\ o + n \in o .. Len(b)
  BY <1>1, <1>2, <1>3 DEF LineLen
<1>5. PICK x \in Int : x = o + 1
  OBVIOUS
<1>6. PICK y \in Int : y = o + n
  BY <1>4
<1>7. \A i \in x .. y : i \in 1 .. Len(b)
  BY <1>1, <1>4, <1>5, <1>6
<1>8. \A i \in x .. y : b[i] \in 0 .. MaxMsgs
  <2>1. PICK T : T = 0 .. MaxMsgs
    OBVIOUS
  <2>2. b \in Seq(T)
    BY <1>1, <2>1
  <2>3. \A i \in 1 .. Len(b) : b[i] \in T
    BY <2>2
  <2>4. QED
    BY <1>7, <2>1, <2>3
<1>9. SubSeq(b, x, y) \in Seq(0 .. MaxMsgs)
  BY <1>8, SubSeqProperties
<1>10. QED
  BY <1>1, <1>2, <1>5, <1>6, <1>9

LEMMA QInvFlush ==
  ASSUME QInv, NEW c \in Clients, NEW n, sm_client_flush(c, n)
  PROVE  QInv'
<1>1. PICK q \in Queue : q = wq[c]
  BY DEF QInv, Queues
<1>2. PICK e : e = q.slots[q.head]
  OBVIOUS
<1>3. PICK p : p = Written(q, n)
  OBVIOUS
<1>4. /\ q.slots \in [Slots -> Entry] /\ q.head \in Slots /\ q.count \in Nat /\ e \in Entry
      /\ e.data \in Seq(Message) /\ e.offset \in Nat /\ e.shared \in Lines
  BY <1>2, QueueFields, EntryFields
<1>5. n \in 1 .. (LineLen(e.data) - e.offset) /\ n \in Nat
  <2>1. PICK x \in Int : x = LineLen(e.data) - e.offset
    <3>1. Len(e.data) \in Nat
      BY <1>4
    <3>2. QED
      BY <1>4, <3>1 DEF LineLen
  <2>2. n \in 1 .. (LineLen(e.data) - e.offset)
    BY <1>1, <1>2, Zenon DEF sm_client_flush
  <2>3. n \in 1 .. x
    BY <2>1, <2>2
  <2>4. QED
    BY <2>2, <2>3
<1>6. /\ c \in live /\ q.count > 0 /\ wq' = [wq EXCEPT ![c] = p]
      /\ wire' = [wire EXCEPT ![c] = wire[c] \o SubSeq(Bytes(e.data), e.offset + 1, e.offset + n)]
      /\ refs' = IF wq'[c].count < wq[c].count THEN Release(refs, e.shared) ELSE refs
      /\ unborn' = unborn /\ live' = live /\ sent' = sent
  BY <1>1, <1>2, <1>3 DEF sm_client_flush
<1>7. \A d \in Clients : wq'[d] = IF d = c THEN p ELSE wq[d]
  BY <1>6 DEF QInv, Queues
<1>8. wire' \in [Clients -> Seq(0 .. MaxMsgs)]
  <2>1. wire \in [Clients -> Seq(0 .. MaxMsgs)]
    BY DEF QInv
  <2>2. PICK u \in Seq(0 .. MaxMsgs) : u = SubSeq(Bytes(e.data), e.offset + 1, e.offset + n)
    BY <1>4, <1>5, CutIn
  <2>3. wire[c] \o u \in Seq(0 .. MaxMsgs)
    BY <2>1, ConcatProperties
  <2>4. QED
    BY <1>6, <2>1, <2>2, <2>3
<1>9. Clean(q, c, sent) /\ q.drops <= sent /\ sent \in Nat /\ wq \in Queues /\ refs \in Counts /\ Exact(wq, refs, NoLine)
  BY <1>1 DEF QInv
<1>10. p \in Queue /\ Clean(p, c, sent) /\ p.drops = q.drops /\ refs' \in Counts /\ Exact(wq', refs', NoLine)
  <2>1. CASE e.offset + n < LineLen(e.data)
    <3>1. PICK f : f = [e EXCEPT !.offset = e.offset + n]
      OBVIOUS
    <3>2. f \in Entry /\ f.shared = e.shared
      <4>1. e.offset + n \in Nat
        BY <1>4, <1>5
      <4>2. QED
        BY <1>4, <3>1, <4>1 DEF Entry
    <3>3. p = Replaced(q, q.head, f)
      BY <1>2, <1>3, <2>1, <3>1 DEF Written, Replaced
    <3>4. /\ p \in Queue /\ p.slots = [q.slots EXCEPT ![q.head] = f]
          /\ p.head = q.head /\ p.count = q.count /\ p.drops = q.drops
      BY <1>4, <3>2, <3>3, ReplacedIs
    <3>5. \A s \in Slots : p.slots[s].shared = q.slots[s].shared
      BY <1>2, <1>4, <3>2, <3>4
    <3>6. Clean(p, c, sent)
      BY <1>9, <3>4, <3>5 DEF Clean
    <3>7. SameLines(wq, wq')
      BY <1>1, <1>7, <3>5 DEF SameLines
    <3>8. refs' = refs
      BY <1>1, <1>4, <1>6, <1>7, <3>4
    <3>9. QED
      BY <1>9, <3>4, <3>6, <3>7, <3>8, ExactSame
  <2>2. CASE ~(e.offset + n < LineLen(e.data))
    <3>1. p = Shifted(q)
      BY <1>2, <1>3, <2>2 DEF Written, Shifted
    <3>2. /\ p \in Queue /\ p.slots = [q.slots EXCEPT ![q.head] = FreeSlot]
          /\ p.count = q.count - 1 /\ p.drops = q.drops
      BY <1>6, <3>1, ShiftedIs
    <3>3. Clean(p, c, sent)
      BY <1>6, <1>9, <3>1, CleanShift
    <3>4. refs' = Release(refs, e.shared)
      BY <1>1, <1>4, <1>6, <1>7, <3>2
    <3>5. PICK a \in Lines : a = e.shared
      BY <1>4
    <3>6. PICK v : v = wq'
      OBVIOUS
    <3>7. v \in Queues
      BY <1>6, <1>9, <3>2, <3>6 DEF Queues
    <3>8. PICK s \in Slots : s = q.head
      BY <1>4
    <3>9. Redirects(wq, v, c, s, a, NoLine)
      <4>1. \A d \in Clients : d # c => v[d] = wq[d]
        BY <1>7, <3>6
      <4>2. v[c] = p
        BY <1>7, <3>6
      <4>3. wq[c].slots[s].shared = a
        BY <1>1, <1>2, <3>5, <3>8
      <4>4. v[c].slots[s].shared = NoLine
        BY <1>4, <3>2, <3>8, <4>2, FreeSlotIs
      <4>5. \A t \in Slots : t # s => v[c].slots[t].shared = wq[c].slots[t].shared
        BY <1>1, <1>4, <3>2, <3>8, <4>2
      <4>6. QED
        BY <1>9, <3>7, <4>1, <4>3, <4>4, <4>5 DEF Redirects
    <3>10. Release(refs, a) \in Counts /\ Exact(v, Release(refs, a), NoLine)
      BY <1>9, <3>9, ExactRelease
    <3>11. QED
      BY <3>2, <3>3, <3>4, <3>5, <3>6, <3>10
  <2>3. QED
    BY <2>1, <2>2
<1>11. wq' \in Queues
  BY <1>6, <1>9, <1>10 DEF Queues
<1>12. \A d \in Clients : Clean(wq'[d], d, sent) /\ wq'[d].drops <= sent
  BY <1>7, <1>9, <1>10 DEF QInv
<1>13. \A d \in unborn' : \A s \in Slots : wq'[d].slots[s].shared = NoLine
  BY <1>6, <1>7 DEF QInv
<1>14. QED
  BY <1>6, <1>8, <1>10, <1>11, <1>12, <1>13 DEF QInv

LEMMA QInvBroadcast ==
  ASSUME QInv, NEW output \in BOOLEAN, NEW exclude, NEW able, broadcast(output, exclude, able)
  PROVE  QInv'
<1>1. PICK m \in Nat : m = sent + 1
  BY DEF QInv
<1>2. PICK msg : msg = [n |-> m, output |-> output]
  OBVIOUS
<1>3. sent < MaxMsgs /\ sent \in 0 .. MaxMsgs /\ MaxMsgs \in Nat
  BY QueueAssumption DEF QInv, broadcast
<1>4. m \in 1 .. MaxMsgs /\ sent \in Nat /\ sent = m - 1 /\ sent <= m
  BY <1>1, <1>3
<1>5. msg \in Message /\ msg.n = m
  BY <1>2, <1>4 DEF Message
<1>6. PICK line : line = AllLine(m)
  OBVIOUS
<1>7. line \in LineIds
  BY <1>4, <1>6 DEF AllLine, LineIds
<1>8. PICK to : to = live \ {exclude}
  OBVIOUS
<1>9. to \in SUBSET Clients
  BY <1>8 DEF QInv
<1>10. PICK r : r = Acquire(refs, line)
  OBVIOUS
<1>11. wq \in Queues /\ refs \in Counts /\ Exact(wq, refs, NoLine)
  BY DEF QInv
<1>12. r \in Counts /\ Exact(wq, r, line)
  BY <1>7, <1>10, <1>11, ExactHold
<1>13. PICK x : x = SendToAll([wq |-> wq, refs |-> r], SetToSeq(to), msg, line, able)
  OBVIOUS
<1>14. /\ sent' = m /\ wq' = x.wq /\ refs' = Release(x.refs, line)
       /\ unborn' = unborn /\ live' = live /\ wire' = wire
  BY <1>1, <1>2, <1>6, <1>8, <1>10, <1>13 DEF broadcast, AllLine
<1>15. \A d \in Clients : Clean(wq[d], d, m - 1) /\ wq[d] \in Queue /\ wq[d].drops <= sent
  BY <1>4 DEF QInv, Queues
<1>16. /\ Underway(x, m)
       /\ x.wq = [c \in Clients |-> IF c \in to THEN SentQ(wq[c], c, msg, able) ELSE wq[c]]
  BY <1>4, <1>5, <1>6, <1>9, <1>11, <1>12, <1>13, <1>15, BroadcastIs
<1>17. /\ x.wq \in Queues /\ x.refs \in Counts /\ Exact(x.wq, x.refs, line)
       /\ \A d \in Clients : Clean(x.wq[d], d, m)
  BY <1>6, <1>16 DEF Underway
<1>18. refs' \in Counts /\ Exact(wq', refs', NoLine)
  <2>1. PICK v : v = x.wq
    OBVIOUS
  <2>2. PICK u \in Counts : u = x.refs
    BY <1>17
  <2>3. Release(u, line) \in Counts /\ Exact(v, Release(u, line), NoLine)
    BY <1>7, <1>17, <2>1, <2>2, ExactDrop
  <2>4. QED
    BY <1>14, <2>1, <2>2, <2>3
<1>19. \A d \in Clients : wq'[d].drops <= m
  <2> SUFFICES ASSUME NEW d \in Clients PROVE wq'[d].drops <= m
    OBVIOUS
  <2>1. PICK q \in Queue : q = wq[d]
    BY <1>15
  <2>2. q.drops \in Nat /\ q.drops <= sent /\ Clean(q, d, m)
    <3>1. Clean(q, d, sent) /\ q.drops <= sent
      BY <2>1 DEF QInv
    <3>2. QED
      BY <1>4, <3>1, CleanLater, QueueFields
  <2>3. PICK p : p = SentQ(q, d, msg, able)
    OBVIOUS
  <2>4. p.drops \in Nat /\ p.drops <= q.drops + 1
    BY <1>5, <2>2, <2>3, SentDrops
  <2>5. wq'[d] = IF d \in to THEN p ELSE q
    BY <1>14, <1>16, <2>1, <2>3
  <2>6. QED
    BY <1>4, <2>2, <2>4, <2>5
<1>20. \A d \in unborn' : \A s \in Slots : wq'[d].slots[s].shared = NoLine
  <2>1. \A d \in unborn' : d \in Clients /\ d \notin to /\ d \in unborn
    BY <1>8, <1>14 DEF QInv
  <2>2. \A d \in unborn' : wq'[d] = wq[d]
    BY <1>14, <1>16, <2>1
  <2>3. QED
    BY <2>1, <2>2 DEF QInv
<1>21. QED
  BY <1>4, <1>14, <1>17, <1>18, <1>19, <1>20 DEF QInv

LEMMA QInvStutter ==
  ASSUME QInv, UNCHANGED queueVars
  PROVE  QInv'
BY DEF QInv, queueVars

LEMMA QInvNext ==
  ASSUME QInv, [QueueNext]_queueVars
  PROVE  QInv'
<1>1. CASE UNCHANGED queueVars
  BY <1>1, QInvStutter
<1>2. ASSUME NEW exclude \in live \cup {NoClient}, broadcast(FALSE, exclude, {}) PROVE QInv'
  BY <1>2, QInvBroadcast
<1>3. ASSUME NEW exclude \in live \cup {NoClient}, NEW able \in SUBSET live, broadcast(TRUE, exclude, able) PROVE QInv'
  BY <1>3, QInvBroadcast
<1>4. ASSUME NEW c \in Clients, Connect(c) PROVE QInv'
  BY <1>4, QInvConnect
<1>5. ASSUME NEW c \in Clients, send_to_client(c) PROVE QInv'
  BY <1>5, QInvSend
<1>6. ASSUME NEW c \in Clients, Flush(c) PROVE QInv'
  BY <1>6, QInvFlush DEF Flush
<1>7. ASSUME NEW c \in Clients, remove_client(c) PROVE QInv'
  BY <1>7, QInvRemove
<1>8. QED
  BY <1>1, <1>2, <1>3, <1>4, <1>5, <1>6, <1>7 DEF QueueNext

\* QInv holds in every reachable state.
THEOREM QueueInvariant == QueueSpec => []QInv
<1>1. QueueInit => QInv
  BY QInvInit
<1>2. QInv /\ [QueueNext]_queueVars => QInv'
  BY QInvNext
<1>3. QED
  BY <1>1, <1>2, PTL DEF QueueSpec

-----------------------------------------------------------------------------
(* What the counts mean: the entries of the queues, one by one.            *)

Pointers == UNION {{<<c, i>> : i \in 1 .. wq[c].count} : c \in Clients}
LineAt(p) == Queued(wq[p[1]])[p[2]].shared
PlaceOf(p) == <<p[1], Place(wq[p[1]].head, p[2] - 1)>>

LEMMA PointerIs ==
  ASSUME QInv, NEW p \in Pointers
  PROVE  /\ p = <<p[1], p[2]>> /\ p[1] \in Clients /\ p[2] \in Nat /\ p[2] - 1 \in Slots
         /\ wq[p[1]].head \in Slots /\ PlaceOf(p) \in Places
         /\ Turn(wq[p[1]].head, PlaceOf(p)[2]) = p[2] - 1
         /\ Ptr(wq)[PlaceOf(p)] = LineAt(p)
<1>1. PICK c \in Clients : p \in {<<c, i>> : i \in 1 .. wq[c].count}
  BY DEF Pointers
<1>2. PICK i \in 1 .. wq[c].count : p = <<c, i>>
  BY <1>1
<1>3. p[1] = c /\ p[2] = i
  BY <1>2
<1>4. PICK q \in Queue : q = wq[c]
  BY DEF QInv, Queues
<1>5. PICK h \in Slots : h = q.head
  BY QueueFields
<1>6. q.count \in 0 .. WqCap /\ WqCap \in Nat
  BY QueueFields, QueueAssumption
<1>7. i \in Nat /\ i \in 1 .. q.count
  BY <1>4, <1>6
<1>8. PICK j : j = i - 1
  OBVIOUS
<1>9. j \in Slots
  BY <1>6, <1>7, <1>8 DEF Slots
<1>10. PICK s \in Slots : s = Place(h, j) /\ (h + j) % WqCap = s /\ Turn(h, s) = j
  BY <1>9, PlaceIs
<1>11. PlaceOf(p) = <<c, s>>
  BY <1>3, <1>4, <1>5, <1>8, <1>10 DEF PlaceOf
<1>12. <<c, s>> \in Places /\ Ptr(wq)[<<c, s>>] = q.slots[s].shared
  BY <1>4, PtrOf
<1>13. LineAt(p) = q.slots[s].shared
  <2>1. SlotOf(q, i - 1) = s
    BY <1>5, <1>8, <1>10 DEF SlotOf
  <2>2. Queued(q)[i] = q.slots[SlotOf(q, i - 1)]
    BY <1>7 DEF Queued
  <2>3. QED
    BY <1>3, <1>4, <2>1, <2>2 DEF LineAt
<1>14. QED
  BY <1>2, <1>3, <1>4, <1>5, <1>7, <1>8, <1>9, <1>10, <1>11, <1>12, <1>13

\* The entries with line l are as many as the slots with it.
LEMMA PointersCounted ==
  ASSUME QInv, NEW l \in LineIds
  PROVE  Cardinality({p \in Pointers : LineAt(p) = l}) = Cardinality(At(Ptr(wq), l))
<1> DEFINE A == {p \in Pointers : LineAt(p) = l}
           B == At(Ptr(wq), l)
           f == [p \in A |-> PlaceOf(p)]
<1>1. \A p \in A : f[p] = PlaceOf(p)
  OBVIOUS
<1>2. \A p \in A : p \in Pointers /\ LineAt(p) = l
  OBVIOUS
<1>3. f \in [A -> B]
  <2>1. \A p \in A : PlaceOf(p) \in B
    BY <1>2, PointerIs DEF At
  <2>2. QED
    BY <2>1
<1>4. ASSUME NEW x \in A, NEW y \in A, f[x] = f[y] PROVE x = y
  <2>1. PlaceOf(x) = PlaceOf(y)
    BY <1>1, <1>4
  <2>2. x[1] = y[1] /\ PlaceOf(x)[2] = PlaceOf(y)[2]
    BY <2>1 DEF PlaceOf
  <2> HIDE DEF A, B, f
  <2>3. /\ x = <<x[1], x[2]>> /\ x[2] \in Nat /\ Turn(wq[x[1]].head, PlaceOf(x)[2]) = x[2] - 1
    BY <1>2, PointerIs
  <2>4. /\ y = <<y[1], y[2]>> /\ y[2] \in Nat /\ Turn(wq[y[1]].head, PlaceOf(y)[2]) = y[2] - 1
    BY <1>2, PointerIs
  <2>5. x[2] - 1 = y[2] - 1
    BY <2>2, <2>3, <2>4
  <2>6. x[2] = y[2]
    BY <2>3, <2>4, <2>5
  <2>7. QED
    BY <2>2, <2>3, <2>4, <2>6
<1>5. ASSUME NEW b \in B PROVE \E p \in A : f[p] = b
  <2>1. PICK c \in Clients, s \in Slots : b = <<c, s>>
    BY DEF At, Places
  <2>2. PICK q \in Queue : q = wq[c]
    BY DEF QInv, Queues
  <2>3. q.slots[s].shared = l
    BY <2>1, <2>2, PtrOf DEF At
  <2>4. PICK h \in Slots : h = q.head
    BY QueueFields
  <2>5. PICK j \in Slots : j = Turn(h, s) /\ j \in Nat /\ Place(h, j) = s
    BY TurnIs
  <2>6. q.count \in Nat
    BY QueueFields
  <2>7. j < q.count
    <3> SUFFICES ASSUME j >= q.count PROVE FALSE
      BY <2>5, <2>6
    <3>1. q.slots[s].shared = NoLine
      BY <2>2, <2>4, <2>5 DEF QInv, Clean
    <3>2. QED
      BY <2>3, <3>1, NoLineIsNone
  <2>8. PICK i \in Nat : i = j + 1
    BY <2>5
  <2>9. i \in 1 .. q.count /\ i - 1 = j
    BY <2>5, <2>6, <2>7, <2>8
  <2>10. PICK p : p = <<c, i>>
    OBVIOUS
  <2>11. p[1] = c /\ p[2] = i
    BY <2>10
  <2>12. p \in Pointers
    BY <2>2, <2>9, <2>10 DEF Pointers
  <2>13. PlaceOf(p) = b
    BY <2>1, <2>2, <2>4, <2>5, <2>9, <2>11 DEF PlaceOf
  <2>14. Ptr(wq)[b] = LineAt(p)
    BY <2>12, <2>13, PointerIs
  <2>15. LineAt(p) = l
    BY <2>14 DEF At
  <2>16. p \in A
    BY <2>12, <2>15
  <2>17. QED
    BY <1>1, <2>13, <2>16
<1>6. IsFiniteSet(B)
  BY AtFinite
<1> HIDE DEF A, B, f
<1>7. f \in Bijection(A, B)
  BY <1>3, <1>4, <1>5 DEF Bijection, Injection, Surjection, IsInjective
<1>8. Cardinality(A) = Cardinality(B)
  <2>1. ExistsBijection(A, B)
    BY <1>7 DEF ExistsBijection
  <2>2. ExistsBijection(B, A)
    BY <2>1, Fun_ExistsBijSymmetric
  <2>3. QED
    BY <1>6, <2>2, FS_Bijection
<1>9. QED
  BY <1>8 DEF A, B

\* The reference count of every line is the number of queue entries that
\* point to it, in every reachable state and for any number of clients, any
\* size of the queues and any bound on merging: however broadcasts, merges,
\* partial writes and disconnects alternate, a line is freed with its last
\* entry and not before.
THEOREM RefsSafety == QueueSpec => []RefsExact
<1>1. QInv => RefsExact
  <2> SUFFICES ASSUME QInv, NEW l \in LineIds
               PROVE  refs[l] = Cardinality({p \in Pointers : LineAt(p) = l})
    BY DEF RefsExact, Pointers, LineAt
  <2>1. refs[l] = Cardinality(At(Ptr(wq), l)) + One(l = NoLine)
    BY DEF QInv, Exact
  <2>2. One(l = NoLine) = 0
    BY NoLineIsNone DEF One
  <2>3. Cardinality(At(Ptr(wq), l)) \in Nat
    BY CardAt
  <2>4. QED
    BY <2>1, <2>2, <2>3, PointersCounted
<1>2. QED
  BY <1>1, QueueInvariant, PTL

-----------------------------------------------------------------------------
(* Messages in order.                                                      *)

Nums == 1 .. MaxMsgs

\* A line of messages, as their numbers.
LEMMA NumbersIs ==
  ASSUME NEW d \in Seq(Message)
  PROVE  /\ Numbers(d) \in Seq(Nums) /\ Len(Numbers(d)) = Len(d)
         /\ \A k \in 1 .. Len(d) : Numbers(d)[k] = d[k].n
<1>1. PICK m \in Nat : m = Len(d)
  OBVIOUS
<1>2. \A k \in 1 .. m : d[k] \in Message
  BY <1>1
<1>3. \A k \in 1 .. m : d[k].n \in Nums
  BY <1>2 DEF Message, Nums
<1>4. Numbers(d) = [k \in 1 .. m |-> d[k].n]
  BY <1>1 DEF Numbers
<1>5. Numbers(d) \in [1 .. m -> Nums]
  BY <1>3, <1>4
<1>6. Numbers(d) \in Seq(Nums) /\ Len(Numbers(d)) = m
  BY <1>5
<1>7. QED
  BY <1>1, <1>4, <1>6

LEMMA EmptyNums == <<>> \in Seq(Nums)
OBVIOUS

\* f[k] is what the first k lines say.
Adds(f, row, n) ==
  f[0] = <<>> /\ \A k \in 1 .. n : f[k] = f[k - 1] \o Numbers(row[k].data)

\* A row of lines.
IsRow(row, n) == n \in Nat /\ \A i \in 1 .. n : row[i].data \in Seq(Message)

\* Joined adds line after line.
LEMMA JoinedIs ==
  ASSUME NEW row, NEW n, IsRow(row, n)
  PROVE  \E f : /\ Adds(f, row, n) /\ Joined(row, n) = f[n]
                /\ \A k \in 0 .. n : f[k] \in Seq(Nums)
<1> DEFINE S == [k \in 0 .. n |-> Seq(Nums)]
           step == [k \in 1 .. n |-> [x \in Seq(Nums) |-> x \o Numbers(row[k].data)]]
           Is(f) == f = [k \in 0 .. n |-> IF k = 0 THEN <<>> ELSE f[k - 1] \o Numbers(row[k].data)]
           pass == CHOOSE f : Is(f)
<1>0. n \in Nat
  BY DEF IsRow
<1>1. Joined(row, n) = pass[n]
  BY DEF Joined
<1> HIDE DEF pass
<1>2. \A k \in 0 .. n : S[k] = Seq(Nums)
  OBVIOUS
<1> HIDE DEF S
<1>3. \A k \in 1 .. n : \A x \in Seq(Nums) :
        step[k][x] = x \o Numbers(row[k].data) /\ step[k][x] \in Seq(Nums)
  <2>1. ASSUME NEW k \in 1 .. n, NEW x \in Seq(Nums)
        PROVE  step[k][x] = x \o Numbers(row[k].data) /\ step[k][x] \in Seq(Nums)
    <3>1. row[k].data \in Seq(Message)
      BY DEF IsRow
    <3>2. Numbers(row[k].data) \in Seq(Nums)
      BY <3>1, NumbersIs
    <3>3. step[k][x] = x \o Numbers(row[k].data)
      OBVIOUS
    <3>4. QED
      BY <3>2, <3>3
  <2>2. QED
    BY <2>1
<1> HIDE DEF step
<1>4. \A k \in 1 .. n : k - 1 \in 0 .. n /\ k \in 0 .. n
  BY <1>0
<1>5. \A k \in 1 .. n : \A x \in S[k - 1] : step[k][x] \in S[k]
  BY <1>2, <1>3, <1>4
<1>6. <<>> \in S[0]
  <2>1. 0 \in 0 .. n
    BY <1>0
  <2>2. QED
    BY <1>2, <2>1, EmptyNums
<1>7. PICK f : /\ f = [k \in 0 .. n |-> f[k]] /\ IsRun(f, <<>>, step, n)
               /\ \A k \in 0 .. n : f[k] \in S[k]
  BY <1>0, <1>5, <1>6, Runs
<1>8. \A k \in 0 .. n : f[k] \in Seq(Nums)
  BY <1>2, <1>7
<1>9. \A k \in 1 .. n : f[k] = f[k - 1] \o Numbers(row[k].data)
  BY <1>3, <1>4, <1>7, <1>8 DEF IsRun
<1>10. Is(f)
  <2>1. \A k \in 0 .. n : f[k] = IF k = 0 THEN <<>> ELSE f[k - 1] \o Numbers(row[k].data)
    <3>1. \A k \in 0 .. n : k = 0 \/ k \in 1 .. n
      BY <1>0
    <3>2. QED
      BY <1>7, <1>9, <3>1 DEF IsRun
  <2>2. f \in [0 .. n -> {f[k] : k \in 0 .. n}]
    BY <1>7
  <2>3. QED
    BY <2>1, <2>2
<1>11. Is(pass)
  BY <1>10 DEF pass
<1>12. pass[0] = <<>> /\ \A k \in 1 .. n : pass[k] = pass[k - 1] \o Numbers(row[k].data)
  BY <1>0, <1>11
<1> DEFINE Good == {k \in 0 .. n : pass[k] \in Seq(Nums)}
<1>13. 0 \in Good
  <2>1. 0 \in 0 .. n
    BY <1>0
  <2>2. QED
    BY <1>12, <2>1, EmptyNums
<1>14. ASSUME NEW k \in 1 .. n, k - 1 \in Good PROVE k \in Good
  <2>1. row[k].data \in Seq(Message)
    BY DEF IsRow
  <2>2. Numbers(row[k].data) \in Seq(Nums)
    BY <2>1, NumbersIs
  <2>3. PICK x : x = pass[k - 1]
    OBVIOUS
  <2>4. x \in Seq(Nums)
    BY <1>14, <2>3
  <2>5. pass[k] = x \o Numbers(row[k].data)
    BY <1>12, <2>3
  <2>6. PICK y \in Seq(Nums) : y = Numbers(row[k].data)
    BY <2>2
  <2>7. pass[k] \in Seq(Nums)
    BY <2>4, <2>5, <2>6
  <2>8. QED
    BY <1>4, <2>7
<1>15. \A k \in 0 .. n : k \in Good
  <2> HIDE DEF Good
  <2>1. QED
    BY <1>0, <1>13, <1>14, Induction
<1>16. QED
  BY <1>1, <1>12, <1>15 DEF Adds

\* Two accounts of the same lines agree.
LEMMA AddsAgree ==
  ASSUME NEW n \in Nat, NEW row, NEW f, Adds(f, row, n), NEW other, NEW g, NEW m \in Nat, Adds(g, other, m),
         m <= n, \A i \in 1 .. m : other[i].data = row[i].data
  PROVE  \A k \in 0 .. m : g[k] = f[k]
<1> DEFINE Good == {k \in 0 .. m : g[k] = f[k]}
<1>1. 0 \in Good
  BY DEF Adds
<1>2. ASSUME NEW k \in 1 .. m, k - 1 \in Good PROVE k \in Good
  <2>1. k \in 1 .. n /\ k \in 0 .. m
    OBVIOUS
  <2>2. g[k] = g[k - 1] \o Numbers(other[k].data)
    BY Zenon DEF Adds
  <2>3. f[k] = f[k - 1] \o Numbers(row[k].data)
    BY <2>1, Zenon DEF Adds
  <2>4. g[k - 1] = f[k - 1] /\ other[k].data = row[k].data
    BY <1>2
  <2>5. g[k] = f[k]
    BY <2>2, <2>3, <2>4
  <2>6. QED
    BY <2>1, <2>5
<1>3. QED
  <2> HIDE DEF Good
  <2>1. \A k \in 0 .. m : k \in Good
    BY <1>1, <1>2, Induction
  <2>2. QED
    BY <2>1 DEF Good

\* What a row says is a sequence of messages.
LEMMA JoinedSeq ==
  ASSUME NEW row, NEW n, IsRow(row, n)
  PROVE  Joined(row, n) \in Seq(Nums)
BY JoinedIs DEF IsRow

\* A row of no lines says nothing.
LEMMA JoinedNone ==
  ASSUME NEW row
  PROVE  Joined(row, 0) = <<>>
<1>1. IsRow(row, 0)
  BY DEF IsRow
<1>2. QED
  BY <1>1, JoinedIs DEF Adds

\* A line more.
LEMMA JoinedMore ==
  ASSUME NEW row, NEW n \in Nat, NEW other, IsRow(other, n + 1), \A i \in 1 .. n : other[i] = row[i]
  PROVE  Joined(other, n + 1) = Joined(row, n) \o Numbers(other[n + 1].data)
<1>1. IsRow(row, n)
  BY DEF IsRow
<1>2. PICK f : Adds(f, row, n) /\ Joined(row, n) = f[n]
  BY <1>1, JoinedIs
<1>3. PICK g : Adds(g, other, n + 1) /\ Joined(other, n + 1) = g[n + 1]
  BY JoinedIs
<1>4. g[n + 1] = g[n] \o Numbers(other[n + 1].data)
  <2>1. PICK k : k = n + 1
    OBVIOUS
  <2>2. k \in 1 .. (n + 1) /\ k - 1 = n
    BY <2>1
  <2>3. g[k] = g[k - 1] \o Numbers(other[k].data)
    BY <1>3, <2>2, Zenon DEF Adds
  <2>4. QED
    BY <2>1, <2>2, <2>3
<1>5. Adds(g, other, n)
  <2>1. \A k \in 1 .. n : k \in 1 .. (n + 1)
    OBVIOUS
  <2>2. QED
    BY <1>3, <2>1, Zenon DEF Adds
<1>6. g[n] = f[n]
  BY <1>2, <1>5, AddsAgree
<1>7. QED
  BY <1>2, <1>3, <1>4, <1>6

\* A message is added to a line.
LEMMA NumbersAppend ==
  ASSUME NEW d \in Seq(Message), NEW msg \in Message
  PROVE  Numbers(Append(d, msg)) = Append(Numbers(d), msg.n)
<1>1. PICK e : e = Append(d, msg)
  OBVIOUS
<1>2. e \in Seq(Message) /\ Len(e) = Len(d) + 1 /\ e[Len(d) + 1] = msg
      /\ \A k \in 1 .. Len(d) : e[k] = d[k]
  BY <1>1
<1>3. PICK x \in Seq(Nums) : x = Numbers(d) /\ Len(x) = Len(d) /\ \A k \in 1 .. Len(d) : x[k] = d[k].n
  BY NumbersIs
<1>4. PICK y \in Seq(Nums) : y = Numbers(e) /\ Len(y) = Len(e) /\ \A k \in 1 .. Len(e) : y[k] = e[k].n
  BY <1>2, NumbersIs
<1>5. msg.n \in Nums
  BY DEF Message, Nums
<1>6. PICK z : z = Append(x, msg.n)
  OBVIOUS
<1>7. z \in Seq(Nums) /\ Len(z) = Len(x) + 1 /\ z[Len(x) + 1] = msg.n /\ \A k \in 1 .. Len(x) : z[k] = x[k]
  BY <1>5, <1>6
<1>8. Len(y) = Len(z) /\ \A k \in 1 .. Len(y) : y[k] = z[k]
  BY <1>2, <1>3, <1>4, <1>7
<1>9. y = z
  BY <1>7, <1>8, SeqEqual
<1>10. QED
  BY <1>1, <1>3, <1>4, <1>6, <1>9

\* The last line grows by a message.
Grows(row, other, n, msg) ==
  (\A i \in 1 .. (n - 1) : other[i] = row[i]) /\ other[n].data = Append(row[n].data, msg)

LEMMA JoinedLast ==
  ASSUME NEW row, NEW n, IsRow(row, n), n > 0, NEW other, NEW msg \in Message, Grows(row, other, n, msg)
  PROVE  IsRow(other, n) /\ Joined(other, n) = Append(Joined(row, n), msg.n)
<1> USE DEF Grows
<1>1. PICK m \in Nat : n = m + 1
  BY DEF IsRow
<1>2. row[n].data \in Seq(Message)
  BY <1>1 DEF IsRow
<1>3. PICK d \in Seq(Message) : d = row[n].data
  BY <1>2
<1>4. PICK e : e = other[n].data
  OBVIOUS
<1>5. e = Append(d, msg) /\ e \in Seq(Message)
  BY <1>3, <1>4
<1>6. \A i \in 1 .. n : i = n \/ i \in 1 .. (n - 1)
  BY <1>1
<1>7. IsRow(other, n)
  BY <1>4, <1>5, <1>6 DEF IsRow
<1>8. \A i \in 1 .. m : other[i] = row[i]
  BY <1>1
<1>9. IsRow(row, m + 1) /\ IsRow(other, m + 1) /\ IsRow(row, m)
  BY <1>1, <1>7 DEF IsRow
<1>10. PICK x : x = Joined(row, m)
  OBVIOUS
<1>11. Joined(row, n) = x \o Numbers(d)
  <2>1. \A i \in 1 .. m : row[i] = row[i]
    OBVIOUS
  <2>2. QED
    BY <1>1, <1>3, <1>9, <1>10, JoinedMore
<1>12. Joined(other, n) = x \o Numbers(e)
  BY <1>1, <1>4, <1>8, <1>9, <1>10, JoinedMore
<1>13. x \in Seq(Nums) /\ Numbers(d) \in Seq(Nums) /\ msg.n \in Nums
  BY <1>9, <1>10, JoinedSeq, NumbersIs DEF Message, Nums
<1>14. Numbers(e) = Append(Numbers(d), msg.n)
  BY <1>5, NumbersAppend
<1>15. ASSUME NEW y \in Seq(Nums), NEW z \in Nums
       PROVE  x \o Append(y, z) = Append(x \o y, z)
  BY <1>13
<1>16. QED
  BY <1>7, <1>11, <1>12, <1>13, <1>14, <1>15

\* The first line goes.
LEMMA JoinedFirst ==
  ASSUME NEW row, NEW n, IsRow(row, n), n > 0, NEW other, \A i \in 1 .. (n - 1) : other[i] = row[i + 1]
  PROVE  IsRow(other, n - 1) /\ Joined(row, n) = Numbers(row[1].data) \o Joined(other, n - 1)
<1>1. PICK m \in Nat : m = n - 1 /\ n \in Nat /\ n = m + 1
  BY DEF IsRow
<1>2. \A i \in 1 .. m : i + 1 \in 1 .. n
  BY <1>1
<1>3. IsRow(other, m)
  BY <1>1, <1>2 DEF IsRow
<1>4. PICK f : Adds(f, row, n) /\ Joined(row, n) = f[n]
  BY JoinedIs
<1>5. PICK g : Adds(g, other, m) /\ Joined(other, m) = g[m] /\ \A k \in 0 .. m : g[k] \in Seq(Nums)
  BY <1>3, JoinedIs
<1>6. row[1].data \in Seq(Message)
  BY <1>1 DEF IsRow
<1>7. PICK a \in Seq(Nums) : a = Numbers(row[1].data)
  BY <1>6, NumbersIs
<1> DEFINE Good == {k \in 0 .. m : f[k + 1] = a \o g[k]}
<1>8. 0 \in Good
  <2>1. f[1] = f[0] \o a /\ f[0] = <<>> /\ g[0] = <<>>
    <3>1. 1 \in 1 .. n /\ 1 - 1 = 0
      BY <1>1
    <3>2. PICK k : k = 1
      OBVIOUS
    <3>3. f[k] = f[k - 1] \o Numbers(row[k].data)
      BY <1>4, <3>1, <3>2, Zenon DEF Adds
    <3>4. QED
      BY <1>4, <1>5, <1>7, <3>1, <3>2, <3>3 DEF Adds
  <2>2. <<>> \o a = a /\ a \o <<>> = a
    OBVIOUS
  <2>3. f[1] = a \o g[0]
    BY <2>1, <2>2
  <2>4. QED
    BY <2>3
<1>9. ASSUME NEW k \in 1 .. m, k - 1 \in Good PROVE k \in Good
  <2>1. PICK j : j = k + 1
    OBVIOUS
  <2>2. j \in 1 .. n /\ j - 1 = k /\ k - 1 \in 0 .. m /\ k \in 0 .. m /\ (k - 1) + 1 = k
    BY <1>1, <2>1
  <2>3. f[j] = f[j - 1] \o Numbers(row[j].data)
    BY <1>4, <2>2, Zenon DEF Adds
  <2>4. g[k] = g[k - 1] \o Numbers(other[k].data)
    BY <1>5, Zenon DEF Adds
  <2>5. other[k] = row[j]
    BY <1>1, <2>1
  <2>6. other[k].data \in Seq(Message)
    BY <1>3 DEF IsRow
  <2>7. PICK b \in Seq(Nums) : b = Numbers(other[k].data)
    BY <2>6, NumbersIs
  <2>8. PICK x \in Seq(Nums) : x = g[k - 1]
    BY <1>5, <2>2
  <2>9. f[k] = a \o x
    BY <1>9, <2>2, <2>8
  <2>10. f[j] = (a \o x) \o b /\ g[k] = x \o b
    BY <2>2, <2>3, <2>4, <2>5, <2>7, <2>8, <2>9
  <2>11. (a \o x) \o b = a \o (x \o b)
    BY ConcatAssociative
  <2>12. QED
    BY <2>1, <2>2, <2>10, <2>11
<1>10. m \in Good
  <2> HIDE DEF Good
  <2>1. \A k \in 0 .. m : k \in Good
    BY <1>8, <1>9, Induction
  <2>2. QED
    BY <2>1
<1>11. f[n] = a \o g[m]
  BY <1>1, <1>10
<1>12. QED
  BY <1>1, <1>3, <1>4, <1>5, <1>7, <1>11

\* A row of lines that are not empty has as many messages as lines, or more.
LEMMA JoinedLen ==
  ASSUME NEW row, NEW n, IsRow(row, n), \A i \in 1 .. n : row[i].data # <<>>
  PROVE  Len(Joined(row, n)) \in Nat /\ Len(Joined(row, n)) >= n
<1>1. PICK f : Adds(f, row, n) /\ Joined(row, n) = f[n] /\ \A k \in 0 .. n : f[k] \in Seq(Nums)
  BY JoinedIs
<1>2. n \in Nat
  BY DEF IsRow
<1> DEFINE Good == {k \in 0 .. n : Len(f[k]) >= k}
<1>3. 0 \in Good
  BY <1>1, <1>2 DEF Adds
<1>4. ASSUME NEW k \in 1 .. n, k - 1 \in Good PROVE k \in Good
  <2>1. k - 1 \in 0 .. n /\ k \in 0 .. n
    BY <1>2
  <2>2. PICK x \in Seq(Nums) : x = f[k - 1]
    BY <1>1, <2>1
  <2>3. PICK d \in Seq(Message) : d = row[k].data /\ d # <<>>
    BY DEF IsRow
  <2>4. Len(d) >= 1
    BY <2>3
  <2>5. PICK b \in Seq(Nums) : b = Numbers(d) /\ Len(b) = Len(d)
    BY NumbersIs
  <2>6. f[k] = x \o b
    BY <1>1, <2>2, <2>3, <2>5, Zenon DEF Adds
  <2>7. Len(f[k]) = Len(x) + Len(b)
    BY <2>6
  <2>8. Len(x) >= k - 1
    BY <1>4, <2>2
  <2>9. Len(f[k]) >= k
    BY <2>4, <2>5, <2>7, <2>8
  <2>10. QED
    BY <2>1, <2>9
<1>5. n \in Good
  <2> HIDE DEF Good
  <2>1. \A k \in 0 .. n : k \in Good
    BY <1>2, <1>3, <1>4, Induction
  <2>2. QED
    BY <1>2, <2>1
<1>6. QED
  BY <1>1, <1>2, <1>5

Stream == 0 .. MaxMsgs

\* f[k] is what the first k bytes say.
Reads(f, bytes, n) ==
  f[0] = <<>> /\ \A k \in 1 .. n : f[k] = IF bytes[k] = 0 THEN f[k - 1] ELSE Append(f[k - 1], bytes[k])

\* The bytes from 1 to n.
IsStream(bytes, n) == n \in Nat /\ \A k \in 1 .. n : bytes[k] \in Stream

\* One byte more.
Read(x, b) == IF b = 0 THEN x ELSE Append(x, b)
LEMMA ReadIs ==
  ASSUME NEW x \in Seq(Nums), NEW b \in Stream
  PROVE  Read(x, b) \in Seq(Nums)
<1>1. CASE b = 0
  BY <1>1 DEF Read
<1>2. CASE b # 0
  <2>1. b \in Nums
    BY <1>2, QueueAssumption DEF Nums, Stream
  <2>2. QED
    BY <1>2, <2>1 DEF Read
<1>3. QED
  BY <1>1, <1>2

\* TextOf reads byte after byte.
LEMMA TextIs ==
  ASSUME NEW bytes, NEW n, IsStream(bytes, n)
  PROVE  \E f : /\ Reads(f, bytes, n) /\ TextOf(bytes, n) = f[n]
                /\ \A k \in 0 .. n : f[k] \in Seq(Nums)
<1> DEFINE S == [k \in 0 .. n |-> Seq(Nums)]
           step == [k \in 1 .. n |-> [x \in Seq(Nums) |-> Read(x, bytes[k])]]
           Is(f) == f = [k \in 0 .. n |-> IF k = 0 THEN <<>> ELSE Read(f[k - 1], bytes[k])]
           pass == CHOOSE f : Is(f)
<1>0. n \in Nat
  BY DEF IsStream
<1>1. TextOf(bytes, n) = pass[n]
  BY DEF TextOf, Read
<1> HIDE DEF pass
<1>2. \A k \in 0 .. n : S[k] = Seq(Nums)
  OBVIOUS
<1> HIDE DEF S
<1>3. \A k \in 1 .. n : \A x \in Seq(Nums) : Read(x, bytes[k]) \in Seq(Nums)
  BY ReadIs DEF IsStream
<1>4. \A k \in 1 .. n : \A x \in Seq(Nums) : step[k][x] = Read(x, bytes[k])
  OBVIOUS
<1> HIDE DEF step
<1>5. \A k \in 1 .. n : k - 1 \in 0 .. n /\ k \in 0 .. n
  BY <1>0
<1>6. \A k \in 1 .. n : \A x \in S[k - 1] : step[k][x] \in S[k]
  BY <1>2, <1>3, <1>4, <1>5
<1>7. <<>> \in S[0]
  <2>1. 0 \in 0 .. n
    BY <1>0
  <2>2. QED
    BY <1>2, <2>1, EmptyNums
<1>8. PICK f : /\ f = [k \in 0 .. n |-> f[k]] /\ IsRun(f, <<>>, step, n)
               /\ \A k \in 0 .. n : f[k] \in S[k]
  BY <1>0, <1>6, <1>7, Runs
<1>9. \A k \in 0 .. n : f[k] \in Seq(Nums)
  BY <1>2, <1>8
<1>10. \A k \in 1 .. n : f[k] = Read(f[k - 1], bytes[k])
  BY <1>4, <1>5, <1>8, <1>9 DEF IsRun
<1>11. Is(f)
  <2>1. \A k \in 0 .. n : f[k] = IF k = 0 THEN <<>> ELSE Read(f[k - 1], bytes[k])
    <3>1. \A k \in 0 .. n : k = 0 \/ k \in 1 .. n
      BY <1>0
    <3>2. QED
      BY <1>8, <1>10, <3>1 DEF IsRun
  <2>2. f \in [0 .. n -> {f[k] : k \in 0 .. n}]
    BY <1>8
  <2>3. QED
    BY <2>1, <2>2
<1>12. Is(pass)
  BY <1>11 DEF pass
<1>13. pass[0] = <<>> /\ \A k \in 1 .. n : pass[k] = Read(pass[k - 1], bytes[k])
  BY <1>0, <1>12
<1> DEFINE Good == {k \in 0 .. n : pass[k] \in Seq(Nums)}
<1>14. 0 \in Good
  <2>1. 0 \in 0 .. n
    BY <1>0
  <2>2. QED
    BY <1>13, <2>1, EmptyNums
<1>15. ASSUME NEW k \in 1 .. n, k - 1 \in Good PROVE k \in Good
  <2>1. PICK x \in Seq(Nums) : x = pass[k - 1]
    BY <1>15
  <2>2. Read(x, bytes[k]) \in Seq(Nums)
    BY <1>3
  <2>3. pass[k] \in Seq(Nums)
    BY <1>13, <2>1, <2>2
  <2>4. QED
    BY <1>5, <2>3
<1>16. \A k \in 0 .. n : k \in Good
  <2> HIDE DEF Good
  <2>1. QED
    BY <1>0, <1>14, <1>15, Induction
<1>17. QED
  BY <1>1, <1>13, <1>16 DEF Reads, Read

\* Two accounts of the same bytes agree.
LEMMA ReadsAgree ==
  ASSUME NEW n \in Nat, NEW bytes, NEW f, Reads(f, bytes, n), NEW other, NEW g, NEW m \in Nat, Reads(g, other, m),
         m <= n, \A i \in 1 .. m : other[i] = bytes[i]
  PROVE  \A k \in 0 .. m : g[k] = f[k]
<1> DEFINE Good == {k \in 0 .. m : g[k] = f[k]}
<1>1. 0 \in Good
  BY DEF Reads
<1>2. ASSUME NEW k \in 1 .. m, k - 1 \in Good PROVE k \in Good
  <2>1. k \in 1 .. n /\ k \in 0 .. m
    OBVIOUS
  <2>2. g[k] = IF other[k] = 0 THEN g[k - 1] ELSE Append(g[k - 1], other[k])
    BY Zenon DEF Reads
  <2>3. f[k] = IF bytes[k] = 0 THEN f[k - 1] ELSE Append(f[k - 1], bytes[k])
    BY <2>1, Zenon DEF Reads
  <2>4. g[k - 1] = f[k - 1] /\ other[k] = bytes[k]
    BY <1>2
  <2>5. g[k] = f[k]
    BY <2>2, <2>3, <2>4
  <2>6. QED
    BY <2>1, <2>5
<1>3. QED
  <2> HIDE DEF Good
  <2>1. \A k \in 0 .. m : k \in Good
    BY <1>1, <1>2, Induction
  <2>2. QED
    BY <2>1 DEF Good

\* What the first n bytes say does not depend on the others.
LEMMA TextSame ==
  ASSUME NEW bytes, NEW n, IsStream(bytes, n), NEW other, \A i \in 1 .. n : other[i] = bytes[i]
  PROVE  TextOf(other, n) = TextOf(bytes, n) /\ TextOf(bytes, n) \in Seq(Nums)
<1>1. IsStream(other, n) /\ n \in Nat /\ n <= n
  BY DEF IsStream
<1>2. PICK f : Reads(f, bytes, n) /\ TextOf(bytes, n) = f[n] /\ \A k \in 0 .. n : f[k] \in Seq(Nums)
  BY TextIs
<1>3. PICK g : Reads(g, other, n) /\ TextOf(other, n) = g[n]
  BY <1>1, TextIs
<1>4. \A k \in 0 .. n : g[k] = f[k]
  BY <1>1, <1>2, <1>3, ReadsAgree
<1>5. QED
  BY <1>1, <1>2, <1>3, <1>4

\* A whole line stands in the stream behind its first m bytes.
Carries(bytes, m, d) ==
  \A i \in 1 .. (Len(d) + 1) : bytes[m + i] = IF i <= Len(d) THEN d[i].n ELSE 0

\* A whole line says its messages.
LEMMA TextLine ==
  ASSUME NEW bytes, NEW m \in Nat, IsStream(bytes, m), NEW d \in Seq(Message), NEW l, l = Len(d),
         Carries(bytes, m, d)
  PROVE  TextOf(bytes, (m + l) + 1) = TextOf(bytes, m) \o Numbers(d)
<1>1. PICK n \in Nat : n = (m + l) + 1 /\ l \in Nat
  OBVIOUS
<1>2. PICK x \in Seq(Nums) : x = Numbers(d) /\ Len(x) = l /\ \A k \in 1 .. l : x[k] = d[k].n
  BY NumbersIs
<1>3. \A i \in 1 .. l : bytes[m + i] = x[i] /\ x[i] \in Nums
  BY <1>1, <1>2 DEF Carries
<1>4. bytes[n] = 0
  <2>1. l + 1 \in 1 .. (Len(d) + 1) /\ ~ (l + 1 <= Len(d)) /\ m + (l + 1) = n
    BY <1>1
  <2>2. QED
    BY <2>1 DEF Carries
<1>5. \A i \in 1 .. l : x[i] \in Stream /\ x[i] # 0
  BY <1>3 DEF Nums, Stream
<1>6. IsStream(bytes, n)
  <2>1. ASSUME NEW k \in 1 .. n PROVE bytes[k] \in Stream
    <3>1. CASE k \in 1 .. m
      BY <3>1 DEF IsStream
    <3>2. CASE k = n
      BY <1>4, <3>2, QueueAssumption DEF Stream
    <3>3. CASE k > m /\ k < n
      <4>1. PICK i : i = k - m
        OBVIOUS
      <4>2. i \in 1 .. l /\ k = m + i
        BY <1>1, <3>3, <4>1
      <4>3. QED
        BY <1>3, <1>5, <4>2
    <3>4. QED
      BY <1>1, <3>1, <3>2, <3>3
  <2>2. QED
    BY <2>1 DEF IsStream
<1>7. PICK f : Reads(f, bytes, n) /\ TextOf(bytes, n) = f[n] /\ \A k \in 0 .. n : f[k] \in Seq(Nums)
  BY <1>6, TextIs
<1>8. PICK g : Reads(g, bytes, m) /\ TextOf(bytes, m) = g[m]
  BY TextIs
<1>9. g[m] = f[m]
  <2>1. m <= n /\ m \in 0 .. m /\ \A i \in 1 .. m : bytes[i] = bytes[i]
    BY <1>1
  <2>2. \A k \in 0 .. m : g[k] = f[k]
    BY <1>7, <1>8, <2>1, ReadsAgree
  <2>3. QED
    BY <2>1, <2>2
<1>10. PICK y \in Seq(Nums) : y = f[m]
  BY <1>1, <1>7
<1> DEFINE Good == {i \in 0 .. l : f[m + i] = y \o SubSeq(x, 1, i)}
<1>11. 0 \in Good
  <2>1. SubSeq(x, 1, 0) = <<>> /\ y \o <<>> = y /\ m + 0 = m
    BY SubSeqEmpty
  <2>2. f[m + 0] = y \o SubSeq(x, 1, 0)
    BY <1>10, <2>1
  <2>3. QED
    BY <1>1, <2>2
<1>12. ASSUME NEW i \in 1 .. l, i - 1 \in Good PROVE i \in Good
  <2>1. PICK k : k = m + i
    OBVIOUS
  <2>2. k \in 1 .. n /\ k - 1 = m + (i - 1) /\ i \in 0 .. l /\ i - 1 \in 0 .. l
    BY <1>1, <2>1
  <2>3. f[k] = IF bytes[k] = 0 THEN f[k - 1] ELSE Append(f[k - 1], bytes[k])
    BY <1>7, <2>2, Zenon DEF Reads
  <2>4. bytes[k] = x[i] /\ x[i] # 0 /\ x[i] \in Nums
    BY <1>3, <1>5, <2>1
  <2>5. f[k] = Append(f[k - 1], x[i])
    BY <2>3, <2>4
  <2>6. f[k - 1] = y \o SubSeq(x, 1, i - 1)
    BY <1>12, <2>2
  <2>7. PICK z \in Seq(Nums) : z = SubSeq(x, 1, i - 1)
    <3>1. 1 \in Int /\ i - 1 \in Int /\ \A j \in 1 .. (i - 1) : x[j] \in Nums
      BY <1>2, <2>2
    <3>2. SubSeq(x, 1, i - 1) \in Seq(Nums)
      BY <3>1, SubSeqProperties
    <3>3. QED
      BY <3>2
  <2>8. SubSeq(x, 1, i) = z \o <<x[i]>>
    <3>1. 1 \in 1 .. Len(x) /\ i \in 1 .. Len(x)
      BY <1>1, <1>2
    <3>2. QED
      BY <2>7, <3>1, SubSeqRecursiveSecond
  <2>9. Append(y \o z, x[i]) = y \o (z \o <<x[i]>>)
    <3>1. PICK v \in Nums : v = x[i]
      BY <2>4
    <3>2. y \o z \in Seq(Nums) /\ <<v>> \in Seq(Nums)
      BY ConcatProperties
    <3>3. Append(y \o z, v) = (y \o z) \o <<v>>
      BY <3>2, AppendIsConcat
    <3>4. (y \o z) \o <<v>> = y \o (z \o <<v>>)
      BY <3>2, ConcatAssociative
    <3>5. QED
      BY <3>1, <3>3, <3>4
  <2>10. f[m + i] = y \o SubSeq(x, 1, i)
    BY <2>1, <2>5, <2>6, <2>7, <2>8, <2>9
  <2>11. QED
    BY <2>2, <2>10
<1>13. f[m + l] = y \o x
  <2>1. l \in Good
    <3> HIDE DEF Good
    <3>1. \A i \in 0 .. l : i \in Good
      BY <1>1, <1>11, <1>12, Induction
    <3>2. QED
      BY <1>1, <3>1
  <2>2. SubSeq(x, 1, l) = x
    BY <1>2, SubSeqFull
  <2>3. QED
    BY <2>1, <2>2
<1>14. f[n] = f[m + l]
  <2>1. n \in 1 .. n /\ n - 1 = m + l
    BY <1>1
  <2>2. f[n] = IF bytes[n] = 0 THEN f[n - 1] ELSE Append(f[n - 1], bytes[n])
    BY <1>7, <2>1, Zenon DEF Reads
  <2>3. QED
    BY <1>4, <2>1, <2>2
<1>15. QED
  BY <1>1, <1>2, <1>7, <1>8, <1>9, <1>10, <1>13, <1>14

\* Byte e ends the last whole line.
Ends(bytes, e) ==
  /\ e \in 0 .. Len(bytes) /\ (e > 0 => bytes[e] = 0)
  /\ \A i \in 1 .. Len(bytes) : i > e => bytes[i] # 0

\* LastEnd finds it.
LEMMA LastEndIs ==
  ASSUME NEW bytes \in Seq(Stream)
  PROVE  Ends(bytes, LastEnd(bytes))
<1> DEFINE T == {0} \cup {i \in DOMAIN bytes : bytes[i] = 0}
<1>1. PICK n \in Nat : n = Len(bytes) /\ DOMAIN bytes = 1 .. n
  OBVIOUS
<1>2. T \in SUBSET Nat /\ T # {} /\ \A y \in T : y <= n
  BY <1>1
<1>3. LastEnd(bytes) = Max(T)
  BY DEF LastEnd
<1>4. \A i \in 1 .. n : bytes[i] = 0 => i \in T
  BY <1>1
<1>5. \A i \in T : i = 0 \/ (i \in 1 .. n /\ bytes[i] = 0)
  BY <1>1
<1> HIDE DEF T
<1>6. Max(T) \in T /\ \A y \in T : Max(T) >= y
  BY <1>2, MaxIsGreatest
<1>7. PICK e : e = Max(T)
  OBVIOUS
<1>8. e \in T /\ \A y \in T : e >= y
  BY <1>6, <1>7
<1>9. e \in 0 .. n /\ (e > 0 => bytes[e] = 0)
  BY <1>1, <1>5, <1>8
<1>10. \A i \in 1 .. n : i > e => bytes[i] # 0
  BY <1>1, <1>4, <1>8, <1>9
<1>11. QED
  BY <1>1, <1>3, <1>7, <1>9, <1>10 DEF Ends

\* There is one such byte.
LEMMA EndsOnce ==
  ASSUME NEW bytes \in Seq(Stream), NEW e, Ends(bytes, e)
  PROVE  LastEnd(bytes) = e
<1>1. PICK f : f = LastEnd(bytes)
  OBVIOUS
<1>2. Ends(bytes, f)
  BY <1>1, LastEndIs
<1>3. PICK n \in Nat : n = Len(bytes)
  OBVIOUS
<1>4. e \in 0 .. n /\ f \in 0 .. n
  BY <1>2, <1>3 DEF Ends
<1>5. ~ (e < f)
  <2> SUFFICES ASSUME e < f PROVE FALSE
    OBVIOUS
  <2>1. f > 0 /\ f \in 1 .. n /\ f > e
    BY <1>4
  <2>2. QED
    BY <1>2, <1>3, <2>1 DEF Ends
<1>6. ~ (f < e)
  <2> SUFFICES ASSUME f < e PROVE FALSE
    OBVIOUS
  <2>1. e > 0 /\ e \in 1 .. n /\ e > f
    BY <1>4
  <2>2. QED
    BY <1>2, <1>3, <2>1 DEF Ends
<1>7. QED
  BY <1>1, <1>4, <1>5, <1>6

-----------------------------------------------------------------------------
(* The entries of a queue in their order.                                  *)

\* Entry i of a queue.
LEMMA QueuedAt ==
  ASSUME NEW q \in Queue, NEW i \in 1 .. q.count
  PROVE  /\ i - 1 \in Slots /\ Place(q.head, i - 1) \in Slots /\ Turn(q.head, Place(q.head, i - 1)) = i - 1
         /\ Queued(q)[i] = q.slots[Place(q.head, i - 1)] /\ Queued(q)[i] \in Entry
<1>1. q.head \in Slots /\ q.count \in 0 .. WqCap /\ q.slots \in [Slots -> Entry]
  BY QueueFields
<1>2. PICK j : j = i - 1
  OBVIOUS
<1>3. j \in Slots
  BY <1>1, <1>2, QueueAssumption DEF Slots
<1>4. (q.head + j) % WqCap = Place(q.head, j) /\ Place(q.head, j) \in Slots /\ Turn(q.head, Place(q.head, j)) = j
  BY <1>1, <1>3, PlaceIs
<1>5. Queued(q)[i] = q.slots[SlotOf(q, j)]
  BY <1>2 DEF Queued
<1>6. QED
  BY <1>1, <1>2, <1>3, <1>4, <1>5 DEF SlotOf

LEMMA QueuedRow ==
  ASSUME NEW q \in Queue
  PROVE  IsRow(Queued(q), q.count) /\ q.count \in Nat
<1>1. q.count \in Nat
  BY QueueFields
<1>2. \A i \in 1 .. q.count : Queued(q)[i] \in Entry
  BY QueuedAt
<1>3. \A i \in 1 .. q.count : Queued(q)[i].data \in Seq(Message)
  BY <1>2, EntryFields
<1>4. QED
  BY <1>1, <1>3 DEF IsRow

\* One slot of p has another entry than in q.
Swaps(q, p, s, e) == p.slots = [q.slots EXCEPT ![s] = e] /\ p.head = q.head

\* The row of p is that of q with e behind it, or with e for its entry j.
Extends(q, p, e) == (\A i \in 1 .. q.count : Queued(p)[i] = Queued(q)[i]) /\ Queued(p)[q.count + 1] = e
Changes(q, p, j, e) == (\A i \in 1 .. q.count : i # j => Queued(p)[i] = Queued(q)[i]) /\ Queued(p)[j] = e

\* An entry behind the others.
LEMMA RowPut ==
  ASSUME NEW q \in Queue, HasRoom(q), NEW p \in Queue, NEW s, s = Place(q.head, q.count), NEW e,
         Swaps(q, p, s, e), p.count = q.count + 1
  PROVE  Extends(q, p, e)
<1>1. PICK n \in Nat : n = q.count
  BY QueueFields
<1>2. q.head \in Slots /\ q.slots \in [Slots -> Entry] /\ n \in Slots
  BY <1>1, QueueFields, QueueAssumption DEF HasRoom, Slots
<1>3. s \in Slots /\ Turn(q.head, s) = n
  BY <1>1, <1>2, PlaceIs
<1>4. ASSUME NEW i \in 1 .. n PROVE Queued(p)[i] = Queued(q)[i]
  <2>1. PICK t : t = Place(q.head, i - 1)
    OBVIOUS
  <2>2. i \in 1 .. q.count /\ i \in 1 .. p.count
    BY <1>1
  <2>3. t \in Slots /\ Turn(q.head, t) = i - 1 /\ Queued(q)[i] = q.slots[t]
    BY <2>1, <2>2, QueuedAt
  <2>4. Queued(p)[i] = p.slots[Place(p.head, i - 1)]
    BY <2>2, QueuedAt
  <2>5. Queued(p)[i] = p.slots[t]
    BY <2>1, <2>4 DEF Swaps
  <2>6. t # s
    BY <1>3, <2>3
  <2>7. QED
    BY <1>2, <2>3, <2>5, <2>6 DEF Swaps
<1>5. Queued(p)[n + 1] = e
  <2>1. PICK i : i = n + 1
    OBVIOUS
  <2>2. i \in 1 .. p.count /\ i - 1 = n
    BY <1>1, <2>1
  <2>3. Queued(p)[i] = p.slots[Place(p.head, i - 1)]
    BY <2>2, QueuedAt
  <2>4. Queued(p)[i] = p.slots[s]
    BY <1>1, <2>2, <2>3 DEF Swaps
  <2>5. QED
    BY <1>2, <1>3, <2>1, <2>4 DEF Swaps
<1>6. QED
  BY <1>1, <1>4, <1>5 DEF Extends

\* Another entry in place of entry j.
IsPlace(q, s, j) == s = Place(q.head, j - 1)

LEMMA RowSwap ==
  ASSUME NEW q \in Queue, NEW j \in 1 .. q.count, NEW p \in Queue, NEW s, IsPlace(q, s, j), NEW e,
         Swaps(q, p, s, e), p.count = q.count
  PROVE  Changes(q, p, j, e) /\ Queued(q)[j] = q.slots[s]
<1>1. q.slots \in [Slots -> Entry]
  BY QueueFields
<1>2. s \in Slots /\ Turn(q.head, s) = j - 1 /\ Queued(q)[j] = q.slots[s]
  BY QueuedAt DEF IsPlace
<1>3. ASSUME NEW i \in 1 .. q.count PROVE Queued(p)[i] = IF i = j THEN e ELSE Queued(q)[i]
  <2>1. PICK t : t = Place(q.head, i - 1)
    OBVIOUS
  <2>2. i \in 1 .. p.count
    OBVIOUS
  <2>3. t \in Slots /\ Turn(q.head, t) = i - 1 /\ Queued(q)[i] = q.slots[t]
    BY <2>1, QueuedAt
  <2>4. Queued(p)[i] = p.slots[Place(p.head, i - 1)]
    BY <2>2, QueuedAt
  <2>5. Queued(p)[i] = p.slots[t]
    BY <2>1, <2>4 DEF Swaps
  <2>6. i \in Int /\ j \in Int
    OBVIOUS
  <2>7. t = s <=> i = j
    BY <1>2, <2>1, <2>3, <2>6 DEF IsPlace
  <2>8. p.slots[t] = IF t = s THEN e ELSE q.slots[t]
    BY <1>1, <2>3 DEF Swaps
  <2>9. QED
    BY <2>3, <2>5, <2>7, <2>8
<1>4. QED
  BY <1>2, <1>3 DEF Changes

\* The oldest entry goes.
LEMMA RowShift ==
  ASSUME NEW q \in Queue, q.count > 0, NEW p, p = Shifted(q)
  PROVE  \A i \in 1 .. (q.count - 1) : Queued(p)[i] = Queued(q)[i + 1]
<1>1. /\ p \in Queue /\ p.slots = [q.slots EXCEPT ![q.head] = FreeSlot]
      /\ p.head = (q.head + 1) % WqCap /\ p.count = q.count - 1
  BY ShiftedIs
<1>2. q.head \in Slots /\ q.slots \in [Slots -> Entry] /\ q.count \in Nat /\ p.head \in Slots
  BY <1>1, QueueFields
<1> SUFFICES ASSUME NEW i \in 1 .. (q.count - 1) PROVE Queued(p)[i] = Queued(q)[i + 1]
  OBVIOUS
<1>3. PICK j : j = i + 1
  OBVIOUS
<1>4. j \in 1 .. q.count /\ i \in 1 .. p.count /\ j - 1 = i /\ i \in Nat /\ i > 0
  BY <1>1, <1>2, <1>3
<1>5. PICK t : t = Place(q.head, i)
  OBVIOUS
<1>6. t \in Slots /\ Turn(q.head, t) = i /\ Queued(q)[j] = q.slots[t]
  BY <1>4, <1>5, QueuedAt
<1>7. PICK u : u = Place(p.head, i - 1)
  OBVIOUS
<1>8. u \in Slots /\ Turn(p.head, u) = i - 1 /\ Queued(p)[i] = p.slots[u]
  BY <1>1, <1>4, <1>7, QueuedAt
<1>9. t # q.head
  <2>1. Turn(q.head, q.head) = 0
    BY <1>2 DEF Turn, Slots
  <2>2. QED
    BY <1>4, <1>6, <2>1
<1>10. Turn(p.head, t) = i - 1
  BY <1>1, <1>2, <1>6, <1>9, HeadMoves
<1>11. t = u
  BY <1>2, <1>6, <1>7, <1>8, <1>10, TurnIs
<1>12. QED
  BY <1>1, <1>2, <1>3, <1>6, <1>8, <1>9, <1>11

-----------------------------------------------------------------------------
(* What a queue still has to say.                                          *)

Says(q) == Joined(Queued(q), q.count)

\* No line is empty, and only the oldest may have been sent in part.
Tidy(q) ==
  \A i \in 1 .. q.count : Queued(q)[i].data # <<>> /\ (i > 1 => Queued(q)[i].offset = 0)

\* What was sent behind the last whole line is the beginning of the line of entry e.
Begins(bytes, e) ==
  /\ Len(bytes) = LastEnd(bytes) + e.offset /\ e.offset <= Len(e.data)
  /\ \A i \in 1 .. e.offset : bytes[LastEnd(bytes) + i] = e.data[i].n

\* A queue and what was sent from it fit.
Fine(q, bytes) ==
  /\ Tidy(q)
  /\ q.count = 0 => Len(bytes) = LastEnd(bytes)
  /\ q.count > 0 => Begins(bytes, Queued(q)[1])

\* The queue takes message m, or drops it because it is full.
Takes(q, p, m) ==
  \/ Says(p) = Append(Says(q), m) /\ p.drops = q.drops
  \/ Len(Says(q)) >= WqCap /\ Says(p) = Says(q) /\ p.drops = q.drops + 1

\* What a queue says is a sequence of messages.
LEMMA SaysIs ==
  ASSUME NEW q \in Queue
  PROVE  Says(q) \in Seq(Nums) /\ (q.count = 0 => Says(q) = <<>>)
<1>1. Says(q) \in Seq(Nums)
  BY QueuedRow, JoinedSeq DEF Says
<1>2. ASSUME q.count = 0 PROVE Says(q) = <<>>
  BY <1>2, JoinedNone DEF Says
<1>3. QED
  BY <1>1, <1>2

\* A line of one message is put behind the others.
LEMMA PutTakes ==
  ASSUME NEW q \in Queue, NEW bytes \in Seq(Stream), Fine(q, bytes), HasRoom(q), NEW p \in Queue,
         NEW s, s = Place(q.head, q.count), NEW e, Swaps(q, p, s, e), p.count = q.count + 1,
         p.drops = q.drops, NEW msg \in Message, e.data = <<msg>>, e.offset = 0
  PROVE  Fine(p, bytes) /\ Takes(q, p, msg.n)
<1>1. PICK n \in Nat : n = q.count
  BY QueueFields
<1>0. Extends(q, p, e)
  BY RowPut
<1>2. \A i \in 1 .. n : Queued(p)[i] = Queued(q)[i]
  BY <1>0, <1>1 DEF Extends
<1>3. Queued(p)[n + 1] = e
  BY <1>0, <1>1 DEF Extends
<1>4. p.count = n + 1 /\ IsRow(Queued(p), n + 1)
  BY <1>1, QueuedRow
<1>5. Says(p) = Says(q) \o Numbers(e.data)
  <2>1. Joined(Queued(p), n + 1) = Joined(Queued(q), n) \o Numbers(Queued(p)[n + 1].data)
    BY <1>2, <1>4, JoinedMore
  <2>2. QED
    BY <1>1, <1>3, <1>4, <2>1 DEF Says
<1>6. Numbers(e.data) = <<msg.n>> /\ msg.n \in Nums
  <2>1. PICK d : d = <<msg>> /\ d \in Seq(Message)
    <3>1. <<msg>> \in Seq(Message)
      OBVIOUS
    <3>2. QED
      BY <3>1
  <2>2. PICK x \in Seq(Nums) : x = Numbers(d) /\ Len(x) = Len(d) /\ \A k \in 1 .. Len(d) : x[k] = d[k].n
    BY <2>1, NumbersIs
  <2>3. Len(d) = 1 /\ d[1] = msg
    BY <2>1
  <2>4. Len(x) = 1 /\ x[1] = msg.n
    BY <2>2, <2>3
  <2>5. msg.n \in Nums
    BY DEF Message, Nums
  <2>6. x = <<msg.n>>
    BY <2>4, <2>5
  <2>7. QED
    BY <2>1, <2>2, <2>5, <2>6
<1>7. Says(p) = Append(Says(q), msg.n)
  <2>1. Says(q) \in Seq(Nums)
    BY SaysIs
  <2>2. QED
    BY <1>5, <1>6, <2>1, AppendIsConcat
<1>8. Tidy(p)
  <2>1. ASSUME NEW i \in 1 .. (n + 1) PROVE Queued(p)[i].data # <<>> /\ (i > 1 => Queued(p)[i].offset = 0)
    <3>1. CASE i \in 1 .. n
      BY <1>1, <1>2, <3>1 DEF Fine, Tidy
    <3>2. CASE i = n + 1
      <4>1. <<msg>> # <<>>
        OBVIOUS
      <4>2. QED
        BY <1>3, <3>2, <4>1
    <3>3. QED
      BY <3>1, <3>2
  <2>2. QED
    BY <1>4, <2>1 DEF Tidy
<1>9. Begins(bytes, Queued(p)[1])
  <2>1. CASE n = 0
    <3>1. Queued(p)[1] = e
      BY <1>3, <2>1
    <3>2. Len(bytes) = LastEnd(bytes)
      BY <1>1, <2>1 DEF Fine
    <3>3. LastEnd(bytes) \in Nat
      BY LastEndIs DEF Ends
    <3>4. Begins(bytes, e)
      BY <3>2, <3>3 DEF Begins
    <3>5. QED
      BY <3>1, <3>4
  <2>2. CASE n > 0
    <3>1. Queued(p)[1] = Queued(q)[1]
      BY <1>2, <2>2
    <3>2. Begins(bytes, Queued(q)[1])
      BY <1>1, <2>2 DEF Fine
    <3>3. QED
      BY <3>1, <3>2
  <2>3. QED
    BY <2>1, <2>2
<1>10. Fine(p, bytes)
  BY <1>4, <1>8, <1>9 DEF Fine
<1>11. QED
  BY <1>7, <1>10 DEF Takes

\* A message is merged into the newest line, of which nothing was sent.
LEMMA MergeTakes ==
  ASSUME NEW q \in Queue, NEW bytes \in Seq(Stream), Fine(q, bytes), q.count > 0, NEW p \in Queue,
         NEW s, s = Place(q.head, q.count - 1), NEW e, Swaps(q, p, s, e), p.count = q.count,
         p.drops = q.drops, NEW msg \in Message, q.slots[s].offset = 0,
         e.data = Append(q.slots[s].data, msg), e.offset = 0
  PROVE  Fine(p, bytes) /\ Takes(q, p, msg.n)
<1>1. PICK n \in Nat : n = q.count /\ n > 0
  BY QueueFields
<1>2. n \in 1 .. q.count
  BY <1>1
<1>3. /\ \A i \in 1 .. q.count : i # n => Queued(p)[i] = Queued(q)[i]
      /\ Queued(p)[n] = e /\ Queued(q)[n] = q.slots[s]
  <2>1. n \in 1 .. q.count /\ IsPlace(q, s, n)
    BY <1>1 DEF IsPlace
  <2>2. Swaps(q, p, s, e) /\ p.count = q.count
    OBVIOUS
  <2>3. Changes(q, p, n, e) /\ Queued(q)[n] = q.slots[s]
    BY <2>1, <2>2, RowSwap
  <2>4. QED
    BY <2>3 DEF Changes
<1>4. IsRow(Queued(q), n)
  BY <1>1, QueuedRow
<1>5. \A i \in 1 .. (n - 1) : Queued(p)[i] = Queued(q)[i]
  <2>1. \A i \in 1 .. (n - 1) : i \in 1 .. n /\ i # n
    BY <1>1
  <2>2. QED
    BY <1>1, <1>3, <2>1
<1>6. Queued(p)[n].data = Append(Queued(q)[n].data, msg)
  BY <1>3
<1>7. Joined(Queued(p), n) = Append(Joined(Queued(q), n), msg.n)
  <2>1. PICK row : row = Queued(q)
    OBVIOUS
  <2>2. PICK other : other = Queued(p)
    OBVIOUS
  <2>3. IsRow(row, n) /\ Grows(row, other, n, msg)
    BY <1>4, <1>5, <1>6, <2>1, <2>2 DEF Grows
  <2>4. Joined(other, n) = Append(Joined(row, n), msg.n)
    BY <1>1, <2>3, JoinedLast
  <2>5. QED
    BY <2>1, <2>2, <2>4
<1>8. Says(p) = Append(Says(q), msg.n)
  BY <1>1, <1>7 DEF Says
<1>9. PICK d \in Seq(Message) : d = q.slots[s].data
  BY <1>1, <1>3, <1>4 DEF IsRow
<1>10. e.data # <<>> /\ Len(d) \in Nat
  <2>1. Append(d, msg) # <<>>
    BY AppendProperties
  <2>2. QED
    BY <1>9, <2>1
<1>11. Tidy(p)
  <2>1. ASSUME NEW i \in 1 .. n PROVE Queued(p)[i].data # <<>> /\ (i > 1 => Queued(p)[i].offset = 0)
    <3>1. CASE i = n
      BY <1>3, <1>10, <3>1
    <3>2. CASE i # n
      BY <1>1, <1>3, <3>2 DEF Fine, Tidy
    <3>3. QED
      BY <3>1, <3>2
  <2>2. QED
    BY <1>1, <2>1 DEF Tidy
<1>12. Begins(bytes, Queued(p)[1])
  <2>1. Begins(bytes, Queued(q)[1])
    BY <1>1 DEF Fine
  <2>2. CASE n = 1
    <3>1. Queued(p)[1] = e /\ Queued(q)[1] = q.slots[s]
      BY <1>3, <2>2
    <3>2. Begins(bytes, q.slots[s])
      BY <2>1, <3>1
    <3>3. Len(bytes) = LastEnd(bytes) + e.offset
      BY <3>2 DEF Begins
    <3>4. e.offset <= Len(e.data)
      BY <1>9
    <3>5. Begins(bytes, e)
      BY <3>3, <3>4 DEF Begins
    <3>6. QED
      BY <3>1, <3>5
  <2>3. CASE n # 1
    <3>1. 1 \in 1 .. q.count /\ 1 # n
      BY <1>1, <2>3
    <3>2. Queued(p)[1] = Queued(q)[1]
      BY <1>3, <3>1
    <3>3. QED
      BY <2>1, <3>2
  <2>4. QED
    BY <2>2, <2>3
<1>13. Fine(p, bytes)
  BY <1>1, <1>11, <1>12 DEF Fine
<1>14. QED
  BY <1>8, <1>13 DEF Takes

\* A full queue drops.
LEMMA DropTakes ==
  ASSUME NEW q \in Queue, NEW bytes, Fine(q, bytes), ~ HasRoom(q), NEW p, p = Dropped(q), NEW m
  PROVE  Fine(p, bytes) /\ Takes(q, p, m)
<1>1. /\ p \in Queue /\ p.slots = q.slots /\ p.head = q.head /\ p.count = q.count /\ p.drops = q.drops + 1
  BY DroppedIs
<1>2. Queued(p) = Queued(q)
  BY <1>1 DEF Queued, SlotOf
<1>3. Says(p) = Says(q)
  BY <1>1, <1>2 DEF Says
<1>4. Fine(p, bytes)
  BY <1>1, <1>2 DEF Fine, Tidy
<1>5. q.count = WqCap
  BY QueueFields, QueueAssumption DEF HasRoom
<1>6. IsRow(Queued(q), q.count) /\ \A i \in 1 .. q.count : Queued(q)[i].data # <<>>
  BY QueuedRow DEF Fine, Tidy
<1>7. Len(Says(q)) >= WqCap
  BY <1>5, <1>6, JoinedLen DEF Says
<1>8. QED
  BY <1>1, <1>3, <1>4, <1>7 DEF Takes

\* A broadcast.
LEMMA SentTakes ==
  ASSUME NEW msg \in Message, NEW c \in Clients, NEW q \in Queue, NEW able,
         NEW m \in Nat, m = msg.n, Clean(q, c, m), NEW bytes \in Seq(Stream), Fine(q, bytes),
         NEW p, p = SentQ(q, c, msg, able)
  PROVE  Fine(p, bytes) /\ Takes(q, p, m)
<1>1. m \in 1 .. MaxMsgs
  BY DEF Message
<1>2. AllLine(m) \in Lines /\ OwnLine(m, c) \in Lines
  BY <1>1, LinesAre DEF Lines
<1>3. CASE c \in able /\ CanCoalesce(q, msg)
  <2>1. PICK s : s = LastSlot(q)
    OBVIOUS
  <2>2. q.count > 0 /\ q.slots[s].offset = 0
    BY <1>3, <2>1 DEF CanCoalesce
  <2>3. s = Place(q.head, q.count - 1) /\ s \in Slots
    BY <2>1, <2>2, LastIs
  <2>4. q.slots[s] \in Entry
    BY <2>3, QueueFields
  <2>5. PICK e : e = Merged(q.slots[s], msg, OwnLine(m, c))
    OBVIOUS
  <2>6. e \in Entry
    BY <1>2, <2>4, <2>5, EntriesAre
  <2>7. e.data = Append(q.slots[s].data, msg) /\ e.offset = 0
    BY <2>5 DEF Merged
  <2>8. p = Replaced(q, s, e)
    BY <1>3, <2>1, <2>5 DEF SentQ
  <2>9. /\ p \in Queue /\ p.slots = [q.slots EXCEPT ![s] = e]
        /\ p.head = q.head /\ p.count = q.count /\ p.drops = q.drops
    BY <2>3, <2>6, <2>8, ReplacedIs
  <2>10. Swaps(q, p, s, e)
    BY <2>9 DEF Swaps
  <2>11. QED
    BY <2>2, <2>3, <2>7, <2>9, <2>10, MergeTakes
<1>4. CASE ~ (c \in able /\ CanCoalesce(q, msg)) /\ ~ HasRoom(q)
  <2>1. p = Dropped(q)
    BY <1>4 DEF SentQ
  <2>2. QED
    BY <1>4, <2>1, DropTakes
<1>5. CASE ~ (c \in able /\ CanCoalesce(q, msg)) /\ HasRoom(q)
  <2>1. PICK e : e = Single(msg, AllLine(m))
    OBVIOUS
  <2>2. e.data = <<msg>> /\ e.offset = 0
    BY <2>1 DEF Single
  <2>3. FreeSlot \in Entry
    BY FreeSlotIs
  <2>4. e \in Entry
    BY <1>2, <2>1, <2>3, EntriesAre
  <2>5. p = Put(q, e)
    BY <1>5, <2>1 DEF SentQ
  <2>6. PICK s \in Slots : /\ p \in Queue /\ s = Place(q.head, q.count)
                           /\ p.slots = [q.slots EXCEPT ![s] = e]
                           /\ p.head = q.head /\ p.count = q.count + 1 /\ p.drops = q.drops
    BY <1>5, <2>4, <2>5, PutIs
  <2>7. Swaps(q, p, s, e)
    BY <2>6 DEF Swaps
  <2>8. QED
    BY <1>5, <2>2, <2>6, <2>7, PutTakes
<1>6. QED
  BY <1>3, <1>4, <1>5

\* A reply.
LEMMA ReplyTakes ==
  ASSUME NEW msg \in Message, NEW c \in Clients, NEW q \in Queue, NEW m \in Nat, Clean(q, c, m),
         NEW bytes \in Seq(Stream), Fine(q, bytes), NEW p, p = sm_client_send(q, msg)
  PROVE  Fine(p, bytes) /\ Takes(q, p, msg.n)
<1>1. CASE ~ HasRoom(q)
  <2>1. p = Dropped(q)
    BY <1>1 DEF sm_client_send
  <2>2. QED
    BY <1>1, <2>1, DropTakes
<1>2. CASE HasRoom(q)
  <2>1. q.head \in Slots /\ q.count \in Slots /\ q.slots \in [Slots -> Entry]
    BY <1>2, QueueFields, QueueAssumption DEF HasRoom, Slots
  <2>2. PICK t : t = SlotOf(q, q.count)
    OBVIOUS
  <2>3. t \in Slots
    BY <2>1, <2>2, PlaceIs DEF SlotOf
  <2>4. PICK o \in Entry : o = q.slots[t]
    BY <2>1, <2>3
  <2>5. PICK e : e = [o EXCEPT !.data = <<msg>>, !.offset = 0]
    OBVIOUS
  <2>6. e.data = <<msg>> /\ e.offset = 0 /\ e \in Entry
    <3>1. <<msg>> \in Seq(Message)
      OBVIOUS
    <3>2. QED
      BY <2>4, <2>5, <3>1 DEF Entry
  <2>0. Clean(q, c, m)
    OBVIOUS
  <2>7. p = Put(q, e)
    BY <1>2, <2>2, <2>4, <2>5 DEF sm_client_send
  <2>8. PICK s \in Slots : /\ p \in Queue /\ s = Place(q.head, q.count)
                           /\ p.slots = [q.slots EXCEPT ![s] = e]
                           /\ p.head = q.head /\ p.count = q.count + 1 /\ p.drops = q.drops
    <3>1. e \in Entry /\ HasRoom(q) /\ Clean(q, c, m)
      BY <1>2, <2>0, <2>6
    <3>2. \E s \in Slots : /\ p \in Queue /\ s = Place(q.head, q.count)
                           /\ p.slots = [q.slots EXCEPT ![s] = e]
                           /\ p.head = q.head /\ p.count = q.count + 1 /\ p.drops = q.drops
                           /\ q.slots[s].shared = NoLine
      BY <2>7, <3>1, PutIs
    <3>3. QED
      BY <3>2
  <2>9. Swaps(q, p, s, e)
    BY <2>8 DEF Swaps
  <2>10. QED
    BY <1>2, <2>6, <2>8, <2>9, PutTakes
<1>3. QED
  BY <1>1, <1>2


-----------------------------------------------------------------------------
(* Bytes on the wire.                                                      *)

\* Behind the last whole line of bytes, b has the first k bytes of the line of entry e.
Follows(bytes, b, e, k) ==
  /\ Len(b) = LastEnd(bytes) + k
  /\ \A i \in 1 .. LastEnd(bytes) : b[i] = bytes[i]
  /\ \A i \in 1 .. k : b[LastEnd(bytes) + i] = IF i <= Len(e.data) THEN e.data[i].n ELSE 0

\* A write continues the line where the one before stopped.
LEMMA WriteFollows ==
  ASSUME NEW bytes \in Seq(Stream), NEW e \in Entry, Begins(bytes, e), NEW n \in Nat, n > 0,
         NEW k, k = e.offset + n, k <= LineLen(e.data), NEW b,
         b = bytes \o SubSeq(Bytes(e.data), e.offset + 1, k)
  PROVE  b \in Seq(Stream) /\ Follows(bytes, b, e, k)
<1>1. PICK d \in Seq(Message) : d = e.data
  BY EntryFields
<1>2. PICK o \in Nat : o = e.offset
  BY EntryFields
<1>3. PICK l \in Nat : l = Len(d)
  OBVIOUS
<1>4. k = o + n /\ k \in Nat /\ k <= l + 1
  BY <1>1, <1>2, <1>3 DEF LineLen
<1>5. PICK x \in Seq(Stream) : x = Bytes(d) /\ Len(x) = l + 1
  BY <1>1, <1>3, BytesIn DEF Stream
<1>6. \A i \in 1 .. (l + 1) : x[i] = IF i <= l THEN d[i].n ELSE 0
  BY <1>3, <1>5 DEF Bytes
<1>7. PICK a \in Int : a = o + 1
  OBVIOUS
<1>8. PICK y : y = SubSeq(x, a, k)
  OBVIOUS
<1>9. \A i \in a .. k : x[i] \in Stream
  BY <1>4, <1>5, <1>7
<1>10. y \in Seq(Stream) /\ Len(y) = n /\ \A i \in 1 .. n : y[i] = x[o + i]
  <2>1. a <= k /\ k - a + 1 = n
    BY <1>4, <1>7
  <2>2. k \in Int
    BY <1>4
  <2>3. /\ y \in Seq(Stream) /\ Len(y) = (IF a <= k THEN k - a + 1 ELSE 0)
        /\ \A i \in 1 .. (k - a + 1) : y[i] = x[a + i - 1]
    <3>1. /\ SubSeq(x, a, k) \in Seq(Stream) /\ Len(SubSeq(x, a, k)) = (IF a <= k THEN k - a + 1 ELSE 0)
          /\ \A i \in 1 .. (k - a + 1) : SubSeq(x, a, k)[i] = x[a + i - 1]
      BY <1>9, <2>2, SubSeqProperties
    <3>2. QED
      BY <1>8, <3>1
  <2>4. \A i \in 1 .. n : a + i - 1 = o + i
    BY <1>7
  <2>5. QED
    BY <2>1, <2>3, <2>4
<1>11. b = bytes \o y
  BY <1>1, <1>2, <1>5, <1>7, <1>8
<1>12. PICK g \in Nat : g = Len(bytes)
  OBVIOUS
<1>13. b \in Seq(Stream) /\ Len(b) = g + n /\ (\A i \in 1 .. g : b[i] = bytes[i]) /\ \A i \in 1 .. n : b[g + i] = y[i]
  <2>1. y \in Seq(Stream)
    BY <1>10
  <2>2. /\ bytes \o y \in Seq(Stream) /\ Len(bytes \o y) = Len(bytes) + Len(y)
        /\ \A i \in 1 .. Len(bytes) + Len(y) : (bytes \o y)[i] = IF i <= Len(bytes) THEN bytes[i] ELSE y[i - Len(bytes)]
    BY <2>1, ConcatProperties
  <2>3. b \in Seq(Stream) /\ Len(b) = g + n /\ \A i \in 1 .. g + n : b[i] = IF i <= g THEN bytes[i] ELSE y[i - g]
    BY <1>10, <1>11, <1>12, <2>2
  <2>4. \A i \in 1 .. g : i \in 1 .. g + n /\ i <= g
    OBVIOUS
  <2>5. \A i \in 1 .. n : g + i \in 1 .. g + n /\ ~ (g + i <= g) /\ (g + i) - g = i
    OBVIOUS
  <2>6. QED
    BY <2>3, <2>4, <2>5
<1>14. PICK z \in Nat : z = LastEnd(bytes)
  BY LastEndIs DEF Ends
<1>15. g = z + o /\ o <= l /\ \A i \in 1 .. o : bytes[z + i] = d[i].n
  BY <1>1, <1>2, <1>3, <1>12, <1>14 DEF Begins
<1>16. Len(b) = z + k
  BY <1>4, <1>13, <1>15
<1>17. \A i \in 1 .. z : b[i] = bytes[i]
  BY <1>13, <1>15
<1>18. ASSUME NEW i \in 1 .. k PROVE b[z + i] = IF i <= l THEN d[i].n ELSE 0
  <2>1. CASE i <= o
    <3>1. z + i \in 1 .. g /\ i \in 1 .. o /\ i <= l
      BY <1>4, <1>15, <2>1
    <3>2. QED
      BY <1>13, <1>15, <3>1
  <2>2. CASE ~ (i <= o)
    <3>1. PICK j : j = i - o
      OBVIOUS
    <3>2. j \in 1 .. n /\ z + i = g + j /\ o + j = i /\ i \in 1 .. (l + 1)
      BY <1>4, <1>15, <2>2, <3>1
    <3>3. b[g + j] = y[j] /\ y[j] = x[o + j]
      BY <1>10, <1>13, <3>2
    <3>4. QED
      BY <1>6, <3>2, <3>3
  <2>3. QED
    BY <2>1, <2>2
<1>19. QED
  BY <1>1, <1>3, <1>13, <1>14, <1>16, <1>17, <1>18 DEF Follows

\* The messages whose line has arrived do not change before the line is whole.
LEMMA PartFollows ==
  ASSUME NEW bytes \in Seq(Stream), NEW e \in Entry, NEW b \in Seq(Stream), NEW k \in Nat, Follows(bytes, b, e, k),
         k <= Len(e.data), NEW f, f.data = e.data, f.offset = k
  PROVE  Begins(b, f) /\ TextOf(b, LastEnd(b)) = TextOf(bytes, LastEnd(bytes))
<1>1. PICK d \in Seq(Message) : d = e.data
  BY EntryFields
<1>2. PICK z \in Nat : z = LastEnd(bytes)
  BY LastEndIs DEF Ends
<1>3. z \in 0 .. Len(bytes) /\ (z > 0 => bytes[z] = 0)
  BY <1>2, LastEndIs DEF Ends
<1>4. Len(b) = z + k /\ (\A i \in 1 .. z : b[i] = bytes[i]) /\ k <= Len(d)
  BY <1>1, <1>2 DEF Follows
<1>5. \A i \in 1 .. k : b[z + i] = d[i].n /\ d[i].n # 0
  <2>1. \A i \in 1 .. k : i \in 1 .. Len(d) /\ i <= Len(d)
    BY <1>4
  <2>2. \A i \in 1 .. Len(d) : d[i].n # 0
    <3>1. \A i \in 1 .. Len(d) : d[i] \in Message
      OBVIOUS
    <3>2. \A m \in Message : m.n # 0
      BY DEF Message
    <3>3. QED
      BY <3>1, <3>2
  <2>3. \A i \in 1 .. k : b[z + i] = IF i <= Len(d) THEN d[i].n ELSE 0
    BY <1>1, <1>2 DEF Follows
  <2>4. QED
    BY <2>1, <2>2, <2>3
<1>6. Ends(b, z)
  <2>1. z \in 0 .. Len(b) /\ (z > 0 => b[z] = 0)
    BY <1>3, <1>4
  <2>2. ASSUME NEW i \in 1 .. Len(b), i > z PROVE b[i] # 0
    <3>1. PICK j : j = i - z
      OBVIOUS
    <3>2. j \in 1 .. k /\ z + j = i
      BY <1>4, <2>2, <3>1
    <3>3. QED
      BY <1>5, <3>2
  <2>3. QED
    BY <2>1, <2>2 DEF Ends
<1>7. LastEnd(b) = z
  BY <1>6, EndsOnce
<1>8. Begins(b, f)
  BY <1>1, <1>4, <1>5, <1>7 DEF Begins
<1>9. TextOf(b, z) = TextOf(bytes, z)
  <2>1. \A i \in 1 .. z : i \in 1 .. Len(bytes)
    BY <1>3
  <2>2. IsStream(bytes, z)
    BY <2>1 DEF IsStream
  <2>3. QED
    BY <1>4, <2>2, TextSame
<1>10. QED
  BY <1>2, <1>7, <1>8, <1>9

\* A whole line has arrived with its last byte.
LEMMA WholeFollows ==
  ASSUME NEW bytes \in Seq(Stream), NEW e \in Entry, NEW b \in Seq(Stream), NEW k, Follows(bytes, b, e, k),
         k = LineLen(e.data)
  PROVE  Len(b) = LastEnd(b) /\ TextOf(b, LastEnd(b)) = TextOf(bytes, LastEnd(bytes)) \o Numbers(e.data)
<1>1. PICK d \in Seq(Message) : d = e.data
  BY EntryFields
<1>2. PICK z \in Nat : z = LastEnd(bytes)
  BY LastEndIs DEF Ends
<1>3. PICK l \in Nat : l = Len(d)
  OBVIOUS
<1>4. k = l + 1 /\ Len(b) = z + k /\ \A i \in 1 .. z : b[i] = bytes[i]
  BY <1>1, <1>2, <1>3 DEF Follows, LineLen
<1>5. Carries(b, z, d)
  BY <1>1, <1>2, <1>3, <1>4 DEF Follows, Carries
<1>6. PICK v \in Nat : v = (z + l) + 1
  OBVIOUS
<1>7. v = Len(b) /\ b[v] = 0
  <2>1. l + 1 \in 1 .. (Len(d) + 1) /\ ~ (l + 1 <= Len(d)) /\ z + (l + 1) = v
    BY <1>3, <1>6
  <2>2. b[z + (l + 1)] = 0
    BY <1>5, <2>1 DEF Carries
  <2>3. QED
    BY <1>4, <1>6, <2>1, <2>2
<1>8. Ends(b, v)
  BY <1>7 DEF Ends
<1>9. LastEnd(b) = v
  BY <1>8, EndsOnce
<1>10. IsStream(bytes, z) /\ IsStream(b, z)
  <2>1. z \in 0 .. Len(bytes)
    BY <1>2, LastEndIs DEF Ends
  <2>2. \A i \in 1 .. z : i \in 1 .. Len(bytes)
    BY <2>1
  <2>3. IsStream(bytes, z)
    BY <2>2 DEF IsStream
  <2>4. QED
    BY <1>4, <2>3 DEF IsStream
<1>11. TextOf(b, z) = TextOf(bytes, z)
  BY <1>4, <1>10, TextSame
<1>12. TextOf(b, (z + l) + 1) = TextOf(b, z) \o Numbers(d)
  BY <1>3, <1>5, <1>10, TextLine
<1>13. QED
  BY <1>1, <1>2, <1>6, <1>7, <1>9, <1>11, <1>12


\* Rows with the same lines say the same.
LEMMA JoinedSame ==
  ASSUME NEW row, NEW n, IsRow(row, n), NEW other, \A i \in 1 .. n : other[i].data = row[i].data
  PROVE  Joined(other, n) = Joined(row, n)
<1>1. IsRow(other, n) /\ n \in Nat /\ n <= n /\ n \in 0 .. n
  BY DEF IsRow
<1>2. PICK f : Adds(f, row, n) /\ Joined(row, n) = f[n]
  BY JoinedIs
<1>3. PICK g : Adds(g, other, n) /\ Joined(other, n) = g[n]
  BY <1>1, JoinedIs
<1>4. \A k \in 0 .. n : g[k] = f[k]
  BY <1>1, <1>2, <1>3, AddsAgree
<1>5. QED
  BY <1>1, <1>2, <1>3, <1>4

\* The messages whose line has arrived.
Heard(bytes) == TextOf(bytes, LastEnd(bytes))

\* Nothing more has arrived, or the oldest messages of the queue have.
Hands(q, p, bytes, b) ==
  \/ Says(p) = Says(q) /\ Heard(b) = Heard(bytes)
  \/ \E x \in Seq(Nums) : x # <<>> /\ Says(q) = x \o Says(p) /\ Heard(b) = Heard(bytes) \o x

LEMMA FirstPlace ==
  ASSUME NEW q \in Queue
  PROVE  Place(q.head, 1 - 1) = q.head
<1>1. q.head \in 0 .. (WqCap - 1) /\ WqCap \in Nat
  BY QueueFields, QueueAssumption DEF Slots
<1>2. QED
  BY <1>1 DEF Place

\* A part of the oldest line is written.
LEMMA PartHands ==
  ASSUME NEW q \in Queue, q.count > 0, NEW bytes \in Seq(Stream), Fine(q, bytes),
         NEW e \in Entry, e = q.slots[q.head], NEW k \in Nat, k < LineLen(e.data), NEW b \in Seq(Stream),
         Follows(bytes, b, e, k), NEW f \in Entry, f.data = e.data, f.offset = k, NEW p, p = Replaced(q, q.head, f)
  PROVE  p \in Queue /\ p.drops = q.drops /\ Fine(p, b) /\ Hands(q, p, bytes, b)
<1>1. q.head \in Slots /\ q.count \in Nat
  BY QueueFields
<1>2. /\ p \in Queue /\ p.slots = [q.slots EXCEPT ![q.head] = f]
      /\ p.head = q.head /\ p.count = q.count /\ p.drops = q.drops
  BY <1>1, ReplacedIs
<1>3. PICK s : s = q.head
  OBVIOUS
<1>4. IsPlace(q, s, 1) /\ 1 \in 1 .. q.count
  BY <1>1, <1>3, FirstPlace DEF IsPlace
<1>5. Swaps(q, p, s, f)
  BY <1>2, <1>3 DEF Swaps
<1>6. Changes(q, p, 1, f) /\ Queued(q)[1] = q.slots[s]
  BY <1>2, <1>4, <1>5, RowSwap
<1>7. /\ \A i \in 1 .. q.count : i # 1 => Queued(p)[i] = Queued(q)[i]
      /\ Queued(p)[1] = f /\ Queued(q)[1] = e
  BY <1>3, <1>6 DEF Changes
<1>8. \A i \in 1 .. q.count : Queued(p)[i].data = Queued(q)[i].data
  BY <1>7
<1>9. Says(p) = Says(q)
  <2>1. PICK row : row = Queued(q)
    OBVIOUS
  <2>2. PICK other : other = Queued(p)
    OBVIOUS
  <2>3. IsRow(row, q.count) /\ \A i \in 1 .. q.count : other[i].data = row[i].data
    BY <1>8, <2>1, <2>2, QueuedRow
  <2>4. Joined(other, q.count) = Joined(row, q.count)
    BY <2>3, JoinedSame
  <2>5. QED
    BY <1>2, <2>1, <2>2, <2>4 DEF Says
<1>10. k <= Len(e.data)
  <2>1. Len(e.data) \in Nat
    BY EntryFields
  <2>2. QED
    BY <2>1 DEF LineLen
<1>11. Begins(b, f) /\ TextOf(b, LastEnd(b)) = TextOf(bytes, LastEnd(bytes))
  BY <1>10, PartFollows
<1>12. Tidy(p)
  <2>1. ASSUME NEW i \in 1 .. q.count PROVE Queued(p)[i].data # <<>> /\ (i > 1 => Queued(p)[i].offset = 0)
    <3>1. Queued(q)[i].data # <<>> /\ (i > 1 => Queued(q)[i].offset = 0)
      BY DEF Fine, Tidy
    <3>2. QED
      BY <1>7, <1>8, <3>1
  <2>2. QED
    BY <1>2, <2>1 DEF Tidy
<1>13. Fine(p, b)
  BY <1>2, <1>7, <1>11, <1>12 DEF Fine
<1>14. QED
  BY <1>2, <1>9, <1>11, <1>13 DEF Hands, Heard

\* The rest of the oldest line is written, and its entry freed.
LEMMA WholeHands ==
  ASSUME NEW q \in Queue, q.count > 0, NEW bytes \in Seq(Stream), Fine(q, bytes),
         NEW e \in Entry, e = q.slots[q.head], NEW k, k = LineLen(e.data), NEW b \in Seq(Stream),
         Follows(bytes, b, e, k), NEW p, p = Shifted(q)
  PROVE  p \in Queue /\ p.drops = q.drops /\ Fine(p, b) /\ Hands(q, p, bytes, b)
<1>1. q.head \in Slots /\ q.count \in Nat
  BY QueueFields
<1>2. p \in Queue /\ p.count = q.count - 1 /\ p.drops = q.drops
  BY ShiftedIs
<1>3. \A i \in 1 .. (q.count - 1) : Queued(p)[i] = Queued(q)[i + 1]
  BY RowShift
<1>4. Queued(q)[1] = e
  <2>1. 1 \in 1 .. q.count /\ Place(q.head, 1 - 1) = q.head
    BY <1>1, FirstPlace
  <2>2. QED
    BY <2>1, QueuedAt
<1>5. PICK x \in Seq(Nums) : x = Numbers(e.data) /\ Len(x) = Len(e.data)
  BY EntryFields, NumbersIs
<1>6. x # <<>>
  <2>1. PICK d \in Seq(Message) : d = e.data
    BY EntryFields
  <2>2. 1 \in 1 .. q.count
    BY <1>1
  <2>3. d # <<>>
    BY <1>4, <2>1, <2>2 DEF Fine, Tidy
  <2>4. Len(d) # 0
    BY <2>3
  <2>5. QED
    BY <1>5, <2>1, <2>4
<1>7. Says(q) = x \o Says(p)
  <2>1. PICK row : row = Queued(q)
    OBVIOUS
  <2>2. PICK other : other = Queued(p)
    OBVIOUS
  <2>3. PICK n \in Nat : n = q.count /\ n > 0
    BY <1>1
  <2>4. IsRow(row, n) /\ \A i \in 1 .. (n - 1) : other[i] = row[i + 1]
    BY <1>3, <2>1, <2>2, <2>3, QueuedRow
  <2>5. Joined(row, n) = Numbers(row[1].data) \o Joined(other, n - 1)
    BY <2>3, <2>4, JoinedFirst
  <2>6. QED
    BY <1>2, <1>4, <1>5, <2>1, <2>2, <2>3, <2>5 DEF Says
<1>8. Len(b) = LastEnd(b) /\ TextOf(b, LastEnd(b)) = TextOf(bytes, LastEnd(bytes)) \o Numbers(e.data)
  BY WholeFollows
<1>9. Heard(b) = Heard(bytes) \o x
  BY <1>5, <1>8 DEF Heard
<1>10. ASSUME NEW i \in 1 .. p.count PROVE Queued(p)[i].data # <<>> /\ Queued(p)[i].offset = 0
  <2>1. PICK j : j = i + 1
    OBVIOUS
  <2>2. j \in 1 .. q.count /\ j > 1 /\ i \in 1 .. (q.count - 1)
    BY <1>1, <1>2, <2>1
  <2>3. Queued(q)[j].data # <<>> /\ Queued(q)[j].offset = 0
    BY <2>2 DEF Fine, Tidy
  <2>4. QED
    BY <1>3, <2>1, <2>2, <2>3
<1>11. Tidy(p)
  BY <1>10 DEF Tidy
<1>12. ASSUME p.count > 0 PROVE Begins(b, Queued(p)[1])
  <2>1. PICK f \in Entry : f = Queued(p)[1] /\ f.offset = 0
    <3>1. 1 \in 1 .. p.count
      BY <1>1, <1>2, <1>12
    <3>2. QED
      BY <1>2, <1>10, <3>1, QueuedAt
  <2>2. Len(f.data) \in Nat /\ LastEnd(b) \in Nat
    BY EntryFields, LastEndIs DEF Ends
  <2>3. Begins(b, f)
    BY <1>8, <2>1, <2>2 DEF Begins
  <2>4. QED
    BY <2>1, <2>3
<1>13. Fine(p, b)
  BY <1>8, <1>11, <1>12 DEF Fine
<1>14. QED
  BY <1>2, <1>6, <1>7, <1>9, <1>13 DEF Hands

\* One write, of n bytes, with which k bytes of the line have gone out.
Cuts(bytes, b, e, n, k) ==
  /\ n > 0 /\ k = e.offset + n /\ k <= LineLen(e.data)
  /\ b = bytes \o SubSeq(Bytes(e.data), e.offset + 1, k)

LEMMA WrittenHands ==
  ASSUME NEW q \in Queue, q.count > 0, NEW bytes \in Seq(Stream), Fine(q, bytes),
         NEW e \in Entry, e = q.slots[q.head], NEW n \in Nat, NEW k \in Nat, NEW b,
         Cuts(bytes, b, e, n, k), NEW p, p = Written(q, n)
  PROVE  b \in Seq(Stream) /\ p.drops = q.drops /\ Fine(p, b) /\ Hands(q, p, bytes, b)
<1>1. q.count \in Nat
  BY QueueFields
<1>2. PICK l \in Nat : l = LineLen(e.data)
  <2>1. Len(e.data) \in Nat
    BY EntryFields
  <2>2. QED
    BY <2>1 DEF LineLen
<1>3. Begins(bytes, e)
  <2>1. 1 \in 1 .. q.count /\ Place(q.head, 1 - 1) = q.head
    BY <1>1, FirstPlace
  <2>2. Queued(q)[1] = e
    BY <2>1, QueuedAt
  <2>3. QED
    BY <2>2 DEF Fine
<1>4. b \in Seq(Stream) /\ Follows(bytes, b, e, k)
  BY <1>3, WriteFollows DEF Cuts
<1>5. CASE k < l
  <2>1. PICK f : f = [e EXCEPT !.offset = k]
    OBVIOUS
  <2>2. f \in Entry /\ f.data = e.data /\ f.offset = k
    BY <2>1 DEF Entry
  <2>3. p = Replaced(q, q.head, f)
    <3>1. k = e.offset + n
      BY DEF Cuts
    <3>2. q.slots[q.head].offset + n < LineLen(q.slots[q.head].data)
      BY <1>2, <1>5, <3>1
    <3>3. QED
      BY <2>1, <3>1, <3>2 DEF Written, Replaced
  <2>4. k < LineLen(e.data) /\ b \in Seq(Stream) /\ Follows(bytes, b, e, k)
    BY <1>2, <1>4, <1>5
  <2>5. p.drops = q.drops /\ Fine(p, b) /\ Hands(q, p, bytes, b)
    BY <2>2, <2>3, <2>4, PartHands
  <2>6. QED
    BY <2>4, <2>5
<1>6. CASE ~ (k < l)
  <2>1. k = LineLen(e.data)
    <3>1. k <= l
      BY <1>2 DEF Cuts
    <3>2. QED
      BY <1>2, <1>6, <3>1
  <2>2. p = Shifted(q)
    <3>1. k = e.offset + n
      BY DEF Cuts
    <3>2. ~ (q.slots[q.head].offset + n < LineLen(q.slots[q.head].data))
      BY <1>2, <1>6, <3>1
    <3>3. QED
      BY <3>2 DEF Written, Shifted
  <2>3. b \in Seq(Stream) /\ Follows(bytes, b, e, k)
    BY <1>4
  <2>4. p.drops = q.drops /\ Fine(p, b) /\ Hands(q, p, bytes, b)
    BY <2>1, <2>2, <2>3, WholeHands
  <2>5. QED
    BY <2>3, <2>4
<1>7. QED
  BY <1>5, <1>6


-----------------------------------------------------------------------------
(* Every step is one of LossyFifo's.                                       *)

\* A connected client's queue and stream fit; a client that has not connected
\* has neither, and has missed nothing.
OutInv ==
  /\ \A c \in live : Fine(wq[c], wire[c])
  /\ \A c \in unborn : wq[c].count = 0 /\ wq[c].drops = 0 /\ wire[c] = <<>>

\* What LossyFifo sees of a client.
LEMMA Views ==
  /\ \A c \in Clients : Waiting(c) = Says(wq[c]) /\ Arrived(c) = Heard(wire[c])
  /\ \A c \in Clients : Waiting(c)' = Says(wq'[c]) /\ Arrived(c)' = Heard(wire'[c])
BY DEF Waiting, Says, Arrived, Heard

\* A message is offered to some of the clients.
LEMMA OffersStep ==
  ASSUME QInv, NEW to \in SUBSET live, sent' = sent + 1, live' = live,
         \A c \in Clients : wire'[c] = wire[c],
         \A c \in to : Takes(wq[c], wq'[c], sent + 1), \A c \in Clients \ to : wq'[c] = wq[c]
  PROVE  Fifo!Next
<1>1. to \in SUBSET Clients
  BY DEF QInv
<1>2. \A c \in Clients : Arrived(c)' = Arrived(c)
  BY Views
<1>3. ASSUME NEW c \in Clients \ to PROVE Waiting(c)' = Waiting(c) /\ wq'[c].drops = wq[c].drops
  BY Views
<1>4. ASSUME NEW c \in to
      PROVE  \/ Waiting(c)' = Append(Waiting(c), sent + 1) /\ wq'[c].drops = wq[c].drops
             \/ Len(Waiting(c)) >= WqCap /\ Waiting(c)' = Waiting(c) /\ wq'[c].drops = wq[c].drops + 1
  BY <1>1, Views DEF Takes
<1>5. Fifo!Offer(to)
  BY <1>1, <1>2, <1>3, <1>4 DEF Fifo!Offer, Fifo!Keep, Fifo!Drop
<1>6. QED
  BY <1>1, <1>5 DEF Fifo!Next

\* The two parts of a sequence.
LEMMA Parts ==
  ASSUME NEW x \in Seq(Nums), NEW y \in Seq(Nums), NEW z, z = x \o y
  PROVE  /\ Len(x) <= Len(z) /\ SubSeq(z, 1, Len(x)) = x /\ SubSeq(z, Len(x) + 1, Len(z)) = y
<1>1. PICK k \in Nat : k = Len(x)
  OBVIOUS
<1>2. PICK n \in Nat : n = Len(y)
  OBVIOUS
<1>3. Len(z) = k + n
  BY <1>1, <1>2, ConcatProperties
<1>4. SubSeq(z, 1, k) = x
  <2>1. 1 \in 1 .. (Len(x) + 1) /\ k \in (1 - 1) .. Len(x)
    BY <1>1
  <2>2. SubSeq(x \o y, 1, k) = SubSeq(x, 1, k)
    BY <2>1, SubSeqOfConcat1
  <2>3. SubSeq(x, 1, k) = x
    BY <1>1, SubSeqFull
  <2>4. QED
    BY <2>2, <2>3
<1>5. SubSeq(z, k + 1, k + n) = y
  <2>1. PICK a : a = k + 1
    OBVIOUS
  <2>2. PICK e : e = k + n
    OBVIOUS
  <2>3. a \in Len(x) + 1 .. Len(x) + Len(y) + 1 /\ e \in a - 1 .. Len(x) + Len(y)
    BY <1>1, <1>2, <2>1, <2>2
  <2>4. SubSeq(x \o y, a, e) = SubSeq(y, a - Len(x), e - Len(x))
    BY <2>3, SubSeqOfConcat2
  <2>5. a - Len(x) = 1 /\ e - Len(x) = n
    BY <1>1, <2>1, <2>2
  <2>6. SubSeq(y, 1, n) = y
    BY <1>2, SubSeqFull
  <2>7. QED
    BY <2>1, <2>2, <2>4, <2>5, <2>6
<1>6. QED
  BY <1>1, <1>3, <1>4, <1>5

\* A client's stream grows by what its queue loses.
LEMMA DeliverStep ==
  ASSUME QInv, NEW c \in Clients, sent' = sent, live' = live, wq'[c] \in Queue,
         Hands(wq[c], wq'[c], wire[c], wire'[c]), wq'[c].drops = wq[c].drops,
         \A d \in Clients \ {c} : wire'[d] = wire[d] /\ wq'[d] = wq[d]
  PROVE  [Fifo!Next]_(Fifo!vars)
<1>1. \A d \in Clients \ {c} : Waiting(d)' = Waiting(d) /\ Arrived(d)' = Arrived(d)
  BY Views
<1>2. \A d \in Clients : wq'[d].drops = wq[d].drops
  OBVIOUS
<1>3. CASE Says(wq'[c]) = Says(wq[c]) /\ Heard(wire'[c]) = Heard(wire[c])
  <2>1. \A d \in Clients : Waiting(d)' = Waiting(d) /\ Arrived(d)' = Arrived(d)
    BY <1>1, <1>3, Views
  <2>2. QED
    BY <1>2, <2>1 DEF Fifo!vars
<1>4. ASSUME NEW x \in Seq(Nums), x # <<>>, Says(wq[c]) = x \o Says(wq'[c]), Heard(wire'[c]) = Heard(wire[c]) \o x
      PROVE  Fifo!Next
  <2>1. PICK y \in Seq(Nums) : y = Says(wq'[c])
    BY SaysIs
  <2>2. PICK z : z = x \o y
    OBVIOUS
  <2>3. Waiting(c) = z /\ Waiting(c)' = y /\ Arrived(c)' = Arrived(c) \o x
    BY <1>4, <2>1, <2>2, Views
  <2>4. PICK k \in Nat : k = Len(x) /\ k > 0
    <3>1. Len(x) \in Nat /\ Len(x) # 0
      BY <1>4, EmptySeq
    <3>2. QED
      BY <3>1
  <2>5. k <= Len(z) /\ SubSeq(z, 1, k) = x /\ SubSeq(z, k + 1, Len(z)) = y
    BY <2>2, <2>4, Parts
  <2>6. k \in 1 .. Len(Waiting(c))
    <3>1. z \in Seq(Nums)
      BY <2>2, ConcatProperties
    <3>2. Len(z) \in Nat
      BY <3>1
    <3>3. QED
      BY <2>3, <2>4, <2>5, <3>2
  <2>7. /\ SubSeq(Waiting(c), 1, k) = x
        /\ SubSeq(Waiting(c), k + 1, Len(Waiting(c))) = y
    BY <2>3, <2>5
  <2>8. [d \in Clients |-> Arrived(d)'] = [[d \in Clients |-> Arrived(d)] EXCEPT ![c] = Arrived(c) \o x]
    BY <1>1, <2>3
  <2>9. [d \in Clients |-> Waiting(d)'] = [[d \in Clients |-> Waiting(d)] EXCEPT ![c] = y]
    BY <1>1, <2>3
  <2>10. [d \in Clients |-> wq[d].drops]' = [d \in Clients |-> wq[d].drops]
    BY <1>2
  <2>11. Fifo!Deliver(c)
    BY <2>6, <2>7, <2>8, <2>9, <2>10 DEF Fifo!Deliver
  <2>12. QED
    BY <2>11 DEF Fifo!Next
<1>5. QED
  BY <1>3, <1>4 DEF Hands


\* A client connects.
LEMMA ConnectJoins ==
  ASSUME QInv, OutInv, NEW c \in Clients, Connect(c)
  PROVE  OutInv' /\ Fifo!Next
<1>1. /\ c \in unborn /\ unborn' = unborn \ {c} /\ live' = live \cup {c} /\ sent' = sent /\ wire' = wire
      /\ wq' = [wq EXCEPT ![c] = sm_client_new]
  BY DEF Connect
<1>2. live \subseteq Clients /\ unborn \subseteq Clients \ live /\ wq \in Queues
  BY DEF QInv
<1>3. \A d \in Clients : wq'[d] = IF d = c THEN sm_client_new ELSE wq[d]
  BY <1>1, <1>2 DEF Queues
<1>4. wq[c].count = 0 /\ wq[c].drops = 0 /\ wire[c] = <<>> /\ wq[c] \in Queue
  BY <1>1, <1>2 DEF OutInv, Queues
<1>5. PICK p \in Queue : p = wq'[c] /\ p.count = 0 /\ p.drops = 0
  BY <1>3, NewIs
<1>6. Fine(p, wire[c])
  <2>1. <<>> \in Seq(Stream) /\ Len(<<>>) = 0
    OBVIOUS
  <2>2. PICK b \in Seq(Stream) : b = wire[c] /\ Len(b) = 0
    BY <1>4, <2>1
  <2>3. LastEnd(b) \in 0 .. Len(b)
    BY LastEndIs DEF Ends
  <2>4. LastEnd(b) = Len(b)
    BY <2>2, <2>3
  <2>5. Tidy(p)
    BY <1>5 DEF Tidy
  <2>6. QED
    BY <1>5, <2>2, <2>4, <2>5 DEF Fine
<1>7. OutInv'
  <2>1. ASSUME NEW d \in live' PROVE Fine(wq'[d], wire'[d])
    <3>1. CASE d = c
      BY <1>1, <1>5, <1>6, <3>1
    <3>2. CASE d # c
      BY <1>1, <1>2, <1>3, <3>2 DEF OutInv
    <3>3. QED
      BY <3>1, <3>2
  <2>2. \A d \in unborn' : wq'[d].count = 0 /\ wq'[d].drops = 0 /\ wire'[d] = <<>>
    BY <1>1, <1>2, <1>3 DEF OutInv
  <2>3. QED
    BY <2>1, <2>2 DEF OutInv
<1>8. Says(wq[c]) = <<>> /\ Says(wq'[c]) = <<>>
  BY <1>4, <1>5, SaysIs
<1>9. \A d \in Clients : Waiting(d)' = Waiting(d) /\ Arrived(d)' = Arrived(d) /\ wq'[d].drops = wq[d].drops
  BY <1>1, <1>3, <1>4, <1>5, <1>8, Views
<1>10. Fifo!Join(c)
  BY <1>1, <1>2, <1>9 DEF Fifo!Join
<1>11. QED
  BY <1>7, <1>10 DEF Fifo!Next

\* A client leaves.
LEMMA RemoveLeaves ==
  ASSUME QInv, OutInv, NEW c \in Clients, remove_client(c)
  PROVE  OutInv' /\ Fifo!Next
<1>1. PICK n \in Nat : n = wq[c].drops
  BY QueueFields DEF QInv, Queues
<1>2. PICK p : p = Fresh(n)
  OBVIOUS
<1>3. p \in Queue /\ p.drops = n /\ p.count = 0
  BY <1>2, FreshIs
<1>4. /\ wq' = [wq EXCEPT ![c] = p] /\ sent' = sent /\ wire' = wire
      /\ c \in live /\ live' = live \ {c} /\ unborn' = unborn
  BY <1>1, <1>2 DEF remove_client, Fresh
<1>5. live \subseteq Clients /\ unborn \subseteq Clients \ live /\ wq \in Queues
  BY DEF QInv
<1>6. \A d \in Clients : wq'[d] = IF d = c THEN p ELSE wq[d]
  BY <1>4, <1>5 DEF Queues
<1>7. OutInv'
  BY <1>4, <1>5, <1>6 DEF OutInv
<1>8. Waiting(c)' = <<>>
  BY <1>3, <1>6, SaysIs, Views
<1>9. /\ \A d \in Clients \ {c} : Waiting(d)' = Waiting(d)
      /\ \A d \in Clients : Arrived(d)' = Arrived(d) /\ wq'[d].drops = wq[d].drops
  BY <1>1, <1>3, <1>4, <1>6, Views
<1>10. Fifo!Leave(c)
  BY <1>4, <1>8, <1>9 DEF Fifo!Leave
<1>11. QED
  BY <1>10, <1>7 DEF Fifo!Next

\* A reply is offered to its client.
LEMMA ReplyOffers ==
  ASSUME QInv, OutInv, NEW c \in Clients, send_to_client(c)
  PROVE  OutInv' /\ Fifo!Next
<1>1. PICK q \in Queue : q = wq[c]
  BY DEF QInv, Queues
<1>2. PICK m \in Nat : m = sent + 1
  BY DEF QInv
<1>3. PICK msg : msg = [n |-> m, output |-> FALSE]
  OBVIOUS
<1>4. msg \in Message /\ msg.n = m
  <2>1. sent \in 0 .. MaxMsgs /\ sent < MaxMsgs /\ MaxMsgs \in Nat
    BY QueueAssumption DEF QInv, send_to_client
  <2>2. m \in 1 .. MaxMsgs
    BY <1>2, <2>1
  <2>3. QED
    BY <1>3, <2>2 DEF Message
<1>5. PICK p : p = sm_client_send(q, msg)
  OBVIOUS
<1>6. /\ wq' = [wq EXCEPT ![c] = p] /\ sent' = m /\ wire' = wire
      /\ c \in live /\ unborn' = unborn /\ live' = live
  BY <1>1, <1>2, <1>3, <1>5 DEF send_to_client
<1>7. PICK bytes \in Seq(Stream) : bytes = wire[c]
  BY DEF QInv, Stream
<1>8. Fine(q, bytes) /\ Clean(q, c, sent) /\ sent \in Nat
  BY <1>1, <1>6, <1>7 DEF OutInv, QInv
<1>9. Fine(p, bytes) /\ Takes(q, p, m)
  BY <1>4, <1>5, <1>8, ReplyTakes
<1>10. \A d \in Clients : wq'[d] = IF d = c THEN p ELSE wq[d]
  BY <1>6 DEF QInv, Queues
<1>11. live \subseteq Clients /\ unborn \subseteq Clients \ live
  BY DEF QInv
<1>12. OutInv'
  <2>1. ASSUME NEW d \in live' PROVE Fine(wq'[d], wire'[d])
    <3>1. CASE d = c
      BY <1>6, <1>7, <1>9, <1>10, <3>1
    <3>2. CASE d # c
      BY <1>6, <1>10, <1>11, <3>2 DEF OutInv
    <3>3. QED
      BY <3>1, <3>2
  <2>2. \A d \in unborn' : wq'[d].count = 0 /\ wq'[d].drops = 0 /\ wire'[d] = <<>>
    BY <1>6, <1>10, <1>11 DEF OutInv
  <2>3. QED
    BY <2>1, <2>2 DEF OutInv
<1>13. Fifo!Next
  <2>1. PICK to \in SUBSET live : to = {c}
    BY <1>6
  <2>2. /\ sent' = sent + 1 /\ live' = live /\ (\A d \in Clients : wire'[d] = wire[d])
        /\ \A d \in to : Takes(wq[d], wq'[d], sent + 1)
        /\ \A d \in Clients \ to : wq'[d] = wq[d]
    BY <1>1, <1>2, <1>6, <1>9, <1>10, <2>1
  <2>3. QED
    BY <2>2, OffersStep
<1>14. QED
  BY <1>12, <1>13

\* A line is offered to the clients of a broadcast.
LEMMA BroadcastOffers ==
  ASSUME QInv, OutInv, NEW output \in BOOLEAN, NEW exclude, NEW able, broadcast(output, exclude, able)
  PROVE  OutInv' /\ Fifo!Next
<1>1. PICK m \in Nat : m = sent + 1
  BY DEF QInv
<1>2. PICK msg : msg = [n |-> m, output |-> output]
  OBVIOUS
<1>3. sent < MaxMsgs /\ sent \in 0 .. MaxMsgs /\ MaxMsgs \in Nat
  BY QueueAssumption DEF QInv, broadcast
<1>4. m \in 1 .. MaxMsgs /\ sent \in Nat /\ sent = m - 1 /\ sent <= m
  BY <1>1, <1>3
<1>5. msg \in Message /\ msg.n = m
  BY <1>2, <1>4 DEF Message
<1>6. PICK line : line = AllLine(m)
  OBVIOUS
<1>7. line \in LineIds
  BY <1>4, <1>6 DEF AllLine, LineIds
<1>8. PICK to : to = live \ {exclude}
  OBVIOUS
<1>9. to \in SUBSET Clients /\ to \in SUBSET live /\ live \subseteq Clients /\ unborn \subseteq Clients \ live
  BY <1>8 DEF QInv
<1>10. PICK r : r = Acquire(refs, line)
  OBVIOUS
<1>11. wq \in Queues /\ refs \in Counts /\ Exact(wq, refs, NoLine)
  BY DEF QInv
<1>12. r \in Counts /\ Exact(wq, r, line)
  BY <1>7, <1>10, <1>11, ExactHold
<1>13. PICK x : x = SendToAll([wq |-> wq, refs |-> r], SetToSeq(to), msg, line, able)
  OBVIOUS
<1>14. /\ sent' = m /\ wq' = x.wq /\ unborn' = unborn /\ live' = live /\ wire' = wire
  BY <1>1, <1>2, <1>6, <1>8, <1>10, <1>13 DEF broadcast, AllLine
<1>15. \A d \in Clients : Clean(wq[d], d, m - 1) /\ wq[d] \in Queue
  BY <1>4 DEF QInv, Queues
<1>16. x.wq = [c \in Clients |-> IF c \in to THEN SentQ(wq[c], c, msg, able) ELSE wq[c]]
  BY <1>4, <1>5, <1>6, <1>9, <1>11, <1>12, <1>13, <1>15, BroadcastIs
<1>17. ASSUME NEW d \in to PROVE Fine(wq'[d], wire[d]) /\ Takes(wq[d], wq'[d], m)
  <2>1. PICK q \in Queue : q = wq[d]
    BY <1>9, <1>15
  <2>2. PICK bytes \in Seq(Stream) : bytes = wire[d]
    BY <1>9 DEF QInv, Stream
  <2>3. Fine(q, bytes)
    BY <1>9, <2>1, <2>2 DEF OutInv
  <2>4. d \in Clients /\ Clean(q, d, m)
    <3>1. d \in Clients /\ Clean(q, d, sent)
      BY <1>9, <2>1 DEF QInv
    <3>2. QED
      BY <1>4, <3>1, CleanLater
  <2>5. PICK p : p = SentQ(q, d, msg, able)
    OBVIOUS
  <2>6. Fine(p, bytes) /\ Takes(q, p, m)
    BY <1>5, <2>3, <2>4, <2>5, SentTakes
  <2>7. wq'[d] = p
    BY <1>14, <1>16, <2>1, <2>4, <2>5
  <2>8. QED
    BY <2>1, <2>2, <2>6, <2>7
<1>18. \A d \in Clients \ to : wq'[d] = wq[d]
  BY <1>14, <1>16
<1>19. OutInv'
  <2>1. ASSUME NEW d \in live' PROVE Fine(wq'[d], wire'[d])
    <3>1. CASE d \in to
      BY <1>14, <1>17, <3>1
    <3>2. CASE d \notin to
      BY <1>9, <1>14, <1>18, <3>2 DEF OutInv
    <3>3. QED
      BY <3>1, <3>2
  <2>2. \A d \in unborn' : wq'[d].count = 0 /\ wq'[d].drops = 0 /\ wire'[d] = <<>>
    BY <1>9, <1>14, <1>18 DEF OutInv
  <2>3. QED
    BY <2>1, <2>2 DEF OutInv
<1>20. Fifo!Next
  <2>1. /\ sent' = sent + 1 /\ live' = live /\ (\A d \in Clients : wire'[d] = wire[d])
        /\ \A d \in to : Takes(wq[d], wq'[d], sent + 1)
        /\ \A d \in Clients \ to : wq'[d] = wq[d]
    BY <1>1, <1>14, <1>17, <1>18
  <2>2. QED
    BY <1>9, <2>1, OffersStep
<1>21. QED
  BY <1>19, <1>20

\* A write delivers a line, or a part of one.
LEMMA FlushDelivers ==
  ASSUME QInv, OutInv, NEW c \in Clients, NEW n, sm_client_flush(c, n)
  PROVE  OutInv' /\ [Fifo!Next]_(Fifo!vars)
<1>1. PICK q \in Queue : q = wq[c]
  BY DEF QInv, Queues
<1>2. PICK e : e = q.slots[q.head]
  OBVIOUS
<1>3. PICK p : p = Written(q, n)
  OBVIOUS
<1>4. e \in Entry /\ e.data \in Seq(Message) /\ e.offset \in Nat /\ Len(e.data) \in Nat
  <2>1. e \in Entry
    BY <1>2, QueueFields
  <2>2. e.data \in Seq(Message) /\ e.offset \in Nat
    BY <2>1, EntryFields
  <2>3. QED
    BY <2>1, <2>2
<1>5. PICK x \in Int : x = LineLen(e.data) - e.offset
  BY <1>4 DEF LineLen
<1>6. n \in 1 .. x
  <2>1. n \in 1 .. (LineLen(e.data) - e.offset)
    BY <1>1, <1>2, Zenon DEF sm_client_flush
  <2>2. QED
    BY <1>5, <2>1
<1>7. PICK k \in Nat : k = e.offset + n
  BY <1>4, <1>6
<1>8. PICK bytes \in Seq(Stream) : bytes = wire[c]
  BY DEF QInv, Stream
<1>9. PICK b : b = bytes \o SubSeq(Bytes(e.data), e.offset + 1, k)
  OBVIOUS
<1>10. /\ c \in live /\ q.count > 0 /\ wq' = [wq EXCEPT ![c] = p] /\ wire' = [wire EXCEPT ![c] = b]
       /\ unborn' = unborn /\ live' = live /\ sent' = sent
  BY <1>1, <1>2, <1>3, <1>7, <1>8, <1>9 DEF sm_client_flush
<1>11. n \in Nat /\ Cuts(bytes, b, e, n, k)
  <2>1. n \in Nat /\ n > 0 /\ k <= LineLen(e.data)
    BY <1>4, <1>5, <1>6, <1>7 DEF LineLen
  <2>2. QED
    BY <1>7, <1>9, <2>1 DEF Cuts
<1>12. Fine(q, bytes)
  BY <1>1, <1>8, <1>10 DEF OutInv
<1>13. p.drops = q.drops /\ Fine(p, b) /\ Hands(q, p, bytes, b)
  BY <1>2, <1>3, <1>4, <1>10, <1>11, <1>12, WrittenHands
<1>14. /\ \A d \in Clients : wq'[d] = IF d = c THEN p ELSE wq[d]
       /\ \A d \in Clients : wire'[d] = IF d = c THEN b ELSE wire[d]
  BY <1>10 DEF QInv, Queues
<1>15. live \subseteq Clients /\ unborn \subseteq Clients \ live
  BY DEF QInv
<1>16. OutInv'
  <2>1. ASSUME NEW d \in live' PROVE Fine(wq'[d], wire'[d])
    <3>1. CASE d = c
      BY <1>13, <1>14, <3>1
    <3>2. CASE d # c
      BY <1>10, <1>14, <1>15, <3>2 DEF OutInv
    <3>3. QED
      BY <3>1, <3>2
  <2>2. \A d \in unborn' : wq'[d].count = 0 /\ wq'[d].drops = 0 /\ wire'[d] = <<>>
    BY <1>10, <1>14, <1>15 DEF OutInv
  <2>3. QED
    BY <2>1, <2>2 DEF OutInv
<1>17. [Fifo!Next]_(Fifo!vars)
  <2>1. wq'[c] \in Queue
    BY QInvFlush DEF QInv, Queues
  <2>2. Hands(wq[c], wq'[c], wire[c], wire'[c]) /\ wq'[c].drops = wq[c].drops
    BY <1>1, <1>8, <1>13, <1>14
  <2>3. \A d \in Clients \ {c} : wire'[d] = wire[d] /\ wq'[d] = wq[d]
    BY <1>14
  <2>4. sent' = sent /\ live' = live
    BY <1>10
  <2>5. QED
    BY <2>1, <2>2, <2>3, <2>4, DeliverStep
<1>18. QED
  BY <1>16, <1>17

\* Every step.
LEMMA StepIsLossyFifo ==
  ASSUME QInv, OutInv, [QueueNext]_queueVars
  PROVE  OutInv' /\ [Fifo!Next]_(Fifo!vars)
<1>1. CASE UNCHANGED queueVars
  <2>1. OutInv'
    BY <1>1 DEF OutInv, queueVars
  <2>2. UNCHANGED Fifo!vars
    BY <1>1 DEF queueVars, Fifo!vars, Waiting, Arrived
  <2>3. QED
    BY <2>1, <2>2
<1>2. ASSUME NEW exclude \in live \cup {NoClient}, broadcast(FALSE, exclude, {}) PROVE OutInv' /\ Fifo!Next
  BY <1>2, BroadcastOffers
<1>3. ASSUME NEW exclude \in live \cup {NoClient}, NEW able \in SUBSET live, broadcast(TRUE, exclude, able)
      PROVE  OutInv' /\ Fifo!Next
  BY <1>3, BroadcastOffers
<1>4. ASSUME NEW c \in Clients, Connect(c) PROVE OutInv' /\ Fifo!Next
  BY <1>4, ConnectJoins
<1>5. ASSUME NEW c \in Clients, send_to_client(c) PROVE OutInv' /\ Fifo!Next
  BY <1>5, ReplyOffers
<1>6. ASSUME NEW c \in Clients, Flush(c) PROVE OutInv' /\ [Fifo!Next]_(Fifo!vars)
  BY <1>6, FlushDelivers DEF Flush
<1>7. ASSUME NEW c \in Clients, remove_client(c) PROVE OutInv' /\ Fifo!Next
  BY <1>7, RemoveLeaves
<1>8. QED
  BY <1>1, <1>2, <1>3, <1>4, <1>5, <1>6, <1>7 DEF QueueNext

\* At first nothing was sent, and nothing waits.
LEMMA StartIsLossyFifo ==
  ASSUME QueueInit
  PROVE  OutInv /\ Fifo!Init
<1>1. /\ unborn = Clients /\ live = {} /\ sent = 0
      /\ \A c \in Clients : wq[c] = sm_client_new /\ wire[c] = <<>>
  BY DEF QueueInit
<1>2. OutInv
  BY <1>1, NewIs DEF OutInv
<1>3. ASSUME NEW c \in Clients PROVE Waiting(c) = <<>> /\ Arrived(c) = <<>> /\ wq[c].drops = 0
  <2>1. Waiting(c) = <<>> /\ wq[c].drops = 0
    BY <1>1, NewIs, SaysIs, Views
  <2>2. PICK b \in Seq(Stream) : b = wire[c] /\ Len(b) = 0
    <3>1. <<>> \in Seq(Stream) /\ Len(<<>>) = 0
      OBVIOUS
    <3>2. QED
      BY <1>1, <3>1
  <2>3. LastEnd(b) = 0
    BY <2>2, LastEndIs DEF Ends
  <2>4. IsStream(b, 0)
    BY DEF IsStream
  <2>5. TextOf(b, 0) = <<>>
    BY <2>4, TextIs DEF Reads
  <2>6. QED
    BY <2>1, <2>2, <2>3, <2>5, Views DEF Heard
<1>4. Fifo!Init
  BY <1>1, <1>3 DEF Fifo!Init
<1>5. QED
  BY <1>2, <1>4

\* The queues keep the promise of LossyFifo, for any number of clients, any
\* size of the queues and any limit of merging: a client receives the messages
\* it was sent whole, once and in order, however sm_client_send_shared merges
\* their lines and however the kernel cuts them, and misses only those a full
\* queue counted in wq_drops.
THEOREM OrderSafety == QueueSpec => DeliversInOrder
<1>1. QueueInit => OutInv /\ Fifo!Init
  BY StartIsLossyFifo
<1>2. QInv /\ OutInv /\ [QueueNext]_queueVars => OutInv' /\ [Fifo!Next]_(Fifo!vars)
  BY StepIsLossyFifo
<1>3. QED
  BY <1>1, <1>2, QueueInvariant, PTL DEF QueueSpec, DeliversInOrder, Fifo!Spec

-----------------------------------------------------------------------------
(* Arrays from which entries are removed.                                  *)

Once(s) == \A i, j \in 1 .. Len(s) : s[i] = s[j] => i = j
In(x, s) == \E i \in 1 .. Len(s) : s[i] = x

\* Being in a sequence's range is being at one of its places.
LEMMA InRange ==
  ASSUME NEW S, NEW s \in Seq(S), NEW x
  PROVE  x \in Range(s) <=> In(x, s)
<1>1. DOMAIN s = 1 .. Len(s)
  OBVIOUS
<1>2. QED
  BY <1>1 DEF Range, In

\* The last entry takes the place of entry i.
LEMMA SwapOutIs ==
  ASSUME NEW S, NEW s \in Seq(S), NEW i \in 1 .. Len(s), NEW v, v = SwapOut(s, i)
  PROVE  /\ v \in Seq(S) /\ Len(v) = Len(s) - 1
         /\ \A j \in 1 .. Len(v) : v[j] = IF j = i THEN s[Len(s)] ELSE s[j]
<1>1. PICK n \in Nat : n = Len(s)
  OBVIOUS
<1>2. PICK m \in Nat : m = n - 1
  BY <1>1
<1>3. PICK w : w = [s EXCEPT ![i] = s[Len(s)]]
  OBVIOUS
<1>4. Len(s) \in 1 .. Len(s) /\ s[Len(s)] \in S
  OBVIOUS
<1>5. w \in Seq(S) /\ Len(w) = n /\ \A j \in 1 .. n : w[j] = IF j = i THEN s[Len(s)] ELSE s[j]
  BY <1>1, <1>3, <1>4
<1>6. v = SubSeq(w, 1, m)
  BY <1>1, <1>2, <1>3 DEF SwapOut
<1>7. v \in Seq(S) /\ Len(v) = m /\ \A j \in 1 .. m : v[j] = w[j]
  BY <1>1, <1>2, <1>5, <1>6
<1>8. QED
  BY <1>1, <1>2, <1>5, <1>7

\* The sweep goes through the array.
LEMMA WithoutRuns ==
  ASSUME NEW s, NEW went, NEW n \in Nat, n = Len(s), NEW S, s \in S[0],
         \A k \in 1 .. n : \A x \in S[k - 1] : Swept(x, Len(s) + 1 - k, went) \in S[k]
  PROVE  Without(s, went) \in S[n]
<1> DEFINE step == [k \in 1 .. n |-> [x \in S[k - 1] |-> Swept(x, Len(s) + 1 - k, went)]]
           Is(f) == f = [k \in 0 .. n |-> IF k = 0 THEN s ELSE Swept(f[k - 1], Len(s) + 1 - k, went)]
           pass == CHOOSE f : Is(f)
<1>1. Without(s, went) = pass[n]
  BY DEF Without
<1> HIDE DEF pass
<1>2. \A k \in 1 .. n : \A x \in S[k - 1] : step[k][x] = Swept(x, Len(s) + 1 - k, went)
  OBVIOUS
<1> HIDE DEF step
<1>3. \A k \in 1 .. n : \A x \in S[k - 1] : step[k][x] \in S[k]
  BY <1>2
<1>4. PICK f : /\ f = [k \in 0 .. n |-> f[k]] /\ IsRun(f, s, step, n)
               /\ \A k \in 0 .. n : f[k] \in S[k]
  BY <1>3, Runs
<1>5. \A k \in 1 .. n : f[k] = Swept(f[k - 1], Len(s) + 1 - k, went)
  <2>1. \A k \in 1 .. n : f[k - 1] \in S[k - 1]
    BY <1>4
  <2>2. QED
    BY <1>2, <1>4, <2>1 DEF IsRun
<1>6. Is(f)
  <2>1. \A k \in 0 .. n : f[k] = IF k = 0 THEN s ELSE Swept(f[k - 1], Len(s) + 1 - k, went)
    <3>1. \A k \in 0 .. n : k = 0 \/ k \in 1 .. n
      OBVIOUS
    <3>2. QED
      BY <1>4, <1>5, <3>1 DEF IsRun
  <2>2. f \in [0 .. n -> {f[k] : k \in 0 .. n}]
    BY <1>4
  <2>3. QED
    BY <2>1, <2>2
<1>7. Is(pass)
  BY <1>6 DEF pass
<1>8. pass[0] = s /\ \A k \in 1 .. n : pass[k] = Swept(pass[k - 1], Len(s) + 1 - k, went)
  BY <1>7
<1> DEFINE Good == {k \in 0 .. n : pass[k] \in S[k]}
<1>9. 0 \in Good
  BY <1>8
<1>10. ASSUME NEW k \in 1 .. n, k - 1 \in Good PROVE k \in Good
  BY <1>8, <1>10
<1>11. \A k \in 0 .. n : k \in Good
  <2> HIDE DEF Good
  <2>1. QED
    BY <1>9, <1>10, Induction
<1>12. QED
  BY <1>1, <1>11

\* The array when the sweep has come down to entry n - k.
Sifted(s, went, n, k, u) ==
  /\ Once(u) /\ Len(u) >= n - k /\ Len(u) <= n
  /\ \A i \in 1 .. Len(u) : In(u[i], s) /\ (i > n - k => u[i] \notin went)
  /\ \A i \in 1 .. n : s[i] \notin went => In(s[i], u)

\* One more place of the sweep from the end is done.
LEMMA SweptIs ==
  ASSUME NEW S, NEW s \in Seq(S), NEW n \in Nat, n = Len(s), NEW went, NEW k \in 1 .. n,
         NEW u \in Seq(S), Sifted(s, went, n, k - 1, u), NEW v, v = Swept(u, n + 1 - k, went)
  PROVE  v \in Seq(S) /\ Sifted(s, went, n, k, v)
<1>1. PICK i \in 1 .. n : i = n + 1 - k
  OBVIOUS
<1>2. PICK m \in Nat : m = Len(u)
  OBVIOUS
<1>3. i \in 1 .. m /\ m <= n /\ n - k = i - 1 /\ n - (k - 1) = i
  BY <1>1, <1>2 DEF Sifted
<1>4. /\ Once(u) /\ \A j \in 1 .. m : In(u[j], s) /\ (j > i => u[j] \notin went)
      /\ \A j \in 1 .. n : s[j] \notin went => In(s[j], u)
  BY <1>1, <1>2, <1>3 DEF Sifted
<1>5. v = Swept(u, i, went)
  BY <1>1
<1>6. CASE u[i] \notin went
  <2>1. v = u
    BY <1>5, <1>6 DEF Swept
  <2>2. \A j \in 1 .. m : j > i - 1 => u[j] \notin went
    BY <1>3, <1>4, <1>6
  <2>3. QED
    BY <1>2, <1>3, <1>4, <2>1, <2>2 DEF Sifted
<1>7. CASE u[i] \in went
  <2>1. v = SwapOut(u, i)
    BY <1>5, <1>7 DEF Swept
  <2>2. /\ v \in Seq(S) /\ Len(v) = m - 1
        /\ \A j \in 1 .. Len(v) : v[j] = IF j = i THEN u[m] ELSE u[j]
    BY <1>2, <1>3, <2>1, SwapOutIs
  <2>3. PICK l \in Nat : l = m - 1 /\ Len(v) = l
    BY <1>3, <2>2
  <2>4. \A j \in 1 .. l : v[j] = IF j = i THEN u[m] ELSE u[j]
    BY <2>2, <2>3
  <2>5. Once(v)
    <3>1. SUFFICES ASSUME NEW x \in 1 .. l, NEW y \in 1 .. l, v[x] = v[y] PROVE x = y
      BY <2>3 DEF Once
    <3>2. x \in 1 .. m /\ y \in 1 .. m /\ x # m /\ y # m /\ m \in 1 .. m
      BY <2>3
    <3>3. \A a, b \in 1 .. m : u[a] = u[b] => a = b
      BY <1>2, <1>4 DEF Once
    <3>4. v[x] = (IF x = i THEN u[m] ELSE u[x]) /\ v[y] = (IF y = i THEN u[m] ELSE u[y])
      BY <2>4
    <3>5. QED
      BY <3>1, <3>2, <3>3, <3>4
  <2>6. ASSUME NEW j \in 1 .. l PROVE In(v[j], s) /\ (j > i - 1 => v[j] \notin went)
    <3>1. j \in 1 .. m /\ m \in 1 .. m /\ j # m
      BY <2>3
    <3>2. v[j] = IF j = i THEN u[m] ELSE u[j]
      BY <2>4
    <3>3. CASE j = i
      <4>1. m > i
        BY <2>3, <3>1, <3>3
      <4>2. QED
        BY <1>4, <3>1, <3>2, <3>3, <4>1
    <3>4. CASE j # i
      <4>1. v[j] = u[j] /\ In(u[j], s) /\ (j > i => u[j] \notin went)
        BY <1>4, <3>1, <3>2, <3>4
      <4>2. j > i - 1 => j > i
        BY <1>3, <3>4
      <4>3. QED
        BY <4>1, <4>2
    <3>5. QED
      BY <3>3, <3>4
  <2>7. ASSUME NEW j \in 1 .. n, s[j] \notin went PROVE In(s[j], v)
    <3>1. PICK x \in 1 .. m : u[x] = s[j]
      BY <1>2, <1>4, <2>7 DEF In
    <3>2. x # i
      BY <1>7, <2>7, <3>1
    <3>3. CASE x = m
      <4>1. i \in 1 .. l
        BY <1>3, <2>3, <3>2, <3>3
      <4>2. v[i] = u[m]
        BY <2>4, <4>1
      <4>3. QED
        BY <2>3, <3>1, <3>3, <4>1, <4>2 DEF In
    <3>4. CASE x # m
      <4>1. x \in 1 .. l
        BY <2>3, <3>4
      <4>2. v[x] = u[x]
        BY <2>4, <3>2, <4>1
      <4>3. QED
        BY <2>3, <3>1, <4>1, <4>2 DEF In
    <3>5. QED
      BY <3>3, <3>4
  <2>8. l >= n - k /\ l <= n
    BY <1>3, <2>3
  <2>9. QED
    BY <1>3, <2>2, <2>3, <2>5, <2>6, <2>7, <2>8 DEF Sifted
<1>8. QED
  BY <1>6, <1>7

\* What the sweep leaves is what is not in went, each once.
LEMMA WithoutIs ==
  ASSUME NEW S, NEW s \in Seq(S), Once(s), NEW went, NEW v, v = Without(s, went)
  PROVE  v \in Seq(S) /\ Once(v) /\ \A x : In(x, v) <=> In(x, s) /\ x \notin went
<1>1. PICK n \in Nat : n = Len(s)
  OBVIOUS
<1> DEFINE G == [k \in 0 .. n |-> {u \in Seq(S) : Sifted(s, went, n, k, u)}]
<1>2. Sifted(s, went, n, 0, s)
  BY <1>1 DEF Sifted, In
<1>3. \A k \in 0 .. n : G[k] = {u \in Seq(S) : Sifted(s, went, n, k, u)}
  OBVIOUS
<1> HIDE DEF G
<1>4. s \in G[0]
  BY <1>2, <1>3
<1>5. ASSUME NEW k \in 1 .. n, NEW u \in G[k - 1]
      PROVE  Swept(u, Len(s) + 1 - k, went) \in G[k]
  <2>1. k \in 0 .. n /\ k - 1 \in 0 .. n
    OBVIOUS
  <2>2. u \in Seq(S) /\ Sifted(s, went, n, k - 1, u)
    BY <1>3, <2>1
  <2>3. PICK w : w = Swept(u, n + 1 - k, went)
    OBVIOUS
  <2>4. w \in Seq(S) /\ Sifted(s, went, n, k, w)
    BY <1>1, <2>2, <2>3, SweptIs
  <2>5. w \in G[k]
    BY <1>3, <2>1, <2>4
  <2>6. QED
    BY <1>1, <2>3, <2>5
<1>6. v \in G[n]
  BY <1>1, <1>4, <1>5, WithoutRuns
<1>7. v \in Seq(S) /\ Sifted(s, went, n, n, v)
  BY <1>3, <1>6
<1>8. \A i \in 1 .. Len(v) : In(v[i], s) /\ v[i] \notin went
  BY <1>7 DEF Sifted
<1>9. \A i \in 1 .. n : s[i] \notin went => In(s[i], v)
  BY <1>7 DEF Sifted
<1>10. ASSUME NEW x PROVE In(x, v) <=> In(x, s) /\ x \notin went
  <2>1. ASSUME In(x, v) PROVE In(x, s) /\ x \notin went
    <3>1. PICK i \in 1 .. Len(v) : v[i] = x
      BY <2>1 DEF In
    <3>2. QED
      BY <1>8, <3>1
  <2>2. ASSUME In(x, s), x \notin went PROVE In(x, v)
    <3>1. PICK i \in 1 .. n : s[i] = x
      BY <1>1, <2>2 DEF In
    <3>2. QED
      BY <1>9, <2>2, <3>1
  <2>3. QED
    BY <2>1, <2>2
<1>11. QED
  BY <1>7, <1>10 DEF Sifted

-----------------------------------------------------------------------------
(* The broker's table.                                                     *)

IsTable(t) ==
  t = [heap |-> t.heap, clients |-> t.clients, fd |-> t.fd, closings |-> t.closings,
       inbox |-> t.inbox, outbox |-> t.outbox, due |-> t.due, owed |-> t.owed, proper |-> t.proper]

\* Closing a connection leaves the array and the heap alone.
LEMMA ClosingFields ==
  ASSUME NEW t, IsTable(t), NEW p \in Peers, NEW n, NEW u, u = TableClosing(t, p, n)
  PROVE  /\ IsTable(u) /\ u.heap = t.heap /\ u.clients = t.clients
         /\ u.fd = [t.fd EXCEPT ![p] = "closed"]
         /\ u.closings = [t.closings EXCEPT ![p] = t.closings[p] + n]
         /\ u.inbox = [t.inbox EXCEPT ![p] = <<>>]
BY DEF IsTable, TableClosing

\* A client enters the table at address a.
Entered(t, p, a, c) == [t EXCEPT !.heap[a] = c, !.clients = Append(@, a), !.fd[p] = "held"]
Enters(t, u, p, a, auth) == u = Entered(t, p, a, NewClient(p, auth))

\* Where a peer's descriptor may be.
Ways == {"none", "pipe", "held", "closed"}

\* A client's record.
ClientRec(c) ==
  /\ c = [peer |-> c.peer, auth |-> c.auth, hello |-> c.hello, name |-> c.name,
          dropped |-> c.dropped]
  /\ c.peer \in Peers

\* The array, the heap and the descriptors fit together.
Held(t) ==
  /\ t.heap = [a \in Addresses |-> t.heap[a]]
  /\ t.clients \in Seq(Addresses) /\ Once(t.clients)
  /\ \A a \in Addresses : IF In(a, t.clients) THEN ClientRec(t.heap[a]) ELSE t.heap[a] = Free
  /\ \A a, b \in Addresses :
       In(a, t.clients) /\ In(b, t.clients) /\ t.heap[a].peer = t.heap[b].peer => a = b
  /\ t.fd \in [Peers -> Ways]
  /\ \A a \in Addresses : In(a, t.clients) => t.fd[t.heap[a].peer] = "held"
  /\ \A p \in Peers : t.fd[p] = "held" =>
                        \E a \in Addresses : In(a, t.clients) /\ t.heap[a].peer = p

\* A descriptor is closed once.
Sums(t) ==
  /\ t.closings \in [Peers -> Nat]
  /\ "buffers" \notin AllocFailures =>
       \A p \in Peers : t.closings[p] = IF t.fd[p] = "closed" THEN 1 ELSE 0

IsSeq(s) == \E S : s \in Seq(S)
Boxes(t) == t.inbox = [p \in Peers |-> t.inbox[p]] /\ \A p \in Peers : IsSeq(t.inbox[p])

\* Replies are kept for the peers of the thread only; D is the door of each peer.
Outs(t, D) ==
  /\ t.outbox = [p \in Peers |-> t.outbox[p]]
  /\ \A p \in Peers : D[p] # "ws" \/ t.fd[p] = "none" => t.outbox[p] = <<>>

\* Who is past the hello said a proper one, and who came from outside was asked for the token.
Greeted(t, D) ==
  \A a \in Addresses :
    In(a, t.clients) => /\ t.heap[a].hello => t.heap[a].peer \in t.proper
                        /\ D[t.heap[a].peer] # "unix" => t.heap[a].auth = TRUE

\* The names of the clients that are not in went.
Named(t, went) ==
  \A a, b \in Addresses \ went :
    In(a, t.clients) /\ In(b, t.clients) /\ a # b /\ t.heap[a].hello /\ t.heap[b].hello =>
      t.heap[a].name = "" \/ t.heap[a].name # t.heap[b].name

\* All of it: D is the door of each peer.
Sound(t, D) ==
  IsTable(t) /\ Held(t) /\ Sums(t) /\ Boxes(t) /\ Outs(t, D) /\ Greeted(t, D) /\ Named(t, {})

\* The array and the clients in it are the same.
SameClients(t, u) == u.heap = t.heap /\ u.clients = t.clients

\* Names depend on the clients only.
LEMMA SameNamed ==
  ASSUME NEW t, NEW u, SameClients(t, u), NEW went, Named(t, went)
  PROVE  Named(u, went)
BY DEF SameClients, Named

\* So does who was greeted, while proper only grows.
LEMMA SameGreeted ==
  ASSUME NEW t, NEW u, NEW D, SameClients(t, u), t.proper \subseteq u.proper, Greeted(t, D)
  PROVE  Greeted(u, D)
BY DEF SameClients, Greeted

\* The empty sequence is a sequence.
LEMMA EmptyIsSeq == IsSeq(<<>>)
<1>1. <<>> \in Seq({})
  OBVIOUS
<1>2. QED
  BY <1>1 DEF IsSeq

\* A descriptor that no client holds is closed.
LEMMA ClosingSound ==
  ASSUME NEW t, NEW D, Sound(t, D), NEW p \in Peers, t.fd[p] \in {"none", "pipe"},
         NEW n \in Nat, n = 1 \/ "buffers" \in AllocFailures, NEW u, u = TableClosing(t, p, n)
  PROVE  Sound(u, D) /\ u.fd = [t.fd EXCEPT ![p] = "closed"]
<1>1. IsTable(t) /\ Held(t) /\ Sums(t) /\ Boxes(t) /\ Outs(t, D) /\ Greeted(t, D) /\ Named(t, {})
  BY DEF Sound
<1>2. /\ IsTable(u) /\ u.heap = t.heap /\ u.clients = t.clients
      /\ u.fd = [t.fd EXCEPT ![p] = "closed"]
      /\ u.closings = [t.closings EXCEPT ![p] = t.closings[p] + n]
      /\ u.inbox = [t.inbox EXCEPT ![p] = <<>>]
  BY <1>1, ClosingFields
<1>3. u.outbox = t.outbox /\ u.proper = t.proper
  BY <1>1 DEF IsTable, TableClosing
<1>4. SameClients(t, u)
  BY <1>2 DEF SameClients
<1>5. t.fd \in [Peers -> Ways]
  BY <1>1 DEF Held
<1>6. /\ u.fd \in [Peers -> Ways] /\ u.fd[p] = "closed"
      /\ \A q \in Peers : q # p => u.fd[q] = t.fd[q]
  BY <1>2, <1>5 DEF Ways
<1>7. Held(u)
  <2>1. \A a \in Addresses : In(a, t.clients) => t.heap[a].peer \in Peers /\ t.heap[a].peer # p
    BY <1>1 DEF Held, ClientRec
  <2>2. \A a \in Addresses : In(a, u.clients) => u.fd[u.heap[a].peer] = "held"
    BY <1>1, <1>2, <1>6, <2>1 DEF Held
  <2>3. \A q \in Peers : u.fd[q] = "held" =>
                        \E a \in Addresses : In(a, u.clients) /\ u.heap[a].peer = q
    BY <1>1, <1>2, <1>6 DEF Held
  <2>4. QED
    BY <1>1, <1>2, <1>6, <2>2, <2>3 DEF Held
<1>8. Sums(u)
  <2>1. t.closings \in [Peers -> Nat]
    BY <1>1 DEF Sums
  <2>2. /\ u.closings \in [Peers -> Nat] /\ u.closings[p] = t.closings[p] + n
        /\ \A q \in Peers : q # p => u.closings[q] = t.closings[q]
    BY <1>2, <2>1
  <2>3. ASSUME "buffers" \notin AllocFailures, NEW q \in Peers
        PROVE  u.closings[q] = IF u.fd[q] = "closed" THEN 1 ELSE 0
    <3>1. t.closings[q] = IF t.fd[q] = "closed" THEN 1 ELSE 0
      BY <1>1, <2>3 DEF Sums
    <3>2. CASE q = p
      <4>1. t.closings[p] = 0 /\ n = 1
        BY <2>3, <3>1, <3>2
      <4>2. QED
        BY <1>6, <2>2, <3>2, <4>1
    <3>3. CASE q # p
      BY <1>6, <2>2, <3>1, <3>3
    <3>4. QED
      BY <3>2, <3>3
  <2>4. QED
    BY <2>2, <2>3 DEF Sums
<1>9. Boxes(u)
  BY <1>1, <1>2, EmptyIsSeq DEF Boxes
<1>10. Outs(u, D)
  BY <1>1, <1>3, <1>6 DEF Outs
<1>11. Greeted(u, D) /\ Named(u, {})
  BY <1>1, <1>3, <1>4, SameGreeted, SameNamed
<1>12. QED
  BY <1>2, <1>7, <1>8, <1>9, <1>10, <1>11 DEF Sound

\* A free place of the heap holds no client.
LEMMA FreeIsNone == ~ ClientRec(Free)
BY RegistrationAssumption DEF ClientRec, Free, NewClient

\* While the array is not full there is a free address.
LEMMA FreeAddress ==
  ASSUME NEW t, Held(t), Len(t.clients) < ClientCap,
         NEW a, a = Min({x \in Addresses : t.heap[x] = Free})
  PROVE  a \in Addresses /\ ~ In(a, t.clients)
<1> DEFINE A == {x \in Addresses : t.heap[x] = Free}
<1>1. ClientCap \in Nat \ {0}
  BY RegistrationAssumption
<1>2. PICK s : s = t.clients
  OBVIOUS
<1>3. s \in Seq(Addresses)
  BY <1>2 DEF Held
<1>4. PICK m \in Nat : m = Len(s)
  BY <1>3
<1>5. \A x \in Addresses : ~ In(x, s) <=> t.heap[x] = Free
  BY <1>2, FreeIsNone DEF Held
<1>6. A # {}
  <2>1. SUFFICES ASSUME \A x \in Addresses : In(x, s) PROVE FALSE
    BY <1>5
  <2>2. s \in [1 .. m -> Addresses]
    BY <1>3, <1>4
  <2>3. \A x \in Addresses : \E i \in 1 .. m : s[i] = x
    BY <1>4, <2>1 DEF In
  <2>4. s \in Surjection(1 .. m, Addresses)
    BY <2>2, <2>3 DEF Surjection
  <2>5. /\ IsFiniteSet(1 .. m) /\ Cardinality(1 .. m) = m
    BY FS_Interval
  <2>8. Cardinality(1 .. ClientCap) = ClientCap
    BY <1>1, FS_Interval
  <2>6. Cardinality(Addresses) <= Cardinality(1 .. m)
    BY <2>4, <2>5, FS_Surjection
  <2>7. QED
    BY <1>1, <1>2, <1>4, <2>5, <2>6, <2>8 DEF Addresses
<1>7. A \in SUBSET Nat
  BY <1>1 DEF Addresses
<1>8. Min(A) \in A
  BY <1>6, <1>7, MinIsLeast
<1>9. QED
  BY <1>2, <1>5, <1>8

\* The peer's descriptor has found its place.
Took(t, u, p) == /\ u.fd[p] \in {"held", "closed"}
                 /\ \A q \in Peers : q # p => u.fd[q] = t.fd[q]

\* Whoever does not come by the Unix socket is asked for the token.
Asked(D, p, auth) == D[p] # "unix" => auth = TRUE

\* A client enters.
LEMMA EnteredSound ==
  ASSUME NEW t, NEW D, Sound(t, D), NEW p \in Peers, t.fd[p] \in {"none", "pipe"},
         NEW a \in Addresses, ~ In(a, t.clients), NEW auth, Asked(D, p, auth), NEW u,
         Enters(t, u, p, a, auth)
  PROVE  Sound(u, D) /\ Took(t, u, p)
<1>1. IsTable(t) /\ Held(t) /\ Sums(t) /\ Boxes(t) /\ Outs(t, D) /\ Greeted(t, D) /\ Named(t, {})
  BY DEF Sound
<1>2. PICK c : c = NewClient(p, auth)
  OBVIOUS
<1>3. ClientRec(c) /\ c.peer = p /\ c.auth = auth /\ c.hello = FALSE
  BY <1>2 DEF NewClient, ClientRec
<1>4. /\ IsTable(u) /\ u.heap = [t.heap EXCEPT ![a] = c] /\ u.clients = Append(t.clients, a)
      /\ u.fd = [t.fd EXCEPT ![p] = "held"]
      /\ u.closings = t.closings /\ u.inbox = t.inbox
      /\ u.outbox = t.outbox /\ u.proper = t.proper
  <2>1. u = Entered(t, p, a, c)
    BY <1>2 DEF Enters
  <2>2. IsTable(t)
    BY <1>1
  <2>3. QED
    BY <2>1, <2>2 DEF IsTable, Entered
<1>5. u.outbox = t.outbox /\ u.proper = t.proper
  BY <1>4
<1>6. t.fd \in [Peers -> Ways] /\ t.clients \in Seq(Addresses) /\ t.heap = [x \in Addresses |-> t.heap[x]]
  BY <1>1 DEF Held
<1>7. /\ u.fd \in [Peers -> Ways] /\ u.fd[p] = "held"
      /\ \A q \in Peers : q # p => u.fd[q] = t.fd[q]
  BY <1>4, <1>6 DEF Ways
<1>8. /\ u.heap = [x \in Addresses |-> u.heap[x]] /\ u.heap[a] = c
      /\ \A x \in Addresses : x # a => u.heap[x] = t.heap[x]
  BY <1>4, <1>6
<1>9. u.clients \in Seq(Addresses) /\ Once(u.clients) /\ \A x : In(x, u.clients) <=> In(x, t.clients) \/ x = a
  <2>1. PICK s : s = t.clients
    OBVIOUS
  <2>2. PICK v : v = u.clients
    OBVIOUS
  <2>3. PICK m \in Nat : m = Len(s)
    BY <1>6, <2>1
  <2>4. /\ v \in Seq(Addresses) /\ Len(v) = m + 1 /\ v[m + 1] = a
        /\ \A i \in 1 .. m : v[i] = s[i]
    BY <1>4, <1>6, <2>1, <2>2, <2>3
  <2>5. \A i \in 1 .. m : s[i] # a
    BY <2>1, <2>3 DEF In
  <2>6. \A i \in 1 .. (m + 1) : i \in 1 .. m \/ i = m + 1
    OBVIOUS
  <2>7. \A i, j \in 1 .. m : s[i] = s[j] => i = j
    BY <1>1, <2>1, <2>3 DEF Held, Once
  <2>8. Once(v)
    BY <2>4, <2>5, <2>6, <2>7 DEF Once
  <2>9. \A x : In(x, v) <=> In(x, s) \/ x = a
    <3>1. m + 1 \in 1 .. (m + 1) /\ \A i \in 1 .. m : i \in 1 .. (m + 1)
      OBVIOUS
    <3>2. QED
      BY <2>3, <2>4, <2>6, <3>1 DEF In
  <2>10. QED
    BY <2>1, <2>2, <2>4, <2>8, <2>9
<1>10. \A x \in Addresses : In(x, t.clients) => x # a /\ ClientRec(t.heap[x]) /\ t.heap[x].peer \in Peers /\ t.heap[x].peer # p
  BY <1>1 DEF Held, ClientRec
<1>11. Held(u)
  <2>1. \A x \in Addresses : IF In(x, u.clients) THEN ClientRec(u.heap[x]) ELSE u.heap[x] = Free
    BY <1>1, <1>3, <1>8, <1>9 DEF Held
  <2>2. ASSUME NEW x \in Addresses, NEW y \in Addresses, In(x, u.clients), In(y, u.clients),
               u.heap[x].peer = u.heap[y].peer
        PROVE  x = y
    <3>1. CASE x # a /\ y # a
      <4>1. u.heap[x] = t.heap[x] /\ u.heap[y] = t.heap[y] /\ In(x, t.clients) /\ In(y, t.clients)
        BY <1>8, <1>9, <2>2, <3>1
      <4>2. QED
        BY <1>1, <2>2, <4>1 DEF Held
    <3>2. ASSUME NEW z \in Addresses, z # a, In(z, u.clients) PROVE u.heap[z].peer # u.heap[a].peer
      BY <1>3, <1>8, <1>9, <1>10, <3>2
    <3>3. QED
      BY <2>2, <3>1, <3>2
  <2>3. \A x \in Addresses : In(x, u.clients) => u.fd[u.heap[x].peer] = "held"
    BY <1>1, <1>3, <1>7, <1>8, <1>9, <1>10 DEF Held
  <2>4. ASSUME NEW q \in Peers, u.fd[q] = "held"
        PROVE \E x \in Addresses : In(x, u.clients) /\ u.heap[x].peer = q
    <3>1. CASE q = p
      BY <1>3, <1>8, <1>9, <3>1
    <3>2. CASE q # p
      <4>1. PICK x \in Addresses : In(x, t.clients) /\ t.heap[x].peer = q
        BY <1>1, <1>7, <2>4, <3>2 DEF Held
      <4>2. QED
        BY <1>8, <1>9, <1>10, <4>1
    <3>3. QED
      BY <3>1, <3>2
  <2>5. QED
    BY <1>7, <1>8, <1>9, <2>1, <2>2, <2>3, <2>4 DEF Held
<1>12. Sums(u)
  BY <1>1, <1>4, <1>7 DEF Sums
<1>13. Boxes(u)
  BY <1>1, <1>4 DEF Boxes
<1>14. Outs(u, D)
  BY <1>1, <1>5, <1>7 DEF Outs
<1>15. Greeted(u, D)
  BY <1>1, <1>3, <1>5, <1>8, <1>9 DEF Greeted, Asked
<1>16. Named(u, {})
  <2>1. ~ u.heap[a].hello
    BY <1>3, <1>8
  <2>2. ASSUME NEW x \in Addresses, NEW y \in Addresses, In(x, u.clients), In(y, u.clients),
               x # y, u.heap[x].hello, u.heap[y].hello
        PROVE  u.heap[x].name = "" \/ u.heap[x].name # u.heap[y].name
    <3>1. x # a /\ y # a
      BY <2>1, <2>2
    <3>2. u.heap[x] = t.heap[x] /\ u.heap[y] = t.heap[y] /\ In(x, t.clients) /\ In(y, t.clients)
      BY <1>8, <1>9, <2>2, <3>1
    <3>3. QED
      BY <1>1, <2>2, <3>2 DEF Named
  <2>3. QED
    BY <2>2 DEF Named
<1>17. Took(t, u, p)
  BY <1>7 DEF Took
<1>18. QED
  BY <1>4, <1>11, <1>12, <1>13, <1>14, <1>15, <1>16, <1>17 DEF Sound

\* Registering a connection, with every failure it may meet, keeps the table sound.
LEMMA RegisterSound ==
  ASSUME NEW t, NEW D, Sound(t, D), NEW p \in Peers, t.fd[p] \in {"none", "pipe"},
         NEW auth, Asked(D, p, auth), NEW outcome \in Outcomes, NEW u,
         u = sm_broker_register_client(t, p, auth, outcome)
  PROVE  Sound(u, D) /\ Took(t, u, p)
<1>1. t.fd \in [Peers -> Ways]
  BY DEF Sound, Held
<1>2. ASSUME NEW n \in {1, 2}, n = 1 \/ "buffers" \in AllocFailures, u = TableClosing(t, p, n)
      PROVE  Sound(u, D) /\ Took(t, u, p)
  <2>1. n \in Nat
    OBVIOUS
  <2>2. Sound(u, D) /\ u.fd = [t.fd EXCEPT ![p] = "closed"]
    BY <1>2, <2>1, ClosingSound
  <2>3. QED
    BY <1>1, <2>2 DEF Took
<1>3. PICK a : a = Min({x \in Addresses : t.heap[x] = Free})
  OBVIOUS
<1>4. ASSUME Len(t.clients) < ClientCap, Enters(t, u, p, a, auth)
      PROVE  Sound(u, D) /\ Took(t, u, p)
  <2>1. a \in Addresses /\ ~ In(a, t.clients)
    BY <1>3, <1>4, FreeAddress DEF Sound
  <2>2. QED
    BY <1>4, <2>1, EnteredSound
<1>5. Len(t.clients) \in Nat /\ ClientCap \in Nat
  BY RegistrationAssumption DEF Sound, Held
<1>6. outcome \in {"ok", "epoll", "struct", "buffers"} /\ (outcome = "buffers" => "buffers" \in AllocFailures)
  BY RegistrationAssumption DEF Outcomes
<1>7. CASE Len(t.clients) >= ClientCap \/ outcome \in {"struct", "epoll"}
  <2>1. u = TableClosing(t, p, 1)
    BY <1>7 DEF sm_broker_register_client
  <2>2. QED
    BY <1>2, <2>1
<1>8. CASE ~ (Len(t.clients) >= ClientCap) /\ outcome = "buffers"
  <2>1. u = TableClosing(t, p, 2)
    BY <1>8 DEF sm_broker_register_client
  <2>2. QED
    BY <1>2, <1>6, <1>8, <2>1
<1>9. CASE ~ (Len(t.clients) >= ClientCap) /\ outcome = "ok"
  <2>1. u = Entered(t, p, a, NewClient(p, auth))
    BY <1>3, <1>9 DEF sm_broker_register_client, Entered
  <2>2. Len(t.clients) < ClientCap
    BY <1>5, <1>9
  <2>3. QED
    BY <1>4, <2>1, <2>2 DEF Enters
<1>10. QED
  BY <1>6, <1>7, <1>8, <1>9

Registered(t, r, outcome) == sm_broker_register_client(t, r.peer, r.auth, outcome)

\* Registration goes through the records.
LEMMA RegisterRuns ==
  ASSUME NEW t, NEW records, NEW outcome, NEW n \in Nat, n = Len(records)
  PROVE  \E f : /\ f[0] = t /\ f[n] = RegisterAll(t, records, outcome)
               /\ \A k \in 1 .. n : f[k] = Registered(f[k - 1], records[k], outcome)
<1> DEFINE Is(f, m) == f = [k \in 0 .. m |-> IF k = 0 THEN t ELSE Registered(f[k - 1], records[k], outcome)]
           Good == {m \in 0 .. n : \E f : Is(f, m)}
           pass == CHOOSE f : Is(f, n)
<1>1. RegisterAll(t, records, outcome) = pass[n]
  BY DEF RegisterAll, Registered
<1> HIDE DEF pass
<1>2. 0 \in Good
  <2> DEFINE f == [k \in 0 .. 0 |-> t]
  <2>1. Is(f, 0)
    <3>1. \A k \in 0 .. 0 : k = 0
      OBVIOUS
    <3>2. QED
      BY <3>1
  <2> HIDE DEF f
  <2>2. QED
    BY <2>1
<1>3. ASSUME NEW m \in 1 .. n, m - 1 \in Good PROVE m \in Good
  <2>1. PICK f : Is(f, m - 1)
    BY <1>3
  <2>2. PICK next : next = Registered(f[m - 1], records[m], outcome)
    OBVIOUS
  <2> DEFINE h == [k \in 0 .. m |-> IF k = m THEN next ELSE f[k]]
  <2>3. h[m] = next /\ (\A k \in 0 .. (m - 1) : h[k] = f[k]) /\ h = [k \in 0 .. m |-> h[k]]
    OBVIOUS
  <2> HIDE DEF h
  <2>4. ASSUME NEW k \in 0 .. m PROVE h[k] = IF k = 0 THEN t ELSE Registered(h[k - 1], records[k], outcome)
    <3>1. CASE k = 0
      BY <2>1, <2>3, <3>1
    <3>2. CASE k = m /\ k # 0
      <4>1. m - 1 \in 0 .. (m - 1)
        OBVIOUS
      <4>2. h[m - 1] = f[m - 1]
        BY <2>3, <4>1
      <4>3. QED
        BY <2>2, <2>3, <3>2, <4>2
    <3>3. CASE k # m /\ k # 0
      <4>1. k \in 0 .. (m - 1) /\ k - 1 \in 0 .. (m - 1)
        BY <3>3
      <4>2. h[k] = f[k] /\ h[k - 1] = f[k - 1]
        BY <2>3, <4>1
      <4>3. f[k] = Registered(f[k - 1], records[k], outcome)
        BY <2>1, <3>3, <4>1
      <4>4. QED
        BY <3>3, <4>2, <4>3
    <3>4. QED
      BY <3>1, <3>2, <3>3
  <2>5. Is(h, m)
    BY <2>3, <2>4
  <2>6. QED
    BY <2>5
<1>4. n \in Good
  <2> HIDE DEF Good
  <2>1. \A k \in 0 .. n : k \in Good
    BY <1>2, <1>3, Induction
  <2>2. QED
    BY <2>1
<1>5. Is(pass, n)
  BY <1>4 DEF pass
<1>6. pass[0] = t /\ \A k \in 1 .. n : pass[k] = Registered(pass[k - 1], records[k], outcome)
  BY <1>5
<1>7. QED
  BY <1>1, <1>6

Records == [peer : Peers, auth : BOOLEAN]

\* The descriptors of the records are with nobody.
Arriving(t, D, records, n) ==
  /\ \A i, j \in 1 .. n : records[i].peer = records[j].peer => i = j
  /\ \A i \in 1 .. n : /\ t.fd[records[i].peer] \in {"none", "pipe"}
                       /\ Asked(D, records[i].peer, records[i].auth)

\* Those of the first k have found their place, the others are where they were.
Landed(t, u, records, k) ==
  /\ \A i \in 1 .. k : u.fd[records[i].peer] \in {"held", "closed"}
  /\ \A q \in Peers : (\A i \in 1 .. k : records[i].peer # q) => u.fd[q] = t.fd[q]

\* One more record of a list is registered.
LEMMA LandedStep ==
  ASSUME NEW t, NEW D, NEW records \in Seq(Records), NEW n \in Nat, n = Len(records),
         Arriving(t, D, records, n), NEW outcome \in Outcomes, NEW k \in 1 .. n,
         NEW u, Sound(u, D), Landed(t, u, records, k - 1),
         NEW v, v = Registered(u, records[k], outcome)
  PROVE  Sound(v, D) /\ Landed(t, v, records, k)
<1>1. PICK r : r = records[k]
  OBVIOUS
<1>2. r \in Records
  BY <1>1
<1>3. PICK p : p = r.peer
  OBVIOUS
<1>4. PICK auth : auth = r.auth
  OBVIOUS
<1>5. p \in Peers
  BY <1>2, <1>3 DEF Records
<1>6. Asked(D, p, auth) /\ t.fd[p] \in {"none", "pipe"}
  BY <1>1, <1>3, <1>4 DEF Arriving
<1>7. \A i \in 1 .. (k - 1) : i \in 1 .. n /\ i # k
  OBVIOUS
<1>8. \A i \in 1 .. (k - 1) : records[i].peer # p
  BY <1>1, <1>3, <1>7 DEF Arriving
<1>9. u.fd[p] \in {"none", "pipe"}
  BY <1>5, <1>6, <1>8 DEF Landed
<1>10. v = sm_broker_register_client(u, p, auth, outcome)
  BY <1>1, <1>3, <1>4 DEF Registered
<1>11. Sound(v, D) /\ Took(u, v, p)
  BY <1>5, <1>6, <1>9, <1>10, RegisterSound
<1>12. \A i \in 1 .. k : i \in 1 .. (k - 1) \/ i = k
  OBVIOUS
<1>13. \A i \in 1 .. (k - 1) : records[i].peer \in Peers
  <2>1. \A x \in Records : x.peer \in Peers
    BY DEF Records
  <2>2. \A i \in 1 .. n : records[i] \in Records
    OBVIOUS
  <2>3. QED
    BY <1>7, <2>1, <2>2
<1>14. \A i \in 1 .. k : v.fd[records[i].peer] \in {"held", "closed"}
  <2>1. \A i \in 1 .. (k - 1) : v.fd[records[i].peer] = u.fd[records[i].peer]
    BY <1>8, <1>11, <1>13 DEF Took
  <2>2. v.fd[records[k].peer] \in {"held", "closed"}
    BY <1>1, <1>3, <1>11 DEF Took
  <2>3. \A i \in 1 .. (k - 1) : v.fd[records[i].peer] \in {"held", "closed"}
    BY <2>1 DEF Landed
  <2>4. QED
    BY <1>12, <2>2, <2>3
<1>15. ASSUME NEW q \in Peers, \A i \in 1 .. k : records[i].peer # q PROVE v.fd[q] = t.fd[q]
  <2>1. q # p /\ \A i \in 1 .. (k - 1) : records[i].peer # q
    <3>1. k \in 1 .. k /\ \A i \in 1 .. (k - 1) : i \in 1 .. k
      OBVIOUS
    <3>2. QED
      BY <1>1, <1>3, <1>15, <3>1
  <2>2. v.fd[q] = u.fd[q]
    BY <1>11, <2>1 DEF Took
  <2>3. u.fd[q] = t.fd[q]
    BY <2>1 DEF Landed
  <2>4. QED
    BY <2>2, <2>3
<1>16. Landed(t, v, records, k)
  BY <1>14, <1>15 DEF Landed
<1>17. QED
  BY <1>11, <1>16

\* Registering a list of connections keeps the table sound and settles each of them.
LEMMA RegisterAllSound ==
  ASSUME NEW t, NEW D, Sound(t, D), NEW records \in Seq(Records), NEW n \in Nat, n = Len(records),
         Arriving(t, D, records, n), NEW outcome \in Outcomes,
         NEW u, u = RegisterAll(t, records, outcome)
  PROVE  Sound(u, D) /\ Landed(t, u, records, n)
<1>1. PICK f : /\ f[0] = t /\ f[n] = u
               /\ \A k \in 1 .. n : f[k] = Registered(f[k - 1], records[k], outcome)
  BY RegisterRuns
<1> DEFINE Good == {k \in 0 .. n : Sound(f[k], D) /\ Landed(t, f[k], records, k)}
<1>2. 0 \in Good
  <2>1. Landed(t, t, records, 0)
    <3>1. \A i \in 1 .. 0 : FALSE
      OBVIOUS
    <3>2. QED
      BY <3>1 DEF Landed
  <2>2. QED
    BY <1>1, <2>1
<1>3. ASSUME NEW k \in 1 .. n, k - 1 \in Good PROVE k \in Good
  <2>1. PICK w : w = f[k - 1]
    OBVIOUS
  <2>2. PICK v : v = f[k]
    OBVIOUS
  <2>3. Sound(w, D) /\ Landed(t, w, records, k - 1)
    BY <1>3, <2>1
  <2>4. v = Registered(w, records[k], outcome)
    BY <1>1, <2>1, <2>2
  <2>5. Sound(v, D) /\ Landed(t, v, records, k)
    BY <2>3, <2>4, LandedStep
  <2>6. QED
    BY <2>2, <2>5
<1>4. n \in Good
  <2> HIDE DEF Good
  <2>1. \A k \in 0 .. n : k \in Good
    BY <1>2, <1>3, Induction
  <2>2. QED
    BY <2>1
<1>5. QED
  BY <1>1, <1>4

-----------------------------------------------------------------------------
(* Clients are removed.                                                    *)

\* The clients of t that are removed, and those of p among them.
FreedOf(t, went) == {a \in Addresses : In(a, t.clients) /\ a \in went}
HoldersIn(t, S, p) == {a \in S : t.heap[a].peer = p}

IsRemoved(t, u, went, S) ==
  /\ IsTable(u) /\ u.clients = Without(t.clients, went)
  /\ u.heap = [a \in Addresses |-> IF a \in S THEN Free ELSE t.heap[a]]
  /\ u.fd = [p \in Peers |-> IF HoldersIn(t, S, p) = {} THEN t.fd[p] ELSE "closed"]
  /\ u.closings = [p \in Peers |-> t.closings[p] + Cardinality(HoldersIn(t, S, p))]
  /\ u.inbox = [p \in Peers |-> IF HoldersIn(t, S, p) = {} THEN t.inbox[p] ELSE <<>>]
  /\ u.outbox = t.outbox /\ u.proper = t.proper

\* What remove_client does to the fields of the table.
LEMMA RemovedFields ==
  ASSUME NEW t, IsTable(t), t.clients \in Seq(Addresses), Once(t.clients), NEW went,
         NEW S, S = FreedOf(t, went), NEW u, u = remove_clients(t, went)
  PROVE  IsRemoved(t, u, went, S)
<1>1. PICK kept : kept = Without(t.clients, went)
  OBVIOUS
<1>2. kept \in Seq(Addresses) /\ \A x : In(x, kept) <=> In(x, t.clients) /\ x \notin went
  BY <1>1, WithoutIs
<1>3. PICK freed : freed = Range(t.clients) \ Range(kept)
  OBVIOUS
<1>4. freed = S
  <2>1. \A x : x \in Range(kept) <=> In(x, kept)
    BY <1>2, InRange
  <2>2. \A x : x \in Range(t.clients) <=> In(x, t.clients)
    BY InRange
  <2>3. \A x : In(x, t.clients) => x \in Addresses
    BY DEF In
  <2>4. QED
    BY <1>2, <1>3, <2>1, <2>2, <2>3 DEF FreedOf
<1>5. u = [t EXCEPT !.clients = kept,
                !.heap = [a \in Addresses |-> IF a \in S THEN Free ELSE t.heap[a]],
                !.fd = [p \in Peers |-> IF HoldersIn(t, S, p) = {} THEN t.fd[p] ELSE "closed"],
                !.closings = [p \in Peers |-> t.closings[p] + Cardinality(HoldersIn(t, S, p))],
                !.inbox = [p \in Peers |-> IF HoldersIn(t, S, p) = {} THEN t.inbox[p] ELSE <<>>],
                !.due = [p \in Peers |-> IF HoldersIn(t, S, p) = {} THEN t.due[p] ELSE <<>>]]
  <2>1. S = Range(t.clients) \ Range(Without(t.clients, went))
    BY <1>1, <1>3, <1>4
  <2>2. QED
    BY <1>1, <2>1, Zenon DEF remove_clients, HoldersIn
<1>6. QED
  BY <1>1, <1>5 DEF IsTable, IsRemoved

\* Descriptors change only by being closed by their holder.
Fades(t, u) == \A p \in Peers : u.fd[p] = t.fd[p] \/ (t.fd[p] = "held" /\ u.fd[p] = "closed")

\* Sound, but for names.
Fit(t, D) == IsTable(t) /\ Held(t) /\ Sums(t) /\ Boxes(t) /\ Outs(t, D) /\ Greeted(t, D)

\* The clients of u are those of t that are not in went.
Remain(t, u, went) ==
  /\ \A a : In(a, u.clients) <=> In(a, t.clients) /\ a \notin went
  /\ \A a \in Addresses : In(a, u.clients) => u.heap[a] = t.heap[a]

\* Removing clients keeps the table sound if the names of those that stay are unique.
LEMMA RemovedSound ==
  ASSUME NEW t, NEW D, Fit(t, D), NEW went, Named(t, went), NEW u, u = remove_clients(t, went)
  PROVE  Sound(u, D) /\ Fades(t, u) /\ Remain(t, u, went)
<1>1. IsTable(t) /\ Held(t) /\ Sums(t) /\ Boxes(t) /\ Outs(t, D) /\ Greeted(t, D)
  BY DEF Fit
<1>2. /\ t.clients \in Seq(Addresses) /\ Once(t.clients) /\ t.fd \in [Peers -> Ways]
      /\ \A a \in Addresses : IF In(a, t.clients) THEN ClientRec(t.heap[a]) ELSE t.heap[a] = Free
  BY <1>1 DEF Held
<1>3. PICK S : S = FreedOf(t, went)
  OBVIOUS
<1>4. /\ IsTable(u) /\ u.clients = Without(t.clients, went)
      /\ u.heap = [a \in Addresses |-> IF a \in S THEN Free ELSE t.heap[a]]
      /\ u.fd = [p \in Peers |-> IF HoldersIn(t, S, p) = {} THEN t.fd[p] ELSE "closed"]
      /\ u.closings = [p \in Peers |-> t.closings[p] + Cardinality(HoldersIn(t, S, p))]
      /\ u.inbox = [p \in Peers |-> IF HoldersIn(t, S, p) = {} THEN t.inbox[p] ELSE <<>>]
      /\ u.outbox = t.outbox /\ u.proper = t.proper
  <2>1. IsRemoved(t, u, went, S)
    BY <1>1, <1>2, <1>3, RemovedFields
  <2>2. QED
    BY <2>1 DEF IsRemoved
<1>5. \A a \in Addresses : u.heap[a] = IF a \in S THEN Free ELSE t.heap[a]
  BY <1>4
<1>6. \A p \in Peers : u.fd[p] = IF HoldersIn(t, S, p) = {} THEN t.fd[p] ELSE "closed"
  BY <1>4
<1>7. /\ u.clients \in Seq(Addresses) /\ Once(u.clients)
      /\ \A x : In(x, u.clients) <=> In(x, t.clients) /\ x \notin went
  BY <1>2, <1>4, WithoutIs
<1>8. \A a \in Addresses : a \in S <=> In(a, t.clients) /\ ~ In(a, u.clients)
  BY <1>3, <1>7 DEF FreedOf
<1>9. S \subseteq Addresses
  BY <1>3 DEF FreedOf
<1>10. \A a \in Addresses : In(a, u.clients) => In(a, t.clients) /\ u.heap[a] = t.heap[a] /\ t.heap[a].peer \in Peers
  BY <1>2, <1>5, <1>7, <1>8 DEF ClientRec
<1>11. \A a, b \in Addresses :
         In(a, t.clients) /\ In(b, t.clients) /\ t.heap[a].peer = t.heap[b].peer => a = b
  BY <1>1 DEF Held
<1>12. ASSUME NEW p \in Peers, HoldersIn(t, S, p) # {}
       PROVE  /\ t.fd[p] = "held" /\ Cardinality(HoldersIn(t, S, p)) = 1
              /\ \A b \in Addresses : In(b, u.clients) => t.heap[b].peer # p
  <2>1. PICK a \in S : t.heap[a].peer = p
    BY <1>12 DEF HoldersIn
  <2>2. a \in Addresses /\ In(a, t.clients) /\ ~ In(a, u.clients)
    BY <1>8, <1>9
  <2>3. t.fd[p] = "held"
    BY <1>1, <2>1, <2>2 DEF Held
  <2>4. \A b \in Addresses : In(b, u.clients) => t.heap[b].peer # p
    BY <1>10, <1>11, <2>1, <2>2
  <2>5. HoldersIn(t, S, p) = {a}
    BY <1>8, <1>9, <1>11, <2>1, <2>2 DEF HoldersIn
  <2>6. Cardinality({a}) = 1
    BY FS_Singleton
  <2>7. QED
    BY <2>3, <2>4, <2>5, <2>6
<1>13. Fades(t, u)
  BY <1>6, <1>12 DEF Fades
<1>14. Remain(t, u, went)
  BY <1>7, <1>10 DEF Remain
<1>15. Held(u)
  <2>1. u.heap = [a \in Addresses |-> u.heap[a]]
    BY <1>4
  <2>2. \A a \in Addresses : IF In(a, u.clients) THEN ClientRec(u.heap[a]) ELSE u.heap[a] = Free
    BY <1>2, <1>5, <1>8, <1>10
  <2>3. \A a, b \in Addresses :
          In(a, u.clients) /\ In(b, u.clients) /\ u.heap[a].peer = u.heap[b].peer => a = b
    BY <1>10, <1>11
  <2>4. u.fd \in [Peers -> Ways]
    BY <1>2, <1>4 DEF Ways
  <2>5. ASSUME NEW a \in Addresses, In(a, u.clients) PROVE u.fd[u.heap[a].peer] = "held"
    <3>1. PICK p \in Peers : p = t.heap[a].peer
      BY <1>10, <2>5
    <3>2. HoldersIn(t, S, p) = {}
      BY <1>12, <2>5, <3>1
    <3>3. t.fd[p] = "held"
      BY <1>1, <1>10, <2>5, <3>1 DEF Held
    <3>4. QED
      BY <1>6, <1>10, <2>5, <3>1, <3>2, <3>3
  <2>6. ASSUME NEW p \in Peers, u.fd[p] = "held"
        PROVE  \E a \in Addresses : In(a, u.clients) /\ u.heap[a].peer = p
    <3>1. HoldersIn(t, S, p) = {} /\ t.fd[p] = "held"
      BY <1>6, <2>6
    <3>2. PICK a \in Addresses : In(a, t.clients) /\ t.heap[a].peer = p
      BY <1>1, <3>1 DEF Held
    <3>3. a \notin S
      BY <3>1, <3>2 DEF HoldersIn
    <3>4. QED
      BY <1>8, <1>10, <3>2, <3>3
  <2>7. QED
    BY <1>7, <2>1, <2>2, <2>3, <2>4, <2>5, <2>6 DEF Held
<1>16. Sums(u)
  <2>1. t.closings \in [Peers -> Nat]
    BY <1>1 DEF Sums
  <2>2. \A p \in Peers : u.closings[p] = t.closings[p] + Cardinality(HoldersIn(t, S, p))
    BY <1>4
  <2>3. ASSUME NEW p \in Peers
        PROVE  u.closings[p] = t.closings[p] + (IF HoldersIn(t, S, p) = {} THEN 0 ELSE 1)
    <3>1. HoldersIn(t, S, p) = {} => Cardinality(HoldersIn(t, S, p)) = 0
      BY FS_EmptySet
    <3>2. QED
      BY <1>12, <2>2, <3>1
  <2>4. \A p \in Peers : u.closings[p] \in Nat
    BY <2>1, <2>3
  <2>5. u.closings = [p \in Peers |-> u.closings[p]]
    BY <1>4
  <2>6. u.closings \in [Peers -> Nat]
    BY <2>4, <2>5
  <2>7. ASSUME "buffers" \notin AllocFailures, NEW p \in Peers
        PROVE  u.closings[p] = IF u.fd[p] = "closed" THEN 1 ELSE 0
    <3>1. t.closings[p] = IF t.fd[p] = "closed" THEN 1 ELSE 0
      BY <1>1, <2>7 DEF Sums
    <3>2. CASE HoldersIn(t, S, p) = {}
      BY <1>6, <2>1, <2>3, <3>1, <3>2
    <3>3. CASE HoldersIn(t, S, p) # {}
      BY <1>6, <1>12, <2>1, <2>3, <3>1, <3>3
    <3>4. QED
      BY <3>2, <3>3
  <2>8. QED
    BY <2>6, <2>7 DEF Sums
<1>17. Boxes(u)
  <2>1. u.inbox = [p \in Peers |-> u.inbox[p]]
    BY <1>4
  <2>2. \A p \in Peers : u.inbox[p] = t.inbox[p] \/ u.inbox[p] = <<>>
    BY <1>4
  <2>3. QED
    BY <1>1, <2>1, <2>2, EmptyIsSeq DEF Boxes
<1>18. Outs(u, D)
  <2>1. \A p \in Peers : u.fd[p] = "none" => t.fd[p] = "none"
    BY <1>6
  <2>2. QED
    BY <1>1, <1>4, <2>1 DEF Outs
<1>19. Greeted(u, D)
  BY <1>1, <1>4, <1>10 DEF Greeted
<1>20. Named(u, {})
  <2>1. \A a \in Addresses : In(a, u.clients) => a \in Addresses \ went
    BY <1>7
  <2>2. ASSUME NEW a \in Addresses, NEW b \in Addresses, In(a, u.clients), In(b, u.clients),
               a # b, u.heap[a].hello, u.heap[b].hello
        PROVE  u.heap[a].name = "" \/ u.heap[a].name # u.heap[b].name
    <3>1. /\ a \in Addresses \ went /\ b \in Addresses \ went /\ In(a, t.clients) /\ In(b, t.clients)
          /\ u.heap[a] = t.heap[a] /\ u.heap[b] = t.heap[b]
      BY <1>10, <2>1, <2>2
    <3>2. QED
      BY <2>2, <3>1 DEF Named
  <2>3. QED
    BY <2>2 DEF Named
<1>21. QED
  BY <1>4, <1>13, <1>14, <1>15, <1>16, <1>17, <1>18, <1>19, <1>20 DEF Sound

-----------------------------------------------------------------------------
(* What clients say.                                                       *)

Doors == [p \in Peers |-> peer[p].door]

\* A table is sound if it is but for names, and names are unique.
LEMMA FitAndNamed ==
  ASSUME NEW t, NEW D
  PROVE  Sound(t, D) <=> Fit(t, D) /\ Named(t, {})
BY DEF Sound, Fit

\* A reply changes nothing but what is on its way to a client of the thread.
LEMMA ReplySound ==
  ASSUME NEW t, Sound(t, Doors), NEW p \in Peers, t.fd[p] = "held", NEW r,
         NEW u, u = Reply(t, p, r)
  PROVE  Sound(u, Doors) /\ SameClients(t, u) /\ u.fd = t.fd
<1>1. IsTable(t) /\ Held(t) /\ Sums(t) /\ Boxes(t) /\ Outs(t, Doors) /\ Greeted(t, Doors) /\ Named(t, {})
  BY DEF Sound
<1>2. CASE ~ (peer[p].door = "ws" /\ p \notin unbridged)
  <2>1. u = t
    BY <1>2 DEF Reply
  <2>2. QED
    BY <2>1 DEF SameClients
<1>3. CASE peer[p].door = "ws" /\ p \notin unbridged
  <2>1. PICK l : l = Line(r)
    OBVIOUS
  <2>2. u = [t EXCEPT !.owed[p] = Append(@, r), !.outbox[p] = @ \o l]
    BY <1>3, <2>1 DEF Reply
  <2>3. /\ IsTable(u) /\ u.heap = t.heap /\ u.clients = t.clients /\ u.fd = t.fd
        /\ u.closings = t.closings /\ u.inbox = t.inbox /\ u.proper = t.proper
        /\ u.outbox = [t.outbox EXCEPT ![p] = @ \o l]
    BY <1>1, <2>2 DEF IsTable
  <2>4. SameClients(t, u)
    BY <2>3 DEF SameClients
  <2>5. Doors[p] = "ws"
    BY <1>3 DEF Doors
  <2>6. Outs(u, Doors)
    BY <1>1, <2>3, <2>5 DEF Outs
  <2>7. Held(u)
    BY <1>1, <2>3 DEF Held
  <2>8. Sums(u) /\ Boxes(u)
    BY <1>1, <2>3 DEF Sums, Boxes
  <2>9. Greeted(u, Doors) /\ Named(u, {})
    BY <1>1, <2>3, <2>4, SameGreeted, SameNamed
  <2>10. QED
    BY <2>3, <2>4, <2>6, <2>7, <2>8, <2>9 DEF Sound
<1>4. QED
  BY <1>2, <1>3

\* A client is written anew.
Rewritten(t, u, a, c) ==
  /\ u.clients = t.clients /\ u.fd = t.fd /\ u.heap[a] = c
  /\ \A x \in Addresses : x # a => u.heap[x] = t.heap[x]
Rewrite(t, u, a, c) == u = [t EXCEPT !.heap[a] = c]
SamePeer(c, d) == c.peer = d.peer /\ c.auth = d.auth

\* Rewriting a client's record, its peer and token apart, keeps everything but names.
LEMMA RewriteFit ==
  ASSUME NEW t, NEW D, Fit(t, D), NEW a \in Addresses, In(a, t.clients),
         NEW c, ClientRec(c), SamePeer(c, t.heap[a]), c.hello => c.peer \in t.proper,
         NEW u, Rewrite(t, u, a, c)
  PROVE  Fit(u, D) /\ Rewritten(t, u, a, c)
<1>1. IsTable(t) /\ Held(t) /\ Sums(t) /\ Boxes(t) /\ Outs(t, D) /\ Greeted(t, D)
  BY DEF Fit
<1>2. /\ IsTable(u) /\ u.heap = [t.heap EXCEPT ![a] = c] /\ u.clients = t.clients /\ u.fd = t.fd
      /\ u.closings = t.closings /\ u.inbox = t.inbox /\ u.outbox = t.outbox /\ u.proper = t.proper
  BY <1>1 DEF IsTable, Rewrite
<1>3. t.heap = [x \in Addresses |-> t.heap[x]]
  BY <1>1 DEF Held
<1>4. /\ u.heap = [x \in Addresses |-> u.heap[x]] /\ u.heap[a] = c
      /\ \A x \in Addresses : x # a => u.heap[x] = t.heap[x]
  BY <1>2, <1>3
<1>5. Rewritten(t, u, a, c)
  BY <1>2, <1>4 DEF Rewritten
<1>6. \A x \in Addresses : u.heap[x].peer = t.heap[x].peer /\ u.heap[x].auth = t.heap[x].auth
  BY <1>4 DEF SamePeer
<1>7. \A x \in Addresses : IF In(x, u.clients) THEN ClientRec(u.heap[x]) ELSE u.heap[x] = Free
  BY <1>1, <1>2, <1>4 DEF Held
<1>8. Held(u)
  <2>1. \A x, y \in Addresses :
          In(x, u.clients) /\ In(y, u.clients) /\ u.heap[x].peer = u.heap[y].peer => x = y
    BY <1>1, <1>2, <1>6 DEF Held
  <2>2. \A x \in Addresses : In(x, u.clients) => u.fd[u.heap[x].peer] = "held"
    BY <1>1, <1>2, <1>6 DEF Held
  <2>3. ASSUME NEW p \in Peers, u.fd[p] = "held"
        PROVE  \E x \in Addresses : In(x, u.clients) /\ u.heap[x].peer = p
    <3>1. PICK x \in Addresses : In(x, t.clients) /\ t.heap[x].peer = p
      BY <1>1, <1>2, <2>3 DEF Held
    <3>2. QED
      BY <1>2, <1>6, <3>1
  <2>4. u.clients \in Seq(Addresses) /\ Once(u.clients) /\ u.fd \in [Peers -> Ways]
    BY <1>1, <1>2 DEF Held
  <2>5. QED
    BY <1>4, <1>7, <2>1, <2>2, <2>3, <2>4 DEF Held
<1>9. Sums(u) /\ Boxes(u) /\ Outs(u, D)
  BY <1>1, <1>2 DEF Sums, Boxes, Outs
<1>10. Greeted(u, D)
  <2>1. ASSUME NEW x \in Addresses, In(x, u.clients), u.heap[x].hello PROVE u.heap[x].peer \in u.proper
    <3>1. CASE x = a
      BY <1>2, <1>4, <2>1, <3>1
    <3>2. CASE x # a
      BY <1>1, <1>2, <1>4, <2>1, <3>2 DEF Greeted
    <3>3. QED
      BY <3>1, <3>2
  <2>2. ASSUME NEW x \in Addresses, In(x, u.clients), D[u.heap[x].peer] # "unix"
        PROVE  u.heap[x].auth = TRUE
    BY <1>1, <1>2, <1>6, <2>2 DEF Greeted
  <2>3. QED
    BY <2>1, <2>2 DEF Greeted
<1>11. QED
  BY <1>2, <1>5, <1>8, <1>9, <1>10 DEF Fit

Dropping(c) == [c EXCEPT !.dropped = TRUE]
Naming(c, name) == [c EXCEPT !.name = name]
Welcoming(c, name) == [c EXCEPT !.hello = TRUE, !.name = name]

\* A client marked for removal is otherwise the same.
LEMMA DroppingIs ==
  ASSUME NEW c, ClientRec(c), NEW d, d = Dropping(c)
  PROVE  ClientRec(d) /\ SamePeer(d, c) /\ d.hello = c.hello
BY DEF ClientRec, SamePeer, Dropping

\* A client that is given a name is otherwise the same.
LEMMA NamingIs ==
  ASSUME NEW c, ClientRec(c), NEW name, NEW d, d = Naming(c, name)
  PROVE  ClientRec(d) /\ SamePeer(d, c) /\ d.hello = c.hello
BY DEF ClientRec, SamePeer, Naming

\* A welcomed client has its name and is past the hello.
LEMMA WelcomingIs ==
  ASSUME NEW c, ClientRec(c), NEW name, NEW d, d = Welcoming(c, name)
  PROVE  ClientRec(d) /\ SamePeer(d, c) /\ d.hello = TRUE /\ d.name = name
BY DEF ClientRec, SamePeer, Welcoming

\* The name a hello leaves the client with.
NameAfter(c, msg) == IF msg.name = "" THEN c.name ELSE msg.name
Accepts(c, msg) == ~c.hello /\ ~TokenRefused(c, msg) /\ msg.role /\ msg.version
Refused(c, msg) == IF c.hello THEN c
                   ELSE IF TokenRefused(c, msg) THEN Dropping(c)
                   ELSE IF ~msg.role THEN c ELSE Naming(c, NameAfter(c, msg))

\* What a client is written as when its hello is refused: no more welcome than before.
LEMMA RefusedIs ==
  ASSUME NEW c, ClientRec(c), NEW msg, NEW d, d = Refused(c, msg)
  PROVE  ClientRec(d) /\ SamePeer(d, c) /\ d.hello = c.hello /\ (c.hello => d = c)
<1>1. PICK name : name = NameAfter(c, msg)
  OBVIOUS
<1>2. d = c \/ (~c.hello /\ (d = Dropping(c) \/ d = Naming(c, name)))
  BY <1>1, Zenon DEF Refused
<1>3. CASE d = c
  BY <1>3 DEF SamePeer
<1>4. CASE ~c.hello /\ d = Dropping(c)
  BY <1>4, DroppingIs
<1>5. CASE ~c.hello /\ d = Naming(c, name)
  BY <1>5, NamingIs
<1>6. QED
  BY <1>2, <1>3, <1>4, <1>5

\* The hello is on record if it is an acceptable one.
Told(t, a, msg) == Acceptable(t.heap[a].peer, msg) => t.heap[a].peer \in t.proper

\* A hello that is accepted is an acceptable one.
LEMMA AcceptsAcceptable ==
  ASSUME NEW t, Greeted(t, Doors), NEW a \in Addresses, In(a, t.clients), NEW c, c = t.heap[a],
         c.peer \in Peers, NEW msg, msg.t = "hello", Accepts(c, msg)
  PROVE  Acceptable(c.peer, msg)
<1>1. Doors[c.peer] = peer[c.peer].door
  BY DEF Doors
<1>2. peer[c.peer].door # "unix" => c.auth
  BY <1>1 DEF Greeted
<1>3. QED
  BY <1>2, Zenon DEF Accepts, Acceptable, TokenRefused

\* A hello, whether refused or accepted with its namesakes replaced, keeps the table sound.
LEMMA HelloSound ==
  ASSUME NEW t, Sound(t, Doors), NEW a \in Addresses, In(a, t.clients), NEW msg, msg.t = "hello",
         Told(t, a, msg), NEW u, u = handle_hello(t, a, msg)
  PROVE  Sound(u, Doors) /\ Fades(t, u) /\ In(a, u.clients)
<1>1. Fit(t, Doors) /\ Named(t, {}) /\ Greeted(t, Doors) /\ Held(t)
  BY FitAndNamed DEF Sound
<1>2. PICK c : c = t.heap[a]
  OBVIOUS
<1>3. ClientRec(c) /\ c.peer \in Peers
  BY <1>1, <1>2 DEF Held, ClientRec
<1>4. PICK p \in Peers : p = c.peer
  BY <1>3
<1>5. PICK name : name = NameAfter(c, msg)
  OBVIOUS
<1>6. CASE Accepts(c, msg)
  <2>1. PICK d : d = Welcoming(c, name)
    OBVIOUS
  <2>2. PICK v : Rewrite(t, v, a, d)
    BY DEF Rewrite
  <2>3. PICK went : went = Namesakes(t, a, name)
    OBVIOUS
  <2>4. PICK w : w = remove_clients(v, went)
    OBVIOUS
  <2>5. u = Reply(w, p, "welcome")
    <3>1. u = Reply(remove_clients([t EXCEPT !.heap[a] = Welcoming(c, name)], Namesakes(t, a, name)),
                    c.peer, "welcome")
      BY <1>2, <1>5, <1>6, Zenon DEF handle_hello, Accepts, Welcoming, NameAfter
    <3>2. v = [t EXCEPT !.heap[a] = Welcoming(c, name)]
      BY <2>1, <2>2 DEF Rewrite
    <3>3. QED
      BY <1>4, <2>3, <2>4, <3>1, <3>2, Zenon
  <2>6. ClientRec(d) /\ SamePeer(d, c) /\ d.hello = TRUE /\ d.name = name
    BY <1>3, <2>1, WelcomingIs
  <2>7. d.peer \in t.proper
    <3>1. Acceptable(c.peer, msg)
      BY <1>1, <1>2, <1>3, <1>6, AcceptsAcceptable
    <3>2. QED
      BY <1>2, <2>6, <3>1 DEF Told, SamePeer
  <2>8. Fit(v, Doors) /\ Rewritten(t, v, a, d)
    <3>1. SamePeer(d, t.heap[a]) /\ (d.hello => d.peer \in t.proper)
      BY <1>2, <2>6, <2>7
    <3>2. QED
      BY <1>1, <2>2, <2>6, <3>1, RewriteFit
  <2>9. \A x \in Addresses : x \notin went /\ In(x, t.clients) /\ x # a /\ t.heap[x].hello =>
          name = "" \/ t.heap[x].name # name
    <3>1. \A x : x \in Range(t.clients) <=> In(x, t.clients)
      BY <1>1, InRange DEF Held
    <3>2. QED
      BY <2>3, <3>1 DEF Namesakes
  <2>10. a \notin went
    BY <2>3 DEF Namesakes
  <2>11. Named(v, went)
    <3>1. SUFFICES ASSUME NEW x \in Addresses \ went, NEW y \in Addresses \ went,
                          In(x, v.clients), In(y, v.clients), x # y, v.heap[x].hello, v.heap[y].hello
                   PROVE  v.heap[x].name = "" \/ v.heap[x].name # v.heap[y].name
      BY DEF Named
    <3>2. In(x, t.clients) /\ In(y, t.clients) /\ v.heap[a].name = name
      BY <2>6, <2>8, <3>1 DEF Rewritten
    <3>3. \A z \in Addresses : z # a => v.heap[z] = t.heap[z]
      BY <2>8 DEF Rewritten
    <3>4. CASE x # a /\ y # a
      <4>1. v.heap[x] = t.heap[x] /\ v.heap[y] = t.heap[y]
        BY <3>3, <3>4
      <4>2. x \in Addresses \ {} /\ y \in Addresses \ {}
        OBVIOUS
      <4>3. QED
        BY <1>1, <3>1, <3>2, <4>1, <4>2 DEF Named
    <3>5. CASE x = a
      <4>1. y # a /\ v.heap[y] = t.heap[y]
        BY <3>1, <3>3, <3>5
      <4>2. QED
        BY <2>9, <3>1, <3>2, <3>5, <4>1
    <3>6. CASE y = a
      <4>1. x # a /\ v.heap[x] = t.heap[x]
        BY <3>1, <3>3, <3>6
      <4>2. QED
        BY <2>9, <3>1, <3>2, <3>6, <4>1
    <3>7. QED
      BY <3>4, <3>5, <3>6
  <2>12. Sound(w, Doors) /\ Fades(v, w) /\ Remain(v, w, went)
    BY <2>4, <2>8, <2>11, RemovedSound
  <2>13. In(a, w.clients) /\ w.heap[a].peer = p
    BY <1>4, <2>6, <2>8, <2>10, <2>12 DEF Remain, Rewritten, SamePeer
  <2>14. w.fd[p] = "held"
    BY <2>12, <2>13 DEF Sound, Held
  <2>15. Sound(u, Doors) /\ SameClients(w, u) /\ u.fd = w.fd
    BY <2>5, <2>12, <2>14, ReplySound
  <2>16. Fades(t, u)
    BY <2>8, <2>12, <2>15 DEF Fades, Rewritten
  <2>17. QED
    BY <2>13, <2>15, <2>16 DEF SameClients
<1>7. CASE ~ Accepts(c, msg)
  <2>1. PICK d : d = Refused(c, msg)
    OBVIOUS
  <2>2. PICK v : Rewrite(t, v, a, d)
    BY DEF Rewrite
  <2>3. u = Reply(v, p, "error")
    <3>1. u = Reply([t EXCEPT !.heap[a] = Refused(c, msg)], c.peer, "error")
      BY <1>2, <1>7, Zenon DEF handle_hello, Accepts, Refused, Dropping, Naming, NameAfter
    <3>2. v = [t EXCEPT !.heap[a] = Refused(c, msg)]
      BY <2>1, <2>2 DEF Rewrite
    <3>3. QED
      BY <1>4, <3>1, <3>2, Zenon
  <2>4. ClientRec(d) /\ SamePeer(d, c) /\ d.hello = c.hello /\ (c.hello => d = c)
    BY <1>3, <2>1, RefusedIs
  <2>5. c.hello => c.peer \in t.proper
    BY <1>1, <1>2 DEF Greeted
  <2>6. Fit(v, Doors) /\ Rewritten(t, v, a, d)
    <3>1. SamePeer(d, t.heap[a]) /\ (d.hello => d.peer \in t.proper)
      BY <1>2, <2>4, <2>5 DEF SamePeer
    <3>2. QED
      BY <1>1, <2>2, <2>4, <3>1, RewriteFit
  <2>7. Named(v, {})
    <3>1. \A x \in Addresses : v.heap[x].hello => t.heap[x].hello /\ v.heap[x] = t.heap[x]
      <4>1. ASSUME NEW x \in Addresses, v.heap[x].hello PROVE t.heap[x].hello /\ v.heap[x] = t.heap[x]
        <5>1. CASE x = a
          BY <1>2, <2>4, <2>6, <4>1, <5>1 DEF Rewritten
        <5>2. CASE x # a
          BY <2>6, <4>1, <5>2 DEF Rewritten
        <5>3. QED
          BY <5>1, <5>2
      <4>2. QED
        BY <4>1
    <3>2. v.clients = t.clients
      BY <2>6 DEF Rewritten
    <3>3. ASSUME NEW x \in Addresses, NEW y \in Addresses, In(x, v.clients), In(y, v.clients),
                 x # y, v.heap[x].hello, v.heap[y].hello
          PROVE  v.heap[x].name = "" \/ v.heap[x].name # v.heap[y].name
      <4>1. /\ v.heap[x] = t.heap[x] /\ v.heap[y] = t.heap[y]
            /\ x \in Addresses \ {} /\ y \in Addresses \ {}
        BY <3>1, <3>3
      <4>2. QED
        BY <1>1, <3>2, <3>3, <4>1 DEF Named
    <3>4. QED
      BY <3>3 DEF Named
  <2>8. Sound(v, Doors)
    BY <2>6, <2>7, FitAndNamed
  <2>9. In(a, v.clients) /\ v.heap[a].peer = p
    BY <1>4, <2>4, <2>6 DEF Rewritten, SamePeer
  <2>10. v.fd[p] = "held"
    BY <2>8, <2>9 DEF Sound, Held
  <2>11. Sound(u, Doors) /\ SameClients(v, u) /\ u.fd = v.fd
    BY <2>3, <2>8, <2>10, ReplySound
  <2>12. QED
    BY <2>6, <2>9, <2>11 DEF Fades, Rewritten, SameClients
<1>8. QED
  BY <1>6, <1>7

\* Everything but what concerns messages is the same.
Alike(t, u) ==
  /\ IsTable(u) /\ u.heap = t.heap /\ u.clients = t.clients /\ u.fd = t.fd
  /\ u.closings = t.closings /\ u.outbox = t.outbox
  /\ t.proper \subseteq u.proper /\ Boxes(u)

\* Tables that differ in messages only are sound together.
LEMMA AlikeSound ==
  ASSUME NEW t, NEW D, Sound(t, D), NEW u, Alike(t, u)
  PROVE  Sound(u, D)
<1>1. IsTable(t) /\ Held(t) /\ Sums(t) /\ Boxes(t) /\ Outs(t, D) /\ Greeted(t, D) /\ Named(t, {})
  BY DEF Sound
<1>2. SameClients(t, u)
  BY DEF Alike, SameClients
<1>3. Held(u)
  BY <1>1 DEF Held, Alike
<1>4. Sums(u) /\ Outs(u, D)
  BY <1>1 DEF Sums, Outs, Alike
<1>5. t.proper \subseteq u.proper
  BY DEF Alike
<1>6. Greeted(u, D) /\ Named(u, {})
  BY <1>1, <1>2, <1>5, SameGreeted, SameNamed
<1>7. QED
  BY <1>3, <1>4, <1>6 DEF Sound, Alike

\* A message of a client keeps the client.
LEMMA MessageSound ==
  ASSUME NEW t, Sound(t, Doors), NEW a \in Addresses, In(a, t.clients), NEW msg,
         NEW u, u = handle_client_message(t, a, msg)
  PROVE  Sound(u, Doors) /\ Fades(t, u) /\ In(a, u.clients)
<1>1. IsTable(t) /\ Held(t) /\ Boxes(t)
  BY DEF Sound
<1>2. PICK p : p = t.heap[a].peer
  OBVIOUS
<1>3. p \in Peers /\ t.fd[p] = "held"
  BY <1>1, <1>2 DEF Held, ClientRec
<1>4. PICK new : new = {q \in {p} : Acceptable(p, msg)}
  OBVIOUS
<1>5. PICK v : v = [t EXCEPT !.due[p] = Tail(@), !.proper = @ \cup new]
  OBVIOUS
<1>6. /\ IsTable(v) /\ v.heap = t.heap /\ v.clients = t.clients /\ v.fd = t.fd
      /\ v.closings = t.closings /\ v.outbox = t.outbox /\ v.inbox = t.inbox
      /\ v.proper = t.proper \cup new
  BY <1>1, <1>5 DEF IsTable
<1>7. Alike(t, v)
  BY <1>1, <1>6 DEF Alike, Boxes
<1>8. Sound(v, Doors)
  BY <1>7, AlikeSound
<1>9. In(a, v.clients) /\ v.fd[p] = "held"
  BY <1>3, <1>6
<1>10. Told(v, a, msg)
  BY <1>2, <1>4, <1>6 DEF Told
<1>11. \/ u = t
       \/ msg.t = "hello" /\ u = handle_hello(v, a, msg)
       \/ \E r : u = Reply(v, p, r)
  BY <1>2, <1>4, <1>5, Zenon DEF handle_client_message
<1>12. CASE u = t
  BY <1>12 DEF Fades
<1>13. CASE msg.t = "hello" /\ u = handle_hello(v, a, msg)
  <2>1. Sound(u, Doors) /\ Fades(v, u) /\ In(a, u.clients)
    BY <1>8, <1>9, <1>10, <1>13, HelloSound
  <2>2. QED
    BY <1>6, <2>1 DEF Fades
<1>14. ASSUME NEW r, u = Reply(v, p, r) PROVE Sound(u, Doors) /\ Fades(t, u) /\ In(a, u.clients)
  <2>1. Sound(u, Doors) /\ SameClients(v, u) /\ u.fd = v.fd
    BY <1>3, <1>8, <1>9, <1>14, ReplySound
  <2>2. QED
    BY <1>6, <1>9, <2>1 DEF Fades, SameClients
<1>15. QED
  BY <1>11, <1>12, <1>13, <1>14

\* Handling goes through the messages.
LEMMA HandleRuns ==
  ASSUME NEW t, NEW a, NEW msgs, NEW n \in Nat, n = Len(msgs)
  PROVE  \E f : /\ f[0] = t /\ f[n] = HandleAll(t, a, msgs)
               /\ \A k \in 1 .. n : f[k] = handle_client_message(f[k - 1], a, msgs[k])
<1> DEFINE Is(f, m) == f = [k \in 0 .. m |-> IF k = 0 THEN t ELSE handle_client_message(f[k - 1], a, msgs[k])]
           Good == {m \in 0 .. n : \E f : Is(f, m)}
           pass == CHOOSE f : Is(f, n)
<1>1. HandleAll(t, a, msgs) = pass[n]
  BY DEF HandleAll
<1> HIDE DEF pass
<1>2. 0 \in Good
  <2> DEFINE f == [k \in 0 .. 0 |-> t]
  <2>1. Is(f, 0)
    <3>1. \A k \in 0 .. 0 : k = 0
      OBVIOUS
    <3>2. QED
      BY <3>1
  <2> HIDE DEF f
  <2>2. QED
    BY <2>1
<1>3. ASSUME NEW m \in 1 .. n, m - 1 \in Good PROVE m \in Good
  <2>1. PICK f : Is(f, m - 1)
    BY <1>3
  <2>2. PICK next : next = handle_client_message(f[m - 1], a, msgs[m])
    OBVIOUS
  <2> DEFINE h == [k \in 0 .. m |-> IF k = m THEN next ELSE f[k]]
  <2>3. h[m] = next /\ (\A k \in 0 .. (m - 1) : h[k] = f[k]) /\ h = [k \in 0 .. m |-> h[k]]
    OBVIOUS
  <2> HIDE DEF h
  <2>4. ASSUME NEW k \in 0 .. m PROVE h[k] = IF k = 0 THEN t ELSE handle_client_message(h[k - 1], a, msgs[k])
    <3>1. CASE k = 0
      BY <2>1, <2>3, <3>1
    <3>2. CASE k = m /\ k # 0
      <4>1. m - 1 \in 0 .. (m - 1)
        OBVIOUS
      <4>2. h[m - 1] = f[m - 1]
        BY <2>3, <4>1
      <4>3. QED
        BY <2>2, <2>3, <3>2, <4>2
    <3>3. CASE k # m /\ k # 0
      <4>1. k \in 0 .. (m - 1) /\ k - 1 \in 0 .. (m - 1)
        BY <3>3
      <4>2. h[k] = f[k] /\ h[k - 1] = f[k - 1]
        BY <2>3, <4>1
      <4>3. f[k] = handle_client_message(f[k - 1], a, msgs[k])
        BY <2>1, <3>3, <4>1
      <4>4. QED
        BY <3>3, <4>2, <4>3
    <3>4. QED
      BY <3>1, <3>2, <3>3
  <2>5. Is(h, m)
    BY <2>3, <2>4
  <2>6. QED
    BY <2>5
<1>4. n \in Good
  <2> HIDE DEF Good
  <2>1. \A k \in 0 .. n : k \in Good
    BY <1>2, <1>3, Induction
  <2>2. QED
    BY <2>1
<1>5. Is(pass, n)
  BY <1>4 DEF pass
<1>6. pass[0] = t /\ \A k \in 1 .. n : pass[k] = handle_client_message(pass[k - 1], a, msgs[k])
  BY <1>5
<1>7. QED
  BY <1>1, <1>6

\* Descriptors that are closed stay closed, from table to table.
LEMMA FadesFurther ==
  ASSUME NEW t, NEW u, NEW v, Fades(t, u), Fades(u, v)
  PROVE  Fades(t, v)
BY DEF Fades

\* Handling all the messages of a client keeps the table sound, and the client in it.
LEMMA HandleAllSound ==
  ASSUME NEW t, Sound(t, Doors), NEW a \in Addresses, In(a, t.clients), NEW msgs,
         NEW n \in Nat, n = Len(msgs), NEW u, u = HandleAll(t, a, msgs)
  PROVE  Sound(u, Doors) /\ Fades(t, u) /\ In(a, u.clients)
<1>1. PICK f : /\ f[0] = t /\ f[n] = u
               /\ \A k \in 1 .. n : f[k] = handle_client_message(f[k - 1], a, msgs[k])
  BY HandleRuns
<1> DEFINE Good == {k \in 0 .. n : Sound(f[k], Doors) /\ Fades(t, f[k]) /\ In(a, f[k].clients)}
<1>2. 0 \in Good
  <2>1. Fades(t, t)
    BY DEF Fades
  <2>2. QED
    BY <1>1, <2>1
<1>3. ASSUME NEW k \in 1 .. n, k - 1 \in Good PROVE k \in Good
  <2>1. PICK w : w = f[k - 1]
    OBVIOUS
  <2>2. PICK v : v = f[k]
    OBVIOUS
  <2>3. Sound(w, Doors) /\ Fades(t, w) /\ In(a, w.clients)
    BY <1>3, <2>1
  <2>4. PICK msg : v = handle_client_message(w, a, msg)
    BY <1>1, <2>1, <2>2
  <2>5. Sound(v, Doors) /\ Fades(w, v) /\ In(a, v.clients)
    BY <2>3, <2>4, MessageSound
  <2>6. Fades(t, v)
    BY <2>3, <2>5, FadesFurther
  <2>7. QED
    BY <2>2, <2>5, <2>6
<1>4. n \in Good
  <2> HIDE DEF Good
  <2>1. \A k \in 0 .. n : k \in Good
    BY <1>2, <1>3, Induction
  <2>2. QED
    BY <2>1
<1>5. QED
  BY <1>1, <1>4

\* The event of a client.
LEMMA EventSound ==
  ASSUME NEW t, Sound(t, Doors), NEW a \in Addresses, In(a, t.clients), NEW hup,
         NEW u, u = ClientEventDone(t, a, hup)
  PROVE  Sound(u, Doors) /\ Fades(t, u)
<1>1. IsTable(t) /\ Held(t) /\ Boxes(t)
  BY DEF Sound
<1>2. PICK p : p = t.heap[a].peer
  OBVIOUS
<1>3. p \in Peers
  BY <1>1, <1>2 DEF Held, ClientRec
<1>4. PICK msgs : msgs = t.inbox[p]
  OBVIOUS
<1>5. PICK S : msgs \in Seq(S)
  BY <1>1, <1>3, <1>4 DEF Boxes, IsSeq
<1>6. PICK n \in Nat : n = Len(msgs)
  BY <1>5
<1>7. PICK v : v = [t EXCEPT !.inbox[p] = <<>>]
  OBVIOUS
<1>8. /\ IsTable(v) /\ v.heap = t.heap /\ v.clients = t.clients /\ v.fd = t.fd
      /\ v.closings = t.closings /\ v.outbox = t.outbox /\ v.proper = t.proper
      /\ v.inbox = [t.inbox EXCEPT ![p] = <<>>]
  BY <1>1, <1>7 DEF IsTable
<1>9. Boxes(v)
  BY <1>1, <1>8, EmptyIsSeq DEF Boxes
<1>10. Alike(t, v)
  BY <1>8, <1>9 DEF Alike
<1>11. Sound(v, Doors) /\ In(a, v.clients) /\ Fades(t, v)
  BY <1>8, <1>10, AlikeSound DEF Fades
<1>12. PICK w : w = HandleAll(v, a, msgs)
  OBVIOUS
<1>13. Sound(w, Doors) /\ Fades(v, w)
  BY <1>6, <1>11, <1>12, HandleAllSound
<1>14. Fades(t, w)
  BY <1>11, <1>13, FadesFurther
<1>15. u = w \/ u = remove_clients(w, {a})
  BY <1>2, <1>4, <1>7, <1>12, Zenon DEF ClientEventDone
<1>16. CASE u = w
  BY <1>13, <1>14, <1>16
<1>17. CASE u = remove_clients(w, {a})
  <2>1. Fit(w, Doors) /\ Named(w, {})
    BY <1>13, FitAndNamed
  <2>2. Named(w, {a})
    BY <2>1 DEF Named
  <2>3. Sound(u, Doors) /\ Fades(w, u)
    BY <1>17, <2>1, <2>2, RemovedSound
  <2>4. QED
    BY <1>14, <2>3, FadesFurther
<1>18. QED
  BY <1>15, <1>16, <1>17

-----------------------------------------------------------------------------
(* The invariant of the two threads.                                       *)

States == {"away", "knocking", "open", "exited"}
PeerRec == [state : States, door : {"unix", "tcp", "ws"}]

\* A peer's connection is at the broker from when it is let in.
PeerInv ==
  /\ peer \in [Peers -> PeerRec]
  /\ \A p \in Peers : peer[p].state \in {"away", "knocking"} <=> fd[p] = "none"
  /\ \A p \in left : p \in Peers => peer[p].state # "away"

\* The records in reg_pipe are those of the descriptors that are in it.
PipeInv ==
  /\ pipe \in Seq(Records)
  /\ \A i, j \in 1 .. Len(pipe) : pipe[i].peer = pipe[j].peer => i = j
  /\ \A i \in 1 .. Len(pipe) : fd[pipe[i].peer] = "pipe" /\ pipe[i].auth = TRUE
  /\ phase \in {"run", "joining"} =>
       \A p \in Peers : fd[p] = "pipe" => \E i \in 1 .. Len(pipe) : pipe[i].peer = p

BridgeRec(b) == b = [peer |-> b.peer, wbuf |-> b.wbuf, bbuf |-> b.bbuf] /\ b.peer \in Peers
Shape(w) == IsSeq(w) /\ \A i \in 1 .. Len(w) : BridgeRec(w[i])
PeersOf(w) == {w[i].peer : i \in 1 .. Len(w)}

\* The thread has one end of every bridge whose other end the broker has, until it closes it.
BridgeInv ==
  /\ Shape(ws)
  /\ \A p \in PeersOf(ws) : fd[p] # "none"
  /\ \A p \in Peers : fd[p] \in {"pipe", "held"} /\ peer[p].door = "ws" =>
                        p \in unbridged \/ p \in PeersOf(ws)

Serving == {"serve", "frames", "bridge", "lines"}
\* While the thread serves a slot, there is one.
SlotInv == idx \in Nat /\ slots \in Nat /\ (pc \in Serving => idx \in 1 .. Len(ws))

\* The inductive invariant.
WsInv == Sound(Table, Doors) /\ PeerInv /\ PipeInv /\ BridgeInv /\ SlotInv

\* The fields of the table are the variables.
LEMMA TableFields ==
  /\ IsTable(Table) /\ Table.heap = heap /\ Table.clients = clients /\ Table.fd = fd
  /\ Table.closings = closings /\ Table.inbox = inbox /\ Table.outbox = outbox
  /\ Table.proper = proper
BY DEF Table, IsTable

\* The variables become the fields of the table that is set.
LEMMA SetTableIs ==
  ASSUME NEW t, IsTable(t), SetTable(t)
  PROVE  Table' = t
BY DEF Table, IsTable, SetTable

\* The table stays while its variables do.
LEMMA SameTable == UNCHANGED tableVars => Table' = Table
BY DEF Table, tableVars

\* The thread's array is a sequence of bridges to peers.
LEMMA ShapeSeq ==
  ASSUME NEW w, Shape(w)
  PROVE  /\ Len(w) \in Nat /\ DOMAIN w = 1 .. Len(w)
         /\ PeersOf(w) = {w[i].peer : i \in DOMAIN w} /\ PeersOf(w) \subseteq Peers
<1>1. PICK S : w \in Seq(S)
  BY DEF Shape, IsSeq
<1>2. DOMAIN w = 1 .. Len(w) /\ Len(w) \in Nat
  BY <1>1
<1>3. PeersOf(w) \subseteq Peers
  BY DEF PeersOf, Shape, BridgeRec
<1>4. QED
  BY <1>2, <1>3 DEF PeersOf

\* Swap removal takes one bridge from the array.
LEMMA ShapeDrop ==
  ASSUME NEW w, Shape(w), NEW i \in 1 .. Len(w), NEW v, v = SwapOut(w, i)
  PROVE  Shape(v) /\ PeersOf(v) \subseteq PeersOf(w) /\ PeersOf(w) \subseteq PeersOf(v) \cup {w[i].peer}
<1>1. PICK S : w \in Seq(S)
  BY DEF Shape, IsSeq
<1>2. PICK n \in Nat : n = Len(w)
  BY <1>1
<1>3. /\ v \in Seq(S) /\ Len(v) = n - 1
      /\ \A j \in 1 .. Len(v) : v[j] = IF j = i THEN w[n] ELSE w[j]
  BY <1>1, <1>2, SwapOutIs
<1>4. n \in 1 .. n /\ \A j \in 1 .. (n - 1) : j \in 1 .. n
  BY <1>2
<1>5. \A j \in 1 .. (n - 1) : \E k \in 1 .. n : v[j] = w[k]
  BY <1>3, <1>4
<1>6. Shape(v)
  BY <1>2, <1>3, <1>5 DEF Shape, IsSeq
<1>7. PeersOf(v) \subseteq PeersOf(w)
  BY <1>2, <1>3, <1>5 DEF PeersOf
<1>8. ASSUME NEW k \in 1 .. n PROVE w[k].peer \in PeersOf(v) \cup {w[i].peer}
  <2>1. CASE k = i
    BY <2>1
  <2>2. CASE k # i /\ k = n
    <3>1. i \in 1 .. (n - 1)
      BY <1>2, <2>2
    <3>2. v[i] = w[k]
      BY <1>3, <2>2, <3>1
    <3>3. QED
      BY <1>3, <3>1, <3>2 DEF PeersOf
  <2>3. CASE k # i /\ k # n
    <3>1. k \in 1 .. (n - 1)
      BY <2>3
    <3>2. v[k] = w[k]
      BY <1>3, <2>3, <3>1
    <3>3. QED
      BY <1>3, <3>1, <3>2 DEF PeersOf
  <2>4. QED
    BY <2>1, <2>2, <2>3
<1>9. PeersOf(w) \subseteq PeersOf(v) \cup {w[i].peer}
  BY <1>2, <1>8 DEF PeersOf
<1>10. QED
  BY <1>6, <1>7, <1>9

Edits(w, v, i, b) == BridgeRec(b) /\ b.peer = w[i].peer /\ v = [w EXCEPT ![i] = b]

\* Changing a bridge's buffers keeps whose bridge it is.
LEMMA ShapeEdit ==
  ASSUME NEW w, Shape(w), NEW i \in 1 .. Len(w), NEW b, NEW v, Edits(w, v, i, b)
  PROVE  Shape(v) /\ PeersOf(v) = PeersOf(w) /\ Len(v) = Len(w)
<1>0. BridgeRec(b) /\ b.peer = w[i].peer /\ v = [w EXCEPT ![i] = b]
  BY DEF Edits
<1>1. PICK S : w \in Seq(S)
  BY DEF Shape, IsSeq
<1>2. PICK n \in Nat : n = Len(w)
  BY <1>1
<1>3. PICK T : T = S \cup {b}
  OBVIOUS
<1>4. w \in Seq(T) /\ b \in T
  BY <1>1, <1>3
<1>5. /\ v \in Seq(T) /\ Len(v) = n /\ \A j \in 1 .. n : v[j] = IF j = i THEN b ELSE w[j]
  BY <1>0, <1>2, <1>4
<1>6. Shape(v)
  BY <1>0, <1>2, <1>5 DEF Shape, IsSeq
<1>7. \A j \in 1 .. n : v[j].peer = w[j].peer
  BY <1>0, <1>5
<1>8. PeersOf(v) = PeersOf(w)
  BY <1>2, <1>5, <1>7 DEF PeersOf
<1>9. QED
  BY <1>2, <1>5, <1>6, <1>8

\* A bridge is added at the end.
LEMMA ShapeAdd ==
  ASSUME NEW w, Shape(w), NEW b, BridgeRec(b), NEW v, v = Append(w, b)
  PROVE  Shape(v) /\ PeersOf(v) = PeersOf(w) \cup {b.peer} /\ Len(v) = Len(w) + 1
<1>1. PICK S : w \in Seq(S)
  BY DEF Shape, IsSeq
<1>2. PICK n \in Nat : n = Len(w)
  BY <1>1
<1>3. PICK T : T = S \cup {b}
  OBVIOUS
<1>4. w \in Seq(T) /\ b \in T
  BY <1>1, <1>3
<1>5. /\ v \in Seq(T) /\ Len(v) = n + 1 /\ v[n + 1] = b /\ \A j \in 1 .. n : v[j] = w[j]
  BY <1>2, <1>4
<1>6. \A j \in 1 .. (n + 1) : j \in 1 .. n \/ j = n + 1
  OBVIOUS
<1>7. \A j \in 1 .. (n + 1) : BridgeRec(v[j])
  BY <1>2, <1>5, <1>6 DEF Shape
<1>8. Shape(v)
  BY <1>5, <1>7 DEF Shape, IsSeq
<1>9. PeersOf(v) = PeersOf(w) \cup {b.peer}
  <2>1. n + 1 \in 1 .. (n + 1) /\ \A j \in 1 .. n : j \in 1 .. (n + 1)
    OBVIOUS
  <2>2. QED
    BY <1>2, <1>5, <1>6, <2>1 DEF PeersOf
<1>10. QED
  BY <1>2, <1>5, <1>8, <1>9

\* It holds at the start.
LEMMA WsInvInit == WsInit => WsInv
<1> SUFFICES ASSUME WsInit PROVE WsInv
  OBVIOUS
<1>1. RegistrationInit
  BY DEF WsInit
<1>2. ClientCap \in Nat \ {0} /\ DoorsOf \in [Peers -> (SUBSET {"unix", "tcp", "ws"}) \ {{}}]
  BY RegistrationAssumption
<1>3. /\ heap = [a \in Addresses |-> Free] /\ clients = <<>> /\ fd = [p \in Peers |-> "none"]
      /\ closings = [p \in Peers |-> 0] /\ inbox = [p \in Peers |-> <<>>]
      /\ outbox = [p \in Peers |-> <<>>]
  BY <1>1 DEF RegistrationInit
<1>4. \A a : ~ In(a, clients)
  BY <1>3 DEF In
<1>5. Held(Table)
  <2>1. heap = [a \in Addresses |-> heap[a]] /\ \A a \in Addresses : heap[a] = Free
    BY <1>3
  <2>2. clients \in Seq(Addresses) /\ Once(clients)
    BY <1>3 DEF Once
  <2>3. fd \in [Peers -> Ways] /\ \A p \in Peers : fd[p] = "none"
    BY <1>3 DEF Ways
  <2>4. QED
    BY <1>4, <2>1, <2>2, <2>3, TableFields DEF Held
<1>6. Sums(Table) /\ Boxes(Table) /\ Outs(Table, Doors)
  BY <1>3, TableFields, EmptyIsSeq DEF Sums, Boxes, Outs
<1>7. Greeted(Table, Doors) /\ Named(Table, {})
  BY <1>4, TableFields DEF Greeted, Named
<1>8. Sound(Table, Doors)
  BY <1>5, <1>6, <1>7, TableFields DEF Sound
<1>9. PeerInv
  <2>1. peer = [p \in Peers |-> [state |-> "away", door |-> CHOOSE d \in DoorsOf[p] : TRUE]] /\ left = {}
    BY <1>1 DEF RegistrationInit
  <2>2. ASSUME NEW p \in Peers PROVE peer[p] \in PeerRec /\ peer[p].state = "away"
    <3>1. PICK d : d = CHOOSE x \in DoorsOf[p] : TRUE
      OBVIOUS
    <3>2. DoorsOf[p] # {} /\ DoorsOf[p] \subseteq {"unix", "tcp", "ws"}
      BY <1>2
    <3>3. d \in {"unix", "tcp", "ws"}
      BY <3>1, <3>2
    <3>4. peer[p] = [state |-> "away", door |-> d]
      BY <2>1, <3>1
    <3>5. QED
      BY <3>3, <3>4 DEF PeerRec, States
  <2>3. peer = [p \in Peers |-> peer[p]]
    BY <2>1
  <2>4. peer \in [Peers -> PeerRec]
    BY <2>2, <2>3
  <2>5. QED
    BY <1>3, <2>1, <2>2, <2>4 DEF PeerInv
<1>10. PipeInv
  <2>1. pipe = <<>> /\ \A p \in Peers : fd[p] = "none"
    BY <1>1 DEF RegistrationInit
  <2>2. QED
    BY <2>1 DEF PipeInv
<1>11. BridgeInv
  <2>1. ws = <<>> /\ \A p \in Peers : fd[p] = "none"
    BY <1>1 DEF RegistrationInit, WsInit
  <2>2. Shape(ws) /\ PeersOf(ws) = {}
    BY <2>1, EmptyIsSeq DEF Shape, PeersOf
  <2>3. QED
    BY <2>1, <2>2 DEF BridgeInv
<1>12. SlotInv
  BY DEF WsInit, SlotInv, Serving
<1>13. QED
  BY <1>8, <1>9, <1>10, <1>11, <1>12 DEF WsInv

\* The descriptors where they were, but for those their holders closed.
FdFades == \A p \in Peers : fd'[p] = fd[p] \/ (fd[p] = "held" /\ fd'[p] = "closed")
StillUp == phase' \in {"run", "joining"} => phase \in {"run", "joining"}
\* The thread lets go of a bridge only by closing it.
BridgesGo ==
  /\ Shape(ws') /\ PeersOf(ws') \subseteq PeersOf(ws)
  /\ PeersOf(ws) \cup unbridged \subseteq PeersOf(ws') \cup unbridged'

DoorsStay == \A p \in Peers : peer'[p].door = peer[p].door

\* A peer's door stays what it was.
LEMMA DoorsSame ==
  ASSUME DoorsStay
  PROVE  Doors' = Doors
BY DEF Doors, DoorsStay

\* A table that fades has descriptors that fade.
LEMMA FadesFd ==
  ASSUME Fades(Table, Table')
  PROVE  FdFades
<1>1. Table.fd = fd
  BY TableFields
<1>2. Table'.fd = fd'
  BY DEF Table
<1>3. QED
  BY <1>1, <1>2 DEF Fades, FdFades

\* The peers' part, when only descriptors close.
LEMMA PeerKeeps ==
  ASSUME PeerInv, FdFades, UNCHANGED <<peer, left>>
  PROVE  PeerInv'
BY DEF PeerInv, FdFades

PipeStays == \A p \in Peers : fd'[p] = "pipe" <=> fd[p] = "pipe"

\* The records of the pipe are of peers.
LEMMA PipePeers ==
  ASSUME PipeInv, NEW i \in 1 .. Len(pipe)
  PROVE  pipe[i].peer \in Peers
<1>1. \A r \in Records : r.peer \in Peers
  BY DEF Records
<1>2. pipe[i] \in Records
  BY DEF PipeInv
<1>3. QED
  BY <1>1, <1>2

\* The pipe's part, when nothing in it is touched.
LEMMA PipeKeeps ==
  ASSUME PipeInv, PipeStays, StillUp, UNCHANGED pipe
  PROVE  PipeInv'
<1>1. \A i \in 1 .. Len(pipe) : fd'[pipe[i].peer] = "pipe"
  BY PipePeers DEF PipeInv, PipeStays
<1>2. QED
  BY <1>1 DEF PipeInv, PipeStays, StillUp

\* Descriptors that fade leave those in the pipe.
LEMMA FadesStays ==
  ASSUME FdFades
  PROVE  PipeStays
BY DEF FdFades, PipeStays

\* The bridges' part, when bridges only go and descriptors only close.
LEMMA BridgeKeeps ==
  ASSUME BridgeInv, FdFades, DoorsStay, BridgesGo
  PROVE  BridgeInv'
<1>1. PeersOf(ws) \subseteq Peers
  BY ShapeSeq DEF BridgeInv
<1>2. \A p \in PeersOf(ws') : fd'[p] # "none"
  BY <1>1 DEF BridgeInv, FdFades, BridgesGo
<1>3. \A p \in Peers : fd'[p] \in {"pipe", "held"} => fd[p] \in {"pipe", "held"}
  BY DEF FdFades
<1>4. \A p \in Peers : fd'[p] \in {"pipe", "held"} /\ peer'[p].door = "ws" =>
                        p \in unbridged' \/ p \in PeersOf(ws')
  BY <1>3 DEF BridgeInv, BridgesGo, DoorsStay
<1>5. QED
  BY <1>2, <1>4 DEF BridgeInv, BridgesGo

\* An array that stays loses no bridge.
LEMMA BridgesSame ==
  ASSUME BridgeInv, UNCHANGED ws, unbridged \subseteq unbridged'
  PROVE  BridgesGo
BY DEF BridgeInv, BridgesGo

\* The thread's place in its array stays.
LEMMA SlotKeeps ==
  ASSUME SlotInv, UNCHANGED <<idx, slots, pc, ws>>
  PROVE  SlotInv'
BY DEF SlotInv

\* Mail comes and goes.
MailMoves ==
  /\ UNCHANGED <<heap, clients, fd, closings, proper, peer>>
  /\ Boxes(Table') /\ Outs(Table', Doors)

\* Messages on their way do not disturb the table.
LEMMA MailKeeps ==
  ASSUME Sound(Table, Doors), MailMoves
  PROVE  Sound(Table', Doors')
<1>1. PICK t : t = Table
  OBVIOUS
<1>2. PICK u : u = Table'
  OBVIOUS
<1>3. PICK D : D = Doors
  OBVIOUS
<1>4. Doors' = D
  BY <1>3, DoorsSame DEF MailMoves, DoorsStay
<1>5. /\ IsTable(t) /\ t.heap = heap /\ t.clients = clients /\ t.fd = fd
      /\ t.closings = closings /\ t.proper = proper
  BY <1>1, TableFields
<1>6. /\ IsTable(u) /\ u.heap = heap' /\ u.clients = clients' /\ u.fd = fd'
      /\ u.closings = closings' /\ u.proper = proper'
  BY <1>2 DEF Table, IsTable
<1>7. /\ u.heap = t.heap /\ u.clients = t.clients /\ u.fd = t.fd
      /\ u.closings = t.closings /\ u.proper = t.proper
  BY <1>5, <1>6 DEF MailMoves
<1>8. Held(t) /\ Sums(t) /\ Greeted(t, D) /\ Named(t, {})
  BY <1>1, <1>3 DEF Sound
<1>9. Held(u) /\ Sums(u)
  BY <1>7, <1>8 DEF Held, Sums
<1>10. Greeted(u, D) /\ Named(u, {})
  BY <1>7, <1>8, SameGreeted, SameNamed DEF SameClients
<1>11. Boxes(u) /\ Outs(u, D)
  BY <1>2, <1>3 DEF MailMoves
<1>12. Sound(u, D)
  BY <1>6, <1>9, <1>10, <1>11 DEF Sound
<1>13. QED
  BY <1>2, <1>4, <1>12

-----------------------------------------------------------------------------
(* The steps of the broker and of the peers.                               *)

\* What the broker's steps on its table leave alone.
Aside == UNCHANGED <<peer, left, unbridged, pipe, idx, slots, pc, ws>>

\* A step of the broker that only closes descriptors keeps the invariant.
LEMMA FadingStep ==
  ASSUME WsInv, NEW u, Table' = u, Sound(u, Doors), Fades(Table, u), Aside, StillUp
  PROVE  WsInv'
<1>1. FdFades
  BY FadesFd
<1>2. UNCHANGED <<peer, left>> /\ UNCHANGED pipe /\ UNCHANGED <<idx, slots, pc, ws>> /\ UNCHANGED ws /\ unbridged' = unbridged
  BY DEF Aside
<1>3. DoorsStay
  BY <1>2 DEF DoorsStay
<1>4. PeerInv'
  BY <1>1, <1>2, PeerKeeps DEF WsInv
<1>5. PipeInv'
  BY <1>1, <1>2, FadesStays, PipeKeeps DEF WsInv
<1>6. BridgesGo
  BY <1>2, BridgesSame DEF WsInv
<1>7. BridgeInv'
  BY <1>1, <1>3, <1>6, BridgeKeeps DEF WsInv
<1>8. SlotInv'
  BY <1>2, SlotKeeps DEF WsInv
<1>9. Sound(Table', Doors')
  BY <1>3, DoorsSame
<1>10. QED
  BY <1>4, <1>5, <1>7, <1>8, <1>9 DEF WsInv

\* A step that leaves the table alone keeps it.
LEMMA IdleStep ==
  ASSUME WsInv, UNCHANGED tableVars, Aside, StillUp
  PROVE  WsInv'
<1>1. Table' = Table /\ Sound(Table, Doors)
  BY SameTable DEF WsInv
<1>2. PICK u : u = Table
  OBVIOUS
<1>3. Fades(Table, u)
  BY <1>2 DEF Fades
<1>4. QED
  BY <1>1, <1>2, <1>3, FadingStep

\* A removal from the table.
LEMMA RemovalStep ==
  ASSUME WsInv, NEW went, SetTable(remove_clients(Table, went)), Aside, StillUp
  PROVE  WsInv'
<1>1. PICK t : t = Table
  OBVIOUS
<1>2. PICK u : u = remove_clients(t, went)
  OBVIOUS
<1>3. Fit(t, Doors) /\ Named(t, {})
  BY <1>1, FitAndNamed DEF WsInv
<1>4. Named(t, went)
  BY <1>3 DEF Named
<1>5. Sound(u, Doors) /\ Fades(t, u)
  BY <1>2, <1>3, <1>4, RemovedSound
<1>6. IsTable(u) /\ SetTable(u)
  BY <1>1, <1>2, <1>5 DEF Sound
<1>7. Table' = u
  BY <1>6, SetTableIs
<1>8. QED
  BY <1>1, <1>5, <1>7, FadingStep

\* The broker serves a client's event, stale ones included.
LEMMA ServeClientKeeps ==
  ASSUME WsInv, ServeClient, UNCHANGED <<idx, slots, pc, ws>>
  PROVE  WsInv'
<1>1. Aside /\ StillUp
  BY DEF ServeClient, Aside, StillUp
<1>2. PICK e \in batch : IF Served(e) THEN SetTable(ClientEventDone(Table, e.addr, e.hup))
                         ELSE UNCHANGED tableVars
  BY DEF ServeClient
<1>3. CASE ~ Served(e)
  BY <1>1, <1>2, <1>3, IdleStep
<1>4. CASE Served(e)
  <2>1. PICK t : t = Table
    OBVIOUS
  <2>2. PICK a : a = e.addr
    OBVIOUS
  <2>3. PICK hup : hup = e.hup
    OBVIOUS
  <2>4. PICK u : u = ClientEventDone(t, a, hup)
    OBVIOUS
  <2>5. SetTable(u)
    BY <1>2, <1>4, <2>1, <2>2, <2>3, <2>4
  <2>6. Sound(t, Doors) /\ t.clients = clients /\ clients \in Seq(Addresses)
    BY <2>1, TableFields DEF WsInv, Sound, Held
  <2>7. a \in Addresses /\ In(a, t.clients)
    <3>1. a \in Range(clients)
      BY <1>4, <2>2 DEF Served, IsLive
    <3>2. In(a, clients)
      BY <2>6, <3>1, InRange
    <3>3. QED
      BY <2>6, <3>2 DEF In
  <2>8. Sound(u, Doors) /\ Fades(t, u)
    BY <2>4, <2>6, <2>7, EventSound
  <2>9. Table' = u
    BY <2>5, <2>8, SetTableIs DEF Sound
  <2>10. QED
    BY <1>1, <2>1, <2>8, <2>9, FadingStep
<1>5. QED
  BY <1>3, <1>4

\* The sweep of late and dead clients.
LEMMA HousekeepingKeeps ==
  ASSUME WsInv, NEW late, Housekeeping(late), UNCHANGED <<idx, slots, pc, ws>>
  PROVE  WsInv'
<1>1. Aside /\ StillUp
  BY DEF Housekeeping, Aside, StillUp
<1>2. QED
  BY <1>1, RemovalStep DEF Housekeeping

\* The broker is destroyed.
LEMMA DestroyKeeps ==
  ASSUME WsInv, sm_broker_destroy, UNCHANGED <<idx, slots, pc, ws>>
  PROVE  WsInv'
<1>1. Aside /\ StillUp
  BY DEF sm_broker_destroy, Aside, StillUp
<1>2. QED
  BY <1>1, RemovalStep DEF sm_broker_destroy

\* The broker waits, is told to stop, or stops its sinks.
LEMMA PausesKeep ==
  ASSUME WsInv, EpollWait \/ sm_broker_stop \/ StopSinks, UNCHANGED <<idx, slots, pc, ws>>
  PROVE  WsInv'
<1>1. UNCHANGED tableVars /\ Aside /\ StillUp
  BY DEF EpollWait, sm_broker_stop, StopSinks, Aside, StillUp, Between
<1>2. QED
  BY <1>1, IdleStep

\* Descriptors unchanged.
LEMMA FdSame ==
  ASSUME UNCHANGED fd
  PROVE  FdFades
BY DEF FdFades

\* The broker closes its doors, and the connections waiting there.
LEMMA CloseDoorsKeeps ==
  ASSUME WsInv, CloseDoors, UNCHANGED <<idx, slots, pc, ws>>
  PROVE  WsInv'
<1>1. UNCHANGED tableVars /\ UNCHANGED fd /\ UNCHANGED <<peer, left>> /\ UNCHANGED ws /\ unbridged' = unbridged
  BY DEF CloseDoors, tableVars
<1>2. DoorsStay /\ FdFades
  BY <1>1, FdSame DEF DoorsStay
<1>3. PeerInv'
  BY <1>1, <1>2, PeerKeeps DEF WsInv
<1>4. PipeInv'
  BY DEF CloseDoors, PipeInv
<1>5. BridgeInv'
  BY <1>1, <1>2, BridgesSame, BridgeKeeps DEF WsInv
<1>6. SlotInv'
  BY SlotKeeps DEF WsInv
<1>7. Sound(Table', Doors')
  BY <1>1, <1>2, DoorsSame, SameTable DEF WsInv
<1>8. QED
  BY <1>3, <1>4, <1>5, <1>6, <1>7 DEF WsInv

\* The descriptors of ps find their place.
Lands(ps) ==
  /\ \A p \in ps : fd'[p] \in {"held", "closed"}
  /\ \A q \in Peers : q \notin ps => fd'[q] = fd[q]

\* A peer that knocks has no descriptor at the broker yet.
LEMMA KnockingIs ==
  ASSUME PeerInv, NEW d, NEW p \in Knocking(d)
  PROVE  p \in Peers /\ peer[p].state = "knocking" /\ peer[p].door = d /\ fd[p] = "none"
BY DEF Knocking, PeerInv

\* Peers that are let in are open, and come by the door they knocked at.
LEMMA AdmitIs ==
  ASSUME PeerInv, NEW ps, Admit(ps)
  PROVE  /\ peer' \in [Peers -> PeerRec] /\ DoorsStay
         /\ \A p \in Peers : peer'[p].state = IF p \in ps THEN "open" ELSE peer[p].state
<1>1. ASSUME NEW p \in Peers
      PROVE  /\ peer'[p] \in PeerRec /\ peer'[p].door = peer[p].door
             /\ peer'[p].state = IF p \in ps THEN "open" ELSE peer[p].state
  <2>1. PICK r \in PeerRec : r = peer[p]
    BY DEF PeerInv
  <2>2. PICK d : d = [r EXCEPT !.state = "open"]
    OBVIOUS
  <2>3. d \in PeerRec /\ d.door = r.door /\ d.state = "open"
    BY <2>1, <2>2 DEF PeerRec, States
  <2>4. peer'[p] = IF p \in ps THEN d ELSE r
    BY <2>1, <2>2 DEF Admit
  <2>5. QED
    BY <2>1, <2>3, <2>4
<1>2. peer' = [p \in Peers |-> peer'[p]]
  BY DEF Admit
<1>3. peer' \in [Peers -> PeerRec]
  BY <1>1, <1>2
<1>4. QED
  BY <1>1, <1>3 DEF DoorsStay

\* Peers who knocked at the broker's own doors have been let in or turned away.
LEMMA AdmitStep ==
  ASSUME WsInv, NEW d, d # "ws", NEW ps \in SUBSET Knocking(d), Lands(ps), Admit(ps),
         Sound(Table', Doors), UNCHANGED <<left, unbridged, pipe, phase, idx, slots, pc, ws>>
  PROVE  WsInv'
<1>1. PeerInv /\ PipeInv /\ BridgeInv /\ SlotInv
  BY DEF WsInv
<1>2. \A p \in ps : p \in Peers /\ peer[p].state = "knocking" /\ peer[p].door = d /\ fd[p] = "none"
  BY <1>1, KnockingIs
<1>3. /\ peer' \in [Peers -> PeerRec] /\ DoorsStay
      /\ \A p \in Peers : peer'[p].state = IF p \in ps THEN "open" ELSE peer[p].state
  BY <1>1, AdmitIs
<1>4. PeerInv'
  <2>1. \A p \in Peers : peer'[p].state \in {"away", "knocking"} <=> fd'[p] = "none"
    BY <1>1, <1>2, <1>3 DEF PeerInv, Lands
  <2>2. \A p \in left' : p \in Peers => peer'[p].state # "away"
    BY <1>1, <1>3 DEF PeerInv
  <2>3. QED
    BY <1>3, <2>1, <2>2 DEF PeerInv
<1>5. PipeStays /\ StillUp
  BY <1>2 DEF PipeStays, Lands, StillUp
<1>6. PipeInv'
  BY <1>1, <1>5, PipeKeeps
<1>7. BridgeInv'
  <2>1. PeersOf(ws) \subseteq Peers
    BY <1>1, ShapeSeq DEF BridgeInv
  <2>2. \A p \in PeersOf(ws') : fd'[p] # "none"
    BY <1>1, <2>1 DEF BridgeInv, Lands
  <2>3. \A p \in Peers : fd'[p] \in {"pipe", "held"} /\ peer'[p].door = "ws" =>
                        p \in unbridged' \/ p \in PeersOf(ws')
    BY <1>1, <1>2, <1>3 DEF BridgeInv, Lands, DoorsStay
  <2>4. QED
    BY <1>1, <2>2, <2>3 DEF BridgeInv
<1>8. SlotInv'
  BY <1>1, SlotKeeps
<1>9. Sound(Table', Doors')
  BY <1>3, DoorsSame
<1>10. QED
  BY <1>4, <1>6, <1>7, <1>8, <1>9 DEF WsInv

\* A connection at the Unix socket is accepted.
LEMMA AcceptClientKeeps ==
  ASSUME WsInv, NEW outcome \in Outcomes, accept_client(outcome),
         UNCHANGED <<left, unbridged, pipe, phase, idx, slots, pc, ws>>
  PROVE  WsInv'
<1>1. PICK p \in Knocking("unix") :
        SetTable(sm_broker_register_client(Table, p, FALSE, outcome)) /\ Admit({p})
  BY DEF accept_client
<1>2. p \in Peers /\ peer[p].door = "unix" /\ fd[p] = "none"
  BY KnockingIs DEF WsInv
<1>3. PICK t : t = Table
  OBVIOUS
<1>4. Sound(t, Doors) /\ t.fd = fd
  BY <1>3, TableFields DEF WsInv
<1>5. PICK u : u = sm_broker_register_client(t, p, FALSE, outcome)
  OBVIOUS
<1>6. Asked(Doors, p, FALSE)
  BY <1>2 DEF Asked, Doors
<1>7. t.fd[p] \in {"none", "pipe"}
  BY <1>2, <1>4
<1>8. Sound(u, Doors) /\ Took(t, u, p)
  BY <1>2, <1>4, <1>5, <1>6, <1>7, RegisterSound
<1>9. Table' = u /\ fd' = u.fd
  BY <1>1, <1>3, <1>5, <1>8, SetTableIs DEF Sound, SetTable
<1>10. Lands({p})
  BY <1>4, <1>8, <1>9 DEF Lands, Took
<1>11. {p} \in SUBSET Knocking("unix") /\ "unix" # "ws" /\ Admit({p}) /\ Sound(Table', Doors)
  BY <1>1, <1>8, <1>9
<1>12. QED
  BY <1>10, <1>11, AdmitStep

\* The records list the peers of ps, each once.
Lists(records, ps) ==
  /\ records \in Seq(Records)
  /\ \A i \in 1 .. Len(records) : records[i].peer \in ps /\ records[i].auth = TRUE
  /\ \A i, j \in 1 .. Len(records) : records[i].peer = records[j].peer => i = j
  /\ \A p \in ps : \E i \in 1 .. Len(records) : records[i].peer = p

\* A function on 1 .. n is a sequence.
LEMMA MakeSeq ==
  ASSUME NEW S, NEW n \in Nat, NEW f \in [1 .. n -> S]
  PROVE  f \in Seq(S) /\ Len(f) = n
OBVIOUS

\* The arrivals at a door name each peer there once, and ask each for the token.
LEMMA ArrivalsIs ==
  ASSUME NEW ps \in SUBSET Peers, NEW records, records = Arrivals(ps, TRUE)
  PROVE  Lists(records, ps)
<1>1. IsFiniteSet(ps)
  BY RegistrationAssumption, FS_Subset
<1>2. PICK order : order = SetToSeq(ps)
  OBVIOUS
<1>3. /\ order \in Seq(ps) /\ (\A i, j \in 1 .. Len(order) : order[i] = order[j] => i = j)
      /\ \A x \in ps : \E i \in 1 .. Len(order) : order[i] = x
  BY <1>1, <1>2, SetToSeqIs
<1>4. PICK n \in Nat : n = Len(order) /\ DOMAIN order = 1 .. n
  BY <1>3
<1>5. records = [i \in 1 .. n |-> [peer |-> order[i], auth |-> TRUE]]
  BY <1>2, <1>4 DEF Arrivals
<1>6. \A i \in 1 .. n : order[i] \in ps /\ order[i] \in Peers
  BY <1>3, <1>4
<1>7. ASSUME NEW i \in 1 .. n
      PROVE  records[i] \in Records /\ records[i].peer = order[i] /\ records[i].auth = TRUE
  <2>1. PICK p \in Peers : p = order[i]
    BY <1>6
  <2>2. records[i] = [peer |-> p, auth |-> TRUE]
    BY <1>5, <2>1
  <2>3. PICK r : r = [peer |-> p, auth |-> TRUE]
    OBVIOUS
  <2>4. r \in Records /\ r.peer = p /\ r.auth = TRUE
    BY <2>1, <2>3 DEF Records
  <2>5. QED
    BY <2>1, <2>2, <2>3, <2>4
<1>8. records \in [1 .. n -> Records]
  BY <1>5, <1>7
<1>9. records \in Seq(Records) /\ Len(records) = n
  BY <1>8, MakeSeq
<1>10. \A i \in 1 .. n : records[i].peer = order[i] /\ records[i].peer \in ps /\ records[i].auth = TRUE
  BY <1>6, <1>7
<1>11. \A i, j \in 1 .. n : records[i].peer = records[j].peer => i = j
  <2>1. \A i, j \in 1 .. n : order[i] = order[j] => i = j
    BY <1>3, <1>4
  <2>2. \A i \in 1 .. n : records[i].peer = order[i]
    BY <1>10
  <2>3. QED
    BY <2>1, <2>2
<1>12. ASSUME NEW p \in ps PROVE \E i \in 1 .. n : records[i].peer = p
  <2>1. PICK i \in 1 .. n : order[i] = p
    BY <1>3, <1>4
  <2>2. records[i].peer = p
    BY <1>10, <2>1
  <2>3. QED
    BY <2>2
<1>13. QED
  BY <1>9, <1>10, <1>11, <1>12 DEF Lists

\* The TCP sink accepts all that wait.
LEMMA TcpKeeps ==
  ASSUME WsInv, NEW outcome \in Outcomes, tcp_on_readable(outcome),
         UNCHANGED <<left, unbridged, pipe, phase, idx, slots, pc, ws>>
  PROVE  WsInv'
<1>1. PICK ps : ps = Knocking("tcp")
  OBVIOUS
<1>2. \A p \in ps : p \in Peers /\ peer[p].door = "tcp" /\ fd[p] = "none"
  BY <1>1, KnockingIs DEF WsInv
<1>3. PICK records : records = Arrivals(ps, TRUE)
  OBVIOUS
<1>4. /\ records \in Seq(Records)
      /\ \A i \in 1 .. Len(records) : records[i].peer \in ps /\ records[i].auth = TRUE
      /\ \A i, j \in 1 .. Len(records) : records[i].peer = records[j].peer => i = j
      /\ \A p \in ps : \E i \in 1 .. Len(records) : records[i].peer = p
  <2>1. ps \in SUBSET Peers
    BY <1>2
  <2>2. Lists(records, ps)
    BY <1>3, <2>1, ArrivalsIs
  <2>3. QED
    BY <2>2 DEF Lists
<1>5. PICK n \in Nat : n = Len(records)
  BY <1>4
<1>6. PICK t : t = Table
  OBVIOUS
<1>7. Sound(t, Doors) /\ t.fd = fd
  BY <1>6, TableFields DEF WsInv
<1>8. Arriving(t, Doors, records, n)
  BY <1>2, <1>4, <1>5, <1>7 DEF Arriving, Asked
<1>9. PICK u : u = RegisterAll(t, records, outcome)
  OBVIOUS
<1>10. Sound(u, Doors) /\ Landed(t, u, records, n)
  BY <1>4, <1>5, <1>7, <1>8, <1>9, RegisterAllSound
<1>11. SetTable(u) /\ Admit(ps)
  BY <1>1, <1>3, <1>6, <1>9 DEF tcp_on_readable
<1>12. Table' = u /\ fd' = u.fd
  BY <1>10, <1>11, SetTableIs DEF Sound, SetTable
<1>13. Lands(ps)
  <2>1. \A p \in ps : fd'[p] \in {"held", "closed"}
    BY <1>4, <1>5, <1>10, <1>12 DEF Landed
  <2>2. \A q \in Peers : q \notin ps => fd'[q] = fd[q]
    BY <1>4, <1>5, <1>7, <1>10, <1>12 DEF Landed
  <2>3. QED
    BY <2>1, <2>2 DEF Lands
<1>14. ps \in SUBSET Knocking("tcp") /\ "tcp" # "ws" /\ Sound(Table', Doors)
  BY <1>1, <1>10, <1>12
<1>15. QED
  BY <1>11, <1>13, <1>14, AdmitStep

\* The broker empties the registration pipe.
LEMMA RegPipeKeeps ==
  ASSUME WsInv, NEW outcome \in Outcomes, ReadRegPipe(outcome), phase = "run",
         UNCHANGED <<peer, left, unbridged, phase, idx, slots, pc, ws>>
  PROVE  WsInv'
<1>1. PeerInv /\ PipeInv /\ BridgeInv /\ SlotInv
  BY DEF WsInv
<1>2. PICK n \in Nat : n = Len(pipe)
  BY <1>1 DEF PipeInv
<1>3. PICK t : t = Table
  OBVIOUS
<1>4. Sound(t, Doors) /\ t.fd = fd
  BY <1>3, TableFields DEF WsInv
<1>5. \A i \in 1 .. n : pipe[i].peer \in Peers /\ fd[pipe[i].peer] = "pipe" /\ pipe[i].auth = TRUE
  BY <1>1, <1>2, PipePeers DEF PipeInv
<1>6. Arriving(t, Doors, pipe, n)
  BY <1>1, <1>2, <1>4, <1>5 DEF Arriving, Asked, PipeInv
<1>7. PICK u : u = RegisterAll(t, pipe, outcome)
  OBVIOUS
<1>8. Sound(u, Doors) /\ Landed(t, u, pipe, n)
  <2>1. pipe \in Seq(Records)
    BY <1>1 DEF PipeInv
  <2>2. QED
    BY <1>2, <1>4, <1>6, <1>7, <2>1, RegisterAllSound
<1>9. SetTable(u) /\ pipe' = <<>>
  BY <1>3, <1>7 DEF ReadRegPipe
<1>10. Table' = u /\ fd' = u.fd
  BY <1>8, <1>9, SetTableIs DEF Sound, SetTable
<1>11. ASSUME NEW p \in Peers
       PROVE  \/ fd'[p] = fd[p] /\ fd[p] # "pipe"
              \/ fd[p] = "pipe" /\ fd'[p] \in {"held", "closed"}
  <2>1. CASE fd[p] = "pipe"
    <3>1. PICK i \in 1 .. n : pipe[i].peer = p
      BY <1>1, <1>2, <2>1 DEF PipeInv
    <3>2. QED
      BY <1>8, <1>10, <2>1, <3>1 DEF Landed
  <2>2. CASE fd[p] # "pipe"
    <3>1. \A i \in 1 .. n : pipe[i].peer # p
      BY <1>5, <2>2
    <3>2. QED
      BY <1>4, <1>8, <1>10, <2>2, <3>1 DEF Landed
  <2>3. QED
    BY <2>1, <2>2
<1>12. PeerInv'
  BY <1>1, <1>11 DEF PeerInv
<1>13. PipeInv'
  BY <1>9, <1>11 DEF PipeInv
<1>14. BridgeInv'
  <2>1. PeersOf(ws) \subseteq Peers
    BY <1>1, ShapeSeq DEF BridgeInv
  <2>2. \A p \in PeersOf(ws') : fd'[p] # "none"
    BY <1>1, <1>11, <2>1 DEF BridgeInv
  <2>3. \A p \in Peers : fd'[p] \in {"pipe", "held"} => fd[p] \in {"pipe", "held"}
    BY <1>11
  <2>4. QED
    BY <1>1, <2>2, <2>3 DEF BridgeInv
<1>15. SlotInv'
  BY <1>1, SlotKeeps
<1>16. Sound(Table', Doors')
  BY <1>8, <1>10, DoorsSame DEF DoorsStay
<1>17. QED
  BY <1>12, <1>13, <1>14, <1>15, <1>16 DEF WsInv

\* The broker serves one of its doors.
LEMMA ServeDoorKeeps ==
  ASSUME WsInv, NEW outcome \in Outcomes, ServeDoor(outcome), UNCHANGED <<idx, slots, pc, ws>>
  PROVE  WsInv'
<1>1. PICK e \in batch :
        CASE e.tag = "listen" -> accept_client(outcome) /\ UNCHANGED pipe
          [] e.tag = "tcp" -> tcp_on_readable(outcome) /\ UNCHANGED pipe
          [] e.tag = "pipe" -> ReadRegPipe(outcome) /\ UNCHANGED peer
          [] OTHER -> FALSE
  BY DEF ServeDoor
<1>2. phase = "run" /\ UNCHANGED <<left, unbridged, phase>>
  BY DEF ServeDoor
<1>3. CASE e.tag = "listen"
  <2>1. accept_client(outcome) /\ UNCHANGED pipe
    BY <1>1, <1>3
  <2>2. QED
    BY <1>2, <2>1, AcceptClientKeeps
<1>4. CASE e.tag = "tcp"
  <2>1. tcp_on_readable(outcome) /\ UNCHANGED pipe
    BY <1>1, <1>4
  <2>2. QED
    BY <1>2, <2>1, TcpKeeps
<1>5. CASE e.tag = "pipe"
  <2>1. ReadRegPipe(outcome) /\ UNCHANGED peer
    BY <1>1, <1>5
  <2>2. QED
    BY <1>2, <2>1, RegPipeKeeps
<1>6. QED
  BY <1>1, <1>3, <1>4, <1>5

\* A step that only moves mail, and by which the thread may let go of bridges.
LEMMA MailStep ==
  ASSUME WsInv, MailMoves, BridgesGo, SlotInv', UNCHANGED <<left, pipe, phase>>
  PROVE  WsInv'
<1>1. UNCHANGED <<peer, left>> /\ UNCHANGED fd /\ UNCHANGED pipe
  BY DEF MailMoves
<1>2. FdFades /\ DoorsStay /\ StillUp
  BY <1>1, FdSame DEF DoorsStay, StillUp
<1>3. PeerInv' /\ PipeInv'
  BY <1>1, <1>2, PeerKeeps, PipeKeeps, FadesStays DEF WsInv
<1>4. BridgeInv'
  BY <1>2, BridgeKeeps DEF WsInv
<1>5. Sound(Table', Doors')
  BY MailKeeps DEF WsInv
<1>6. QED
  BY <1>3, <1>4, <1>5 DEF WsInv

\* Inboxes that stay are still sequences.
LEMMA BoxesSame ==
  ASSUME Sound(Table, Doors), UNCHANGED inbox
  PROVE  Boxes(Table')
<1>1. Table.inbox = inbox /\ Table'.inbox = inbox'
  BY DEF Table
<1>2. Boxes(Table)
  BY DEF Sound
<1>3. QED
  BY <1>1, <1>2 DEF Boxes

\* An inbox that gains a message is still a sequence.
LEMMA BoxesMore ==
  ASSUME Sound(Table, Doors), NEW p, NEW msg, inbox' = [inbox EXCEPT ![p] = Append(@, msg)]
  PROVE  Boxes(Table')
<1>1. Table.inbox = inbox /\ Table'.inbox = inbox'
  BY DEF Table
<1>2. inbox = [q \in Peers |-> inbox[q]] /\ \A q \in Peers : IsSeq(inbox[q])
  BY <1>1 DEF Sound, Boxes
<1>3. inbox' = [q \in Peers |-> inbox'[q]]
  BY <1>2
<1>4. \A q \in Peers : inbox'[q] = IF q = p THEN Append(inbox[q], msg) ELSE inbox[q]
  BY <1>2
<1>5. ASSUME NEW q \in Peers PROVE IsSeq(inbox'[q])
  <2>1. PICK s : s = inbox[q]
    OBVIOUS
  <2>2. PICK S : s \in Seq(S)
    BY <1>2, <2>1 DEF IsSeq
  <2>3. PICK T : T = S \cup {msg}
    OBVIOUS
  <2>4. s \in Seq(T) /\ msg \in T
    BY <2>2, <2>3
  <2>5. Append(s, msg) \in Seq(T)
    BY <2>4
  <2>6. IsSeq(s) /\ IsSeq(Append(s, msg))
    BY <2>4, <2>5 DEF IsSeq
  <2>7. QED
    BY <1>4, <2>1, <2>6
<1>6. QED
  BY <1>1, <1>3, <1>5 DEF Boxes

\* Outboxes that stay are still kept for the thread's peers only.
LEMMA OutsSame ==
  ASSUME Sound(Table, Doors), UNCHANGED <<outbox, fd>>
  PROVE  Outs(Table', Doors)
<1>1. Table.outbox = outbox /\ Table'.outbox = outbox' /\ Table.fd = fd /\ Table'.fd = fd'
  BY DEF Table
<1>2. Outs(Table, Doors)
  BY DEF Sound
<1>3. QED
  BY <1>1, <1>2 DEF Outs

\* A peer knocks.
LEMMA KnockKeeps ==
  ASSUME WsInv, NEW p \in Peers, Knock(p), UNCHANGED <<idx, slots, pc, ws>>
  PROVE  WsInv'
<1>1. Sound(Table, Doors) /\ PeerInv /\ PipeInv /\ BridgeInv /\ SlotInv
  BY DEF WsInv
<1>2. PICK d \in DoorsOf[p] : peer' = [peer EXCEPT ![p] = [state |-> "knocking", door |-> d]]
  BY DEF Knock
<1>3. /\ UNCHANGED tableVars /\ UNCHANGED fd /\ UNCHANGED <<left, unbridged, pipe, phase>>
      /\ peer[p].state = "away"
  BY DEF Knock, tableVars
<1>4. d \in {"unix", "tcp", "ws"}
  BY <1>2, RegistrationAssumption
<1>5. PICK r : r = [state |-> "knocking", door |-> d]
  OBVIOUS
<1>6. r \in PeerRec /\ r.state = "knocking"
  BY <1>4, <1>5 DEF PeerRec, States
<1>7. peer \in [Peers -> PeerRec]
  BY <1>1 DEF PeerInv
<1>8. peer' \in [Peers -> PeerRec] /\ peer'[p] = r /\ \A q \in Peers : q # p => peer'[q] = peer[q]
  BY <1>2, <1>5, <1>6, <1>7
<1>9. fd[p] = "none"
  BY <1>1, <1>3 DEF PeerInv
<1>10. PeerInv'
  BY <1>1, <1>3, <1>6, <1>8, <1>9 DEF PeerInv
<1>11. PipeInv'
  <2>1. PipeStays /\ StillUp
    BY <1>3 DEF PipeStays, StillUp
  <2>2. QED
    BY <1>1, <1>3, <2>1, PipeKeeps
<1>12. BridgeInv'
  <2>1. \A q \in Peers : fd[q] \in {"pipe", "held"} => q # p /\ peer'[q] = peer[q]
    BY <1>8, <1>9
  <2>2. QED
    BY <1>1, <1>3, <2>1 DEF BridgeInv
<1>13. SlotInv'
  BY <1>1, SlotKeeps
<1>14. Sound(Table', Doors')
  <2>1. PICK t : t = Table
    OBVIOUS
  <2>2. Table' = t /\ t.fd = fd
    BY <1>3, <2>1, SameTable, TableFields
  <2>3. PICK D : D = Doors
    OBVIOUS
  <2>4. PICK E : E = Doors'
    OBVIOUS
  <2>5. \A q \in Peers : q # p => E[q] = D[q]
    BY <1>8, <2>3, <2>4 DEF Doors
  <2>6. IsTable(t) /\ Held(t) /\ Sums(t) /\ Boxes(t) /\ Outs(t, D) /\ Greeted(t, D) /\ Named(t, {})
    BY <1>1, <2>1, <2>3 DEF Sound
  <2>7. Outs(t, E)
    BY <1>9, <2>2, <2>5, <2>6 DEF Outs
  <2>8. \A a \in Addresses : In(a, t.clients) => t.heap[a].peer \in Peers /\ t.heap[a].peer # p
    BY <1>9, <2>2, <2>6 DEF Held, ClientRec
  <2>9. Greeted(t, E)
    BY <2>5, <2>6, <2>8 DEF Greeted
  <2>10. QED
    BY <2>2, <2>4, <2>6, <2>7, <2>9 DEF Sound
<1>15. QED
  BY <1>10, <1>11, <1>12, <1>13, <1>14 DEF WsInv

\* A peer hangs up.
LEMMA LeavesKeeps ==
  ASSUME WsInv, NEW p \in Peers, PeerLeaves(p), UNCHANGED <<idx, slots, pc, ws>>
  PROVE  WsInv'
<1>1. Sound(Table, Doors) /\ PeerInv /\ PipeInv /\ BridgeInv /\ SlotInv
  BY DEF WsInv
<1>2. /\ UNCHANGED tableVars /\ UNCHANGED fd /\ UNCHANGED peer /\ UNCHANGED pipe /\ UNCHANGED ws
      /\ unbridged' = unbridged /\ phase' = phase
  BY DEF PeerLeaves, tableVars
<1>3. FdFades /\ DoorsStay /\ StillUp
  BY <1>2, FdSame DEF DoorsStay, StillUp
<1>4. PeerInv'
  <2>1. left' = left \cup {p} /\ peer[p].state # "away"
    BY DEF PeerLeaves
  <2>2. QED
    BY <1>1, <1>2, <2>1 DEF PeerInv
<1>5. PipeInv' /\ BridgeInv'
  BY <1>1, <1>2, <1>3, PipeKeeps, FadesStays, BridgesSame, BridgeKeeps
<1>6. SlotInv'
  BY <1>1, SlotKeeps
<1>7. Sound(Table', Doors')
  BY <1>1, <1>2, <1>3, SameTable, DoorsSame
<1>8. QED
  BY <1>4, <1>5, <1>6, <1>7 DEF WsInv

\* A peer's process ends.
LEMMA ExitsKeeps ==
  ASSUME WsInv, NEW p \in Peers, PeerExits(p), UNCHANGED <<idx, slots, pc, ws>>
  PROVE  WsInv'
<1>1. Sound(Table, Doors) /\ PeerInv /\ PipeInv /\ BridgeInv /\ SlotInv
  BY DEF WsInv
<1>2. /\ UNCHANGED tableVars /\ UNCHANGED fd /\ UNCHANGED left /\ UNCHANGED pipe /\ UNCHANGED ws
      /\ unbridged' = unbridged /\ phase' = phase /\ peer[p].state = "open"
  BY DEF PeerExits, tableVars
<1>3. PICK r \in PeerRec : r = peer[p]
  BY <1>1 DEF PeerInv
<1>4. PICK e : e = [r EXCEPT !.state = "exited"]
  OBVIOUS
<1>5. e \in PeerRec /\ e.door = r.door /\ e.state = "exited"
  BY <1>3, <1>4 DEF PeerRec, States
<1>6. peer' = [peer EXCEPT ![p] = e]
  BY <1>3, <1>4 DEF PeerExits
<1>7. peer \in [Peers -> PeerRec]
  BY <1>1 DEF PeerInv
<1>8. peer' \in [Peers -> PeerRec] /\ peer'[p] = e /\ \A q \in Peers : q # p => peer'[q] = peer[q]
  BY <1>5, <1>6, <1>7
<1>9. FdFades /\ DoorsStay /\ StillUp
  BY <1>2, <1>3, <1>5, <1>8, FdSame DEF DoorsStay, StillUp
<1>10. PeerInv'
  <2>1. \A q \in Peers : peer'[q].state \in {"away", "knocking"} <=> peer[q].state \in {"away", "knocking"}
    BY <1>2, <1>5, <1>8
  <2>2. \A q \in Peers : peer'[q].state = "away" => peer[q].state = "away"
    BY <1>5, <1>8
  <2>3. QED
    BY <1>1, <1>2, <1>8, <2>1, <2>2 DEF PeerInv
<1>11. PipeInv' /\ BridgeInv'
  BY <1>1, <1>2, <1>9, PipeKeeps, FadesStays, BridgesSame, BridgeKeeps
<1>12. SlotInv'
  BY <1>1, SlotKeeps
<1>13. Sound(Table', Doors')
  BY <1>1, <1>2, <1>9, SameTable, DoorsSame
<1>14. QED
  BY <1>10, <1>11, <1>12, <1>13 DEF WsInv

\* A peer sends or reads.
LEMMA PeerMailKeeps ==
  ASSUME WsInv, NEW p \in Peers, PeerSays(p) \/ SendFrame(p) \/ PeerReads(p)
  PROVE  WsInv'
<1>1. /\ UNCHANGED <<heap, clients, fd, closings, proper, peer>> /\ UNCHANGED <<outbox, fd>>
      /\ UNCHANGED <<left, pipe, phase>> /\ UNCHANGED <<idx, slots, pc, ws>> /\ UNCHANGED ws
      /\ unbridged' = unbridged
  BY DEF PeerSays, SendFrame, PeerReads, Say, regVars, threadVars
<1>2. Boxes(Table')
  <2>1. CASE PeerSays(p)
    <3>1. PICK m : Say(p, m)
      BY <2>1 DEF PeerSays
    <3>2. inbox' = [inbox EXCEPT ![p] = Append(@, m)]
      BY <3>1 DEF Say
    <3>3. QED
      BY <3>2, BoxesMore DEF WsInv
  <2>2. CASE SendFrame(p) \/ PeerReads(p)
    <3>1. UNCHANGED inbox
      BY <2>2 DEF SendFrame, PeerReads, regVars
    <3>2. QED
      BY <3>1, BoxesSame DEF WsInv
  <2>3. QED
    BY <2>1, <2>2
<1>3. MailMoves
  BY <1>1, <1>2, OutsSame DEF MailMoves, WsInv
<1>4. BridgesGo /\ SlotInv'
  BY <1>1, BridgesSame, SlotKeeps DEF WsInv
<1>5. QED
  BY <1>1, <1>3, <1>4, MailStep

-----------------------------------------------------------------------------
(* The steps of the thread.                                                *)

\* ws_remove_client loses the bridge it closes and no other, and the thread stays in its array.
LEMMA DropGoes ==
  ASSUME BridgeInv, idx \in 1 .. Len(ws), Drop
  PROVE  BridgesGo /\ SlotInv'
<1>1. ws' = SwapOut(ws, idx) /\ unbridged' = unbridged \cup {ws[idx].peer}
  BY DEF Drop, ws_remove_client
<1>2. /\ Shape(ws') /\ PeersOf(ws') \subseteq PeersOf(ws)
      /\ PeersOf(ws) \subseteq PeersOf(ws') \cup {ws[idx].peer}
  BY <1>1, ShapeDrop DEF BridgeInv
<1>3. BridgesGo
  BY <1>1, <1>2 DEF BridgesGo
<1>4. SlotInv'
  BY DEF Drop, AfterRemoval, EndRound, SlotInv, Serving
<1>5. QED
  BY <1>3, <1>4

\* One of the two buffers of an entry is changed.
Rebuffered == \E X : ws' = [ws EXCEPT ![idx].wbuf = X] \/ ws' = [ws EXCEPT ![idx].bbuf = X]

\* A bridge whose buffers change is still there.
LEMMA EditGoes ==
  ASSUME BridgeInv, idx \in 1 .. Len(ws), Rebuffered, unbridged' = unbridged
  PROVE  BridgesGo /\ Len(ws') = Len(ws)
<1>1. PICK c : c = ws[idx]
  OBVIOUS
<1>2. BridgeRec(c)
  BY <1>1 DEF BridgeInv, Shape
<1>3. PICK X : ws' = [ws EXCEPT ![idx].wbuf = X] \/ ws' = [ws EXCEPT ![idx].bbuf = X]
  BY DEF Rebuffered
<1>4. PICK b : ws' = [ws EXCEPT ![idx] = b] /\ (b = [c EXCEPT !.wbuf = X] \/ b = [c EXCEPT !.bbuf = X])
  BY <1>1, <1>3
<1>5. BridgeRec(b) /\ b.peer = c.peer
  <2>1. CASE b = [c EXCEPT !.wbuf = X]
    BY <1>2, <2>1 DEF BridgeRec
  <2>2. CASE b = [c EXCEPT !.bbuf = X]
    BY <1>2, <2>2 DEF BridgeRec
  <2>3. QED
    BY <1>4, <2>1, <2>2
<1>6. Shape(ws') /\ PeersOf(ws') = PeersOf(ws) /\ Len(ws') = Len(ws)
  <2>1. PICK v : v = ws'
    OBVIOUS
  <2>2. Edits(ws, v, idx, b) /\ Shape(ws)
    BY <1>1, <1>4, <1>5, <2>1 DEF BridgeInv, Edits
  <2>3. QED
    BY <2>1, <2>2, ShapeEdit
<1>7. QED
  BY <1>6 DEF BridgesGo

\* The thread goes on with the same slot.
LEMMA StaysKeeps ==
  ASSUME SlotInv, pc \in Serving, NEW label, StaysAt(label), Len(ws') = Len(ws)
  PROVE  SlotInv'
BY DEF SlotInv, StaysAt

\* The thread goes on to the next slot, or back to poll.
LEMMA NextSlotKeeps ==
  ASSUME SlotInv, BridgeInv, pc \in Serving, NextSlot, Len(ws') = Len(ws)
  PROVE  SlotInv'
<1>1. PICK m \in Nat : m = Len(ws)
  BY ShapeSeq DEF BridgeInv
<1>2. idx \in Nat /\ slots \in Nat
  BY DEF SlotInv
<1>3. PICK last : last = Min({slots, Len(ws)})
  OBVIOUS
<1>4. last \in Nat /\ last <= m
  <2>1. {slots, m} \in SUBSET Nat /\ {slots, m} # {}
    BY <1>1, <1>2
  <2>2. Min({slots, m}) \in {slots, m} /\ \A y \in {slots, m} : Min({slots, m}) <= y
    BY <2>1, MinIsLeast
  <2>3. QED
    BY <1>1, <1>2, <1>3, <2>2
<1>5. PICK ahead : ahead = {e.slot : e \in polled} \cap ((idx + 1) .. last)
  OBVIOUS
<1>6. IF ahead = {} THEN EndRound
      ELSE pc' = "serve" /\ idx' = Min(ahead) /\ UNCHANGED <<polled, slots>>
  BY <1>3, <1>5 DEF NextSlot
<1>7. CASE ahead = {}
  BY <1>6, <1>7 DEF EndRound, SlotInv, Serving
<1>8. CASE ahead # {}
  <2>1. ahead \in SUBSET Nat /\ ahead \subseteq 1 .. m
    BY <1>1, <1>2, <1>4, <1>5
  <2>2. Min(ahead) \in ahead
    BY <1>8, <2>1, MinIsLeast
  <2>3. idx' \in 1 .. m /\ slots' = slots
    BY <1>6, <1>8, <2>1, <2>2
  <2>4. QED
    BY <1>1, <1>2, <2>3 DEF SlotInv
<1>9. QED
  BY <1>7, <1>8

\* The thread reads from a peer.
LEMMA ReadPeerKeeps ==
  ASSUME WsInv, ReadPeer
  PROVE  WsInv'
<1>1. Sound(Table, Doors) /\ BridgeInv /\ SlotInv /\ pc \in Serving /\ idx \in 1 .. Len(ws)
  BY DEF WsInv, ReadPeer, SlotInv, Serving
<1>2. /\ UNCHANGED <<heap, clients, fd, closings, proper, peer>> /\ UNCHANGED <<outbox, fd>>
      /\ UNCHANGED inbox /\ UNCHANGED <<left, pipe, phase>>
  BY DEF ReadPeer, tableVars
<1>3. MailMoves
  BY <1>1, <1>2, BoxesSame, OutsSame DEF MailMoves
<1>4. Drop \/ (Rebuffered /\ unbridged' = unbridged /\ StaysAt("frames"))
  BY Zenon DEF ReadPeer, Rebuffered
<1>5. BridgesGo /\ SlotInv'
  BY <1>1, <1>4, DropGoes, EditGoes, StaysKeeps
<1>6. QED
  BY <1>2, <1>3, <1>5, MailStep

\* The thread relays a frame to the broker.
LEMMA RelayFrameKeeps ==
  ASSUME WsInv, RelayFrame
  PROVE  WsInv'
<1>1. Sound(Table, Doors) /\ BridgeInv /\ SlotInv /\ pc \in Serving /\ idx \in 1 .. Len(ws)
  BY DEF WsInv, RelayFrame, SlotInv, Serving
<1>2. /\ UNCHANGED <<heap, clients, fd, closings, proper, peer>> /\ UNCHANGED <<outbox, fd>>
      /\ UNCHANGED <<left, pipe, phase>>
  BY DEF RelayFrame
<1>3. \/ UNCHANGED inbox
      \/ \E p, m : inbox' = [inbox EXCEPT ![p] = Append(@, m)]
  BY Zenon DEF RelayFrame, write_line
<1>4. Boxes(Table')
  BY <1>1, <1>3, BoxesSame, BoxesMore
<1>5. MailMoves
  BY <1>1, <1>2, <1>4, OutsSame DEF MailMoves
<1>6. \/ Drop
      \/ Rebuffered /\ unbridged' = unbridged /\ StaysAt("frames")
      \/ UNCHANGED ws /\ unbridged' = unbridged /\ (StaysAt("bridge") \/ NextSlot)
  BY Zenon DEF RelayFrame, Rebuffered
<1>7. BridgesGo /\ SlotInv'
  <2>1. CASE Drop
    BY <1>1, <2>1, DropGoes
  <2>2. CASE Rebuffered /\ unbridged' = unbridged /\ StaysAt("frames")
    BY <1>1, <2>2, EditGoes, StaysKeeps
  <2>3. CASE UNCHANGED ws /\ unbridged' = unbridged /\ (StaysAt("bridge") \/ NextSlot)
    BY <1>1, <2>3, BridgesSame, StaysKeeps, NextSlotKeeps
  <2>4. QED
    BY <1>6, <2>1, <2>2, <2>3
<1>8. QED
  BY <1>2, <1>5, <1>7, MailStep

\* The thread relays a line to the peer.
LEMMA RelayLineKeeps ==
  ASSUME WsInv, RelayLine
  PROVE  WsInv'
<1>1. Sound(Table, Doors) /\ BridgeInv /\ SlotInv /\ pc \in Serving /\ idx \in 1 .. Len(ws)
  BY DEF WsInv, RelayLine, SlotInv, Serving
<1>2. /\ UNCHANGED <<heap, clients, fd, closings, proper, peer>> /\ UNCHANGED <<outbox, fd>>
      /\ UNCHANGED inbox /\ UNCHANGED <<left, pipe, phase>>
  BY DEF RelayLine
<1>3. MailMoves
  BY <1>1, <1>2, BoxesSame, OutsSame DEF MailMoves
<1>4. \/ Drop
      \/ Rebuffered /\ unbridged' = unbridged /\ (StaysAt("lines") \/ NextSlot)
      \/ UNCHANGED ws /\ unbridged' = unbridged /\ NextSlot
  BY Zenon DEF RelayLine, Rebuffered
<1>5. BridgesGo /\ SlotInv'
  <2>1. CASE Drop
    BY <1>1, <2>1, DropGoes
  <2>2. CASE Rebuffered /\ unbridged' = unbridged /\ (StaysAt("lines") \/ NextSlot)
    BY <1>1, <2>2, EditGoes, StaysKeeps, NextSlotKeeps
  <2>3. CASE UNCHANGED ws /\ unbridged' = unbridged /\ NextSlot
    BY <1>1, <2>3, BridgesSame, NextSlotKeeps
  <2>4. QED
    BY <1>4, <2>1, <2>2, <2>3
<1>6. QED
  BY <1>2, <1>3, <1>5, MailStep

\* The thread reads from its end of a bridge.
LEMMA ReadBridgeKeeps ==
  ASSUME WsInv, ReadBridge
  PROVE  WsInv'
<1>1. Sound(Table, Doors) /\ BridgeInv /\ SlotInv /\ pc \in Serving /\ idx \in 1 .. Len(ws)
  BY DEF WsInv, ReadBridge, SlotInv, Serving
<1>2. /\ UNCHANGED <<heap, clients, fd, closings, proper, peer>> /\ UNCHANGED inbox
      /\ UNCHANGED <<left, pipe, phase>>
  BY DEF ReadBridge
<1>3. \/ Drop /\ UNCHANGED outbox
      \/ /\ Rebuffered /\ unbridged' = unbridged /\ StaysAt("lines")
         /\ \E p, X : outbox[p] # <<>> /\ outbox' = [outbox EXCEPT ![p] = X]
  BY Zenon DEF ReadBridge, Rebuffered
<1>4. Outs(Table', Doors)
  <2>1. CASE UNCHANGED outbox
    BY <1>1, <1>2, <2>1, OutsSame
  <2>2. ASSUME NEW p, NEW X, outbox[p] # <<>>, outbox' = [outbox EXCEPT ![p] = X]
        PROVE  Outs(Table', Doors)
    <3>1. Table.outbox = outbox /\ Table'.outbox = outbox' /\ Table.fd = fd /\ Table'.fd = fd'
      BY DEF Table
    <3>2. Outs(Table, Doors)
      BY <1>1 DEF Sound
    <3>3. /\ outbox = [q \in Peers |-> outbox[q]]
          /\ \A q \in Peers : Doors[q] # "ws" \/ fd[q] = "none" => outbox[q] = <<>>
      BY <3>1, <3>2 DEF Outs
    <3>4. outbox' = [q \in Peers |-> outbox'[q]] /\ \A q \in Peers : q # p => outbox'[q] = outbox[q]
      BY <2>2, <3>3
    <3>5. \A q \in Peers : Doors[q] # "ws" \/ fd[q] = "none" => outbox'[q] = <<>>
      BY <2>2, <3>3, <3>4
    <3>6. QED
      BY <1>2, <3>1, <3>4, <3>5 DEF Outs
  <2>3. QED
    BY <1>3, <2>1, <2>2
<1>5. MailMoves
  BY <1>1, <1>2, <1>4, BoxesSame DEF MailMoves
<1>6. BridgesGo /\ SlotInv'
  BY <1>1, <1>3, DropGoes, EditGoes, StaysKeeps
<1>7. QED
  BY <1>2, <1>5, <1>6, MailStep

\* The thread ends, and closes what it has.
LEMMA ExitKeeps ==
  ASSUME WsInv, Exit
  PROVE  WsInv'
<1>1. Sound(Table, Doors) /\ BridgeInv /\ SlotInv
  BY DEF WsInv
<1>2. /\ UNCHANGED <<heap, clients, fd, closings, proper, peer>> /\ UNCHANGED <<outbox, fd>>
      /\ UNCHANGED inbox /\ UNCHANGED <<left, pipe, phase>>
  BY DEF Exit, tableVars
<1>3. MailMoves
  BY <1>1, <1>2, BoxesSame, OutsSame DEF MailMoves
<1>4. Bridged = PeersOf(ws)
  BY <1>1, ShapeSeq DEF Bridged, BridgeInv
<1>5. ws' = <<>> /\ unbridged' = unbridged \cup PeersOf(ws)
  BY <1>4 DEF Exit
<1>6. Shape(ws') /\ PeersOf(ws') = {}
  BY <1>5, EmptyIsSeq DEF Shape, PeersOf
<1>7. BridgesGo
  BY <1>5, <1>6 DEF BridgesGo
<1>8. SlotInv'
  BY <1>1 DEF Exit, SlotInv, Serving
<1>9. QED
  BY <1>2, <1>3, <1>7, <1>8, MailStep

\* A descriptor goes into the pipe.
LEMMA PipedSound ==
  ASSUME NEW t, NEW D, Sound(t, D), NEW p \in Peers, t.fd[p] = "none",
         NEW u, u = [t EXCEPT !.fd[p] = "pipe"], D[p] = "ws"
  PROVE  Sound(u, D)
<1>1. IsTable(t) /\ Held(t) /\ Sums(t) /\ Boxes(t) /\ Outs(t, D) /\ Greeted(t, D) /\ Named(t, {})
  BY DEF Sound
<1>2. /\ IsTable(u) /\ u.heap = t.heap /\ u.clients = t.clients /\ u.fd = [t.fd EXCEPT ![p] = "pipe"]
      /\ u.closings = t.closings /\ u.inbox = t.inbox /\ u.outbox = t.outbox /\ u.proper = t.proper
  BY <1>1 DEF IsTable
<1>3. SameClients(t, u)
  BY <1>2 DEF SameClients
<1>4. t.fd \in [Peers -> Ways]
  BY <1>1 DEF Held
<1>5. /\ u.fd \in [Peers -> Ways] /\ u.fd[p] = "pipe"
      /\ \A q \in Peers : q # p => u.fd[q] = t.fd[q]
  BY <1>2, <1>4 DEF Ways
<1>6. Held(u)
  <2>1. \A a \in Addresses : In(a, t.clients) => t.heap[a].peer \in Peers /\ t.heap[a].peer # p
    BY <1>1 DEF Held, ClientRec
  <2>2. \A a \in Addresses : In(a, u.clients) => u.fd[u.heap[a].peer] = "held"
    BY <1>1, <1>2, <1>5, <2>1 DEF Held
  <2>3. \A q \in Peers : u.fd[q] = "held" =>
                        \E a \in Addresses : In(a, u.clients) /\ u.heap[a].peer = q
    BY <1>1, <1>2, <1>5 DEF Held
  <2>4. QED
    BY <1>1, <1>2, <1>5, <2>2, <2>3 DEF Held
<1>7. Sums(u)
  BY <1>1, <1>2, <1>5 DEF Sums
<1>8. Boxes(u)
  BY <1>1, <1>2 DEF Boxes
<1>9. Outs(u, D)
  BY <1>1, <1>2, <1>5 DEF Outs
<1>10. Greeted(u, D) /\ Named(u, {})
  BY <1>1, <1>2, <1>3, SameGreeted, SameNamed
<1>11. QED
  BY <1>2, <1>6, <1>7, <1>8, <1>9, <1>10 DEF Sound

\* The peer whose handshake is over is let in.
LEMMA SettledAdmits ==
  ASSUME PeerInv, NEW p \in Peers, Settled(p)
  PROVE  Admit({p})
<1>1. peer \in [Peers -> PeerRec]
  BY DEF PeerInv
<1>2. PICK r : r = [peer[p] EXCEPT !.state = "open"]
  OBVIOUS
<1>3. peer' = [peer EXCEPT ![p] = r]
  BY <1>2 DEF Settled
<1>4. peer' = [q \in Peers |-> IF q \in {p} THEN r ELSE peer[q]]
  BY <1>1, <1>3
<1>5. QED
  BY <1>2, <1>4 DEF Admit

NewBridge(p) == [peer |-> p, wbuf |-> <<>>, bbuf |-> <<>>]

\* What the thread may do with a peer that knocks: hand it over, or close it.
HandsOver(p) ==
  /\ pipe' = Append(pipe, [peer |-> p, auth |-> TRUE])
  /\ fd' = [fd EXCEPT ![p] = "pipe"]
  /\ UNCHANGED <<heap, clients, closings, inbox, outbox, due, owed, proper>>
  /\ ws' = Append(ws, NewBridge(p))
Closes(p) == /\ SetTable(TableClosing(Table, p, 1)) /\ UNCHANGED pipe
             /\ ws' = ws \/ ws' = Append(ws, NewBridge(p))

\* Where that leaves its descriptor and the thread's clients.
Answered(p, way) ==
  /\ fd'[p] = way /\ \A q \in Peers : q # p => fd'[q] = fd[q]
  /\ Sound(Table', Doors)
  /\ Shape(ws') /\ Len(ws') \in Nat /\ Len(ws') >= Len(ws)
  /\ PeersOf(ws) \subseteq PeersOf(ws') /\ PeersOf(ws') \subseteq PeersOf(ws) \cup {p}

\* The array has the new bridge, if there is one.
LEMMA NewBridgeIs ==
  ASSUME BridgeInv, NEW p \in Peers
  PROVE  /\ ws' = Append(ws, NewBridge(p)) =>
              /\ Shape(ws') /\ Len(ws') \in Nat /\ Len(ws') >= Len(ws)
              /\ PeersOf(ws') = PeersOf(ws) \cup {p}
         /\ ws' = ws => Shape(ws') /\ Len(ws') \in Nat /\ Len(ws') >= Len(ws)
<1>1. Shape(ws) /\ Len(ws) \in Nat
  BY ShapeSeq DEF BridgeInv
<1>2. PICK b : b = NewBridge(p)
  OBVIOUS
<1>3. BridgeRec(b) /\ b.peer = p
  BY <1>2 DEF BridgeRec, NewBridge
<1>4. ASSUME ws' = Append(ws, b)
      PROVE  Shape(ws') /\ PeersOf(ws') = PeersOf(ws) \cup {p} /\ Len(ws') = Len(ws) + 1
  BY <1>1, <1>3, <1>4, ShapeAdd
<1>5. QED
  BY <1>1, <1>2, <1>4

\* A connection handed over is in the pipe, and its bridge in the array.
LEMMA HandsOverIs ==
  ASSUME WsInv, NEW p \in Knocking("ws"), HandsOver(p)
  PROVE  Answered(p, "pipe") /\ p \in PeersOf(ws')
<1>1. p \in Peers /\ peer[p].door = "ws" /\ fd[p] = "none"
  BY KnockingIs DEF WsInv
<1>2. PICK t : t = Table
  OBVIOUS
<1>3. Sound(t, Doors) /\ t.fd = fd /\ IsTable(t)
  BY <1>2, TableFields DEF WsInv
<1>4. fd \in [Peers -> Ways]
  BY <1>3 DEF Sound, Held
<1>5. fd'[p] = "pipe" /\ \A q \in Peers : q # p => fd'[q] = fd[q]
  BY <1>1, <1>4 DEF HandsOver
<1>6. PICK u : u = [t EXCEPT !.fd[p] = "pipe"]
  OBVIOUS
<1>7. Table' = u
  BY <1>2, <1>6 DEF HandsOver, Table
<1>8. Doors[p] = "ws" /\ t.fd[p] = "none"
  BY <1>1, <1>3 DEF Doors
<1>9. Sound(Table', Doors)
  BY <1>1, <1>3, <1>6, <1>7, <1>8, PipedSound
<1>10. /\ Shape(ws') /\ Len(ws') \in Nat /\ Len(ws') >= Len(ws)
       /\ PeersOf(ws') = PeersOf(ws) \cup {p}
  <2>1. BridgeInv /\ ws' = Append(ws, NewBridge(p))
    BY DEF WsInv, HandsOver
  <2>2. QED
    BY <1>1, <2>1, NewBridgeIs
<1>11. QED
  BY <1>5, <1>9, <1>10 DEF Answered

\* A connection that is not handed over is closed.
LEMMA ClosesIs ==
  ASSUME WsInv, NEW p \in Knocking("ws"), Closes(p)
  PROVE  Answered(p, "closed")
<1>1. p \in Peers /\ peer[p].door = "ws" /\ fd[p] = "none"
  BY KnockingIs DEF WsInv
<1>2. PICK t : t = Table
  OBVIOUS
<1>3. Sound(t, Doors) /\ t.fd = fd /\ IsTable(t)
  BY <1>2, TableFields DEF WsInv
<1>4. fd \in [Peers -> Ways]
  BY <1>3 DEF Sound, Held
<1>5. PICK u : u = TableClosing(t, p, 1)
  OBVIOUS
<1>6. Sound(u, Doors) /\ u.fd = [t.fd EXCEPT ![p] = "closed"]
  <2>1. t.fd[p] \in {"none", "pipe"} /\ 1 \in Nat
    BY <1>1, <1>3
  <2>2. QED
    BY <1>1, <1>3, <1>5, <2>1, ClosingSound
<1>7. SetTable(u)
  BY <1>2, <1>5 DEF Closes
<1>8. Table' = u /\ fd' = u.fd
  BY <1>6, <1>7, SetTableIs DEF Sound, SetTable
<1>9. fd'[p] = "closed" /\ \A q \in Peers : q # p => fd'[q] = fd[q]
  BY <1>1, <1>3, <1>4, <1>6, <1>8
<1>10. /\ Shape(ws') /\ Len(ws') \in Nat /\ Len(ws') >= Len(ws)
       /\ PeersOf(ws) \subseteq PeersOf(ws') /\ PeersOf(ws') \subseteq PeersOf(ws) \cup {p}
  <2>1. CASE ws' = ws
    BY <1>1, <2>1, NewBridgeIs DEF WsInv
  <2>2. CASE ws' = Append(ws, NewBridge(p))
    BY <1>1, <2>2, NewBridgeIs DEF WsInv
  <2>3. QED
    BY <2>1, <2>2 DEF Closes
<1>11. QED
  BY <1>6, <1>8, <1>9, <1>10 DEF Answered

\* Every outcome of the handshake is one of the two.
LEMMA AcceptIs ==
  ASSUME NEW p, NEW handshake, NEW pair, Accept(p, handshake, pair)
  PROVE  Settled(p) /\ (HandsOver(p) \/ Closes(p))
<1>1. CASE TurnAway(p)
  BY <1>1 DEF TurnAway, Closes
<1>2. CASE sm_broker_register_client_async(p, TRUE) /\ ws' = Append(ws, NewBridge(p)) /\ Settled(p)
  BY <1>2 DEF sm_broker_register_client_async, HandsOver, Closes
<1>3. QED
  BY <1>1, <1>2 DEF Accept, NewBridge

\* Either way the invariant is kept.
LEMMA AnsweredKeeps ==
  ASSUME WsInv, NEW p \in Knocking("ws"), Settled(p), HandsOver(p) \/ Closes(p),
         UNCHANGED <<left, unbridged, phase>>
  PROVE  /\ Sound(Table', Doors') /\ PeerInv' /\ PipeInv' /\ BridgeInv'
         /\ Len(ws') \in Nat /\ Len(ws') >= Len(ws)
<1>1. PeerInv /\ PipeInv /\ BridgeInv
  BY DEF WsInv
<1>2. p \in Peers /\ peer[p].state = "knocking" /\ peer[p].door = "ws" /\ fd[p] = "none"
  BY <1>1, KnockingIs
<1>3. Admit({p})
  BY <1>1, <1>2, SettledAdmits
<1>4. /\ peer' \in [Peers -> PeerRec] /\ DoorsStay
      /\ \A q \in Peers : peer'[q].state = IF q \in {p} THEN "open" ELSE peer[q].state
  BY <1>1, <1>3, AdmitIs
<1>5. PICK way \in {"pipe", "closed"} :
        /\ Answered(p, way)
        /\ way = "pipe" => HandsOver(p) /\ p \in PeersOf(ws')
        /\ way = "closed" => UNCHANGED pipe
  BY HandsOverIs, ClosesIs DEF Closes
<1>6. fd'[p] = way /\ \A q \in Peers : q # p => fd'[q] = fd[q]
  BY <1>5 DEF Answered
<1>7. PeerInv'
  <2>1. \A q \in Peers : peer'[q].state \in {"away", "knocking"} <=> fd'[q] = "none"
    BY <1>1, <1>2, <1>4, <1>6 DEF PeerInv
  <2>2. \A q \in left' : q \in Peers => peer'[q].state # "away"
    BY <1>1, <1>4 DEF PeerInv
  <2>3. QED
    BY <1>4, <2>1, <2>2 DEF PeerInv
<1>8. PipeInv'
  <2>1. CASE way = "closed"
    <3>1. PipeStays /\ StillUp /\ UNCHANGED pipe
      BY <1>2, <1>5, <1>6, <2>1 DEF PipeStays, StillUp
    <3>2. QED
      BY <1>1, <3>1, PipeKeeps
  <2>2. CASE way = "pipe"
    <3>1. PICK r : r = [peer |-> p, auth |-> TRUE]
      OBVIOUS
    <3>2. r \in Records /\ r.peer = p /\ r.auth = TRUE
      BY <1>2, <3>1 DEF Records
    <3>3. pipe' = Append(pipe, r) /\ pipe \in Seq(Records)
      BY <1>1, <1>5, <2>2, <3>1 DEF HandsOver, PipeInv
    <3>4. PICK n \in Nat : n = Len(pipe)
      BY <3>3
    <3>5. PICK v : v = pipe'
      OBVIOUS
    <3>6. v \in Seq(Records) /\ Len(v) = n + 1 /\ v[n + 1] = r /\ \A i \in 1 .. n : v[i] = pipe[i]
      BY <3>2, <3>3, <3>4, <3>5
    <3>7. \A i \in 1 .. n : pipe[i].peer \in Peers /\ pipe[i].peer # p
      BY <1>1, <1>2, <3>4, PipePeers DEF PipeInv
    <3>8. \A i \in 1 .. (n + 1) : i \in 1 .. n \/ i = n + 1
      OBVIOUS
    <3>9. \A i, j \in 1 .. (n + 1) : v[i].peer = v[j].peer => i = j
      <4>1. \A i, j \in 1 .. n : pipe[i].peer = pipe[j].peer => i = j
        BY <1>1, <3>4 DEF PipeInv
      <4>2. QED
        BY <3>2, <3>6, <3>7, <3>8, <4>1
    <3>10. ASSUME NEW i \in 1 .. (n + 1) PROVE fd'[v[i].peer] = "pipe" /\ v[i].auth = TRUE
      <4>1. CASE i = n + 1
        BY <1>6, <2>2, <3>2, <3>6, <4>1
      <4>2. CASE i \in 1 .. n
        <5>1. v[i] = pipe[i] /\ fd[pipe[i].peer] = "pipe" /\ pipe[i].auth = TRUE
          BY <1>1, <3>4, <3>6, <4>2 DEF PipeInv
        <5>2. fd'[pipe[i].peer] = fd[pipe[i].peer]
          BY <1>6, <3>7, <4>2
        <5>3. QED
          BY <5>1, <5>2
      <4>3. QED
        BY <3>8, <4>1, <4>2
    <3>11. ASSUME phase' \in {"run", "joining"}, NEW q \in Peers, fd'[q] = "pipe"
           PROVE  \E i \in 1 .. (n + 1) : v[i].peer = q
      <4>1. CASE q = p
        <5>1. n + 1 \in 1 .. (n + 1)
          OBVIOUS
        <5>2. QED
          BY <3>2, <3>6, <4>1, <5>1
      <4>2. CASE q # p
        <5>1. fd[q] = "pipe"
          BY <1>6, <3>11, <4>2
        <5>2. PICK i \in 1 .. n : pipe[i].peer = q
          BY <1>1, <3>4, <3>11, <5>1 DEF PipeInv
        <5>3. i \in 1 .. (n + 1) /\ v[i] = pipe[i]
          BY <3>6, <5>2
        <5>4. QED
          BY <5>2, <5>3
      <4>3. QED
        BY <4>1, <4>2
    <3>12. QED
      BY <3>5, <3>6, <3>9, <3>10, <3>11 DEF PipeInv
  <2>3. QED
    BY <2>1, <2>2
<1>9. /\ Shape(ws') /\ Len(ws') \in Nat /\ Len(ws') >= Len(ws)
      /\ PeersOf(ws) \subseteq PeersOf(ws') /\ PeersOf(ws') \subseteq PeersOf(ws) \cup {p}
  BY <1>5 DEF Answered
<1>10. BridgeInv'
  <2>1. PeersOf(ws) \subseteq Peers
    BY <1>1, ShapeSeq DEF BridgeInv
  <2>2. \A q \in PeersOf(ws') : fd'[q] # "none"
    BY <1>1, <1>6, <1>9, <2>1 DEF BridgeInv
  <2>3. ASSUME NEW q \in Peers, fd'[q] \in {"pipe", "held"}, peer'[q].door = "ws"
        PROVE  q \in unbridged' \/ q \in PeersOf(ws')
    <3>1. CASE q = p
      BY <1>5, <1>6, <2>3, <3>1
    <3>2. CASE q # p
      <4>1. fd[q] \in {"pipe", "held"} /\ peer[q].door = "ws"
        BY <1>4, <1>6, <2>3, <3>2 DEF DoorsStay
      <4>2. q \in unbridged \/ q \in PeersOf(ws)
        BY <1>1, <4>1 DEF BridgeInv
      <4>3. QED
        BY <1>9, <4>2
    <3>3. QED
      BY <3>1, <3>2
  <2>4. QED
    BY <1>9, <2>2, <2>3 DEF BridgeInv
<1>11. Sound(Table', Doors')
  BY <1>4, <1>5, DoorsSame DEF Answered
<1>12. QED
  BY <1>7, <1>8, <1>9, <1>10, <1>11

\* The thread polls, and may accept a connection.
LEMMA PollKeeps ==
  ASSUME WsInv, Poll
  PROVE  WsInv'
<1>1. Sound(Table, Doors) /\ PeerInv /\ PipeInv /\ BridgeInv /\ SlotInv
  BY DEF WsInv
<1>2. pc = "poll" /\ UNCHANGED <<left, unbridged, phase>>
  BY DEF Poll
<1>3. PICK m \in Nat : m = Len(ws)
  BY <1>1, ShapeSeq DEF BridgeInv
<1>4. /\ Sound(Table', Doors') /\ PeerInv' /\ PipeInv' /\ BridgeInv'
      /\ Len(ws') \in Nat /\ Len(ws') >= m
  <2>1. CASE UNCHANGED <<peer, tableVars, pipe, ws>>
    <3>1. UNCHANGED <<peer, left>> /\ UNCHANGED fd /\ UNCHANGED pipe /\ UNCHANGED ws
      BY <1>2, <2>1 DEF tableVars
    <3>2. FdFades /\ DoorsStay /\ StillUp /\ unbridged' = unbridged
      BY <1>2, <3>1, FdSame DEF DoorsStay, StillUp
    <3>3. PeerInv' /\ PipeInv' /\ BridgeInv'
      BY <1>1, <3>1, <3>2, PeerKeeps, PipeKeeps, FadesStays, BridgesSame, BridgeKeeps
    <3>4. Sound(Table', Doors')
      BY <1>1, <2>1, <3>2, SameTable, DoorsSame
    <3>5. QED
      BY <1>3, <3>1, <3>3, <3>4
  <2>2. ASSUME NEW p \in Knocking("ws"), NEW handshake, NEW pair, Accept(p, handshake, pair)
        PROVE  /\ Sound(Table', Doors') /\ PeerInv' /\ PipeInv' /\ BridgeInv'
               /\ Len(ws') \in Nat /\ Len(ws') >= m
    <3>1. Settled(p) /\ (HandsOver(p) \/ Closes(p))
      BY <2>2, AcceptIs
    <3>2. QED
      BY <1>2, <1>3, <3>1, AnsweredKeeps
  <2>3. QED
    BY <2>1, <2>2 DEF Poll
<1>5. SlotInv'
  <2>1. CASE pc' # "serve" /\ pc' \in {"poll", "exit"} /\ UNCHANGED <<slots, idx>>
    BY <1>1, <2>1 DEF SlotInv, Serving
  <2>2. CASE Readable # {} /\ slots' = Len(ws) /\ idx' = Min({e.slot : e \in Readable})
    <3>1. PICK S : S = {e.slot : e \in Readable}
      OBVIOUS
    <3>2. \A e \in Readable : e.slot \in 1 .. m
      <4>1. DOMAIN ws = 1 .. m
        BY <1>1, <1>3, ShapeSeq DEF BridgeInv
      <4>2. QED
        BY <4>1 DEF Readable
    <3>3. S \in SUBSET Nat /\ S \subseteq 1 .. m /\ S # {}
      BY <2>2, <3>1, <3>2
    <3>4. Min(S) \in S
      BY <3>3, MinIsLeast
    <3>5. idx' \in 1 .. m /\ slots' \in Nat
      BY <1>3, <2>2, <3>1, <3>3, <3>4
    <3>6. idx' \in 1 .. Len(ws') /\ idx' \in Nat
      BY <1>4, <3>5
    <3>7. QED
      BY <3>5, <3>6 DEF SlotInv
  <2>3. QED
    BY <1>2, <2>1, <2>2 DEF Poll
<1>6. QED
  BY <1>4, <1>5 DEF WsInv

\* Every step of the broker, the thread and the peers keeps the invariant.
LEMMA WsInvNext == WsInv /\ [WsNext]_wsVars => WsInv'
<1> SUFFICES ASSUME WsInv, [WsNext]_wsVars PROVE WsInv'
  OBVIOUS
<1>1. CASE UNCHANGED wsVars
  <2>1. UNCHANGED tableVars /\ Aside /\ StillUp
    BY <1>1 DEF wsVars, regVars, threadVars, tableVars, Aside, StillUp
  <2>2. QED
    BY <2>1, IdleStep
<1>2. CASE ThreadStep
  BY <1>2, PollKeeps, ReadPeerKeeps, RelayFrameKeeps, ReadBridgeKeeps, RelayLineKeeps, ExitKeeps
  DEF ThreadStep
<1>3. CASE BrokerStep
  <2>1. UNCHANGED <<idx, slots, pc, ws>>
    BY <1>3 DEF BrokerStep, threadVars
  <2>2. CASE EpollWait \/ sm_broker_stop \/ StopSinks
    BY <2>1, <2>2, PausesKeep
  <2>3. CASE ServeClient
    BY <2>1, <2>3, ServeClientKeeps
  <2>4. CASE sm_broker_destroy
    BY <2>1, <2>4, DestroyKeeps
  <2>5. ASSUME NEW outcome \in Outcomes, ServeDoor(outcome) PROVE WsInv'
    BY <2>1, <2>5, ServeDoorKeeps
  <2>6. CASE CloseDoors
    BY <2>1, <2>6, CloseDoorsKeeps
  <2>7. ASSUME NEW late, Housekeeping(late) PROVE WsInv'
    BY <2>1, <2>7, HousekeepingKeeps
  <2>8. QED
    BY <1>3, <2>2, <2>3, <2>4, <2>5, <2>6, <2>7 DEF BrokerStep, LoopStep
<1>4. CASE PeerStep
  <2>1. PICK p \in Peers :
          \/ (Knock(p) \/ PeerLeaves(p) \/ PeerExits(p)) /\ UNCHANGED <<wireVars, threadVars>>
          \/ PeerSays(p) \/ SendFrame(p) \/ PeerReads(p)
    BY <1>4 DEF PeerStep
  <2>2. CASE (Knock(p) \/ PeerLeaves(p) \/ PeerExits(p)) /\ UNCHANGED <<wireVars, threadVars>>
    <3>1. UNCHANGED <<idx, slots, pc, ws>>
      BY <2>2 DEF threadVars
    <3>2. QED
      BY <2>2, <3>1, KnockKeeps, LeavesKeeps, ExitsKeeps
  <2>3. CASE PeerSays(p) \/ SendFrame(p) \/ PeerReads(p)
    BY <2>3, PeerMailKeeps
  <2>4. QED
    BY <2>1, <2>2, <2>3
<1>5. QED
  BY <1>1, <1>2, <1>3, <1>4 DEF WsNext

\* The invariant of the broker's thread and the WebSocket thread: the array, the heap, the
\* descriptors, reg_pipe and the bridges fit together in every reachable state.
THEOREM RegistrationInvariant == WsSpec => []WsInv
<1>1. QED
  BY WsInvInit, WsInvNext, PTL DEF WsSpec

-----------------------------------------------------------------------------
(* What follows from it.                                                   *)

\* A set whose elements are equal has at most one.
LEMMA AtMostOne ==
  ASSUME NEW S, \A x, y \in S : x = y
  PROVE  Cardinality(S) = IF S = {} THEN 0 ELSE 1
<1>1. CASE S = {}
  BY <1>1, FS_EmptySet
<1>2. CASE S # {}
  <2>1. PICK x : S = {x}
    BY <1>2
  <2>2. QED
    BY <1>2, <2>1, FS_Singleton
<1>3. QED
  BY <1>1, <1>2

RecordsOf(p) == {i \in DOMAIN pipe : pipe[i].peer = p}
HoldersOf(p) == {i \in DOMAIN clients : heap[clients[i]].peer = p}

\* How often a connection is in the pipe and in the table, by what its descriptor is.
LEMMA OwnersOf ==
  ASSUME WsInv, NEW p \in Peers
  PROVE  /\ Cardinality(RecordsOf(p)) = IF RecordsOf(p) = {} THEN 0 ELSE 1
         /\ Cardinality(HoldersOf(p)) = IF HoldersOf(p) = {} THEN 0 ELSE 1
         /\ RecordsOf(p) # {} => fd[p] = "pipe"
         /\ HoldersOf(p) # {} <=> fd[p] = "held"
         /\ fd[p] = "pipe" /\ phase \in {"run", "joining"} => RecordsOf(p) # {}
<1>1. PipeInv /\ Held(Table)
  BY DEF WsInv, Sound
<1>2. DOMAIN pipe = 1 .. Len(pipe)
  BY <1>1 DEF PipeInv
<1>3. /\ clients \in Seq(Addresses) /\ Once(clients)
      /\ \A a, b \in Addresses :
           In(a, clients) /\ In(b, clients) /\ heap[a].peer = heap[b].peer => a = b
      /\ \A a \in Addresses : In(a, clients) => fd[heap[a].peer] = "held"
      /\ \A q \in Peers : fd[q] = "held" => \E a \in Addresses : In(a, clients) /\ heap[a].peer = q
  BY <1>1, TableFields DEF Held
<1>4. DOMAIN clients = 1 .. Len(clients)
  BY <1>3
<1>5. \A i, j \in RecordsOf(p) : i = j
  BY <1>1, <1>2 DEF RecordsOf, PipeInv
<1>6. \A i \in 1 .. Len(clients) : clients[i] \in Addresses /\ In(clients[i], clients)
  BY <1>3 DEF In
<1>7. \A i, j \in HoldersOf(p) : i = j
  <2>1. ASSUME NEW i \in HoldersOf(p), NEW j \in HoldersOf(p) PROVE i = j
    <3>1. i \in 1 .. Len(clients) /\ j \in 1 .. Len(clients) /\ heap[clients[i]].peer = heap[clients[j]].peer
      BY <1>4 DEF HoldersOf
    <3>2. clients[i] = clients[j]
      BY <1>3, <1>6, <3>1
    <3>3. QED
      BY <1>3, <3>1, <3>2 DEF Once
  <2>2. QED
    BY <2>1
<1>8. RecordsOf(p) # {} => fd[p] = "pipe"
  BY <1>1, <1>2 DEF RecordsOf, PipeInv
<1>9. ASSUME HoldersOf(p) # {} PROVE fd[p] = "held"
  <2>1. PICK i \in 1 .. Len(clients) : heap[clients[i]].peer = p
    BY <1>4, <1>9 DEF HoldersOf
  <2>2. QED
    BY <1>3, <1>6, <2>1
<1>10. ASSUME fd[p] = "held" PROVE HoldersOf(p) # {}
  <2>1. PICK a \in Addresses : In(a, clients) /\ heap[a].peer = p
    BY <1>3, <1>10
  <2>2. PICK i \in 1 .. Len(clients) : clients[i] = a
    BY <2>1 DEF In
  <2>3. i \in HoldersOf(p)
    BY <1>4, <2>1, <2>2 DEF HoldersOf
  <2>4. QED
    BY <2>3
<1>11. fd[p] = "pipe" /\ phase \in {"run", "joining"} => RecordsOf(p) # {}
  BY <1>1, <1>2 DEF RecordsOf, PipeInv
<1>12. QED
  BY <1>5, <1>7, <1>8, <1>9, <1>10, <1>11, AtMostOne

\* So every connection has one owner.
LEMMA OwnerOfEach ==
  ASSUME WsInv, "buffers" \notin AllocFailures
  PROVE  OneOwner
<1>1. Held(Table) /\ Sums(Table) /\ BridgeInv
  BY DEF WsInv, Sound
<1>2. ASSUME NEW p \in Peers
      PROVE  /\ Cardinality(RecordsOf(p)) + Cardinality(HoldersOf(p)) <= 1
             /\ fd[p] = "pipe" /\ phase \in {"run", "joining"} => Cardinality(RecordsOf(p)) = 1
             /\ fd[p] = "held" => Cardinality(HoldersOf(p)) = 1
             /\ fd[p] \in {"none", "closed"} => RecordsOf(p) = {} /\ HoldersOf(p) = {}
             /\ closings[p] = (IF fd[p] = "closed" THEN 1 ELSE 0)
  <2>1. /\ Cardinality(RecordsOf(p)) = IF RecordsOf(p) = {} THEN 0 ELSE 1
        /\ Cardinality(HoldersOf(p)) = IF HoldersOf(p) = {} THEN 0 ELSE 1
        /\ RecordsOf(p) # {} => fd[p] = "pipe"
        /\ HoldersOf(p) # {} <=> fd[p] = "held"
        /\ fd[p] = "pipe" /\ phase \in {"run", "joining"} => RecordsOf(p) # {}
    BY OwnersOf
  <2>2. closings[p] = (IF fd[p] = "closed" THEN 1 ELSE 0)
    BY <1>1, TableFields DEF Sums
  <2>3. QED
    BY <2>1, <2>2
<1>3. \A a \in Addresses : heap[a] # Free <=> a \in Range(clients)
  <2>1. clients \in Seq(Addresses) /\ \A a \in Addresses : IF In(a, clients) THEN ClientRec(heap[a]) ELSE heap[a] = Free
    BY <1>1, TableFields DEF Held
  <2>2. \A a : a \in Range(clients) <=> In(a, clients)
    BY <2>1, InRange
  <2>3. QED
    BY <2>1, <2>2, FreeIsNone
<1>4. \A p \in Bridged : fd[p] # "none"
  BY <1>1, ShapeSeq DEF BridgeInv, Bridged
<1>5. QED
  BY <1>2, <1>3, <1>4 DEF OneOwner, RecordsOf, HoldersOf

\* Every descriptor has one owner and is closed once, for any number of peers and any size of
\* the array, of reg_pipe and of the thread's table; unless memory for a client's buffers runs
\* out, where sm_broker_register_client's caller closes what sm_client_new has closed.
THEOREM OwnershipSafety == "buffers" \notin AllocFailures => (WsSpec => []OneOwner)
<1> SUFFICES ASSUME "buffers" \notin AllocFailures PROVE WsSpec => []OneOwner
  OBVIOUS
<1>1. WsInv => OneOwner
  BY OwnerOfEach
<1>2. QED
  BY <1>1, RegistrationInvariant, PTL

\* So the hello governs who is in.
LEMMA HelloHolds ==
  ASSUME WsInv
  PROVE  HelloGoverns
<1>1. Held(Table) /\ Greeted(Table, Doors) /\ Named(Table, {})
  BY DEF WsInv, Sound
<1>2. clients \in Seq(Addresses)
  BY <1>1, TableFields DEF Held
<1>3. \A a : a \in Range(clients) <=> In(a, clients)
  BY <1>2, InRange
<1>4. \A a : a \in Range(clients) => a \in Addresses
  BY <1>2, <1>3 DEF In
<1>5. \A a \in Range(clients) : heap[a].hello => heap[a].peer \in proper
  BY <1>1, <1>3, <1>4, TableFields DEF Greeted
<1>6. ASSUME NEW a \in Range(clients), NEW b \in Range(clients), a # b, heap[a].hello, heap[b].hello
      PROVE  heap[a].name = "" \/ heap[a].name # heap[b].name
  <2>1. a \in Addresses \ {} /\ b \in Addresses \ {} /\ In(a, clients) /\ In(b, clients)
    BY <1>3, <1>4
  <2>2. QED
    BY <1>1, <1>6, <2>1, TableFields DEF Named
<1>7. QED
  BY <1>5, <1>6 DEF HelloGoverns

\* Nobody is forgotten when both threads rest.
LEMMA NobodyIs ==
  ASSUME WsInv, Quiet
  PROVE  NobodyForgotten
<1>1. Held(Table) /\ Outs(Table, Doors) /\ PeerInv /\ PipeInv /\ BridgeInv
  BY DEF WsInv, Sound
<1>2. /\ clients \in Seq(Addresses) /\ fd \in [Peers -> Ways]
      /\ \A q \in Peers : fd[q] = "held" => \E a \in Addresses : In(a, clients) /\ heap[a].peer = q
      /\ \A a \in Addresses : In(a, clients) => fd[heap[a].peer] = "held"
  BY <1>1, TableFields DEF Held
<1>3. \A a : a \in Range(clients) <=> In(a, clients)
  BY <1>2, InRange
<1>4. /\ phase = "run" /\ Knocking("unix") = {} /\ Knocking("tcp") = {} /\ Knocking("ws") = {}
      /\ pipe = <<>>
      /\ \A a \in Range(clients) : inbox[heap[a].peer] = <<>> /\ ~ Hung(heap[a].peer)
  BY DEF Quiet, Between, ReadyEvents
<1>5. \A a \in Range(clients) : heap[a].hello /\ peer[heap[a].peer].state # "exited"
  BY DEF Quiet, Overdue, WithoutHello
<1>6. \A q \in PeersOf(ws) : q \notin left /\ outbox[q] = <<>> /\ fd[q] # "closed"
  <2>1. DOMAIN ws = 1 .. Len(ws)
    BY <1>1, ShapeSeq DEF BridgeInv
  <2>2. \A j \in DOMAIN ws : ws[j].peer \notin left /\ outbox[ws[j].peer] = <<>> /\ fd[ws[j].peer] # "closed"
    BY DEF Quiet, Readable
  <2>3. QED
    BY <2>1, <2>2 DEF PeersOf
<1>7. Bridged = PeersOf(ws)
  BY <1>1, ShapeSeq DEF Bridged, BridgeInv
<1> DEFINE member(p) == \E a \in Range(clients) : heap[a].peer = p /\ heap[a].hello
<1>8. ASSUME NEW p \in Peers
      PROVE  /\ peer[p].state # "away" => member(p) \/ fd[p] = "closed"
             /\ p \in left \/ peer[p].state = "exited" => fd[p] = "closed"
             /\ peer[p].door = "ws" => (member(p) <=> p \in Bridged)
             /\ member(p) => inbox[p] = <<>> /\ outbox[p] = <<>>
  <2>1. fd[p] # "pipe"
    BY <1>1, <1>4 DEF PipeInv
  <2>2. peer[p] \in PeerRec /\ peer[p].state # "knocking"
    <3>1. PICK r \in PeerRec : r = peer[p]
      BY <1>1 DEF PeerInv
    <3>2. r = [state |-> r.state, door |-> r.door] /\ r.door \in {"unix", "tcp", "ws"}
      BY DEF PeerRec
    <3>3. r.state # "knocking"
      BY <1>4, <3>1, <3>2 DEF Knocking
    <3>4. QED
      BY <3>1, <3>3
  <2>3. member(p) <=> fd[p] = "held"
    <3>1. ASSUME member(p) PROVE fd[p] = "held"
      <4>1. PICK a \in Range(clients) : heap[a].peer = p
        BY <3>1
      <4>2. a \in Addresses /\ In(a, clients)
        BY <1>2, <1>3, <4>1 DEF In
      <4>3. QED
        BY <1>2, <4>1, <4>2
    <3>2. ASSUME fd[p] = "held" PROVE member(p)
      <4>1. PICK a \in Addresses : In(a, clients) /\ heap[a].peer = p
        BY <1>2, <3>2
      <4>2. a \in Range(clients)
        BY <1>3, <4>1
      <4>3. QED
        BY <1>5, <4>1, <4>2
    <3>3. QED
      BY <3>1, <3>2
  <2>4. ASSUME member(p) PROVE inbox[p] = <<>> /\ ~ Hung(p) /\ peer[p].state # "exited"
    BY <1>4, <1>5, <2>4
  <2> HIDE DEF member
  <2>5. fd[p] \in {"none", "held", "closed"}
    BY <1>2, <2>1 DEF Ways
  <2>6. peer[p].state = "away" <=> fd[p] = "none"
    BY <1>1, <2>2 DEF PeerInv
  <2>7. ASSUME member(p), peer[p].door = "ws" PROVE p \in PeersOf(ws)
    <3>1. p \notin unbridged
      BY <2>4, <2>7 DEF Hung
    <3>2. QED
      BY <1>1, <2>3, <2>7, <3>1 DEF BridgeInv
  <2>8. ASSUME member(p) PROVE p \notin left
    <3>1. CASE peer[p].door = "ws"
      BY <1>6, <2>7, <2>8, <3>1
    <3>2. CASE peer[p].door # "ws"
      BY <2>4, <2>8, <3>2 DEF Hung
    <3>3. QED
      BY <3>1, <3>2
  <2>9. peer[p].state # "away" => member(p) \/ fd[p] = "closed"
    BY <2>3, <2>5, <2>6
  <2>10. p \in left \/ peer[p].state = "exited" => fd[p] = "closed"
    <3>1. p \in left => peer[p].state # "away"
      BY <1>1 DEF PeerInv
    <3>2. QED
      BY <2>4, <2>8, <2>9, <3>1
  <2>11. peer[p].door = "ws" => (member(p) <=> p \in Bridged)
    <3>1. ASSUME p \in PeersOf(ws) PROVE member(p)
      <4>1. fd[p] # "none" /\ fd[p] # "closed"
        BY <1>1, <1>6, <3>1 DEF BridgeInv
      <4>2. QED
        BY <2>3, <2>5, <4>1
    <3>2. QED
      BY <1>7, <2>7, <3>1
  <2>12. member(p) => inbox[p] = <<>> /\ outbox[p] = <<>>
    <3>1. CASE peer[p].door = "ws"
      BY <1>6, <2>4, <2>7, <3>1
    <3>2. CASE peer[p].door # "ws"
      <4>1. Doors[p] # "ws"
        BY <3>2 DEF Doors
      <4>2. outbox[p] = <<>>
        BY <1>1, <4>1, TableFields DEF Outs
      <4>3. QED
        BY <2>4, <4>2
    <3>3. QED
      BY <3>1, <3>2
  <2>13. QED
    BY <2>9, <2>10, <2>11, <2>12
<1>9. QED
  BY <1>8 DEF NobodyForgotten

\* Nobody gets past the hello but by an acceptable one, no two clients past it share a name, and
\* when both threads rest everybody who knocked is a client or was turned away and everybody who
\* left is gone on both sides; for any number of peers and any size of the tables and buffers.
THEOREM DoorSafety == WsSpec => []DoorKept
<1>1. WsInv => DoorKept
  <2> SUFFICES ASSUME WsInv PROVE DoorKept
    OBVIOUS
  <2>1. HelloGoverns
    BY HelloHolds
  <2>2. NobodyForgotten
    <3>1. CASE Quiet
      BY <3>1, NobodyIs
    <3>2. CASE ~ Quiet
      BY <3>2 DEF NobodyForgotten
    <3>3. QED
      BY <3>1, <3>2
  <2>3. QED
    BY <2>1, <2>2 DEF DoorKept
<1>2. QED
  BY <1>1, RegistrationInvariant, PTL
=============================================================================
