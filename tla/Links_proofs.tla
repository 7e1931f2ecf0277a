---------------------------- MODULE Links_proofs ----------------------------
(***************************************************************************)
(* Proofs about a link under the broker's loop: for any number of opens,   *)
(* writes and children, a queue of any size and whatever is typed, a link  *)
(* that is closed has let go of the port and of the GDB, an open port has  *)
(* the settings the link reports, and what a UART or a GDB is sent is what *)
(* the link accepted, in order.                                            *)
(***************************************************************************)
EXTENDS Links, SequenceTheorems, FiniteSetTheorems, TLAPS

-----------------------------------------------------------------------------
(* Sequences of bytes.                                                     *)

\* A sequence is its first k elements and what comes after.
LEMMA FirstAfter ==
  ASSUME NEW S, NEW s \in Seq(S), NEW k \in 0 .. Len(s)
  PROVE  /\ First(s, k) \in Seq(S) /\ After(s, k) \in Seq(S)
         /\ First(s, k) \o After(s, k) = s
<1>1. First(s, k) \in Seq(S)
  BY SubSeqProperties DEF First
<1>2. After(s, k) \in Seq(S)
  BY SubSeqProperties DEF After
<1>3. First(s, k) \o After(s, k) = SubSeq(s, 1, Len(s))
  <2>1. 1 \in 1 .. Len(s) + 1 /\ k \in 1 - 1 .. Len(s) /\ Len(s) \in k .. Len(s)
    OBVIOUS
  <2>2. SubSeq(s, 1, k) \o SubSeq(s, k + 1, Len(s)) = SubSeq(s, 1, Len(s))
    BY <2>1, ConcatAdjacentSubSeq, Zenon
  <2>3. QED
    BY <2>2 DEF First, After
<1>4. QED
  BY <1>1, <1>2, <1>3, SubSeqFull

\* Cut anywhere, it can be sent in two parts.
LEMMA SentInParts ==
  ASSUME NEW S, NEW out \in Seq(S), NEW s \in Seq(S), NEW k \in 0 .. Len(s)
  PROVE  /\ out \o First(s, k) \in Seq(S)
         /\ (out \o First(s, k)) \o After(s, k) = out \o s
<1>1. First(s, k) \in Seq(S) /\ After(s, k) \in Seq(S)
  BY FirstAfter
<1>2. (out \o First(s, k)) \o After(s, k) = out \o (First(s, k) \o After(s, k))
  BY <1>1, ConcatAssociative
<1>3. QED
  BY <1>1, <1>2, FirstAfter, ConcatProperties

\* A nonempty set of natural numbers has a least element.
LEMMA LeastNatural ==
  ASSUME NEW S \in SUBSET Nat, S # {}
  PROVE  \E x \in S : \A y \in S : x <= y
<1> DEFINE R == {ss \in Nat \X Nat : ss[1] < ss[2]}
<1>1. R = OpToRel(<, Nat)
  BY Zenon DEF OpToRel
<1>2. IsWellFoundedOn(R, Nat)
  BY <1>1, NatLessThanWellFounded, Zenon
<1>3. ASSUME NEW a \in Nat, NEW b \in Nat, a < b
      PROVE  <<a, b>> \in R
  <2> DEFINE p == <<a, b>>
  <2>1. p \in Nat \X Nat /\ p[1] = a /\ p[2] = b
    OBVIOUS
  <2> HIDE DEF p
  <2>2. p \in R
    BY <2>1, <1>3
  <2>3. QED
    BY <2>2 DEF p
<1> HIDE DEF R
<1>4. PICK x \in S : \A y \in S : ~ (<<y, x>> \in R)
  BY <1>2, WFMin
<1>5. \A y \in S : ~ (y < x)
  BY <1>3, <1>4, Zenon
<1>6. QED
  BY <1>5

-----------------------------------------------------------------------------
(* What one write of the queue does.                                       *)

\* The stream that has been written once the queue has drained.
Stream(out, queue) == out \o queue

\* Every accepted byte is sent or queued behind what was; a write that is
\* refused leaves the wire and the queue as they were, or is known to have
\* spoilt the stream.
LEMMA WriteKeepsOrder ==
  ASSUME NEW S, NEW queue \in Seq(S), NEW out \in Seq(S), NEW data \in Seq(S),
         NEW k \in 0 .. Len(data), NEW err,
         NEW r, r = sm_link_wq_write(queue, out, data, k, err)
  PROVE  /\ r.wq \in Seq(S) /\ r.sent \in Seq(S) /\ r.rc \in {0, -1}
         /\ r.rc = 0 => Stream(r.sent, r.wq) = Stream(Stream(out, queue), data)
         /\ r.rc # 0 /\ r.sent = out => r.wq = queue
<1> USE DEF Stream
<1> DEFINE head == First(data, k)
           tail == After(data, k)
<1>1. head \in Seq(S) /\ tail \in Seq(S) /\ head \o tail = data
  BY FirstAfter
<1>2. /\ out \o data \in Seq(S) /\ out \o head \in Seq(S) /\ queue \o data \in Seq(S)
      /\ queue \o tail \in Seq(S)
  BY <1>1, ConcatProperties
<1> HIDE DEF head, tail
<1>3. CASE data = <<>>
  <2>1. r = Left(0, queue, out)
    BY <1>3 DEF sm_link_wq_write
  <2>2. (out \o queue) \o data = out \o queue
    BY <1>3, ConcatEmptySeq, ConcatProperties
  <2>3. QED
    BY <2>1, <2>2 DEF Left
<1>4. CASE data # <<>> /\ queue # <<>>
  <2>1. r = sm_link_wq_enqueue(queue, out, data)
    BY <1>4 DEF sm_link_wq_write
  <2>2. r = Left(-1, queue, out) \/ r = Left(0, queue \o data, out)
    BY <2>1 DEF sm_link_wq_enqueue
  <2>3. out \o (queue \o data) = (out \o queue) \o data
    BY ConcatAssociative
  <2>4. CASE r = Left(-1, queue, out)
    BY <2>4 DEF Left
  <2>5. CASE r = Left(0, queue \o data, out)
    <3>1. r.rc = 0 /\ r.wq = queue \o data /\ r.sent = out
      BY <2>5 DEF Left
    <3>2. QED
      BY <3>1, <2>3, <1>2, Zenon
  <2>6. QED
    BY <2>2, <2>4, <2>5
<1>5. CASE data # <<>> /\ queue = <<>>
  <2>1. out \o queue = out /\ queue \o tail = tail /\ (out \o data) \o queue = out \o data
    BY <1>5, <1>1, <1>2, ConcatEmptySeq
  <2>2. CASE k = Len(data)
    <3>1. r = Left(0, queue, out \o data)
      BY <1>5, <2>2 DEF sm_link_wq_write
    <3>2. QED
      BY <3>1, <2>1, <1>2 DEF Left
  <2>3. CASE k # Len(data)
    <3>1. r = IF err THEN Left(-1, queue, out \o head)
              ELSE sm_link_wq_enqueue(queue, out \o head, tail)
      BY <1>5, <2>3 DEF sm_link_wq_write, head, tail
    <3>2. \/ r = Left(-1, queue, out \o head)
          \/ r = Left(0, queue \o tail, out \o head)
      BY <3>1 DEF sm_link_wq_enqueue
    <3>3. (out \o head) \o tail = out \o data
      BY SentInParts DEF head, tail
    <3>4. CASE r = Left(-1, queue, out \o head)
      BY <3>4, <1>2 DEF Left
    <3>5. CASE r = Left(0, queue \o tail, out \o head)
      <4>1. r.rc = 0 /\ r.wq = tail /\ r.sent = out \o head
        BY <3>5, <2>1 DEF Left
      <4>2. r.sent \o r.wq = (out \o queue) \o data
        BY <4>1, <3>3, <2>1
      <4>3. QED
        BY <4>1, <4>2, <1>1, <1>2
    <3>6. QED
      BY <3>2, <3>4, <3>5
  <2>4. QED
    BY <2>2, <2>3
<1>6. QED
  BY <1>3, <1>4, <1>5

-----------------------------------------------------------------------------
(* What is written to a UART or a GDB.                                     *)

\* What clients type, and the MI commands of the link.
Symbols == STRING \cup {"async", "first", "interrupt"}

\* What clients type is made of them.
LEMMA TypedIsPlain ==
  ASSUME NEW k \in Kinds, NEW data \in Typed[k]
  PROVE  data \in Seq(Symbols)
<1>1. data \in Seq(STRING)
  BY LinksAssumption
<1> DEFINE T == STRING
<1>2. data \in Seq(T) /\ T \subseteq Symbols
  BY <1>1 DEF Symbols
<1> HIDE DEF T
<1>3. QED
  BY <1>2

-----------------------------------------------------------------------------
(* The inductive invariant.                                                *)

LinksTypeOK ==
  /\ kind \in Kinds
  /\ fd \in {"closed", "connecting", "open"} /\ (fd = "connecting" => kind = "tcp")
  /\ UartTypeOK /\ GdbTypeOK
  /\ kind # "tcp" => /\ wq \in Seq(Symbols) /\ sent \in Seq(Symbols) /\ taken \in Seq(Symbols)
                     /\ spoilt \in BOOLEAN

\* The state of a kind of link that this broker does not have is never touched.
OwnKindOnly ==
  /\ kind # "uart" => ~excl /\ ud = tty
  /\ kind # "gdb" => \A c \in Children : child[c] = "unborn"

\* A closed descriptor has nothing queued for it.
ClosedIsDrained == fd = "closed" => wq = <<>>

\* What the far end of a UART or a GDB will have read once the queue is
\* drained is exactly what the link accepted on the present descriptor
\* (sm_link_wq_write, sm_link_wq_flush, uart_write, gdb_write_data).
PlainWireFaithful == (fd = "open" /\ ~spoilt /\ kind # "tcp") => sent \o wq = taken

IInv ==
  /\ LinksTypeOK /\ OwnKindOnly /\ ClosedIsDrained /\ PlainWireFaithful
  /\ SettingsTrue /\ PortHandedBack /\ NoGdbLeftRunning

-----------------------------------------------------------------------------
(* Initial states.                                                         *)

\* Every initial state satisfies the invariant.
LEMMA InitHolds == Init => IInv
<1> SUFFICES ASSUME Init PROVE IInv
  OBVIOUS
<1>1. LinksTypeOK
  <2>1. fd = "closed" /\ wq = <<>> /\ sent = <<>> /\ taken = <<>> /\ kind \in Kinds
    BY DEF Init, LinkQueueInit
  <2>2. spoilt \in BOOLEAN
    BY Zenon DEF Init, LinkQueueInit
  <2>3. UartTypeOK
    <3>1. excl \in BOOLEAN /\ unapplied \in BOOLEAN /\ strayed \in BOOLEAN
      BY Zenon DEF Init, UartInit
    <3>2. ud \in Settings /\ tty \in Settings /\ orig \in Settings
      BY DEF Init, UartInit
    <3>3. QED
      BY <3>1, <3>2 DEF UartTypeOK
  <2>4. GdbTypeOK
    <3>1. allow_shell \in BOOLEAN
      BY <2>1, Zenon DEF Init, GdbInit, gdb_set_param
    <3>2. /\ child \in [Children -> {"unborn", "running", "killed", "dead", "reaped"}]
          /\ pid \in {0} \cup Children /\ target_spec \in {"none", "first"}
      BY DEF Init, GdbInit
    <3>3. QED
      BY <3>1, <3>2 DEF GdbTypeOK
  <2>5. <<>> \in Seq(Symbols)
    OBVIOUS
  <2>6. QED
    BY <2>1, <2>2, <2>3, <2>4, <2>5 DEF LinksTypeOK
<1>2. fd = "closed" /\ wq = <<>> /\ ~excl /\ \A c \in Children : child[c] = "unborn"
  BY DEF Init, LinkQueueInit, UartInit, GdbInit
<1>3. kind # "uart" => ud = tty
  BY DEF Init
<1>4. QED
  BY <1>1, <1>2, <1>3
  DEF IInv, OwnKindOnly, ClosedIsDrained, PlainWireFaithful, SettingsTrue, PortHandedBack, NoGdbLeftRunning

-----------------------------------------------------------------------------
(* Steps of a serial-tcp link touch neither a port nor a GDB.              *)

\* It is enough to know what becomes of the descriptor and of its queue.
LEMMA TcpKeeps ==
  ASSUME IInv, Tcp, fd' \in {"closed", "connecting", "open"}, fd' = "closed" => wq' = <<>>
  PROVE  IInv'
<1>1. kind = "tcp" /\ kind' = kind /\ uartVars' = uartVars /\ gdbVars' = gdbVars
  BY DEF Tcp
<1>2. LinksTypeOK'
  BY <1>1 DEF IInv, LinksTypeOK, UartTypeOK, GdbTypeOK, uartVars, gdbVars
<1>3. OwnKindOnly' /\ ClosedIsDrained' /\ PlainWireFaithful'
  BY <1>1 DEF IInv, OwnKindOnly, ClosedIsDrained, PlainWireFaithful, uartVars, gdbVars
<1>4. SettingsTrue' /\ PortHandedBack' /\ NoGdbLeftRunning'
  BY <1>1, <1>3 DEF OwnKindOnly, SettingsTrue, PortHandedBack, NoGdbLeftRunning
<1>5. QED
  BY <1>2, <1>3, <1>4 DEF IInv

-----------------------------------------------------------------------------
(* The queue of a link without telnet.                                     *)

\* A write through the queue keeps a plain wire in order.
LEMMA PlainWrite ==
  ASSUME IInv, kind # "tcp", kind' = kind, fd = "open", fd' = fd,
         NEW data \in Seq(Symbols), NEW k \in 0 .. Len(data), NEW err,
         QueuedWrite(data, data, k, err)
  PROVE  /\ wq' \in Seq(Symbols) /\ sent' \in Seq(Symbols) /\ taken' \in Seq(Symbols)
         /\ spoilt' \in BOOLEAN
         /\ PlainWireFaithful'
<1>1. PICK r : r = sm_link_wq_write(wq, sent, data, k, err)
  OBVIOUS
<1>2. wq \in Seq(Symbols) /\ sent \in Seq(Symbols) /\ taken \in Seq(Symbols) /\ spoilt \in BOOLEAN
  BY DEF IInv, LinksTypeOK
<1>3. r.wq \in Seq(Symbols) /\ r.sent \in Seq(Symbols) /\ r.rc \in {0, -1}
  BY <1>1, <1>2, WriteKeepsOrder
<1>4. r.rc = 0 => Stream(r.sent, r.wq) = Stream(Stream(sent, wq), data)
  BY <1>1, <1>2, WriteKeepsOrder
<1>5. r.rc # 0 /\ r.sent = sent => r.wq = wq
  BY <1>1, <1>2, WriteKeepsOrder
<1>6. /\ wq' = r.wq /\ sent' = r.sent
      /\ taken' = IF r.rc = 0 THEN taken \o data ELSE taken
      /\ spoilt' = (spoilt \/ (r.rc # 0 /\ r.sent # sent))
  BY <1>1 DEF QueuedWrite
<1>7. taken' \in Seq(Symbols)
  BY <1>2, <1>6, ConcatProperties
<1>8. spoilt' \in BOOLEAN
  BY <1>2, <1>6, Zenon
<1>9. ASSUME ~spoilt' PROVE sent' \o wq' = taken'
  <2>1. ~spoilt /\ (r.rc = 0 \/ r.sent = sent)
    BY <1>6, <1>9
  <2>2. sent \o wq = taken
    BY <2>1 DEF IInv, PlainWireFaithful
  <2>3. QED
    BY <2>1, <2>2, <1>6, <1>4, <1>5 DEF Stream
<1>10. QED
  BY <1>3, <1>6, <1>7, <1>8, <1>9 DEF PlainWireFaithful

\* A flush that goes on keeps it, too.
LEMMA PlainFlush ==
  ASSUME IInv, kind # "tcp", kind' = kind, fd' = fd, NEW k \in 0 .. Len(wq), NEW err \in BOOLEAN,
         wq' = sm_link_wq_flush(wq, sent, k, err).wq,
         sent' = sm_link_wq_flush(wq, sent, k, err).sent,
         UNCHANGED historyVars
  PROVE  /\ wq' \in Seq(Symbols) /\ sent' \in Seq(Symbols)
         /\ PlainWireFaithful'
<1>1. wq \in Seq(Symbols) /\ sent \in Seq(Symbols)
  BY DEF IInv, LinksTypeOK
<1> DEFINE head == First(wq, k)
           tail == After(wq, k)
<1>2. head \in Seq(Symbols) /\ tail \in Seq(Symbols) /\ head \o tail = wq
  BY <1>1, FirstAfter
<1>3. wq' = tail /\ sent' = sent \o head
  BY DEF sm_link_wq_flush, Left
<1> HIDE DEF head, tail
<1>4. sent \o head \in Seq(Symbols) /\ (sent \o head) \o tail = sent \o wq
  BY <1>1, SentInParts DEF head, tail
<1>5. sent' \o wq' = sent \o wq
  BY <1>3, <1>4
<1>6. QED
  BY <1>2, <1>3, <1>4, <1>5 DEF IInv, PlainWireFaithful, historyVars

-----------------------------------------------------------------------------
(* A UART.                                                                 *)

\* Steps of a UART leave every GDB alone; what they must keep besides is their
\* own.
LEMMA SerialKeeps ==
  ASSUME IInv, Serial, fd' \in {"closed", "open"},
         wq' \in Seq(Symbols), sent' \in Seq(Symbols), taken' \in Seq(Symbols), spoilt' \in BOOLEAN,
         UartTypeOK', fd' = "closed" => wq' = <<>>,
         PlainWireFaithful', SettingsTrue', PortHandedBack'
  PROVE  IInv'
<1>1. kind = "uart" /\ kind' = kind /\ gdbVars' = gdbVars
  BY DEF Serial
<1>2. LinksTypeOK'
  BY <1>1 DEF IInv, LinksTypeOK, GdbTypeOK, gdbVars
<1>3. OwnKindOnly' /\ ClosedIsDrained'
  BY <1>1 DEF IInv, OwnKindOnly, ClosedIsDrained, gdbVars
<1>4. NoGdbLeftRunning'
  BY <1>1, <1>3 DEF OwnKindOnly, NoGdbLeftRunning
<1>5. QED
  BY <1>2, <1>3, <1>4 DEF IInv

\* uart_open does nothing, applies the settings of the link, or fails and
\* keeps the claim, which is then known to have strayed.
LEMMA uart_open_keeps ==
  ASSUME IInv, Serial, NEW outcome, NEW claims \in BOOLEAN, uart_open(outcome, claims)
  PROVE  IInv'
<1>1. /\ UartTypeOK /\ fd = "closed" /\ wq = <<>> /\ kind = "uart" /\ (~ strayed => ~ excl)
      /\ sent \in Seq(Symbols) /\ taken \in Seq(Symbols) /\ spoilt \in BOOLEAN
  BY DEF IInv, LinksTypeOK, ClosedIsDrained, PortHandedBack, Serial, uart_open
<1>2. wq' = wq /\ ud' = ud /\ kind' = kind
  BY DEF uart_open, Serial
<1>3. excl \in BOOLEAN /\ strayed \in BOOLEAN
  BY <1>1, Zenon DEF UartTypeOK
<1>4. CASE fd' = fd
  <2>1. /\ sent' = sent /\ taken' = taken /\ spoilt' = spoilt /\ tty' = tty /\ unapplied' = unapplied
        /\ orig' \in {orig, tty}
    BY <1>1, <1>4 DEF uart_open, historyVars
  <2>2. (excl' = excl /\ strayed' = strayed) \/ (excl' = (excl \/ claims) /\ strayed' = (strayed \/ claims))
    BY <1>1, <1>4, Zenon DEF uart_open
  <2>3. excl' \in BOOLEAN /\ strayed' \in BOOLEAN /\ (~ strayed' => ~ excl')
    <3>1. CASE excl' = excl /\ strayed' = strayed
      BY <1>1, <1>3, <3>1, Zenon
    <3>2. CASE excl' = (excl \/ claims) /\ strayed' = (strayed \/ claims)
      <4>1. (excl \/ claims) \in BOOLEAN /\ (strayed \/ claims) \in BOOLEAN
        OBVIOUS
      <4>2. ~ (strayed \/ claims) => ~ (excl \/ claims)
        BY <1>1, Zenon
      <4>3. QED
        BY <3>2, <4>1, <4>2, Zenon
    <3>3. QED
      BY <2>2, <3>1, <3>2
  <2>4. UartTypeOK'
    BY <1>1, <1>2, <2>1, <2>3 DEF UartTypeOK
  <2>5. SettingsTrue' /\ PortHandedBack' /\ PlainWireFaithful'
    BY <1>1, <1>4, <2>1, <2>3 DEF SettingsTrue, PortHandedBack, PlainWireFaithful
  <2>6. QED
    BY <1>1, <1>2, <1>4, <2>1, <2>4, <2>5, SerialKeeps
<1>5. CASE fd' = "open"
  <2>1. /\ sent' = <<>> /\ taken' = <<>> /\ tty' = ud /\ strayed' = strayed /\ orig' = tty
    BY <1>1, <1>5 DEF uart_open, FreshStream
  <2>2. spoilt' \in BOOLEAN /\ unapplied' \in BOOLEAN /\ excl' \in BOOLEAN
    BY <1>1, <1>3, <1>5, Zenon DEF uart_open, FreshStream
  <2>3. UartTypeOK'
    BY <1>1, <1>2, <2>1, <2>2 DEF UartTypeOK
  <2>4. <<>> \in Seq(Symbols) /\ <<>> \o <<>> = <<>>
    OBVIOUS
  <2>5. SettingsTrue' /\ PortHandedBack' /\ PlainWireFaithful'
    BY <1>1, <1>2, <1>5, <2>1, <2>4 DEF SettingsTrue, PortHandedBack, PlainWireFaithful
  <2>6. QED
    BY <1>1, <1>2, <1>5, <2>1, <2>2, <2>3, <2>4, <2>5, SerialKeeps
<1>6. QED
  BY <1>4, <1>5 DEF uart_open

\* uart_close drops the claim with the queue.
LEMMA uart_close_keeps ==
  ASSUME IInv, Serial, uart_close
  PROVE  IInv'
<1>1. /\ UartTypeOK /\ kind = "uart"
      /\ sent \in Seq(Symbols) /\ taken \in Seq(Symbols) /\ spoilt \in BOOLEAN
  BY DEF IInv, LinksTypeOK, Serial
<1>2. /\ fd' = "closed" /\ wq' = <<>> /\ tty' = orig /\ excl' = FALSE
      /\ sent' = sent /\ taken' = taken /\ spoilt' = spoilt
      /\ ud' = ud /\ orig' = orig /\ unapplied' = unapplied
  BY DEF uart_close, historyVars
<1>3. excl' \in BOOLEAN /\ strayed' \in BOOLEAN
  BY Zenon DEF uart_close
<1>4. UartTypeOK'
  BY <1>1, <1>2, <1>3 DEF UartTypeOK
<1>5. SettingsTrue' /\ PortHandedBack' /\ PlainWireFaithful'
  BY <1>2 DEF SettingsTrue, PortHandedBack, PlainWireFaithful
<1>6. <<>> \in Seq(Symbols)
  OBVIOUS
<1>7. QED
  BY <1>1, <1>2, <1>4, <1>5, <1>6, SerialKeeps

\* Whatever else an open UART does leaves the claim where it is.
LEMMA OpenUartKeeps ==
  ASSUME IInv, Serial, fd = "open", fd' = "open", UartTypeOK', SettingsTrue',
         wq' \in Seq(Symbols), sent' \in Seq(Symbols), taken' \in Seq(Symbols), spoilt' \in BOOLEAN,
         PlainWireFaithful'
  PROVE  IInv'
<1>1. PortHandedBack'
  BY DEF PortHandedBack
<1>2. QED
  BY <1>1, SerialKeeps

\* A write changes no setting.
LEMMA uart_write_keeps ==
  ASSUME IInv, Serial, NEW data \in Seq(Symbols), NEW k \in 0 .. Len(data), NEW err \in BOOLEAN,
         uart_write(data, k, err)
  PROVE  IInv'
<1>1. fd = "open" /\ fd' = fd /\ uartVars' = uartVars /\ QueuedWrite(data, data, k, err)
  BY DEF uart_write
<1>2. kind = "uart" /\ kind' = kind
  BY DEF Serial
<1>3. /\ wq' \in Seq(Symbols) /\ sent' \in Seq(Symbols) /\ taken' \in Seq(Symbols)
      /\ spoilt' \in BOOLEAN /\ PlainWireFaithful'
  BY <1>1, <1>2, PlainWrite
<1>4. UartTypeOK' /\ SettingsTrue'
  BY <1>1 DEF IInv, LinksTypeOK, UartTypeOK, SettingsTrue, uartVars
<1>5. QED
  BY <1>1, <1>3, <1>4, OpenUartKeeps

\* A flush does not, either.
LEMMA SerialFlushes ==
  ASSUME IInv, Serial, fd = "open", fd' = fd, uartVars' = uartVars, UNCHANGED historyVars,
         NEW k \in 0 .. Len(wq), NEW err \in BOOLEAN,
         wq' = sm_link_wq_flush(wq, sent, k, err).wq,
         sent' = sm_link_wq_flush(wq, sent, k, err).sent
  PROVE  IInv'
<1>1. kind = "uart" /\ kind' = kind
  BY DEF Serial
<1>2. wq' \in Seq(Symbols) /\ sent' \in Seq(Symbols) /\ PlainWireFaithful'
  BY <1>1, PlainFlush
<1>3. taken' \in Seq(Symbols) /\ spoilt' \in BOOLEAN
  BY <1>1 DEF IInv, LinksTypeOK, historyVars
<1>4. UartTypeOK' /\ SettingsTrue'
  BY DEF IInv, LinksTypeOK, UartTypeOK, SettingsTrue, uartVars
<1>5. QED
  BY <1>2, <1>3, <1>4, OpenUartKeeps

\* A parameter is stored and applied, or known not to be applied.
LEMMA uart_set_keeps ==
  ASSUME IInv, Serial,
         \/ \E baud \in Bauds, fails \in BOOLEAN : uart_set_baud(baud, fails)
         \/ \E frame \in Frames, fails \in BOOLEAN : uart_set_frame(frame, fails)
  PROVE  IInv'
<1>1. /\ UartTypeOK /\ kind = "uart" /\ kind' = kind /\ SettingsTrue
      /\ wq \in Seq(Symbols) /\ sent \in Seq(Symbols) /\ taken \in Seq(Symbols) /\ spoilt \in BOOLEAN
  BY DEF IInv, LinksTypeOK, Serial
<1>2. fd = "open" /\ queueVars' = queueVars
  BY DEF uart_set_baud, uart_set_frame
<1>3. PlainWireFaithful'
  BY <1>1, <1>2 DEF IInv, PlainWireFaithful, queueVars, historyVars
<1>4. UartTypeOK' /\ SettingsTrue'
  <2>1. ASSUME NEW baud \in Bauds, NEW fails \in BOOLEAN, uart_set_baud(baud, fails)
        PROVE  UartTypeOK' /\ SettingsTrue'
    BY <2>1, <1>1, <1>2 DEF uart_set_baud, UartTypeOK, SettingsTrue, Settings, queueVars
  <2>2. ASSUME NEW frame \in Frames, NEW fails \in BOOLEAN, uart_set_frame(frame, fails)
        PROVE  UartTypeOK' /\ SettingsTrue'
    <3>1. unapplied' \in BOOLEAN
      BY <2>2, Zenon DEF uart_set_frame
    <3>2. /\ ud' = [ud EXCEPT !.frame = frame] /\ unapplied' = fails
          /\ tty' = IF fails THEN tty ELSE [tty EXCEPT !.frame = frame]
          /\ excl' = excl /\ orig' = orig /\ strayed' = strayed
      BY <2>2 DEF uart_set_frame
    <3>3. ud \in Settings /\ tty \in Settings /\ tty.baud = ud.baud
      BY <1>1, <1>2 DEF UartTypeOK, SettingsTrue
    <3>4. ud' \in Settings /\ tty' \in Settings /\ ud'.baud = ud.baud /\ tty'.baud = tty.baud
      BY <3>2, <3>3 DEF Settings
    <3>5. ~fails => tty'.frame = ud'.frame
      BY <3>2, <3>3 DEF Settings
    <3>6. QED
      BY <3>1, <3>2, <3>3, <3>4, <3>5, <1>1 DEF UartTypeOK, SettingsTrue
  <2>3. QED
    BY <2>1, <2>2
<1>5. QED
  BY <1>1, <1>2, <1>3, <1>4, OpenUartKeeps DEF queueVars, historyVars

\* A program that sets up a port nobody holds disturbs nothing.
LEMMA OtherProgramKeeps ==
  ASSUME IInv, Serial, NEW settings \in Settings, OtherProgramSets(settings)
  PROVE  IInv'
<1>1. /\ UartTypeOK /\ kind = "uart" /\ kind' = kind /\ fd = "closed" /\ wq = <<>> /\ ~excl
      /\ wq \in Seq(Symbols) /\ sent \in Seq(Symbols) /\ taken \in Seq(Symbols) /\ spoilt \in BOOLEAN
  BY DEF IInv, LinksTypeOK, Serial, OtherProgramSets, ClosedIsDrained
<1>2. /\ fd' = fd /\ wq' = wq /\ sent' = sent /\ taken' = taken /\ spoilt' = spoilt /\ tty' = settings
      /\ ud' = ud /\ excl' = excl /\ orig' = orig /\ unapplied' = unapplied /\ strayed' = strayed
  BY DEF OtherProgramSets, queueVars, historyVars
<1>3. UartTypeOK'
  BY <1>1, <1>2 DEF UartTypeOK
<1>4. PlainWireFaithful' /\ SettingsTrue' /\ PortHandedBack'
  BY <1>1, <1>2 DEF PlainWireFaithful, SettingsTrue, PortHandedBack
<1>5. QED
  BY <1>1, <1>2, <1>3, <1>4, SerialKeeps

-----------------------------------------------------------------------------
(* A GDB.                                                                  *)

\* Steps of a GDB link leave the port alone.
LEMMA GdbKeeps ==
  ASSUME IInv, Gdb, fd' \in {"closed", "open"}, GdbTypeOK', fd' = "closed" => wq' = <<>>,
         wq' \in Seq(Symbols), sent' \in Seq(Symbols), taken' \in Seq(Symbols), spoilt' \in BOOLEAN,
         PlainWireFaithful', NoGdbLeftRunning'
  PROVE  IInv'
<1>1. kind = "gdb" /\ kind' = kind /\ uartVars' = uartVars
  BY DEF Gdb
<1>2. LinksTypeOK'
  BY <1>1 DEF IInv, LinksTypeOK, UartTypeOK, uartVars
<1>3. OwnKindOnly' /\ ClosedIsDrained'
  BY <1>1 DEF IInv, OwnKindOnly, ClosedIsDrained, uartVars
<1>4. SettingsTrue' /\ PortHandedBack'
  BY <1>1, <1>3 DEF OwnKindOnly, SettingsTrue, PortHandedBack
<1>5. QED
  BY <1>2, <1>3, <1>4 DEF IInv

ChildStates == {"unborn", "running", "killed", "dead", "reaped"}

\* A reap looks at the known child only and starts none.
LEMMA ReapStartsNone ==
  ASSUME NEW children \in [Children -> ChildStates], NEW p \in {0} \cup Children,
         NEW r, r = gdb_reap(children, p)
  PROVE  /\ r.child \in [Children -> ChildStates] /\ r.pid \in {0} \cup Children
         /\ \A c \in Children : r.child[c] = "running" => children[c] = "running"
<1>1. CASE p # 0 /\ children[p] = "dead"
  <2>1. r.child = [children EXCEPT ![p] = "reaped"] /\ r.pid = 0
    BY <1>1 DEF gdb_reap
  <2>2. QED
    BY <2>1 DEF ChildStates
<1>2. CASE ~ (p # 0 /\ children[p] = "dead")
  <2>1. r.child = children /\ r.pid = p
    BY <1>2 DEF gdb_reap
  <2>2. QED
    BY <2>1
<1>3. QED
  BY <1>1, <1>2

\* gdb_open starts at most one child, which the link then knows.
LEMMA gdb_open_keeps ==
  ASSUME IInv, Gdb, NEW fails \in BOOLEAN, NEW lost \in BOOLEAN, gdb_open(fails, lost)
  PROVE  IInv'
<1> DEFINE unborn == {c \in Children : child[c] = "unborn"}
<1>1. PICK r : r = gdb_reap(child, pid)
  OBVIOUS
<1>2. /\ GdbTypeOK /\ fd = "closed" /\ kind = "gdb" /\ kind' = kind
      /\ sent \in Seq(Symbols) /\ taken \in Seq(Symbols) /\ spoilt \in BOOLEAN
      /\ wq' = <<>> /\ target_spec' = target_spec /\ allow_shell' = allow_shell /\ unborn # {}
  BY DEF IInv, LinksTypeOK, Gdb, gdb_open
<1>3. child \in [Children -> ChildStates] /\ pid \in {0} \cup Children
  BY <1>2 DEF GdbTypeOK, ChildStates
<1>4. \A c \in Children : child[c] # "running"
  BY <1>2 DEF IInv, NoGdbLeftRunning
<1>5. /\ r.child \in [Children -> ChildStates] /\ r.pid \in {0} \cup Children
      /\ \A c \in Children : r.child[c] # "running"
  BY <1>1, <1>3, <1>4, ReapStartsNone
<1>6. <<>> \in Seq(Symbols) /\ <<>> \o <<>> = <<>>
  OBVIOUS
<1>7. CASE fails
  <2>1. /\ child' = r.child /\ pid' = r.pid
        /\ fd' = fd /\ sent' = sent /\ taken' = taken /\ spoilt' = spoilt
    BY <1>1, <1>7 DEF gdb_open, historyVars
  <2>2. GdbTypeOK'
    BY <1>2, <1>5, <2>1 DEF GdbTypeOK, ChildStates
  <2>3. NoGdbLeftRunning' /\ PlainWireFaithful'
    BY <1>2, <1>5, <2>1 DEF NoGdbLeftRunning, PlainWireFaithful
  <2>4. QED
    BY <1>2, <1>6, <2>1, <2>2, <2>3, GdbKeeps
<1>8. CASE ~fails
  <2> DEFINE Least(c) == \A d \in unborn : c <= d
             new == CHOOSE c \in unborn : Least(c)
  <2>1. unborn \in SUBSET Nat
    BY DEF Children
  <2>2. \E c \in unborn : Least(c)
    BY <1>2, <2>1, LeastNatural
  <2>3. new \in unborn
    BY <2>2
  <2>4. /\ child' = [r.child EXCEPT ![new] = IF lost THEN "dead" ELSE "running"]
        /\ pid' = new /\ fd' = "open"
        /\ sent' = (IF lost THEN <<>> ELSE gdb_bootstrap_mi)
        /\ taken' = sent'
    BY <1>1, <1>8 DEF gdb_open
  <2>5. spoilt' \in BOOLEAN
    BY <1>8, Zenon DEF gdb_open
  <2> HIDE DEF new
  <2>6. new \in Children
    BY <2>3
  <2>7. sent' \in Seq(Symbols)
    <3>1. "async" \in Symbols /\ (target_spec # "none" => target_spec \in Symbols)
      BY <1>2 DEF GdbTypeOK, Symbols
    <3>2. <<"async">> \in Seq(Symbols) /\ (target_spec # "none" => <<"async", target_spec>> \in Seq(Symbols))
      BY <3>1
    <3>3. QED
      BY <1>6, <2>4, <3>2 DEF gdb_bootstrap_mi
  <2>8. sent' \o wq' = sent'
    BY <1>2, <2>7, ConcatEmptySeq
  <2>9. GdbTypeOK'
    BY <1>2, <1>5, <2>4, <2>6 DEF GdbTypeOK, ChildStates
  <2>10. NoGdbLeftRunning'
    BY <1>5, <2>4, <2>6 DEF NoGdbLeftRunning
  <2>11. PlainWireFaithful'
    BY <2>4, <2>8 DEF PlainWireFaithful
  <2>12. QED
    BY <1>2, <1>6, <2>4, <2>5, <2>7, <2>9, <2>10, <2>11, GdbKeeps
<1>9. QED
  BY <1>7, <1>8

\* gdb_close signals the child it knows, and no other was running.
LEMMA gdb_close_keeps ==
  ASSUME IInv, Gdb, NEW quick \in BOOLEAN, gdb_close(quick)
  PROVE  IInv'
<1>1. PICK signalled : signalled = IF pid = 0 \/ child[pid] # "running" THEN child
                                   ELSE [child EXCEPT ![pid] = IF quick THEN "dead" ELSE "killed"]
  OBVIOUS
<1>2. PICK r : r = gdb_reap(signalled, pid)
  OBVIOUS
<1>3. /\ GdbTypeOK /\ kind = "gdb" /\ kind' = kind /\ NoGdbLeftRunning
      /\ sent \in Seq(Symbols) /\ taken \in Seq(Symbols) /\ spoilt \in BOOLEAN
  BY DEF IInv, LinksTypeOK, Gdb
<1>4. /\ fd' = "closed" /\ wq' = <<>> /\ child' = r.child /\ pid' = r.pid
      /\ sent' = sent /\ taken' = taken /\ spoilt' = spoilt
      /\ target_spec' = target_spec /\ allow_shell' = allow_shell
  BY <1>1, <1>2 DEF gdb_close, historyVars
<1>5. /\ signalled \in [Children -> ChildStates] /\ pid \in {0} \cup Children
      /\ \A c \in Children : signalled[c] # "running"
  <2>1. child \in [Children -> ChildStates] /\ pid \in {0} \cup Children
    BY <1>3 DEF GdbTypeOK, ChildStates
  <2>2. \A c \in Children : child[c] = "running" => pid = c
    BY <1>3 DEF NoGdbLeftRunning
  <2>3. 0 \notin Children
    BY DEF Children
  <2>4. CASE pid = 0 \/ child[pid] # "running"
    BY <1>1, <2>1, <2>2, <2>3, <2>4
  <2>5. CASE ~ (pid = 0 \/ child[pid] # "running")
    <3>1. PICK s : s = IF quick THEN "dead" ELSE "killed"
      OBVIOUS
    <3>2. s \in ChildStates /\ s # "running"
      BY <3>1 DEF ChildStates
    <3>3. signalled = [child EXCEPT ![pid] = s] /\ pid \in Children
      BY <1>1, <2>1, <2>5, <3>1
    <3>4. QED
      BY <2>1, <2>2, <3>2, <3>3
  <2>6. QED
    BY <2>4, <2>5
<1>6. /\ r.child \in [Children -> ChildStates] /\ r.pid \in {0} \cup Children
      /\ \A c \in Children : r.child[c] # "running"
  BY <1>2, <1>5, ReapStartsNone
<1>7. GdbTypeOK'
  BY <1>3, <1>4, <1>6 DEF GdbTypeOK, ChildStates
<1>8. NoGdbLeftRunning' /\ PlainWireFaithful'
  BY <1>4, <1>6 DEF NoGdbLeftRunning, PlainWireFaithful
<1>9. <<>> \in Seq(Symbols)
  OBVIOUS
<1>10. QED
  BY <1>3, <1>4, <1>7, <1>8, <1>9, GdbKeeps

\* A step that leaves the children alone on an open link.
LEMMA OpenGdbKeeps ==
  ASSUME IInv, Gdb, fd = "open", fd' = "open", gdbVars' = gdbVars,
         wq' \in Seq(Symbols), sent' \in Seq(Symbols), taken' \in Seq(Symbols), spoilt' \in BOOLEAN,
         PlainWireFaithful'
  PROVE  IInv'
<1>1. GdbTypeOK' /\ NoGdbLeftRunning'
  BY DEF IInv, LinksTypeOK, GdbTypeOK, NoGdbLeftRunning, gdbVars
<1>2. QED
  BY <1>1, GdbKeeps

\* Typed commands and the interrupt go through the queue.
LEMMA gdb_write_keeps ==
  ASSUME IInv, Gdb, NEW data \in Seq(Symbols), NEW k \in 0 .. Len(data), NEW err \in BOOLEAN,
         fd = "open", fd' = fd, gdbVars' = gdbVars, QueuedWrite(data, data, k, err)
  PROVE  IInv'
<1>1. kind = "gdb" /\ kind' = kind
  BY DEF Gdb
<1>2. /\ wq' \in Seq(Symbols) /\ sent' \in Seq(Symbols) /\ taken' \in Seq(Symbols)
      /\ spoilt' \in BOOLEAN /\ PlainWireFaithful'
  BY <1>1, PlainWrite
<1>3. QED
  BY <1>2, OpenGdbKeeps

\* gdb_write_data, refused or not.
LEMMA gdb_write_data_keeps ==
  ASSUME IInv, Gdb, NEW data \in Seq(Symbols), NEW k \in 0 .. Len(data), NEW err \in BOOLEAN,
         gdb_write_data(data, k, err)
  PROVE  IInv'
<1>1. fd = "open" /\ gdbVars' = gdbVars /\ kind = "gdb" /\ kind' = kind
  BY DEF gdb_write_data, Gdb
<1>2. CASE Blocked(data)
  <2>1. queueVars' = queueVars
    BY <1>2 DEF gdb_write_data
  <2>2. /\ wq' \in Seq(Symbols) /\ sent' \in Seq(Symbols) /\ taken' \in Seq(Symbols)
        /\ spoilt' \in BOOLEAN /\ PlainWireFaithful' /\ fd' = "open"
    BY <1>1, <2>1 DEF IInv, LinksTypeOK, PlainWireFaithful, queueVars, historyVars
  <2>3. QED
    BY <1>1, <2>2, OpenGdbKeeps
<1>3. CASE ~Blocked(data)
  <2>1. QueuedWrite(data, data, k, err) /\ fd' = fd
    BY <1>3 DEF gdb_write_data
  <2>2. QED
    BY <1>1, <2>1, gdb_write_keeps
<1>4. QED
  BY <1>2, <1>3

\* gdb_send_break: the interrupt.
LEMMA gdb_send_break_keeps ==
  ASSUME IInv, Gdb, NEW k \in 0 .. 1, NEW err \in BOOLEAN, gdb_send_break(k, err)
  PROVE  IInv'
<1>1. PICK data : data = <<"interrupt">>
  OBVIOUS
<1>2. data \in Seq(Symbols) /\ Len(data) = 1
  <2>1. "interrupt" \in Symbols
    BY DEF Symbols
  <2>2. QED
    BY <1>1, <2>1
<1>3. /\ fd = "open" /\ fd' = fd /\ gdbVars' = gdbVars /\ QueuedWrite(data, data, k, err)
  BY <1>1 DEF gdb_send_break
<1>4. k \in 0 .. Len(data)
  BY <1>2
<1>5. QED
  BY <1>2, <1>3, <1>4, gdb_write_keeps

\* A flush of the pipe.
LEMMA GdbFlushes ==
  ASSUME IInv, Gdb, fd = "open", fd' = fd, gdbVars' = gdbVars, UNCHANGED historyVars,
         NEW k \in 0 .. Len(wq), NEW err \in BOOLEAN,
         wq' = sm_link_wq_flush(wq, sent, k, err).wq,
         sent' = sm_link_wq_flush(wq, sent, k, err).sent
  PROVE  IInv'
<1>1. kind = "gdb" /\ kind' = kind
  BY DEF Gdb
<1>2. wq' \in Seq(Symbols) /\ sent' \in Seq(Symbols) /\ PlainWireFaithful'
  BY <1>1, PlainFlush
<1>3. taken' \in Seq(Symbols) /\ spoilt' \in BOOLEAN
  BY <1>1 DEF IInv, LinksTypeOK, historyVars
<1>4. QED
  BY <1>2, <1>3, OpenGdbKeeps

\* A child that ends runs no more.
LEMMA ChildEndsKeeps ==
  ASSUME IInv, Gdb, NEW c \in Children, ChildEnds(c)
  PROVE  IInv'
<1>1. /\ GdbTypeOK /\ NoGdbLeftRunning /\ kind = "gdb" /\ kind' = kind /\ queueVars' = queueVars
      /\ fd \in {"closed", "open"}
      /\ wq \in Seq(Symbols) /\ sent \in Seq(Symbols) /\ taken \in Seq(Symbols) /\ spoilt \in BOOLEAN
  BY DEF IInv, LinksTypeOK, Gdb, ChildEnds
<1>2. /\ child' = [child EXCEPT ![c] = "dead"]
      /\ pid' = pid /\ target_spec' = target_spec /\ allow_shell' = allow_shell
  BY DEF ChildEnds
<1>3. GdbTypeOK' /\ NoGdbLeftRunning'
  BY <1>1, <1>2 DEF GdbTypeOK, NoGdbLeftRunning, queueVars
<1>4. PlainWireFaithful' /\ (fd' = "closed" => wq' = <<>>)
  BY <1>1 DEF IInv, PlainWireFaithful, ClosedIsDrained, queueVars, historyVars
<1>5. QED
  BY <1>1, <1>3, <1>4, GdbKeeps DEF queueVars, historyVars

-----------------------------------------------------------------------------
(* Every step.                                                             *)

\* Opening a link of any kind.
LEMMA OpenLinkKeeps == ASSUME IInv, OpenLink PROVE IInv'
<1>1. CASE Tcp /\ \E addr, connects \in BOOLEAN : st_open(addr, connects)
  <2>1. PICK addr \in BOOLEAN, connects \in BOOLEAN : st_open(addr, connects)
    BY <1>1
  <2>2. fd' \in {"closed", "connecting", "open"} /\ wq' = wq /\ fd = "closed"
    BY <2>1 DEF st_open, NoSocket, queueVars
  <2>3. QED
    BY <1>1, <2>2, TcpKeeps DEF IInv, ClosedIsDrained
<1>2. CASE Tcp /\ \E addr \in BOOLEAN, outcome \in {"closed", "connecting", "open"} :
                    st_connect_begin(addr, outcome)
  <2>1. PICK addr \in BOOLEAN, outcome \in {"closed", "connecting", "open"} :
          st_connect_begin(addr, outcome)
    BY <1>2
  <2>2. fd' \in {"closed", "connecting", "open"} /\ wq' = wq /\ fd = "closed"
    BY <2>1 DEF st_connect_begin, NoSocket, queueVars
  <2>3. QED
    BY <1>2, <2>2, TcpKeeps DEF IInv, ClosedIsDrained
<1>3. CASE /\ Serial
           /\ \E outcome \in {"refused", "fails", "opens"}, claims \in BOOLEAN : uart_open(outcome, claims)
  BY <1>3, uart_open_keeps
<1>4. CASE Gdb /\ \E fails, lost \in BOOLEAN : gdb_open(fails, lost)
  BY <1>4, gdb_open_keeps
<1>5. QED
  BY <1>1, <1>2, <1>3, <1>4 DEF OpenLink

\* Closing it.
LEMMA CloseLinkKeeps == ASSUME IInv, CloseLink PROVE IInv'
<1>1. CASE Tcp /\ st_close
  BY <1>1, TcpKeeps DEF st_close
<1>2. CASE Serial /\ uart_close
  BY <1>2, uart_close_keeps
<1>3. CASE Gdb /\ \E quick \in BOOLEAN : gdb_close(quick)
  BY <1>3, gdb_close_keeps
<1>4. QED
  BY <1>1, <1>2, <1>3 DEF CloseLink

\* Writing to it.
LEMMA WriteKeeps == ASSUME IInv, Write PROVE IInv'
<1>0. PICK data \in Typed[kind], err \in BOOLEAN :
        \E k \in Takes(Len(WireBytes(data))) : fd = "open" /\ WriteData(data, k, err)
  BY DEF Write, sm_broker_do_write
<1>1. PICK k \in Takes(Len(WireBytes(data))) : fd = "open" /\ WriteData(data, k, err)
  BY <1>0
<1>2. CASE Tcp /\ st_write(data, k, err)
  <2>1. fd' = fd
    BY <1>2 DEF st_write
  <2>2. QED
    BY <1>1, <1>2, <2>1, TcpKeeps
<1>3. data \in Seq(Symbols)
  BY TypedIsPlain DEF IInv, LinksTypeOK
<1>4. kind # "tcp" => k \in 0 .. Len(data)
  BY DEF Takes, WireBytes
<1>5. CASE Serial /\ uart_write(data, k, err)
  BY <1>3, <1>4, <1>5, uart_write_keeps DEF Serial
<1>6. CASE Gdb /\ gdb_write_data(data, k, err)
  BY <1>3, <1>4, <1>6, gdb_write_data_keeps DEF Gdb
<1>7. QED
  BY <1>1, <1>2, <1>5, <1>6 DEF WriteData

\* Setting one of its parameters.
LEMMA SetParamKeeps == ASSUME IInv, SetParam PROVE IInv'
<1>1. CASE Tcp /\ \E key \in Params, err \in BOOLEAN, k \in 0 .. 9 : st_set_param(key, k, err)
  <2>1. fd = "open" /\ fd' = fd
    BY <1>1 DEF SetParam, st_set_param, comport_send
  <2>2. QED
    BY <1>1, <2>1, TcpKeeps
<1>2. CASE Serial /\ \E baud \in Bauds, fails \in BOOLEAN : uart_set_baud(baud, fails)
  BY <1>2, uart_set_keeps
<1>3. CASE Serial /\ \E frame \in Frames, fails \in BOOLEAN : uart_set_frame(frame, fails)
  BY <1>3, uart_set_keeps
<1>4. CASE Gdb /\ \E err \in BOOLEAN, k \in 0 .. 1 : gdb_send_break(k, err)
  BY <1>4, gdb_send_break_keeps
<1>5. QED
  BY <1>1, <1>2, <1>3, <1>4 DEF SetParam

\* Flushing its queue.
LEMMA FlushKeeps == ASSUME IInv, Flush PROVE IInv'
<1>1. PICK k \in 0 .. Len(wq), err \in BOOLEAN : FlushLink(k, err)
  BY DEF Flush, Takes
<1>2. fd = "open" /\ kind' = kind /\ kind \in {"tcp", "uart", "gdb"}
  BY <1>1, LinksAssumption DEF FlushLink, IInv, LinksTypeOK
<1>3. CASE sm_link_wq_flush(wq, sent, k, err).rc = -1
  <2>1. CASE kind = "tcp"
    <3>1. Tcp /\ st_close
      BY <1>1, <1>2, <1>3, <2>1 DEF FlushLink, Tcp
    <3>2. QED
      BY <3>1, TcpKeeps DEF st_close
  <2>2. CASE kind = "uart"
    <3>1. Serial /\ uart_close
      BY <1>1, <1>2, <1>3, <2>2 DEF FlushLink, Serial
    <3>2. QED
      BY <3>1, uart_close_keeps
  <2>3. CASE kind = "gdb"
    <3>1. Gdb /\ gdb_close(FALSE)
      BY <1>1, <1>2, <1>3, <2>3 DEF FlushLink, Gdb
    <3>2. QED
      BY <3>1, gdb_close_keeps
  <2>4. QED
    BY <1>2, <2>1, <2>2, <2>3
<1>4. CASE sm_link_wq_flush(wq, sent, k, err).rc # -1
  <2>1. /\ wq' = sm_link_wq_flush(wq, sent, k, err).wq
        /\ sent' = sm_link_wq_flush(wq, sent, k, err).sent
        /\ fd' = fd /\ UNCHANGED historyVars
        /\ tcpVars' = tcpVars /\ uartVars' = uartVars /\ gdbVars' = gdbVars
    BY <1>1, <1>4 DEF FlushLink
  <2>2. CASE kind = "tcp"
    <3>1. Tcp
      BY <1>2, <2>1, <2>2 DEF Tcp
    <3>2. QED
      BY <1>2, <2>1, <3>1, TcpKeeps
  <2>3. CASE kind = "uart"
    <3>1. Serial
      BY <1>2, <2>1, <2>3 DEF Serial
    <3>2. QED
      BY <1>2, <2>1, <3>1, SerialFlushes
  <2>4. CASE kind = "gdb"
    <3>1. Gdb
      BY <1>2, <2>1, <2>4 DEF Gdb
    <3>2. QED
      BY <1>2, <2>1, <3>1, GdbFlushes
  <2>5. QED
    BY <1>2, <2>2, <2>3, <2>4
<1>5. QED
  BY <1>3, <1>4

\* No step breaks the invariant.
LEMMA NextKeeps == ASSUME IInv, [Next]_vars PROVE IInv'
<1>1. CASE OpenLink
  BY <1>1, OpenLinkKeeps
<1>2. CASE SettleConnect
  <2>1. Tcp /\ fd = "connecting" /\ fd' \in {"connecting", "open"}
    BY <1>2 DEF SettleConnect, st_connect_poll
  <2>2. QED
    BY <2>1, TcpKeeps
<1>3. CASE CloseLink
  BY <1>3, CloseLinkKeeps
<1>4. CASE Write
  BY <1>4, WriteKeeps
<1>5. CASE SetParam
  BY <1>5, SetParamKeeps
<1>6. CASE Flush
  BY <1>6, FlushKeeps
<1>7. CASE ReadLink
  <2>1. Tcp /\ fd = "open" /\ fd' = fd
    BY <1>7 DEF ReadLink, st_filter_rx, Filtered
  <2>2. QED
    BY <2>1, TcpKeeps
<1>8. CASE Server
  <2>1. Tcp /\ fd = "open" /\ fd' = fd
    BY <1>8 DEF Server, ServerSends, queueVars
  <2>2. QED
    BY <2>1, TcpKeeps
<1>9. CASE OtherProgram
  BY <1>9, OtherProgramKeeps DEF OtherProgram
<1>10. CASE GdbEnds
  BY <1>10, ChildEndsKeeps DEF GdbEnds
<1>11. CASE UNCHANGED vars
  <2>1. queueVars' = queueVars /\ uartVars' = uartVars /\ gdbVars' = gdbVars /\ kind' = kind
    BY <1>11 DEF vars
  <2>2. LinksTypeOK'
    BY <2>1 DEF IInv, LinksTypeOK, UartTypeOK, GdbTypeOK, queueVars, historyVars, uartVars, gdbVars
  <2>3. OwnKindOnly' /\ ClosedIsDrained' /\ PlainWireFaithful'
    BY <2>1 DEF IInv, OwnKindOnly, ClosedIsDrained, PlainWireFaithful, queueVars, historyVars, uartVars, gdbVars
  <2>4. SettingsTrue' /\ PortHandedBack' /\ NoGdbLeftRunning'
    BY <2>1 DEF IInv, SettingsTrue, PortHandedBack, NoGdbLeftRunning, queueVars, uartVars, gdbVars
  <2>5. QED
    BY <2>2, <2>3, <2>4 DEF IInv
<1>12. QED
  BY <1>1, <1>2, <1>3, <1>4, <1>5, <1>6, <1>7, <1>8, <1>9, <1>10, <1>11 DEF Next

\* The invariant holds of every behaviour: a kind of link touches only its own
\* state, a closed descriptor has nothing queued, and the three parts below.
THEOREM InductiveInvariant == Spec => []IInv
BY InitHolds, NextKeeps, PTL DEF Spec

\* A closed link has let go of what it held: the exclusive claim on the port
\* (uart_close) and the GDB with its debug probe (gdb_close, gdb_spawn), through
\* refused opens, a GDB that fails to start, quick and slow deaths and any
\* number of reopens.  It is not so of the claim of an open that failed after
\* TIOCEXCL: from there until the next close of an open port the claim is kept
\* (strayed in PortHandedBack).
THEOREM LetsGo == Spec => []HandedBack
<1>1. IInv => HandedBack
  BY DEF IInv, HandedBack
<1>2. QED
  BY <1>1, InductiveInvariant, PTL

\* An open port has the settings the link reports, whatever another program
\* set while the link was suspended (uart_open, uart_set_param).  It is not so
\* of a frame that the tty refused, which the link reports all the same until
\* the next frame or the next open (unapplied in SettingsTrue); the baud rate
\* is true even then.
THEOREM SettingsKept == Spec => []SettingsTrue
<1>1. IInv => SettingsTrue
  BY DEF IInv
<1>2. QED
  BY <1>1, InductiveInvariant, PTL

\* What a UART or a GDB is sent on one descriptor is what the link accepted on
\* it, in order, however the kernel cuts the writes and the flushes
\* (sm_link_wq_write, sm_link_wq_flush).
THEOREM PlainWireOrdered == Spec => []PlainWireFaithful
<1>1. IInv => PlainWireFaithful
  BY DEF IInv
<1>2. QED
  BY <1>1, InductiveInvariant, PTL
=============================================================================
