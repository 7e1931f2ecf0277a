----------------------------- MODULE LinkQueue -----------------------------
(***************************************************************************)
(* The write queue of a link (links/link_wq.c).  A link writes to a        *)
(* non-blocking descriptor; what the kernel does not take is queued and    *)
(* flushed when the loop sees the descriptor writable.  The entries of the *)
(* queue, with their offsets, are abstracted to the bytes still to be      *)
(* written, in order: their number is the code's total_bytes.              *)
(***************************************************************************)
EXTENDS Integers, Sequences, SequencesExt

CONSTANT QueueMax       \* SM_LINK_WRITE_QUEUE_MAX_BYTES

ASSUME QueueMaxAssumption == QueueMax \in Nat \ {0}

VARIABLES
  fd,       \* "closed", "connecting" or "open"
  wq,       \* the bytes queued for the descriptor
  sent,     \* the bytes the kernel took on the present descriptor
  taken,    \* history: what the link accepted on it, as the far end should read it
  spoilt    \* history: a write failed midway, or bytes were sent past the queue

historyVars == <<taken, spoilt>>
queueVars == <<fd, wq, sent, historyVars>>

LinkQueueInit ==
  fd = "closed" /\ wq = <<>> /\ sent = <<>> /\ taken = <<>> /\ spoilt = FALSE

First(bytes, k) == SubSeq(bytes, 1, k)

After(bytes, k) == SubSeq(bytes, k + 1, Len(bytes))

\* What one call leaves: the queue, the bytes sent, and its result.
Left(rc, queue, out) == [rc |-> rc, wq |-> queue, sent |-> out]

\* sm_link_wq_enqueue: all of it or nothing.
sm_link_wq_enqueue(queue, out, data) ==
  IF Len(queue) + Len(data) > QueueMax
    THEN Left(-1, queue, out)
    ELSE Left(0, queue \o data, out)

\* A write that does not look at the queue first.
sm_link_wq_write_overtakes(queue, out, data, k, err) ==
  IF k = Len(data) THEN Left(0, queue, out \o data)
  ELSE IF err THEN Left(-1, queue, out \o First(data, k))
  ELSE sm_link_wq_enqueue(queue, out \o First(data, k), After(data, k))

\* sm_link_wq_write: behind a queued tail the data is queued; otherwise the
\* kernel takes the first k bytes, and then all is written, or the kernel has
\* no room (the rest is queued) or reports an error (the rest is dropped).
sm_link_wq_write(queue, out, data, k, err) ==
  IF data = <<>> THEN Left(0, queue, out)
  ELSE IF queue # <<>> THEN sm_link_wq_enqueue(queue, out, data)
  ELSE IF k = Len(data) THEN Left(0, queue, out \o data)
  ELSE IF err THEN Left(-1, queue, out \o First(data, k))
  ELSE sm_link_wq_enqueue(queue, out \o First(data, k), After(data, k))

\* sm_link_wq_flush: the kernel takes the first k queued bytes; 1 says that
\* some are left, -1 that the descriptor failed.
sm_link_wq_flush(queue, out, k, err) ==
  Left(IF k = Len(queue) THEN 0 ELSE IF err THEN -1 ELSE 1,
       After(queue, k), out \o First(queue, k))

\* The link writes the bytes, which stand for those units: what it accepts is
\* remembered, and so is an error that leaves a part of it sent.
QueuedWrite(bytes, asUnits, k, err) ==
  LET r == sm_link_wq_write(wq, sent, bytes, k, err)
  IN  /\ wq' = r.wq /\ sent' = r.sent
      /\ taken' = IF r.rc = 0 THEN taken \o asUnits ELSE taken
      /\ spoilt' = (spoilt \/ (r.rc # 0 /\ r.sent # sent))

\* A fresh descriptor: nothing is sent or accepted yet.
FreshStream == sent' = <<>> /\ taken' = <<>> /\ spoilt' = FALSE

\* How much the kernel may take of n bytes.
Takes(n) == 0 .. n
=============================================================================
