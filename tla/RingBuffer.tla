----------------------------- MODULE RingBuffer -----------------------------
(***************************************************************************)
(* The history ring of ring_buffer.c as operators on a value               *)
(*   chunks       the stored chunks, oldest first: the sequence number of  *)
(*                the first byte, the length and the allocation            *)
(*   first_seq    the oldest byte kept                                     *)
(*   total_seq    the next byte to come                                    *)
(*   total_bytes  the bytes kept                                           *)
(* Bytes are their sequence numbers; timestamps matter only in that a      *)
(* chunk with the timestamp of the last one may be merged into it. The     *)
(* circular chunk array is a sequence: it grows, it is never full.         *)
(***************************************************************************)
EXTENDS Integers, SequencesExt

CONSTANTS
  MaxBytes,    \* max_bytes of the ring
  ChunkTarget  \* SM_RB_CHUNK_TARGET

ASSUME RingAssumption == MaxBytes \in Nat /\ ChunkTarget \in Nat \ {0}

sm_rb_init == [chunks |-> <<>>, first_seq |-> 0, total_seq |-> 0, total_bytes |-> 0]

\* Mutant: a trimmed chunk keeps its sequence number.
EvictRound_keeps_start(rb) ==
  LET front == rb.chunks[1]
      excess == rb.total_bytes - MaxBytes
      whole == front.len <= excess
      kept == IF whole THEN Tail(rb.chunks) ELSE [rb.chunks EXCEPT ![1].len = @ - excess]
  IN  [rb EXCEPT !.chunks = kept,
                 !.total_bytes = @ - (IF whole THEN front.len ELSE excess),
                 !.first_seq = IF kept = <<>> THEN rb.total_seq ELSE kept[1].start]

\* One round of evict: the front chunk goes, or loses its oldest bytes.
EvictRound(rb) ==
  LET front == rb.chunks[1]
      excess == rb.total_bytes - MaxBytes
      whole == front.len <= excess
      kept == IF whole THEN Tail(rb.chunks)
              ELSE [rb.chunks EXCEPT ![1].len = @ - excess, ![1].start = @ + excess]
  IN  [rb EXCEPT !.chunks = kept,
                 !.total_bytes = @ - (IF whole THEN front.len ELSE excess),
                 !.first_seq = IF kept = <<>> THEN rb.total_seq ELSE kept[1].start]

\* The loop's condition, then a round.
EvictMore(rb) == IF rb.chunks # <<>> /\ rb.total_bytes > MaxBytes THEN EvictRound(rb) ELSE rb

\* Every round removes a chunk or is the last, so there are at most as many
\* rounds as chunks.
evict(rb) ==
  LET round[k \in 0..Len(rb.chunks)] == IF k = 0 THEN rb ELSE EvictMore(round[k - 1])
  IN  round[Len(rb.chunks)]

Larger(a, b) == IF a > b THEN a ELSE b

\* Append len bytes; sameTs: they carry the timestamp of the last chunk.
sm_rb_append(rb, len, sameTs) ==
  LET n == Len(rb.chunks)
      merge == /\ n > 0
               /\ sameTs
               /\ rb.chunks[n].len < ChunkTarget
               /\ rb.chunks[n].len + len <= rb.chunks[n].alloc
      fresh == [start |-> rb.total_seq, len |-> len, alloc |-> Larger(len, ChunkTarget)]
      grown == [rb.chunks EXCEPT ![n].len = @ + len]
  IN  evict([rb EXCEPT !.chunks = IF merge THEN grown ELSE Append(@, fresh),
                       !.total_seq = @ + len,
                       !.total_bytes = @ + len,
                       !.first_seq = IF n = 0 THEN rb.total_seq ELSE @])

(***************************************************************************)
(* The newest chunks: all of them, or as many whole ones, from the newest  *)
(* on, as it takes to have n bytes.                                        *)
(***************************************************************************)
Bytes(cs) ==
  LET sum[k \in 0..Len(cs)] == IF k = 0 THEN 0 ELSE sum[k - 1] + cs[k].len
  IN  sum[Len(cs)]

sm_rb_get_all(rb) == rb.chunks

\* Mutant: the count stops one chunk short.
sm_rb_get_last_n_bytes_short(rb, n) ==
  LET last == Len(rb.chunks)
      starts == {i \in 1..last : Bytes(SubSeq(rb.chunks, i, last)) < n}
  IN  IF starts = {} THEN <<>>
      ELSE SubSeq(rb.chunks, CHOOSE i \in starts : \A j \in starts : i <= j, last)

sm_rb_get_last_n_bytes(rb, n) ==
  LET last == Len(rb.chunks)
      starts == {i \in 1..last : i = 1 \/ Bytes(SubSeq(rb.chunks, i, last)) >= n}
  IN  IF last = 0 \/ n = 0 THEN <<>>
      ELSE SubSeq(rb.chunks, CHOOSE i \in starts : \A j \in starts : j <= i, last)

(***************************************************************************)
(* A page of at most max bytes from since on.                              *)
(***************************************************************************)
NoPage(rb, dropped) ==
  [chunks |-> <<>>, first_skip |-> 0, cursor |-> rb.total_seq, dropped |-> dropped, has_more |-> FALSE]

\* Mutant: the cursor of a cut page forgets the bytes skipped.
AddToPage_forgets_skip(p, c, off, max) ==
  LET usable == c.len - off
      part == max - p.acc
  IN  IF p.full \/ p.acc >= max THEN [p EXCEPT !.full = TRUE]
      ELSE IF p.acc + usable > max
           THEN [chunks |-> Append(p.chunks, c), acc |-> max, cursor |-> c.start + part, full |-> TRUE]
           ELSE [chunks |-> Append(p.chunks, c), acc |-> p.acc + usable, cursor |-> c.start + c.len, full |-> FALSE]

\* Add chunk c to the page p unless it is full; the last one may be cut.
AddToPage(p, c, off, max) ==
  LET usable == c.len - off
      part == max - p.acc
  IN  IF p.full \/ p.acc >= max THEN [p EXCEPT !.full = TRUE]
      ELSE IF p.acc + usable > max
           THEN [chunks |-> Append(p.chunks, c), acc |-> max, cursor |-> c.start + off + part, full |-> TRUE]
           ELSE [chunks |-> Append(p.chunks, c), acc |-> p.acc + usable, cursor |-> c.start + c.len, full |-> FALSE]

\* The page that begins want, skip bytes into the first of the chunks cs.
PageOf(cs, want, skip, max) ==
  LET upTo[k \in 0..Len(cs)] ==
        IF k = 0 THEN [chunks |-> <<>>, acc |-> 0, cursor |-> want, full |-> FALSE]
        ELSE AddToPage(upTo[k - 1], cs[k], IF k = 1 THEN skip ELSE 0, max)
  IN  upTo[Len(cs)]

sm_rb_get_since_seq(rb, since, max) ==
  LET want == Larger(since, rb.first_seq)
      dropped == want - since
      beyond == {i \in DOMAIN rb.chunks : rb.chunks[i].start + rb.chunks[i].len > want}
  IN  IF want >= rb.total_seq \/ beyond = {}
      THEN NoPage(rb, dropped)
      ELSE LET first == CHOOSE i \in beyond : \A j \in beyond : i <= j
               skip == Larger(want - rb.chunks[first].start, 0)
               page == PageOf(SubSeq(rb.chunks, first, Len(rb.chunks)), want, skip, max)
           IN  [chunks |-> page.chunks, first_skip |-> skip, cursor |-> page.cursor,
                dropped |-> dropped, has_more |-> page.cursor < rb.total_seq]

=============================================================================
