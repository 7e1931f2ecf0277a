---------------------------- MODULE History_proofs ----------------------------
(***************************************************************************)
(* Proofs about the output history: the ring keeps exactly the newest      *)
(* bytes, and paging through it loses and repeats none, for any sizes of   *)
(* the ring, its chunks, the pages and the turns of encoding, and any      *)
(* number of readers and restarts.                                         *)
(***************************************************************************)
EXTENDS McpOutput, SequenceTheorems, FiniteSetTheorems, WellFoundedInduction, TLAPS

-----------------------------------------------------------------------------
(* Iteration: there is a recursive function, and what each of its values   *)
(* keeps all of them have.                                                 *)

\* A nonempty set of natural numbers has a least element.
LEMMA LeastNatural ==
  ASSUME NEW S \in SUBSET Nat, S # {}
  PROVE  \E x \in S : \A y \in S : x <= y
<1> DEFINE R == {ss \in Nat \X Nat : ss[1] < ss[2]}
<1>1. R = OpToRel(<, Nat)
  BY Zenon DEF OpToRel
<1>2. IsWellFoundedOn(R, Nat)
  BY <1>1, NatLessThanWellFounded, Zenon
<1>3. ASSUME NEW a \in Nat, NEW b \in Nat, a < b
      PROVE  <<a, b>> \in R
  <2> DEFINE p == <<a, b>>
  <2>1. p \in Nat \X Nat /\ p[1] = a /\ p[2] = b
    OBVIOUS
  <2> HIDE DEF p
  <2>2. p \in R
    BY <2>1, <1>3
  <2>3. QED
    BY <2>2 DEF p
<1> HIDE DEF R
<1>4. PICK x \in S : \A y \in S : ~ (<<y, x>> \in R)
  BY <1>2, WFMin
<1>5. \A y \in S : ~ (y < x)
  BY <1>3, <1>4, Zenon
<1>6. QED
  BY <1>5

\* Induction up to n, over the set of the numbers at which something holds.
LEMMA Induction ==
  ASSUME NEW n \in Nat, NEW Good, 0 \in Good,
         \A k \in 1 .. n : k - 1 \in Good => k \in Good
  PROVE  \A k \in 0 .. n : k \in Good
<1> SUFFICES ASSUME \E k \in 0 .. n : k \notin Good PROVE FALSE
  OBVIOUS
<1> DEFINE Bad == {k \in 0 .. n : k \notin Good}
<1>1. Bad \in SUBSET Nat /\ Bad # {}
  OBVIOUS
<1>2. PICK k \in Bad : \A j \in Bad : k <= j
  BY <1>1, LeastNatural
<1>3. k \in 1 .. n /\ k - 1 \in 0 .. n
  BY <1>2
<1>4. k - 1 \in Good
  BY <1>2, <1>3
<1>5. QED
  BY <1>2, <1>3, <1>4

IsRun(f, start, step, n) == f[0] = start /\ \A k \in 1 .. n : f[k] = step[k][f[k - 1]]

\* Steps can be taken one after the other.
LEMMA Iterates ==
  ASSUME NEW S, NEW start \in S, NEW n \in Nat, NEW step \in [1 .. n -> [S -> S]]
  PROVE  \E f \in [0 .. n -> S] : IsRun(f, start, step, n)
<1> DEFINE Good == {m \in 0 .. n : \E f \in [0 .. m -> S] : IsRun(f, start, step, m)}
<1>1. 0 \in Good
  <2> DEFINE f == [k \in 0 .. 0 |-> start]
  <2>1. f \in [0 .. 0 -> S] /\ IsRun(f, start, step, 0)
    BY DEF IsRun
  <2>2. QED
    BY <2>1
<1>2. ASSUME NEW m \in 1 .. n, m - 1 \in Good PROVE m \in Good
  <2>1. PICK f \in [0 .. m - 1 -> S] : IsRun(f, start, step, m - 1)
    BY <1>2
  <2>2. PICK next : next = step[m][f[m - 1]]
    OBVIOUS
  <2>3. next \in S
    <3>1. f[m - 1] \in S
      BY <2>1
    <3>2. step[m] \in [S -> S]
      OBVIOUS
    <3>3. QED
      BY <2>2, <3>1, <3>2
  <2> DEFINE h == [k \in 0 .. m |-> IF k = m THEN next ELSE f[k]]
  <2>4. h \in [0 .. m -> S]
    <3>1. \A k \in 0 .. m : k # m => f[k] \in S
      BY <2>1
    <3>2. QED
      BY <2>3, <3>1
  <2>5. h[0] = start
    BY <2>1 DEF IsRun
  <2>6. ASSUME NEW k \in 1 .. m PROVE h[k] = step[k][h[k - 1]]
    <3>1. CASE k = m
      BY <2>2, <3>1
    <3>2. CASE k # m
      <4>1. k \in 1 .. m - 1 /\ k - 1 \in 0 .. m /\ k - 1 # m
        BY <3>2
      <4>2. QED
        BY <2>1, <3>2, <4>1 DEF IsRun
    <3>3. QED
      BY <3>1, <3>2
  <2> HIDE DEF h
  <2>7. IsRun(h, start, step, m)
    BY <2>5, <2>6 DEF IsRun
  <2>8. QED
    BY <2>4, <2>7
<1> HIDE DEF Good
<1>3. \A m \in 0 .. n : m \in Good
  BY <1>1, <1>2, Induction
<1>4. n \in Good
  BY <1>3
<1>5. QED
  BY <1>4 DEF Good

-----------------------------------------------------------------------------
(* Chunks that follow one another.                                         *)

Chunk == {c \in [start : Nat, len : Nat \ {0}, alloc : Nat] : c.len <= c.alloc}
End(c) == c.start + c.len

\* The chunks cs hold the bytes from a to b, without a gap.
Covers(cs, a, b) ==
  /\ cs \in Seq(Chunk) /\ a \in Nat /\ b \in Nat
  /\ \A i \in 1 .. (Len(cs) - 1) : cs[i + 1].start = End(cs[i])
  /\ IF cs = <<>> THEN a = b ELSE cs[1].start = a /\ End(cs[Len(cs)]) = b

LEMMA ChunkType ==
  ASSUME NEW c \in Chunk
  PROVE  /\ c.start \in Nat /\ c.len \in Nat \ {0} /\ c.alloc \in Nat /\ c.len <= c.alloc
         /\ End(c) \in Nat /\ End(c) > c.start
BY DEF Chunk, End

LEMMA MakeChunk ==
  ASSUME NEW s \in Nat, NEW l \in Nat \ {0}, NEW a \in Nat, l <= a,
         NEW c, c = [start |-> s, len |-> l, alloc |-> a]
  PROVE  c \in Chunk /\ c.start = s /\ c.len = l /\ c.alloc = a /\ End(c) = s + l
BY DEF Chunk, End

\* Each chunk lies between the ends.
LEMMA CoversBetween ==
  ASSUME NEW cs, NEW a, NEW b, Covers(cs, a, b), NEW i \in 1 .. Len(cs)
  PROVE  cs[i] \in Chunk /\ a <= cs[i].start /\ End(cs[i]) <= b
<1>1. PICK n : n = Len(cs) /\ n \in Nat
  BY DEF Covers
<1>2. \A k \in 1 .. n : cs[k] \in Chunk /\ cs[k].start \in Nat /\ End(cs[k]) \in Nat /\ End(cs[k]) > cs[k].start
  <2>1. \A k \in 1 .. n : cs[k] \in Chunk
    BY <1>1 DEF Covers
  <2>2. QED
    BY <2>1, ChunkType
<1>3. /\ cs[1].start = a /\ End(cs[n]) = b /\ a \in Nat /\ b \in Nat
      /\ \A k \in 1 .. (n - 1) : cs[k + 1].start = End(cs[k])
  <2>1. cs # <<>>
    BY <1>1
  <2>2. QED
    BY <1>1, <2>1 DEF Covers
<1>4. \A k \in 0 .. (n - 1) : k \in {j \in Nat : a <= cs[j + 1].start}
  <2> DEFINE Good == {j \in Nat : a <= cs[j + 1].start}
  <2>1. 0 \in Good
    BY <1>3
  <2>2. ASSUME NEW k \in 1 .. (n - 1), k - 1 \in Good PROVE k \in Good
    <3>1. a <= cs[k].start
      BY <2>2
    <3>2. cs[k + 1].start = End(cs[k]) /\ End(cs[k]) > cs[k].start /\ k \in Nat
      BY <1>1, <1>2, <1>3
    <3>3. cs[k].start \in Nat /\ End(cs[k]) \in Nat
      BY <1>1, <1>2
    <3>4. QED
      BY <1>3, <3>1, <3>2, <3>3
  <2>3. n - 1 \in Nat
    BY <1>1
  <2> HIDE DEF Good
  <2>4. \A k \in 0 .. (n - 1) : k \in Good
    BY <2>1, <2>2, <2>3, Induction
  <2>5. QED
    BY <2>4 DEF Good
<1>5. \A k \in 0 .. (n - 1) : k \in {j \in Nat : End(cs[n - j]) <= b}
  <2> DEFINE Good == {j \in Nat : End(cs[n - j]) <= b}
  <2>1. 0 \in Good
    BY <1>1, <1>3
  <2>2. ASSUME NEW k \in 1 .. (n - 1), k - 1 \in Good PROVE k \in Good
    <3>1. PICK m : m = n - k
      OBVIOUS
    <3>2. m \in 1 .. (n - 1) /\ n - (k - 1) = m + 1 /\ m + 1 \in 1 .. n /\ m \in 1 .. n
      BY <1>1, <3>1
    <3>3. End(cs[m + 1]) <= b
      BY <2>2, <3>2
    <3>4. cs[m + 1].start = End(cs[m]) /\ End(cs[m + 1]) > cs[m + 1].start
      BY <1>2, <1>3, <3>2
    <3>5. End(cs[m]) \in Nat /\ End(cs[m + 1]) \in Nat
      BY <1>2, <3>2
    <3>6. End(cs[m]) <= b
      BY <1>3, <3>3, <3>4, <3>5
    <3>7. QED
      BY <3>1, <3>6
  <2>3. n - 1 \in Nat
    BY <1>1
  <2> HIDE DEF Good
  <2>4. \A k \in 0 .. (n - 1) : k \in Good
    BY <2>1, <2>2, <2>3, Induction
  <2>5. QED
    BY <2>4 DEF Good
<1>6. i - 1 \in 0 .. (n - 1) /\ n - i \in 0 .. (n - 1) /\ (i - 1) + 1 = i /\ n - (n - i) = i
  BY <1>1
<1>7. a <= cs[(i - 1) + 1].start
  BY <1>4, <1>6
<1>8. End(cs[n - (n - i)]) <= b
  BY <1>5, <1>6
<1>9. QED
  BY <1>1, <1>2, <1>6, <1>7, <1>8

LEMMA CoversNothing == ASSUME NEW a \in Nat PROVE Covers(<<>>, a, a)
BY DEF Covers

LEMMA CoversOrder ==
  ASSUME NEW cs, NEW a, NEW b, Covers(cs, a, b)
  PROVE  a \in Nat /\ b \in Nat /\ a <= b /\ (cs # <<>> => a < b)
<1>1. CASE cs = <<>>
  BY <1>1 DEF Covers
<1>2. CASE cs # <<>>
  <2>1. 1 \in 1 .. Len(cs) /\ cs[1].start = a
    BY <1>2 DEF Covers
  <2>2. cs[1] \in Chunk /\ End(cs[1]) <= b
    BY <2>1, CoversBetween
  <2>3. End(cs[1]) > a /\ End(cs[1]) \in Nat
    BY <2>1, <2>2, ChunkType
  <2>4. a \in Nat /\ b \in Nat
    BY DEF Covers
  <2>5. QED
    BY <2>2, <2>3, <2>4
<1>3. QED
  BY <1>1, <1>2

\* A part of the chunks.
LEMMA CoversPart ==
  ASSUME NEW cs, NEW a, NEW b, Covers(cs, a, b), NEW i \in 1 .. Len(cs), NEW j \in i .. Len(cs),
         NEW p, p = SubSeq(cs, i, j)
  PROVE  /\ Covers(p, cs[i].start, End(cs[j])) /\ p # <<>> /\ Len(p) = j - i + 1
         /\ \A k \in 1 .. (j - i + 1) : p[k] = cs[i + k - 1]
<1>1. cs \in Seq(Chunk) /\ Len(cs) \in Nat
  BY DEF Covers
<1>2. i \in Nat /\ j \in Nat /\ i <= j /\ j <= Len(cs) /\ i >= 1 /\ i \in 1 .. Len(cs) /\ j \in 1 .. Len(cs)
  BY <1>1
<1>3. /\ p \in Seq(Chunk) /\ Len(p) = IF i <= j THEN j - i + 1 ELSE 0
      /\ \A k \in 1 .. (j - i + 1) : p[k] = cs[i + k - 1]
  <2>1. \A k \in i .. j : cs[k] \in Chunk
    BY <1>1, <1>2
  <2>2. QED
    BY <1>1, <1>2, <2>1, SubSeqProperties
<1>4. Len(p) = j - i + 1 /\ p # <<>>
  BY <1>2, <1>3
<1>5. PICK n : n = j - i + 1
  OBVIOUS
<1>6. n \in Nat /\ n >= 1 /\ Len(p) = n
  BY <1>2, <1>4, <1>5
<1>7. ASSUME NEW k \in 1 .. (n - 1) PROVE p[k + 1].start = End(p[k])
  <2>1. /\ k \in 1 .. (j - i + 1) /\ k + 1 \in 1 .. (j - i + 1) /\ i + (k + 1) - 1 = (i + k - 1) + 1
        /\ i + k - 1 \in 1 .. (Len(cs) - 1)
    BY <1>1, <1>2, <1>5, <1>6
  <2>2. p[k] = cs[i + k - 1] /\ p[k + 1] = cs[(i + k - 1) + 1]
    <3>1. p[k] = cs[i + k - 1] /\ p[k + 1] = cs[i + (k + 1) - 1]
      BY <1>3, <2>1
    <3>2. QED
      BY <2>1, <3>1
  <2>3. cs[(i + k - 1) + 1].start = End(cs[i + k - 1])
    BY <2>1 DEF Covers
  <2>4. QED
    BY <2>2, <2>3
<1>8. p[1] = cs[i] /\ p[n] = cs[j]
  <2>1. 1 \in 1 .. (j - i + 1) /\ i + 1 - 1 = i /\ n \in 1 .. (j - i + 1) /\ i + n - 1 = j
    BY <1>2, <1>5
  <2>2. p[1] = cs[i + 1 - 1] /\ p[n] = cs[i + n - 1]
    BY <1>3, <2>1
  <2>3. QED
    BY <2>1, <2>2
<1>9. cs[i].start \in Nat /\ End(cs[j]) \in Nat
  <2>1. cs[i] \in Chunk /\ cs[j] \in Chunk
    BY <1>1, <1>2
  <2>2. QED
    BY <2>1, ChunkType
<1>10. Covers(p, cs[i].start, End(cs[j]))
  BY <1>3, <1>4, <1>6, <1>7, <1>8, <1>9 DEF Covers
<1>11. QED
  BY <1>3, <1>4, <1>10

\* Without the first.
LEMMA CoversTail ==
  ASSUME NEW cs, NEW a, NEW b, Covers(cs, a, b), cs # <<>>, NEW p, p = Tail(cs)
  PROVE  Covers(p, End(cs[1]), b) /\ Len(p) = Len(cs) - 1
<1>1. PICK n : n = Len(cs)
  OBVIOUS
<1>2. cs \in Seq(Chunk) /\ n \in Nat /\ n >= 1 /\ cs[1] \in Chunk /\ End(cs[n]) = b
  BY <1>1 DEF Covers
<1>3. End(cs[1]) \in Nat
  BY <1>2, ChunkType
<1>4. p = SubSeq(cs, 2, n)
  BY <1>1, <1>2 DEF Tail
<1>5. CASE n = 1
  <2>1. p = <<>>
    BY <1>4, <1>5
  <2>2. End(cs[1]) = b
    BY <1>2, <1>5
  <2>3. Covers(p, b, b) /\ Len(p) = 0
    BY <1>2, <1>3, <2>1, <2>2, CoversNothing
  <2>4. QED
    BY <1>1, <1>5, <2>2, <2>3
<1>6. CASE n # 1
  <2>1. 2 \in 1 .. n /\ n \in 2 .. n /\ 1 \in 1 .. (n - 1) /\ n - 2 + 1 = n - 1
    BY <1>2, <1>6
  <2>2. Covers(p, cs[2].start, End(cs[n])) /\ Len(p) = n - 2 + 1
    BY <1>1, <1>4, <2>1, CoversPart
  <2>3. cs[1 + 1].start = End(cs[1])
    BY <1>1, <2>1 DEF Covers
  <2>4. QED
    BY <1>1, <1>2, <2>1, <2>2, <2>3
<1>7. QED
  BY <1>5, <1>6

\* A chunk replaced by one that begins or ends elsewhere: at the front, and
\* at the end.
LEMMA CoversFront ==
  ASSUME NEW cs, NEW a, NEW b, Covers(cs, a, b), cs # <<>>, NEW c \in Chunk, End(c) = End(cs[1]),
         NEW p, p = [cs EXCEPT ![1] = c]
  PROVE  Covers(p, c.start, b) /\ p # <<>> /\ Len(p) = Len(cs) /\ p[1] = c
<1>1. cs \in Seq(Chunk) /\ Len(cs) \in Nat /\ Len(cs) >= 1
  BY DEF Covers
<1>2. p \in Seq(Chunk) /\ Len(p) = Len(cs) /\ p[1] = c /\ \A i \in 2 .. Len(cs) : p[i] = cs[i]
  BY <1>1
<1>3. c.start \in Nat /\ b \in Nat
  BY ChunkType DEF Covers
<1>4. ASSUME NEW i \in 1 .. (Len(p) - 1) PROVE p[i + 1].start = End(p[i])
  <2>1. i \in 1 .. (Len(cs) - 1) /\ i + 1 \in 2 .. Len(cs)
    BY <1>1, <1>2
  <2>2. p[i + 1] = cs[i + 1] /\ cs[i + 1].start = End(cs[i])
    BY <1>2, <2>1 DEF Covers
  <2>3. End(p[i]) = End(cs[i])
    <3>1. CASE i = 1
      BY <1>2, <3>1
    <3>2. CASE i # 1
      BY <1>1, <1>2, <2>1, <3>2
    <3>3. QED
      BY <3>1, <3>2
  <2>4. QED
    BY <2>2, <2>3
<1>5. End(p[Len(p)]) = b
  <2>1. End(cs[Len(cs)]) = b
    BY DEF Covers
  <2>2. CASE Len(cs) = 1
    BY <1>2, <2>1, <2>2
  <2>3. CASE Len(cs) # 1
    BY <1>1, <1>2, <2>1, <2>3
  <2>4. QED
    BY <2>2, <2>3
<1>6. p # <<>>
  BY <1>1, <1>2
<1>7. QED
  BY <1>2, <1>3, <1>4, <1>5, <1>6 DEF Covers

LEMMA CoversBack ==
  ASSUME NEW cs, NEW a, NEW b, Covers(cs, a, b), cs # <<>>, NEW n, n = Len(cs),
         NEW c \in Chunk, c.start = cs[n].start, NEW p, p = [cs EXCEPT ![n] = c]
  PROVE  Covers(p, a, End(c)) /\ p # <<>>
<1>1. cs \in Seq(Chunk) /\ n \in Nat /\ n >= 1
  BY DEF Covers
<1>2. p \in Seq(Chunk) /\ Len(p) = n /\ p[n] = c /\ \A i \in 1 .. (n - 1) : p[i] = cs[i]
  BY <1>1
<1>3. End(c) \in Nat /\ a \in Nat
  BY ChunkType DEF Covers
<1>4. \A i \in 1 .. n : p[i].start = cs[i].start
  BY <1>1, <1>2
<1>5. ASSUME NEW i \in 1 .. (n - 1) PROVE p[i + 1].start = End(p[i])
  <2>1. i + 1 \in 1 .. n
    BY <1>1
  <2>2. p[i + 1].start = cs[i + 1].start /\ cs[i + 1].start = End(cs[i])
    BY <1>4, <2>1 DEF Covers
  <2>3. QED
    BY <1>2, <2>2
<1>6. p[1].start = a
  <2>1. 1 \in 1 .. n /\ cs[1].start = a
    BY <1>1 DEF Covers
  <2>2. QED
    BY <1>4, <2>1
<1>7. p # <<>>
  BY <1>1, <1>2
<1>8. QED
  BY <1>2, <1>3, <1>5, <1>6, <1>7 DEF Covers

\* One more chunk.
LEMMA CoversAppend ==
  ASSUME NEW cs, NEW a, NEW b, Covers(cs, a, b), NEW c \in Chunk, c.start = b,
         NEW p, p = Append(cs, c)
  PROVE  Covers(p, a, End(c)) /\ p # <<>>
<1>1. cs \in Seq(Chunk) /\ Len(cs) \in Nat
  BY DEF Covers
<1>2. PICK n : n = Len(cs) /\ n \in Nat
  BY <1>1
<1>3. p \in Seq(Chunk) /\ Len(p) = n + 1 /\ p[n + 1] = c /\ \A i \in 1 .. n : p[i] = cs[i]
  BY <1>1, <1>2
<1>4. End(c) \in Nat /\ a \in Nat
  BY ChunkType DEF Covers
<1>5. ASSUME NEW i \in 1 .. n PROVE p[i + 1].start = End(p[i])
  <2>1. cs # <<>>
    BY <1>2
  <2>2. CASE i = n
    <3>1. End(cs[n]) = b
      BY <1>2, <2>1 DEF Covers
    <3>2. QED
      BY <1>3, <2>2, <3>1
  <2>3. CASE i # n
    <3>1. i \in 1 .. (n - 1) /\ i + 1 \in 1 .. n
      BY <1>2, <2>3
    <3>2. cs[i + 1].start = End(cs[i])
      BY <1>2, <3>1 DEF Covers
    <3>3. QED
      BY <1>3, <3>1, <3>2
  <2>4. QED
    BY <2>2, <2>3
<1>6. p[1].start = a
  <2>1. CASE cs = <<>>
    <3>1. n = 0 /\ a = b
      BY <1>2, <2>1 DEF Covers
    <3>2. QED
      BY <1>3, <3>1
  <2>2. CASE cs # <<>>
    <3>1. 1 \in 1 .. n /\ cs[1].start = a
      BY <1>1, <1>2, <2>2 DEF Covers
    <3>2. QED
      BY <1>3, <3>1
  <2>3. QED
    BY <2>1, <2>2
<1>7. p # <<>> /\ Len(p) - 1 = n
  BY <1>2, <1>3
<1>8. QED
  BY <1>3, <1>4, <1>5, <1>6, <1>7 DEF Covers


-----------------------------------------------------------------------------
(* The ring.                                                               *)

Ring == [chunks : Seq(Chunk), first_seq : Nat, total_seq : Nat, total_bytes : Nat]

\* The chunks are those from first_seq to total_seq, and their bytes counted.
RingOK(rb) ==
  /\ rb \in Ring
  /\ Covers(rb.chunks, rb.first_seq, rb.total_seq)
  /\ rb.total_bytes = rb.total_seq - rb.first_seq

\* What a round of evict does to rb.
Evicts(rb, q) ==
  /\ RingOK(q) /\ q.total_seq = rb.total_seq
  /\ q.total_bytes >= MaxBytes /\ q.total_bytes < rb.total_bytes
  /\ q.total_bytes = MaxBytes \/ Len(q.chunks) = Len(rb.chunks) - 1

\* The chunks without the e oldest bytes of the first.
Trim(cs, e) == [cs EXCEPT ![1].len = @ - e, ![1].start = @ + e]

LEMMA Trimmed ==
  ASSUME NEW cs, NEW a, NEW b, Covers(cs, a, b), cs # <<>>, NEW e \in Nat, e < cs[1].len,
         NEW p, p = Trim(cs, e)
  PROVE  Covers(p, a + e, b) /\ p # <<>> /\ p[1].start = a + e
<1>1. cs \in Seq(Chunk) /\ Len(cs) \in Nat /\ Len(cs) >= 1 /\ cs[1].start = a
  BY DEF Covers
<1>2. PICK f : f = cs[1]
  OBVIOUS
<1>3. f \in Chunk /\ e < f.len /\ f.start = a
  BY <1>1, <1>2
<1>4. f.start \in Nat /\ f.len \in Nat \ {0} /\ f.alloc \in Nat /\ f.len <= f.alloc
  BY <1>3, ChunkType
<1>5. PICK c : c = [start |-> f.start + e, len |-> f.len - e, alloc |-> f.alloc]
  OBVIOUS
<1>6. f.start + e \in Nat /\ f.len - e \in Nat \ {0} /\ f.len - e <= f.alloc
  BY <1>3, <1>4
<1>7. c \in Chunk /\ c.start = f.start + e /\ End(c) = (f.start + e) + (f.len - e)
  <2>1. PICK s \in Nat : s = f.start + e
    BY <1>6
  <2>2. PICK l \in Nat \ {0} : l = f.len - e
    BY <1>6
  <2>3. PICK w \in Nat : w = f.alloc
    BY <1>4
  <2>4. l <= w /\ c = [start |-> s, len |-> l, alloc |-> w]
    BY <1>5, <1>6, <2>1, <2>2, <2>3
  <2>5. c \in Chunk /\ c.start = s /\ End(c) = s + l
    BY <2>4, MakeChunk
  <2>6. QED
    BY <2>1, <2>2, <2>5
<1>8. End(c) = End(cs[1])
  BY <1>2, <1>3, <1>4, <1>7 DEF End
<1>9. c = [[f EXCEPT !.len = f.len - e] EXCEPT !.start = f.start + e]
  <2>1. f = [start |-> f.start, len |-> f.len, alloc |-> f.alloc]
    BY <1>3 DEF Chunk
  <2>2. PICK s : s = f.start
    OBVIOUS
  <2>3. PICK l : l = f.len
    OBVIOUS
  <2>4. PICK w : w = f.alloc
    OBVIOUS
  <2>5. f = [start |-> s, len |-> l, alloc |-> w] /\ c = [start |-> s + e, len |-> l - e, alloc |-> w]
    BY <1>5, <2>1, <2>2, <2>3, <2>4
  <2>6. [f EXCEPT !.len = l - e] = [start |-> s, len |-> l - e, alloc |-> w]
    BY <2>5
  <2>7. [[start |-> s, len |-> l - e, alloc |-> w] EXCEPT !.start = s + e] = c
    BY <2>5
  <2>8. QED
    BY <2>2, <2>3, <2>6, <2>7
<1>10. p = [cs EXCEPT ![1] = c]
  BY <1>1, <1>2, <1>9 DEF Trim
<1>11. Covers(p, c.start, b) /\ p # <<>> /\ p[1] = c
  BY <1>7, <1>8, <1>10, CoversFront
<1>12. QED
  BY <1>3, <1>7, <1>11

LEMMA EvictStep ==
  ASSUME NEW rb, RingOK(rb), rb.chunks # <<>>, rb.total_bytes > MaxBytes
  PROVE  Evicts(rb, EvictRound(rb))
<1> DEFINE cs == rb.chunks
           front == cs[1]
           excess == rb.total_bytes - MaxBytes
           whole == front.len <= excess
           kept == IF whole THEN Tail(cs) ELSE [cs EXCEPT ![1].len = @ - excess, ![1].start = @ + excess]
           bytes == rb.total_bytes - (IF whole THEN front.len ELSE excess)
           first == IF kept = <<>> THEN rb.total_seq ELSE kept[1].start
           q == EvictRound(rb)
<1>1. q = [rb EXCEPT !.chunks = kept, !.total_bytes = bytes, !.first_seq = first]
  BY DEF EvictRound
<1>2. rb \in Ring /\ Covers(cs, rb.first_seq, rb.total_seq) /\ rb.total_bytes = rb.total_seq - rb.first_seq
  BY DEF RingOK
<1>3. /\ rb.first_seq \in Nat /\ rb.total_seq \in Nat /\ rb.total_bytes \in Nat /\ MaxBytes \in Nat
      /\ front \in Chunk /\ front.start = rb.first_seq
  BY <1>2, RingAssumption DEF Ring, Covers
<1>4. front.len \in Nat \ {0} /\ End(front) = rb.first_seq + front.len
  BY <1>3, ChunkType DEF End
<1>5. excess \in Nat \ {0}
  BY <1>3
<1>6. /\ Covers(kept, first, rb.total_seq) /\ first = rb.first_seq + (IF whole THEN front.len ELSE excess)
      /\ ~whole \/ Len(kept) = Len(cs) - 1
  <2>1. CASE whole
    <3>1. kept = Tail(cs)
      BY <2>1
    <3>2. Covers(kept, End(front), rb.total_seq) /\ Len(kept) = Len(cs) - 1
      BY <1>2, <3>1, CoversTail
    <3> HIDE DEF kept
    <3>3. first = End(front)
      BY <3>2 DEF Covers
    <3>4. QED
      BY <1>4, <2>1, <3>2, <3>3
  <2>2. CASE ~whole
    <3>1. kept = [cs EXCEPT ![1].len = @ - excess, ![1].start = @ + excess]
      BY <2>2
    <3>2. excess < front.len
      BY <1>4, <1>5, <2>2
    <3> HIDE DEF excess, kept
    <3>3. Covers(kept, rb.first_seq + excess, rb.total_seq) /\ kept # <<>> /\ kept[1].start = rb.first_seq + excess
      <4>1. PICK e : e = excess
        OBVIOUS
      <4>2. e \in Nat /\ e < cs[1].len /\ kept = Trim(cs, e)
        BY <1>5, <3>1, <3>2, <4>1 DEF Trim
      <4> HIDE DEF cs
      <4>3. Covers(kept, rb.first_seq + e, rb.total_seq) /\ kept # <<>> /\ kept[1].start = rb.first_seq + e
        <5>1. cs # <<>>
          BY DEF cs
        <5>2. QED
          BY <1>2, <4>2, <5>1, Trimmed
      <4>4. QED
        BY <4>1, <4>3
    <3>4. first = rb.first_seq + excess
      BY <3>3
    <3>5. QED
      BY <2>2, <3>3, <3>4
  <2>3. QED
    BY <2>1, <2>2
<1> HIDE DEF kept, first
<1>7. bytes \in Nat /\ bytes >= MaxBytes /\ bytes < rb.total_bytes /\ (whole \/ bytes = MaxBytes)
  BY <1>3, <1>4, <1>5
<1>8. bytes = rb.total_seq - first /\ first \in Nat
  <2>1. PICK gone : gone = IF whole THEN front.len ELSE excess
    OBVIOUS
  <2>2. gone \in Nat /\ bytes = rb.total_bytes - gone /\ first = rb.first_seq + gone
    BY <1>4, <1>5, <1>6, <2>1
  <2> HIDE DEF bytes
  <2>3. QED
    BY <1>2, <1>3, <2>2
<1> HIDE DEF bytes
<1>9. kept \in Seq(Chunk)
  BY <1>6 DEF Covers
<1>10. /\ q \in Ring /\ q.chunks = kept /\ q.first_seq = first /\ q.total_seq = rb.total_seq
       /\ q.total_bytes = bytes
  BY <1>1, <1>2, <1>7, <1>8, <1>9 DEF Ring
<1> HIDE DEF q
<1>11. RingOK(q)
  BY <1>6, <1>8, <1>10 DEF RingOK
<1>12. Evicts(rb, q)
  BY <1>6, <1>7, <1>10, <1>11 DEF Evicts
<1>13. QED
  BY <1>12 DEF q


\* The rounds of evict, from rb on.
IsEviction(f, rb, n) ==
  f[0] = rb /\ (\A k \in 1 .. n : f[k] = EvictMore(f[k - 1])) /\ evict(rb) = f[n]

\* evict is a run of rounds, within any set they do not leave.
LEMMA EvictIterates ==
  ASSUME NEW S, NEW rb \in S, \A x \in S : EvictMore(x) \in S,
         NEW n \in Nat, n = Len(rb.chunks)
  PROVE  \E f \in [0 .. n -> S] : IsEviction(f, rb, n)
<1> DEFINE step == [k \in 1 .. n |-> [x \in S |-> EvictMore(x)]]
           Is(f) == f = [k \in 0 .. n |-> IF k = 0 THEN rb ELSE EvictMore(f[k - 1])]
           pass == CHOOSE f : Is(f)
<1>1. evict(rb) = pass[n]
  BY DEF evict
<1> HIDE DEF pass
<1>2. step \in [1 .. n -> [S -> S]]
  OBVIOUS
<1>3. \A k \in 1 .. n : \A x \in S : step[k][x] = EvictMore(x)
  OBVIOUS
<1> HIDE DEF step
<1>4. PICK f \in [0 .. n -> S] : IsRun(f, rb, step, n)
  BY <1>2, Iterates
<1>5. \A k \in 1 .. n : f[k] = EvictMore(f[k - 1])
  <2>1. \A k \in 1 .. n : f[k - 1] \in S
    BY <1>4
  <2>2. QED
    BY <1>3, <1>4, <2>1 DEF IsRun
<1>6. Is(f)
  BY <1>4, <1>5 DEF IsRun
<1>7. Is(pass)
  BY <1>6 DEF pass
<1>8. pass[0] = rb /\ \A k \in 1 .. n : pass[k] = EvictMore(pass[k - 1])
  BY <1>7
<1>9. pass \in [0 .. n -> S]
  <2> DEFINE Good == {k \in 0 .. n : pass[k] \in S}
  <2>1. 0 \in Good
    BY <1>8
  <2>2. ASSUME NEW k \in 1 .. n, k - 1 \in Good PROVE k \in Good
    BY <1>8, <2>2
  <2> HIDE DEF Good
  <2>3. \A k \in 0 .. n : k \in Good
    BY <2>1, <2>2, Induction
  <2>4. \A k \in 0 .. n : pass[k] \in S
    BY <2>3 DEF Good
  <2>5. QED
    BY <1>7, <2>4
<1>10. IsEviction(pass, rb, n)
  BY <1>1, <1>8 DEF IsEviction
<1>11. QED
  BY <1>9, <1>10

\* What evict leaves of the ring.
LEMMA EvictLeaves ==
  ASSUME NEW rb, RingOK(rb), NEW q, q = evict(rb)
  PROVE  /\ RingOK(q) /\ q.total_seq = rb.total_seq
         /\ q.total_bytes = IF rb.total_bytes > MaxBytes THEN MaxBytes ELSE rb.total_bytes
<1> DEFINE Within(x) == /\ RingOK(x) /\ x.total_seq = rb.total_seq /\ x.total_bytes <= rb.total_bytes
                        /\ x.total_bytes >= MaxBytes \/ x.total_bytes = rb.total_bytes
           S == {x \in Ring : Within(x)}
<1>1. rb \in Ring /\ rb.total_bytes \in Nat /\ rb.chunks \in Seq(Chunk) /\ MaxBytes \in Nat
  BY RingAssumption DEF RingOK, Ring
<1>2. PICK n : n = Len(rb.chunks) /\ n \in Nat
  BY <1>1
<1>3. ASSUME NEW x \in S
      PROVE  /\ x.total_bytes \in Nat
             /\ EvictMore(x) = x \/ Evicts(x, EvictMore(x))
             /\ x.total_bytes > MaxBytes => Evicts(x, EvictMore(x))
             /\ x.total_bytes <= MaxBytes => EvictMore(x) = x
  <2>1. x \in Ring /\ RingOK(x)
    OBVIOUS
  <2>2. x.total_bytes \in Nat
    BY <2>1 DEF Ring
  <2>3. CASE x.total_bytes > MaxBytes
    <3>1. x.chunks # <<>>
      BY <1>1, <2>1, <2>2, <2>3 DEF RingOK, Covers
    <3>2. EvictMore(x) = EvictRound(x)
      BY <2>3, <3>1 DEF EvictMore
    <3>3. QED
      BY <1>1, <2>1, <2>2, <2>3, <3>1, <3>2, EvictStep
  <2>4. CASE ~ (x.total_bytes > MaxBytes)
    BY <1>1, <2>2, <2>4 DEF EvictMore
  <2>5. QED
    BY <2>3, <2>4
<1>4. ASSUME NEW x \in S PROVE EvictMore(x) \in S
  <2>1. CASE EvictMore(x) = x
    BY <2>1
  <2>2. CASE Evicts(x, EvictMore(x))
    <3>1. PICK y : y = EvictMore(x)
      OBVIOUS
    <3>2. /\ RingOK(y) /\ y.total_seq = x.total_seq /\ y.total_bytes >= MaxBytes
          /\ y.total_bytes < x.total_bytes
      BY <2>2, <3>1 DEF Evicts
    <3>3. y \in Ring /\ y.total_bytes \in Nat /\ x.total_bytes \in Nat
      BY <1>3, <3>2 DEF RingOK, Ring
    <3>4. x.total_seq = rb.total_seq /\ x.total_bytes <= rb.total_bytes
      OBVIOUS
    <3>5. Within(y)
      BY <1>1, <3>2, <3>3, <3>4
    <3>6. QED
      BY <3>1, <3>3, <3>5
  <2>3. QED
    BY <1>3, <2>1, <2>2
<1>5. rb \in S
  BY <1>1
<1> HIDE DEF S
<1>6. PICK f \in [0 .. n -> S] : IsEviction(f, rb, n)
  <2>1. \A x \in S : EvictMore(x) \in S
    BY <1>4
  <2>2. QED
    BY <1>2, <1>5, <2>1, EvictIterates
<1> DEFINE Good == {k \in 0 .. n : f[k].total_bytes <= MaxBytes \/ Len(f[k].chunks) = n - k}
<1>7. 0 \in Good
  BY <1>2, <1>6 DEF IsEviction
<1>8. ASSUME NEW k \in 1 .. n, k - 1 \in Good PROVE k \in Good
  <2>1. PICK x : x = f[k - 1]
    OBVIOUS
  <2>2. x \in S /\ f[k] = EvictMore(x)
    BY <1>2, <1>6, <2>1 DEF IsEviction
  <2>3. x.total_bytes \in Nat
    BY <1>3, <2>2
  <2>4. CASE x.total_bytes <= MaxBytes
    BY <1>3, <2>2, <2>4
  <2>5. CASE ~ (x.total_bytes <= MaxBytes)
    <3>1. Evicts(x, f[k]) /\ Len(x.chunks) = n - (k - 1)
      BY <1>1, <1>3, <1>8, <2>1, <2>2, <2>3, <2>5
    <3>2. f[k].total_bytes = MaxBytes \/ Len(f[k].chunks) = n - k
      BY <1>2, <3>1 DEF Evicts
    <3>3. QED
      BY <1>1, <3>2
  <2>6. QED
    BY <2>4, <2>5
<1> HIDE DEF Good
<1>9. \A k \in 0 .. n : k \in Good
  BY <1>2, <1>7, <1>8, Induction
<1>10. n \in Good
  BY <1>2, <1>9
<1>11. q \in S /\ (q.total_bytes <= MaxBytes \/ Len(q.chunks) = 0)
  BY <1>2, <1>6, <1>10 DEF Good, IsEviction
<1>12. Within(q) /\ q.total_bytes \in Nat
  BY <1>3, <1>11 DEF S
<1>13. q.total_bytes <= MaxBytes
  <2>1. CASE Len(q.chunks) = 0
    <3>1. q.chunks = <<>>
      BY <1>12, <2>1 DEF RingOK, Ring
    <3>2. q.total_bytes = 0
      BY <1>12, <3>1 DEF RingOK, Covers
    <3>3. QED
      BY <1>1, <3>2
  <2>2. QED
    BY <1>11, <2>1
<1>14. QED
  BY <1>1, <1>12, <1>13


\* The chunks with len more bytes in the last, the n-th.
Grow(cs, n, len) == [cs EXCEPT ![n].len = @ + len]

LEMMA Merged ==
  ASSUME NEW cs, NEW a, NEW b, Covers(cs, a, b), NEW n, n = Len(cs), n > 0, NEW len \in Nat,
         cs[n].len + len <= cs[n].alloc, NEW p, p = Grow(cs, n, len)
  PROVE  Covers(p, a, b + len)
<1>1. cs \in Seq(Chunk) /\ n \in Nat /\ cs # <<>>
  BY DEF Covers
<1>2. PICK l : l = cs[n]
  OBVIOUS
<1>3. l \in Chunk /\ l.len + len <= l.alloc /\ End(l) = b
  BY <1>1, <1>2 DEF Covers
<1>4. l.start \in Nat /\ l.len \in Nat \ {0} /\ l.alloc \in Nat
  BY <1>3, ChunkType
<1>5. PICK c : c = [start |-> l.start, len |-> l.len + len, alloc |-> l.alloc]
  OBVIOUS
<1>6. l.len + len \in Nat \ {0}
  BY <1>4
<1>7. c \in Chunk /\ c.start = l.start /\ End(c) = l.start + (l.len + len)
  BY <1>3, <1>4, <1>5, <1>6, MakeChunk
<1>8. End(c) = b + len
  BY <1>3, <1>4, <1>7 DEF End
<1>9. c = [l EXCEPT !.len = l.len + len]
  <2>1. l = [start |-> l.start, len |-> l.len, alloc |-> l.alloc]
    BY <1>3 DEF Chunk
  <2>2. PICK s : s = l.start
    OBVIOUS
  <2>3. PICK k : k = l.len
    OBVIOUS
  <2>4. PICK w : w = l.alloc
    OBVIOUS
  <2>5. l = [start |-> s, len |-> k, alloc |-> w] /\ c = [start |-> s, len |-> k + len, alloc |-> w]
    BY <1>5, <2>1, <2>2, <2>3, <2>4
  <2>6. [l EXCEPT !.len = k + len] = c
    BY <2>5
  <2>7. QED
    BY <2>3, <2>6
<1>10. p = [cs EXCEPT ![n] = c]
  BY <1>1, <1>2, <1>9 DEF Grow
<1>11. Covers(p, a, End(c))
  BY <1>1, <1>2, <1>7, <1>10, CoversBack
<1>12. QED
  BY <1>8, <1>11

\* The ring holds the newest bytes, as many as it may.
NewestRing(rb) == RingOK(rb) /\ rb.first_seq = Larger(0, rb.total_seq - MaxBytes)

LEMMA AppendKeeps ==
  ASSUME NEW rb, NewestRing(rb), NEW len \in Nat \ {0}, NEW sameTs, NEW q, q = sm_rb_append(rb, len, sameTs)
  PROVE  NewestRing(q) /\ q.total_seq = rb.total_seq + len
<1> DEFINE n == Len(rb.chunks)
           merge == /\ n > 0
                    /\ sameTs
                    /\ rb.chunks[n].len < ChunkTarget
                    /\ rb.chunks[n].len + len <= rb.chunks[n].alloc
           fresh0 == [start |-> rb.total_seq, len |-> len, alloc |-> Larger(len, ChunkTarget)]
           cs == IF merge THEN [rb.chunks EXCEPT ![n].len = @ + len] ELSE Append(rb.chunks, fresh0)
           first == IF n = 0 THEN rb.total_seq ELSE rb.first_seq
           full == [rb EXCEPT !.chunks = cs, !.total_seq = rb.total_seq + len,
                              !.total_bytes = rb.total_bytes + len, !.first_seq = first]
<1>1. q = evict(full)
  <2>1. full = [rb EXCEPT !.chunks = IF merge THEN [rb.chunks EXCEPT ![n].len = @ + len] ELSE Append(@, fresh0),
                          !.total_seq = @ + len,
                          !.total_bytes = @ + len,
                          !.first_seq = IF n = 0 THEN rb.total_seq ELSE @]
    OBVIOUS
  <2> HIDE DEF full
  <2>2. QED
    BY <2>1 DEF sm_rb_append
<1>2. /\ rb \in Ring /\ Covers(rb.chunks, rb.first_seq, rb.total_seq)
      /\ rb.total_bytes = rb.total_seq - rb.first_seq /\ rb.first_seq = Larger(0, rb.total_seq - MaxBytes)
  BY DEF NewestRing, RingOK
<1>3. /\ rb.chunks \in Seq(Chunk) /\ rb.first_seq \in Nat /\ rb.total_seq \in Nat /\ rb.total_bytes \in Nat
      /\ MaxBytes \in Nat /\ ChunkTarget \in Nat
  BY <1>2, RingAssumption DEF Ring
<1>4. first = rb.first_seq
  <2>1. CASE n = 0
    <3>1. rb.chunks = <<>>
      BY <1>3, <2>1
    <3>2. QED
      BY <1>2, <2>1, <3>1 DEF Covers
  <2>2. CASE n # 0
    BY <2>2
  <2>3. QED
    BY <2>1, <2>2
<1>5. Covers(cs, rb.first_seq, rb.total_seq + len)
  <2>1. CASE merge
    <3>1. cs = Grow(rb.chunks, n, len)
      BY <2>1 DEF Grow
    <3>2. n > 0 /\ rb.chunks[n].len + len <= rb.chunks[n].alloc
      BY <2>1
    <3>3. PICK m : m = n
      OBVIOUS
    <3>4. m = Len(rb.chunks) /\ m > 0 /\ rb.chunks[m].len + len <= rb.chunks[m].alloc /\ cs = Grow(rb.chunks, m, len)
      BY <3>1, <3>2, <3>3
    <3> HIDE DEF cs
    <3>5. QED
      BY <1>2, <3>4, Merged
  <2>2. CASE ~ merge
    <3>1. cs = Append(rb.chunks, fresh0)
      BY <2>2
    <3>2. Larger(len, ChunkTarget) \in Nat /\ len <= Larger(len, ChunkTarget)
      BY <1>3 DEF Larger
    <3>3. fresh0 \in Chunk /\ fresh0.start = rb.total_seq /\ End(fresh0) = rb.total_seq + len
      BY <1>3, <3>2, MakeChunk
    <3> HIDE DEF fresh0, cs
    <3>4. Covers(cs, rb.first_seq, End(fresh0))
      BY <1>2, <3>1, <3>3, CoversAppend
    <3>5. QED
      BY <3>3, <3>4
  <2>3. QED
    BY <2>1, <2>2
<1> HIDE DEF cs, first
<1>6. cs \in Seq(Chunk) /\ rb.total_seq + len \in Nat /\ rb.total_bytes + len \in Nat
  BY <1>3, <1>5 DEF Covers
<1>7. /\ full \in Ring /\ full.chunks = cs /\ full.total_seq = rb.total_seq + len
      /\ full.total_bytes = rb.total_bytes + len /\ full.first_seq = rb.first_seq
  BY <1>2, <1>3, <1>4, <1>6 DEF Ring
<1> HIDE DEF full
<1>8. RingOK(full)
  BY <1>2, <1>3, <1>5, <1>7 DEF RingOK
<1>9. /\ RingOK(q) /\ q.total_seq = rb.total_seq + len
      /\ q.total_bytes = IF rb.total_bytes + len > MaxBytes THEN MaxBytes ELSE rb.total_bytes + len
  BY <1>1, <1>7, <1>8, EvictLeaves
<1>10. q.total_bytes = q.total_seq - q.first_seq /\ q.first_seq \in Nat /\ q.total_bytes \in Nat
  BY <1>9 DEF RingOK, Ring
<1>11. q.first_seq = Larger(0, q.total_seq - MaxBytes)
  <2>1. PICK t : t = rb.total_seq
    OBVIOUS
  <2>2. PICK f : f = rb.first_seq
    OBVIOUS
  <2>3. PICK qf : qf = q.first_seq
    OBVIOUS
  <2>4. PICK qt : qt = q.total_seq
    OBVIOUS
  <2>5. PICK qb : qb = q.total_bytes
    OBVIOUS
  <2>6. /\ t \in Nat /\ f \in Nat /\ rb.total_bytes = t - f /\ f = Larger(0, t - MaxBytes) /\ MaxBytes \in Nat
        /\ qf \in Nat /\ qb \in Nat
    BY <1>2, <1>3, <1>10, <2>1, <2>2, <2>3, <2>5
  <2>7. /\ qb = IF (t - f) + len > MaxBytes THEN MaxBytes ELSE (t - f) + len
        /\ qb = qt - qf /\ qt = t + len
    BY <1>9, <1>10, <2>1, <2>3, <2>4, <2>5, <2>6
  <2>8. qf = Larger(0, qt - MaxBytes)
    BY <2>6, <2>7 DEF Larger
  <2>9. QED
    BY <2>3, <2>4, <2>8
<1>12. QED
  BY <1>9, <1>11 DEF NewestRing

LEMMA EmptyRing == NewestRing(sm_rb_init)
<1>1. sm_rb_init \in Ring
  BY DEF sm_rb_init, Ring
<1>2. Covers(sm_rb_init.chunks, 0, 0)
  BY CoversNothing DEF sm_rb_init
<1>3. QED
  BY <1>1, <1>2, RingAssumption DEF NewestRing, RingOK, sm_rb_init, Larger


-----------------------------------------------------------------------------
(* A page.                                                                 *)

Page == [chunks : Seq(Chunk), acc : Int, cursor : Int, full : BOOLEAN]

LEMMA AddType ==
  ASSUME NEW p \in Page, NEW c \in Chunk, NEW off \in Int, NEW max \in Int
  PROVE  AddToPage(p, c, off, max) \in Page
<1>1. c.start \in Nat /\ c.len \in Nat
  BY ChunkType
<1>2. p.chunks \in Seq(Chunk) /\ p.acc \in Int /\ p.cursor \in Int
  BY DEF Page
<1>3. PICK cs : cs = Append(p.chunks, c)
  OBVIOUS
<1>4. cs \in Seq(Chunk)
  BY <1>2, <1>3
<1>5. [p EXCEPT !.full = TRUE] \in Page
  BY DEF Page
<1>6. c.start + off + (max - p.acc) \in Int /\ p.acc + (c.len - off) \in Int /\ c.start + c.len \in Int
  BY <1>1, <1>2
<1>7. /\ [chunks |-> cs, acc |-> max, cursor |-> c.start + off + (max - p.acc), full |-> TRUE] \in Page
      /\ [chunks |-> cs, acc |-> p.acc + (c.len - off), cursor |-> c.start + c.len, full |-> FALSE] \in Page
  BY <1>4, <1>6 DEF Page
<1>8. QED
  BY <1>3, <1>5, <1>7, Zenon DEF AddToPage

StartPage(want) == [chunks |-> <<>>, acc |-> 0, cursor |-> want, full |-> FALSE]

\* The pages of PageOf, chunk after chunk.
IsPaging(f, cs, want, skip, max, n) ==
  /\ f[0] = StartPage(want)
  /\ \A k \in 1 .. n : f[k] = AddToPage(f[k - 1], cs[k], IF k = 1 THEN skip ELSE 0, max)
  /\ PageOf(cs, want, skip, max) = f[n]

LEMMA PageIterates ==
  ASSUME NEW cs \in Seq(Chunk), NEW want \in Int, NEW skip \in Int, NEW max \in Int,
         NEW n \in Nat, n = Len(cs)
  PROVE  \E f \in [0 .. n -> Page] : IsPaging(f, cs, want, skip, max, n)
<1> DEFINE off(k) == IF k = 1 THEN skip ELSE 0
           step == [k \in 1 .. n |-> [x \in Page |-> AddToPage(x, cs[k], off(k), max)]]
           Is(f) == f = [k \in 0 .. n |->
                           IF k = 0 THEN [chunks |-> <<>>, acc |-> 0, cursor |-> want, full |-> FALSE]
                           ELSE AddToPage(f[k - 1], cs[k], IF k = 1 THEN skip ELSE 0, max)]
           pass == CHOOSE f : Is(f)
<1>1. PageOf(cs, want, skip, max) = pass[n]
  BY DEF PageOf
<1> HIDE DEF pass
<1>2. StartPage(want) \in Page
  BY DEF StartPage, Page
<1>3. \A k \in 1 .. n : \A x \in Page : AddToPage(x, cs[k], off(k), max) \in Page
  <2> SUFFICES ASSUME NEW k \in 1 .. n, NEW x \in Page PROVE AddToPage(x, cs[k], off(k), max) \in Page
    OBVIOUS
  <2>1. cs[k] \in Chunk /\ off(k) \in Int
    OBVIOUS
  <2> HIDE DEF off
  <2>2. QED
    BY <2>1, AddType
<1>4. step \in [1 .. n -> [Page -> Page]]
  <2> HIDE DEF off
  <2> QED
    BY <1>3
<1>5. \A k \in 1 .. n : \A x \in Page : step[k][x] = AddToPage(x, cs[k], off(k), max)
  OBVIOUS
<1> HIDE DEF step
<1>6. PICK f \in [0 .. n -> Page] : IsRun(f, StartPage(want), step, n)
  BY <1>2, <1>4, Iterates
<1>7. \A k \in 1 .. n : f[k] = AddToPage(f[k - 1], cs[k], off(k), max)
  <2>1. \A k \in 1 .. n : f[k - 1] \in Page
    BY <1>6
  <2>2. QED
    BY <1>5, <1>6, <2>1 DEF IsRun
<1>8. Is(f)
  BY <1>6, <1>7 DEF IsRun, StartPage
<1>9. Is(pass)
  BY <1>8 DEF pass
<1>10. pass[0] = StartPage(want) /\ \A k \in 1 .. n : pass[k] = AddToPage(pass[k - 1], cs[k], off(k), max)
  <2> DEFINE rhs == [k \in 0 .. n |->
                       IF k = 0 THEN [chunks |-> <<>>, acc |-> 0, cursor |-> want, full |-> FALSE]
                       ELSE AddToPage(pass[k - 1], cs[k], IF k = 1 THEN skip ELSE 0, max)]
  <2>1. pass = rhs
    BY <1>9
  <2>2. rhs[0] = StartPage(want) /\ \A k \in 1 .. n : rhs[k] = AddToPage(pass[k - 1], cs[k], off(k), max)
    BY DEF StartPage
  <2> HIDE DEF rhs, off
  <2>3. QED
    BY <2>1, <2>2
<1>11. pass \in [0 .. n -> Page]
  <2> DEFINE Good == {k \in 0 .. n : pass[k] \in Page}
  <2>1. 0 \in Good
    BY <1>2, <1>10
  <2>2. ASSUME NEW k \in 1 .. n, k - 1 \in Good PROVE k \in Good
    BY <1>3, <1>10, <2>2
  <2> HIDE DEF Good
  <2>3. \A k \in 0 .. n : k \in Good
    BY <2>1, <2>2, Induction
  <2>4. \A k \in 0 .. n : pass[k] \in Page
    BY <2>3 DEF Good
  <2>5. QED
    BY <1>9, <2>4
<1>12. IsPaging(pass, cs, want, skip, max, n)
  BY <1>1, <1>10 DEF IsPaging
<1>13. QED
  BY <1>11, <1>12


\* The page p of the chunks cs ends within the m-th.
EndsIn(p, cs, m, want, max) ==
  /\ Covers(p.chunks, cs[1].start, End(cs[m]))
  /\ p.chunks # <<>> /\ p.chunks[1] = cs[1] /\ p.chunks[Len(p.chunks)] = cs[m]
  /\ p.cursor = Smaller(End(cs[m]), want + max)
  /\ p.acc = p.cursor - want
  /\ cs[m].start < p.cursor

\* It has had k chunks to choose from.
PageAt(p, cs, k, want, max) ==
  \E m \in 1 .. k : /\ EndsIn(p, cs, m, want, max)
                    /\ p.full => p.acc = max
                    /\ p.full \/ (m = k /\ p.cursor = End(cs[m]))

\* The first chunk is put on the page, from want on.
LEMMA FirstOnPage ==
  ASSUME NEW cs, NEW a, NEW b, Covers(cs, a, b), cs # <<>>, NEW skip \in Nat, skip < cs[1].len,
         NEW want, want = cs[1].start + skip, NEW max \in Nat \ {0},
         NEW q, q = AddToPage(StartPage(want), cs[1], skip, max)
  PROVE  PageAt(q, cs, 1, want, max)
<1>1. PICK c : c = cs[1]
  OBVIOUS
<1>2. c \in Chunk
  BY <1>1 DEF Covers
<1>3. c.start \in Nat /\ c.len \in Nat \ {0} /\ End(c) = c.start + c.len /\ want = c.start + skip /\ skip < c.len
  BY <1>1, <1>2, ChunkType DEF End
<1>4. PICK one : one = Append(<<>>, c)
  OBVIOUS
<1>5. Covers(one, c.start, End(c)) /\ one # <<>> /\ one[1] = c /\ one[Len(one)] = c
  <2>1. Covers(<<>>, c.start, c.start)
    BY <1>3, CoversNothing
  <2>2. Covers(one, c.start, End(c)) /\ one # <<>>
    BY <1>2, <1>4, <2>1, CoversAppend
  <2>3. one = <<c>>
    BY <1>4
  <2>4. QED
    BY <2>2, <2>3
<1>6. q = IF c.len - skip > max
          THEN [chunks |-> one, acc |-> max, cursor |-> c.start + skip + max, full |-> TRUE]
          ELSE [chunks |-> one, acc |-> c.len - skip, cursor |-> c.start + c.len, full |-> FALSE]
  <2>1. PICK s : s = StartPage(want)
    OBVIOUS
  <2>2. s.chunks = <<>> /\ s.acc = 0 /\ s.full = FALSE
    BY <2>1 DEF StartPage
  <2>3. q = AddToPage(s, c, skip, max) /\ ~ (s.full \/ s.acc >= max)
    BY <1>1, <2>1, <2>2
  <2>4. s.acc + (c.len - skip) = c.len - skip /\ max - s.acc = max
    BY <1>3, <2>2
  <2>5. QED
    BY <1>4, <2>2, <2>3, <2>4 DEF AddToPage
<1>7. q.chunks = one
  BY <1>6
<1>8. CASE c.len - skip > max
  <2>1. q.acc = max /\ q.cursor = c.start + skip + max /\ q.full = TRUE
    BY <1>6, <1>8
  <2>2. q.cursor = Smaller(End(c), want + max) /\ q.acc = q.cursor - want /\ c.start < q.cursor
    <3>1. PICK s : s = c.start
      OBVIOUS
    <3>2. PICK l : l = c.len
      OBVIOUS
    <3>3. /\ s \in Nat /\ l \in Nat /\ 0 \in Int /\ s + skip = want + 0 /\ 0 < max /\ 0 + (l - skip) > max
          /\ s + skip + max = s + skip + (max - 0) /\ want \in Nat
      BY <1>3, <1>8, <3>1, <3>2
    <3>4. PICK next : next = s + skip + (max - 0)
      OBVIOUS
    <3>5. next = Smaller(s + l, want + max) /\ max = next - want /\ s < next
      BY <3>3, <3>4 DEF Smaller
    <3>6. q.cursor = next
      BY <2>1, <3>1, <3>3, <3>4
    <3>7. QED
      BY <1>3, <2>1, <3>1, <3>2, <3>5, <3>6
  <2>3. EndsIn(q, cs, 1, want, max)
    BY <1>1, <1>5, <1>7, <2>2 DEF EndsIn
  <2>4. QED
    BY <2>1, <2>3 DEF PageAt
<1>9. CASE ~ (c.len - skip > max)
  <2>1. q.acc = c.len - skip /\ q.cursor = c.start + c.len /\ q.full = FALSE
    BY <1>6, <1>9
  <2>2. /\ q.cursor = Smaller(End(c), want + max) /\ q.acc = q.cursor - want /\ c.start < q.cursor
        /\ q.cursor = End(c)
    <3>1. PICK s : s = c.start
      OBVIOUS
    <3>2. PICK l : l = c.len
      OBVIOUS
    <3>3. /\ s \in Nat /\ l \in Nat \ {0} /\ s + skip = want + 0 /\ ~ (0 + (l - skip) > max)
          /\ 0 + (l - skip) = l - skip /\ s < s + l /\ want \in Nat
      BY <1>3, <1>9, <3>1, <3>2
    <3>4. s + l = Smaller(s + l, want + max) /\ 0 + (l - skip) = (s + l) - want
      BY <3>3 DEF Smaller
    <3>5. QED
      BY <1>3, <2>1, <3>1, <3>2, <3>3, <3>4
  <2>3. EndsIn(q, cs, 1, want, max)
    BY <1>1, <1>5, <1>7, <2>2 DEF EndsIn
  <2>4. QED
    BY <1>1, <2>1, <2>2, <2>3 DEF PageAt
<1>10. QED
  BY <1>8, <1>9

\* The next one is, unless the page is full.
LEMMA NextOnPage ==
  ASSUME NEW cs, NEW a, NEW b, Covers(cs, a, b), NEW want \in Nat, NEW max \in Nat \ {0},
         NEW k \in Nat, k >= 1, k + 1 \in 1 .. Len(cs), NEW p \in Page, PageAt(p, cs, k, want, max),
         NEW q, q = AddToPage(p, cs[k + 1], 0, max)
  PROVE  PageAt(q, cs, k + 1, want, max)
<1>1. PICK m \in 1 .. k : /\ EndsIn(p, cs, m, want, max)
                          /\ p.full => p.acc = max
                          /\ p.full \/ (m = k /\ p.cursor = End(cs[m]))
  BY DEF PageAt
<1>2. p.acc \in Int /\ p.cursor \in Int /\ p.full \in BOOLEAN /\ p.chunks \in Seq(Chunk)
  BY DEF Page
<1>3. CASE p.full \/ p.acc >= max
  <2>1. q = [p EXCEPT !.full = TRUE]
    BY <1>3 DEF AddToPage
  <2>2. q.chunks = p.chunks /\ q.acc = p.acc /\ q.cursor = p.cursor /\ q.full = TRUE
    BY <2>1 DEF Page
  <2>3. EndsIn(q, cs, m, want, max)
    BY <1>1, <2>2 DEF EndsIn
  <2>4. q.acc = max
    <3>1. m \in 1 .. Len(cs)
      <4>1. cs \in Seq(Chunk)
        BY DEF Covers
      <4>2. QED
        BY <4>1
    <3>2. End(cs[m]) \in Nat
      BY <3>1, CoversBetween, ChunkType
    <3>3. p.acc <= max
      BY <1>1, <1>2, <3>2 DEF EndsIn, Smaller
    <3>4. QED
      BY <1>1, <1>2, <1>3, <2>2, <3>3
  <2>5. m \in 1 .. (k + 1)
    OBVIOUS
  <2>6. QED
    BY <2>2, <2>3, <2>4, <2>5 DEF PageAt
<1>4. CASE ~ (p.full \/ p.acc >= max)
  <2>1. m = k /\ p.cursor = End(cs[k]) /\ p.acc < max
    BY <1>1, <1>2, <1>4
  <2>2. PICK c : c = cs[k + 1]
    OBVIOUS
  <2>3. c \in Chunk /\ c.start = End(cs[k])
    <3>1. cs \in Seq(Chunk)
      BY DEF Covers
    <3>2. PICK n : n = Len(cs) /\ n \in Nat
      BY <3>1
    <3>3. k \in 1 .. (n - 1) /\ k + 1 \in 1 .. n
      BY <3>2
    <3>4. cs[k + 1].start = End(cs[k])
      BY <3>2, <3>3 DEF Covers
    <3>5. QED
      BY <2>2, <3>1, <3>2, <3>3, <3>4
  <2>4. c.start \in Nat /\ c.len \in Nat \ {0} /\ End(c) = c.start + c.len
    BY <2>3, ChunkType DEF End
  <2>5. PICK more : more = Append(p.chunks, c)
    OBVIOUS
  <2>6. /\ Covers(p.chunks, cs[1].start, End(cs[k])) /\ p.chunks # <<>> /\ p.chunks[1] = cs[1]
        /\ p.acc = p.cursor - want
    BY <1>1, <2>1 DEF EndsIn
  <2>7. Covers(more, cs[1].start, End(c)) /\ more # <<>>
    BY <2>3, <2>5, <2>6, CoversAppend
  <2>8. more[1] = cs[1] /\ more[Len(more)] = c
    BY <1>2, <2>5, <2>6
  <2>9. q = IF p.acc + c.len > max
            THEN [chunks |-> more, acc |-> max, cursor |-> c.start + (max - p.acc), full |-> TRUE]
            ELSE [chunks |-> more, acc |-> p.acc + c.len, cursor |-> c.start + c.len, full |-> FALSE]
    <3>1. c.len - 0 = c.len /\ c.start + 0 + (max - p.acc) = c.start + (max - p.acc)
      BY <1>2, <2>4
    <3>2. q = AddToPage(p, c, 0, max)
      BY <2>2
    <3>3. QED
      BY <1>4, <2>5, <3>1, <3>2 DEF AddToPage
  <2>10. q.chunks = more
    BY <2>9
  <2>11. CASE p.acc + c.len > max
    <3>1. q.acc = max /\ q.cursor = c.start + (max - p.acc) /\ q.full = TRUE
      BY <2>9, <2>11
    <3>2. q.cursor = Smaller(End(c), want + max) /\ q.acc = q.cursor - want /\ c.start < q.cursor
      <4>1. PICK s : s = c.start
        OBVIOUS
      <4>2. PICK l : l = c.len
        OBVIOUS
      <4>3. PICK acc : acc = p.acc
        OBVIOUS
      <4>4. /\ s \in Nat /\ l \in Nat /\ acc \in Int /\ s + 0 = want + acc /\ acc < max /\ acc + (l - 0) > max
            /\ s + (max - acc) = s + 0 + (max - acc)
        <5>1. s \in Nat /\ l \in Nat /\ acc \in Int /\ acc < max /\ acc + l > max
          BY <1>2, <2>1, <2>4, <2>11, <4>1, <4>2, <4>3
        <5>2. p.cursor = s
          BY <2>1, <2>3, <4>1
        <5>3. acc = s - want
          BY <2>6, <4>3, <5>2
        <5>4. QED
          BY <5>1, <5>3
      <4>5. PICK next : next = s + 0 + (max - acc)
        OBVIOUS
      <4>6. next = Smaller(s + l, want + max) /\ max = next - want /\ s < next
        BY <4>4, <4>5 DEF Smaller
      <4>7. q.cursor = next
        BY <3>1, <4>1, <4>3, <4>4, <4>5
      <4>8. QED
        BY <2>4, <3>1, <4>1, <4>2, <4>6, <4>7
    <3>3. EndsIn(q, cs, k + 1, want, max)
      BY <2>2, <2>7, <2>8, <2>10, <3>2 DEF EndsIn
    <3>4. k + 1 \in 1 .. (k + 1)
      OBVIOUS
    <3>5. QED
      BY <3>1, <3>3, <3>4 DEF PageAt
  <2>12. CASE ~ (p.acc + c.len > max)
    <3>1. q.acc = p.acc + c.len /\ q.cursor = c.start + c.len /\ q.full = FALSE
      BY <2>9, <2>12
    <3>2. /\ q.cursor = Smaller(End(c), want + max) /\ q.acc = q.cursor - want /\ c.start < q.cursor
          /\ q.cursor = End(c)
      <4>1. PICK s : s = c.start
        OBVIOUS
      <4>2. PICK l : l = c.len
        OBVIOUS
      <4>3. PICK acc : acc = p.acc
        OBVIOUS
      <4>4. /\ s \in Nat /\ l \in Nat \ {0} /\ acc \in Int /\ s + 0 = want + acc /\ ~ (acc + (l - 0) > max)
            /\ acc + (l - 0) = acc + l /\ s < s + l
        <5>1. s \in Nat /\ l \in Nat \ {0} /\ acc \in Int /\ ~ (acc + l > max)
          BY <1>2, <2>1, <2>4, <2>12, <4>1, <4>2, <4>3
        <5>2. p.cursor = s
          BY <2>1, <2>3, <4>1
        <5>3. acc = s - want
          BY <2>6, <4>3, <5>2
        <5>4. QED
          BY <5>1, <5>3
      <4>5. s + l = Smaller(s + l, want + max) /\ acc + (l - 0) = (s + l) - want
        BY <4>4 DEF Smaller
      <4>6. QED
        BY <2>4, <3>1, <4>1, <4>2, <4>3, <4>4, <4>5
    <3>3. EndsIn(q, cs, k + 1, want, max)
      BY <2>2, <2>7, <2>8, <2>10, <3>2 DEF EndsIn
    <3>4. k + 1 \in 1 .. (k + 1)
      OBVIOUS
    <3>5. QED
      BY <2>2, <3>1, <3>2, <3>3, <3>4 DEF PageAt
  <2>13. QED
    BY <2>11, <2>12
<1>5. QED
  BY <1>3, <1>4


\* What a page of at most max bytes is that begins want: chunks that follow
\* one another, entered skip bytes into the first and left at next.
IsPage(cs, skip, next, want, max) ==
  /\ cs # <<>> /\ Covers(cs, cs[1].start, End(cs[Len(cs)]))
  /\ skip \in Nat /\ skip < cs[1].len /\ cs[1].start + skip = want
  /\ next = Smaller(End(cs[Len(cs)]), want + max)
  /\ cs[Len(cs)].start < next

LEMMA PageOfIs ==
  ASSUME NEW cs, NEW a, NEW b, Covers(cs, a, b), cs # <<>>, NEW skip \in Nat, skip < cs[1].len,
         NEW want, want = cs[1].start + skip, NEW max \in Nat \ {0},
         NEW page, page = PageOf(cs, want, skip, max)
  PROVE  IsPage(page.chunks, skip, page.cursor, want, max) /\ page.cursor <= b
<1>1. PICK n : n = Len(cs)
  OBVIOUS
<1>2. cs \in Seq(Chunk) /\ n \in Nat /\ n >= 1 /\ cs[1] \in Chunk
  BY <1>1 DEF Covers
<1>3. want \in Nat
  BY <1>2, ChunkType
<1>4. PICK f \in [0 .. n -> Page] : IsPaging(f, cs, want, skip, max, n)
  <2>1. skip \in Int /\ want \in Int /\ max \in Int
    BY <1>3
  <2>2. QED
    BY <1>1, <1>2, <2>1, PageIterates
<1> DEFINE Good == {k \in 0 .. n : k >= 1 => PageAt(f[k], cs, k, want, max)}
<1>5. 0 \in Good
  BY <1>2
<1>6. ASSUME NEW k \in 1 .. n, k - 1 \in Good PROVE k \in Good
  <2>1. CASE k = 1
    <3>1. f[1] = AddToPage(StartPage(want), cs[1], skip, max)
      BY <1>2, <1>4, <2>1 DEF IsPaging
    <3>2. PageAt(f[1], cs, 1, want, max)
      BY <3>1, FirstOnPage
    <3>3. QED
      BY <2>1, <3>2
  <2>2. CASE k # 1
    <3>1. PICK j : j = k - 1
      OBVIOUS
    <3>2. j \in Nat /\ j >= 1 /\ j + 1 = k /\ j + 1 \in 1 .. Len(cs) /\ j \in 0 .. n
      BY <1>1, <1>2, <2>2, <3>1
    <3>3. f[j] \in Page /\ PageAt(f[j], cs, j, want, max)
      BY <1>4, <1>6, <3>1, <3>2
    <3>4. f[k] = AddToPage(f[j], cs[j + 1], 0, max)
      BY <1>4, <2>2, <3>1, <3>2 DEF IsPaging
    <3>5. PageAt(f[k], cs, j + 1, want, max)
      BY <1>3, <3>2, <3>3, <3>4, NextOnPage
    <3>6. QED
      BY <3>2, <3>5
  <2>3. QED
    BY <2>1, <2>2
<1> HIDE DEF Good
<1>7. \A k \in 0 .. n : k \in Good
  BY <1>2, <1>5, <1>6, Induction
<1>8. n \in Good
  BY <1>2, <1>7
<1>9. PageAt(page, cs, n, want, max)
  BY <1>2, <1>4, <1>8 DEF Good, IsPaging
<1>10. PICK m \in 1 .. n : EndsIn(page, cs, m, want, max)
  BY <1>9 DEF PageAt
<1>11. PICK p : p = page.chunks
  OBVIOUS
<1>12. /\ Covers(p, cs[1].start, End(cs[m])) /\ p # <<>> /\ p[1] = cs[1] /\ p[Len(p)] = cs[m]
       /\ page.cursor = Smaller(End(cs[m]), want + max) /\ cs[m].start < page.cursor
  BY <1>10, <1>11 DEF EndsIn
<1>13. IsPage(p, skip, page.cursor, want, max)
  <2>1. Covers(p, p[1].start, End(p[Len(p)])) /\ skip < p[1].len /\ p[1].start + skip = want
    BY <1>12
  <2>2. page.cursor = Smaller(End(p[Len(p)]), want + max) /\ p[Len(p)].start < page.cursor
    BY <1>12
  <2>3. QED
    BY <1>12, <2>1, <2>2 DEF IsPage
<1>14. page.cursor <= b
  <2>1. m \in 1 .. Len(cs)
    BY <1>1
  <2>2. End(cs[m]) <= b /\ End(cs[m]) \in Nat /\ b \in Nat
    BY <2>1, CoversBetween, ChunkType DEF Covers
  <2>3. QED
    BY <1>3, <1>12, <2>2 DEF Smaller
<1>15. QED
  BY <1>11, <1>13, <1>14

\* What a reader gets that asks from since on.
GetsPage(rb, since, max, page) ==
  LET want == Larger(since, rb.first_seq)
  IN  /\ page.dropped = want - since /\ page.has_more \in BOOLEAN
      /\ IF want >= rb.total_seq THEN page.chunks = <<>> /\ page.cursor = rb.total_seq
         ELSE IsPage(page.chunks, page.first_skip, page.cursor, want, max) /\ page.cursor <= rb.total_seq

LEMMA SincePage ==
  ASSUME NEW rb, RingOK(rb), NEW since \in Nat, NEW max \in Nat \ {0}
  PROVE  GetsPage(rb, since, max, sm_rb_get_since_seq(rb, since, max))
<1> DEFINE want == Larger(since, rb.first_seq)
           cs == rb.chunks
           beyond == {i \in DOMAIN cs : cs[i].start + cs[i].len > want}
           first == CHOOSE i \in beyond : \A j \in beyond : i <= j
           skip == Larger(want - cs[first].start, 0)
           part == SubSeq(cs, first, Len(cs))
           page == PageOf(part, want, skip, max)
           whole == [chunks |-> page.chunks, first_skip |-> skip, cursor |-> page.cursor,
                     dropped |-> want - since, has_more |-> page.cursor < rb.total_seq]
           got == sm_rb_get_since_seq(rb, since, max)
<1>1. got = IF want >= rb.total_seq \/ beyond = {} THEN NoPage(rb, want - since) ELSE whole
  BY DEF sm_rb_get_since_seq
<1>2. rb \in Ring /\ Covers(cs, rb.first_seq, rb.total_seq) /\ rb.first_seq \in Nat /\ rb.total_seq \in Nat
  BY DEF RingOK, Ring
<1>3. want \in Nat /\ want >= since /\ want >= rb.first_seq
  BY <1>2 DEF Larger
<1>4. PICK w : w = want
  OBVIOUS
<1>5. CASE want >= rb.total_seq
  <2>1. got = NoPage(rb, want - since)
    BY <1>1, <1>5
  <2> HIDE DEF got, want
  <2>2. /\ got.dropped = want - since /\ got.chunks = <<>> /\ got.cursor = rb.total_seq
        /\ got.has_more \in BOOLEAN
    BY <2>1 DEF NoPage
  <2>3. QED
    BY <1>5, <2>2 DEF GetsPage, want, got
<1>6. CASE ~ (want >= rb.total_seq)
  <2>1. PICK n : n = Len(cs)
    OBVIOUS
  <2> HIDE DEF want
  <2>2. cs \in Seq(Chunk) /\ n \in Nat /\ cs # <<>> /\ n >= 1
    <3>1. cs # <<>>
      BY <1>2, <1>3, <1>6 DEF Covers
    <3>2. cs \in Seq(Chunk)
      BY <1>2 DEF Covers
    <3>3. QED
      BY <2>1, <3>1, <3>2
  <2>3. \A i \in 1 .. n : cs[i] \in Chunk /\ cs[i].start \in Nat /\ End(cs[i]) \in Nat /\ cs[i].start + cs[i].len = End(cs[i])
    <3>1. \A i \in 1 .. n : cs[i] \in Chunk
      BY <2>1, <2>2
    <3>2. QED
      BY <3>1, ChunkType DEF End
  <2>4. End(cs[n]) = rb.total_seq /\ cs[1].start = rb.first_seq /\ \A i \in 1 .. (n - 1) : cs[i + 1].start = End(cs[i])
    BY <1>2, <2>1, <2>2 DEF Covers
  <2>5. \A i : i \in beyond <=> i \in 1 .. n /\ End(cs[i]) > want
    <3>1. DOMAIN cs = 1 .. n
      BY <2>1, <2>2
    <3>2. QED
      BY <2>3, <3>1
  <2> HIDE DEF beyond
  <2>6. n \in beyond /\ beyond \in SUBSET Nat
    <3>1. n \in 1 .. n
      BY <2>2
    <3>2. End(cs[n]) > want
      BY <1>2, <1>3, <1>6, <2>4
    <3>3. QED
      BY <2>5, <3>1, <3>2
  <2>7. first \in beyond /\ \A j \in beyond : first <= j
    <3>1. \E i \in beyond : \A j \in beyond : i <= j
      BY <2>6, LeastNatural
    <3>2. QED
      BY <3>1
  <2> HIDE DEF first
  <2>8. first \in 1 .. n /\ End(cs[first]) > want
    BY <2>5, <2>7
  <2>9. cs[first].start <= want
    <3>1. CASE first = 1
      BY <1>3, <2>4, <3>1
    <3>2. CASE first # 1
      <4>1. PICK i : i = first - 1
        OBVIOUS
      <4>2. i \in 1 .. (n - 1) /\ i + 1 = first /\ i \in 1 .. n /\ ~ (first <= i)
        BY <2>2, <2>8, <3>2, <4>1
      <4>3. i \notin beyond
        BY <2>7, <4>2
      <4>4. ~ (End(cs[i]) > want)
        BY <2>5, <4>2, <4>3
      <4>5. cs[first].start = End(cs[i]) /\ End(cs[i]) \in Nat
        BY <2>3, <2>4, <4>2
      <4>6. QED
        BY <1>3, <4>4, <4>5
    <3>3. QED
      BY <3>1, <3>2
  <2>10. skip \in Nat /\ cs[first].start + skip = want /\ skip < cs[first].len
    <3>1. cs[first].start \in Nat /\ cs[first].len \in Nat /\ End(cs[first]) = cs[first].start + cs[first].len
      BY <2>3, <2>8, ChunkType DEF End
    <3>2. PICK s : s = cs[first].start
      OBVIOUS
    <3>3. PICK l : l = cs[first].len
      OBVIOUS
    <3>4. s \in Nat /\ l \in Nat /\ s + l > want /\ s <= want
      BY <2>8, <2>9, <3>1, <3>2, <3>3
    <3>5. skip = want - s
      BY <1>3, <3>2, <3>4 DEF Larger
    <3>6. QED
      BY <1>3, <3>2, <3>3, <3>4, <3>5
  <2> HIDE DEF skip
  <2>11. Covers(part, cs[first].start, rb.total_seq) /\ part # <<>> /\ part[1] = cs[first]
    <3>1. PICK i : i = first
      OBVIOUS
    <3>2. i \in 1 .. n /\ n \in i .. n /\ n - i + 1 >= 1 /\ 1 \in 1 .. (n - i + 1) /\ i + 1 - 1 = i
      BY <2>2, <2>8, <3>1
    <3>3. part = SubSeq(cs, i, n)
      BY <2>1, <3>1
    <3> HIDE DEF part, cs
    <3>4. i \in 1 .. Len(cs) /\ n \in i .. Len(cs)
      BY <2>1, <3>2
    <3>5. Covers(part, cs[i].start, End(cs[n])) /\ part # <<>>
      BY <1>2, <3>3, <3>4, CoversPart
    <3>6. part[1] = cs[i]
      BY <2>1, <2>2, <3>2, <3>3
    <3>7. QED
      BY <2>4, <3>1, <3>5, <3>6
  <2> HIDE DEF part
  <2>12. want = part[1].start + skip /\ skip < part[1].len
    BY <2>10, <2>11
  <2>13. IsPage(page.chunks, skip, page.cursor, want, max) /\ page.cursor <= rb.total_seq
    BY <2>10, <2>11, <2>12, PageOfIs
  <2>14. got = whole
    <3>1. beyond # {}
      BY <2>6
    <3>2. QED
      BY <1>1, <1>6, <3>1
  <2> HIDE DEF page, got
  <2>15. /\ got.chunks = page.chunks /\ got.first_skip = skip /\ got.cursor = page.cursor
         /\ got.dropped = want - since /\ got.has_more \in BOOLEAN
    BY <2>14
  <2>16. QED
    BY <1>6, <2>13, <2>15 DEF GetsPage, want, got
<1>7. QED
  BY <1>5, <1>6


-----------------------------------------------------------------------------
(* A request in progress.                                                  *)

\* Chunks are in order.
LEMMA CoversSorted ==
  ASSUME NEW cs, NEW a, NEW b, Covers(cs, a, b), NEW i \in 1 .. Len(cs), NEW j \in 1 .. Len(cs), i <= j
  PROVE  End(cs[i]) <= End(cs[j]) /\ (i < j => End(cs[i]) <= cs[j].start)
<1>1. PICK n : n = Len(cs) /\ n \in Nat
  BY DEF Covers
<1>2. CASE i = j
  <2>1. End(cs[i]) \in Nat
    BY CoversBetween, ChunkType
  <2>2. QED
    BY <1>1, <1>2, <2>1
<1>3. CASE i # j
  <2>1. PICK k : k = i + 1
    OBVIOUS
  <2>2. k \in 1 .. n /\ j \in k .. n /\ i \in 1 .. (n - 1)
    BY <1>1, <1>3, <2>1
  <2>3. cs[k].start = End(cs[i])
    BY <1>1, <2>1, <2>2 DEF Covers
  <2>4. PICK p : p = SubSeq(cs, k, j)
    OBVIOUS
  <2>5. k \in 1 .. Len(cs) /\ j \in k .. Len(cs)
    BY <1>1, <2>2
  <2>6. Covers(p, cs[k].start, End(cs[j])) /\ Len(p) = j - k + 1 /\ p[j - k + 1] = cs[k + (j - k + 1) - 1]
    <3>1. Covers(p, cs[k].start, End(cs[j])) /\ Len(p) = j - k + 1
      BY <2>4, <2>5, CoversPart
    <3>2. cs \in Seq(Chunk)
      BY DEF Covers
    <3>3. QED
      BY <1>1, <2>2, <2>4, <3>1, <3>2
  <2>7. PICK m : m = j - k + 1
    OBVIOUS
  <2>8. m \in 1 .. m /\ k + m - 1 = j
    BY <1>1, <2>2, <2>7
  <2>9. Covers(p, cs[k].start, End(cs[j])) /\ m \in 1 .. Len(p) /\ p[m] = cs[j]
    BY <2>6, <2>7, <2>8
  <2>10. cs[k].start <= cs[j].start
    BY <2>9, CoversBetween
  <2>11. End(cs[j]) > cs[j].start /\ cs[j].start \in Nat /\ End(cs[j]) \in Nat /\ End(cs[i]) \in Nat
    BY CoversBetween, ChunkType
  <2>12. QED
    BY <2>3, <2>10, <2>11
<1>4. QED
  BY <1>2, <1>3

Request ==
  [client : Readers \cup {Nobody}, chunks : Seq(Chunk), index : Nat, skip : Nat, encoded : Nat,
   out : SUBSET Nat, paged : BOOLEAN, since : Nat, cursor : Nat, dropped : Nat, has_more : BOOLEAN,
   tail : Nat, had : SUBSET Nat]

\* The first byte of the answer to p, the end of its chunks, the end of the
\* answer, and how far the answer is encoded.
First(p) == p.chunks[1].start + p.skip
Final(p) == End(p.chunks[Len(p.chunks)])
Stop(p) == IF p.paged THEN Smaller(Final(p), First(p) + PageBytes) ELSE Final(p)
Pos(p) == IF p.index = 0 THEN First(p)
          ELSE IF p.index < Len(p.chunks) THEN End(p.chunks[p.index]) ELSE Stop(p)

\* What was asked for, and what is encoded of it.
Asked(p) ==
  /\ p \in Request /\ p.chunks # <<>> /\ Covers(p.chunks, p.chunks[1].start, Final(p))
  /\ p.skip < p.chunks[1].len
  /\ p.chunks[Len(p.chunks)].start < Stop(p)
EncodingOK(p) ==
  /\ Asked(p)
  /\ p.index <= Len(p.chunks)
  /\ p.encoded = Pos(p) - First(p)
  /\ p.out = First(p) .. (Pos(p) - 1)

\* p and q are the same request.
SameRequest(p, q) ==
  /\ q.client = p.client /\ q.chunks = p.chunks /\ q.skip = p.skip /\ q.paged = p.paged
  /\ q.since = p.since /\ q.cursor = p.cursor /\ q.dropped = p.dropped
  /\ q.tail = p.tail /\ q.had = p.had

\* The places of a request that is not done.
LEMMA Places ==
  ASSUME NEW p, EncodingOK(p), p.index < Len(p.chunks)
  PROVE  /\ p.chunks[p.index + 1] \in Chunk
         /\ First(p) \in Nat /\ Pos(p) \in Nat /\ Final(p) \in Nat /\ Stop(p) \in Nat
         /\ p.chunks[p.index + 1].start + (IF p.index = 0 THEN p.skip ELSE 0) = Pos(p)
         /\ First(p) <= Pos(p) /\ Pos(p) < End(p.chunks[p.index + 1])
         /\ End(p.chunks[p.index + 1]) <= Final(p)
         /\ p.index + 1 = Len(p.chunks) => End(p.chunks[p.index + 1]) = Final(p)
         /\ p.paged => Pos(p) < First(p) + PageBytes
<1>1. PICK cs : cs = p.chunks
  OBVIOUS
<1>2. PICK n : n = Len(cs)
  OBVIOUS
<1>3. PICK i : i = p.index
  OBVIOUS
<1>4. /\ cs \in Seq(Chunk) /\ n \in Nat /\ i \in Nat /\ i < n /\ p.skip \in Nat /\ PageBytes \in Nat \ {0}
      /\ Covers(cs, cs[1].start, Final(p)) /\ cs # <<>> /\ p.skip < cs[1].len /\ cs[n].start < Stop(p)
  BY <1>1, <1>2, <1>3, HistoryAssumption DEF EncodingOK, Asked, Request
<1>5. \A k \in 1 .. n : /\ cs[k] \in Chunk /\ cs[k].start \in Nat /\ End(cs[k]) \in Nat /\ cs[k].len \in Nat \ {0}
                        /\ End(cs[k]) > cs[k].start /\ End(cs[k]) = cs[k].start + cs[k].len
  <2>1. \A k \in 1 .. n : cs[k] \in Chunk
    BY <1>2, <1>4
  <2>2. QED
    BY <2>1, ChunkType DEF End
<1>6. i + 1 \in 1 .. n /\ 1 \in 1 .. n /\ n \in 1 .. n
  BY <1>4
<1>7. Final(p) = End(cs[n]) /\ Final(p) \in Nat /\ First(p) = cs[1].start + p.skip /\ First(p) \in Nat
  <2>1. Final(p) = End(cs[n]) /\ First(p) = cs[1].start + p.skip
    BY <1>1, <1>2, Zenon DEF Final, First
  <2>2. End(cs[n]) \in Nat /\ cs[1].start \in Nat
    BY <1>5, <1>6, Zenon
  <2>3. cs[1].start + p.skip \in Nat
    BY <1>4, <2>2
  <2>4. QED
    BY <2>1, <2>2, <2>3
<1>8. Stop(p) \in Nat /\ (p.paged => Stop(p) <= First(p) + PageBytes)
  BY <1>4, <1>7 DEF Stop, Smaller
<1>9. End(cs[i + 1]) <= Final(p) /\ (i + 1 = n => End(cs[i + 1]) = Final(p))
  <2>1. i + 1 \in 1 .. Len(cs) /\ n \in 1 .. Len(cs) /\ i + 1 <= n
    BY <1>2, <1>4, <1>6
  <2>2. End(cs[i + 1]) <= End(cs[n])
    BY <1>4, <2>1, CoversSorted
  <2>3. QED
    BY <1>7, <2>2
<1>10. CASE i = 0
  <2>1. Pos(p) = First(p)
    BY <1>3, <1>10 DEF Pos
  <2>2. cs[i + 1] = cs[1]
    BY <1>10
  <2>3. Pos(p) < End(cs[i + 1]) /\ cs[i + 1].start + p.skip = Pos(p)
    <3>1. PICK s : s = cs[1].start
      OBVIOUS
    <3>2. PICK l : l = cs[1].len
      OBVIOUS
    <3>3. s \in Nat /\ l \in Nat /\ End(cs[1]) = s + l
      BY <1>5, <1>6, <3>1, <3>2
    <3>4. p.skip < l /\ Pos(p) = s + p.skip
      BY <1>4, <1>7, <2>1, <3>1, <3>2
    <3>5. Pos(p) < End(cs[1])
      BY <1>4, <3>3, <3>4
    <3>6. QED
      BY <2>2, <3>1, <3>4, <3>5
  <2>4. QED
    BY <1>1, <1>2, <1>3, <1>4, <1>5, <1>6, <1>7, <1>8, <1>9, <1>10, <2>1, <2>3
<1>11. CASE i # 0
  <2>1. i \in 1 .. n /\ i \in 1 .. (n - 1) /\ i < n
    BY <1>4, <1>11
  <2>2. Pos(p) = End(cs[i]) /\ Pos(p) \in Nat
    BY <1>1, <1>2, <1>3, <1>4, <1>5, <1>11, <2>1 DEF Pos
  <2>3. cs[i + 1].start = End(cs[i])
    BY <1>2, <1>4, <2>1 DEF Covers
  <2>4. End(cs[i]) <= cs[n].start /\ End(cs[1]) <= End(cs[i])
    <3>1. i \in 1 .. Len(cs) /\ n \in 1 .. Len(cs) /\ 1 \in 1 .. Len(cs) /\ i <= n /\ i < n /\ 1 <= i
      BY <1>2, <1>4, <1>6, <2>1
    <3>2. QED
      BY <1>4, <3>1, CoversSorted
  <2>5. cs[i + 1].start \in Nat /\ Pos(p) < End(cs[i + 1]) /\ cs[i + 1].start + 0 = Pos(p)
    BY <1>5, <1>6, <2>2, <2>3
  <2>6. First(p) <= Pos(p)
    BY <1>4, <1>5, <1>6, <1>7, <2>2, <2>4
  <2>7. p.paged => Pos(p) < First(p) + PageBytes
    BY <1>4, <1>5, <1>6, <1>7, <1>8, <2>2, <2>4
  <2>8. QED
    BY <1>1, <1>2, <1>3, <1>5, <1>6, <1>7, <1>8, <1>9, <1>11, <2>2, <2>5, <2>6, <2>7
<1>12. QED
  BY <1>10, <1>11


\* What encoding a chunk does to p.
Encodes(p, q) == EncodingOK(q) /\ SameRequest(p, q) /\ q.index > p.index

LEMMA EncodeStep ==
  ASSUME NEW p, EncodingOK(p), p.index < Len(p.chunks)
  PROVE  Encodes(p, EncodeChunk(p))
<1> DEFINE c == p.chunks[p.index + 1]
           off == IF p.index = 0 THEN p.skip ELSE 0
           len == IF p.paged /\ c.len - off > PageBytes - p.encoded THEN PageBytes - p.encoded ELSE c.len - off
           full == p.paged /\ p.encoded + len >= PageBytes
           index == IF full THEN Len(p.chunks) ELSE p.index + 1
           encoded == p.encoded + len
           out == p.out \cup ((c.start + off)..(c.start + off + len - 1))
           q == EncodeChunk(p)
<1>1. q = [p EXCEPT !.index = index, !.encoded = encoded, !.out = out]
  BY DEF EncodeChunk
<1>2. /\ p \in Request /\ p.encoded = Pos(p) - First(p) /\ p.out = First(p) .. (Pos(p) - 1)
      /\ p.chunks \in Seq(Chunk) /\ p.index \in Nat /\ p.skip \in Nat /\ p.paged \in BOOLEAN
      /\ PageBytes \in Nat \ {0}
  BY HistoryAssumption DEF EncodingOK, Asked, Request
<1>3. PICK n : n = Len(p.chunks)
  OBVIOUS
<1>4. n \in Nat /\ p.index < n
  BY <1>2, <1>3
<1>5. PICK e : e = End(c)
  OBVIOUS
<1>6. /\ c \in Chunk /\ First(p) \in Nat /\ Pos(p) \in Nat /\ Final(p) \in Nat /\ Stop(p) \in Nat
      /\ c.start + off = Pos(p) /\ First(p) <= Pos(p) /\ Pos(p) < e /\ e <= Final(p)
      /\ p.index + 1 = n => e = Final(p)
      /\ p.paged => Pos(p) < First(p) + PageBytes
  BY <1>3, <1>5, Places
<1> HIDE DEF c
<1>7. /\ c.start \in Nat /\ c.len \in Nat /\ e = c.start + c.len /\ e \in Nat /\ off \in Nat
  BY <1>2, <1>5, <1>6, ChunkType DEF End
<1> HIDE DEF off
<1>8. c.len - off = e - Pos(p)
  BY <1>6, <1>7
<1>9. /\ len \in Nat
      /\ Pos(p) + len = IF p.paged THEN Smaller(e, First(p) + PageBytes) ELSE e
      /\ full <=> (p.paged /\ First(p) + PageBytes <= e)
  <2>1. PICK f : f = First(p)
    OBVIOUS
  <2>2. PICK pos : pos = Pos(p)
    OBVIOUS
  <2>3. len = IF p.paged /\ e - pos > PageBytes - (pos - f) THEN PageBytes - (pos - f) ELSE e - pos
    BY <1>2, <1>8, <2>1, <2>2
  <2>4. /\ f \in Nat /\ pos \in Nat /\ e \in Nat /\ PageBytes \in Nat /\ p.paged \in BOOLEAN
        /\ f <= pos /\ pos < e /\ (p.paged => pos < f + PageBytes)
    BY <1>2, <1>6, <1>7, <2>1, <2>2
  <2> HIDE DEF len
  <2>5. /\ len \in Nat
        /\ pos + len = IF p.paged THEN Smaller(e, f + PageBytes) ELSE e
        /\ (p.paged /\ (pos - f) + len >= PageBytes) <=> (p.paged /\ f + PageBytes <= e)
    <3>1. CASE p.paged
      BY <2>3, <2>4, <3>1 DEF Smaller
    <3>2. CASE ~ p.paged
      BY <2>3, <2>4, <3>2
    <3>3. QED
      BY <3>1, <3>2
  <2>6. QED
    BY <1>2, <2>1, <2>2, <2>5
<1> HIDE DEF len, full
<1>10. PICK to : to = Pos(p) + len
  OBVIOUS
<1>11. to \in Nat /\ Pos(p) <= to /\ encoded = to - First(p) /\ encoded \in Nat
  BY <1>2, <1>6, <1>9, <1>10
<1>12. out = First(p) .. (to - 1)
  <2>1. PICK f : f = First(p)
    OBVIOUS
  <2>2. PICK pos : pos = Pos(p)
    OBVIOUS
  <2>3. out = (f .. (pos - 1)) \cup (pos .. (pos + len - 1)) /\ f \in Nat /\ pos \in Nat /\ f <= pos
    BY <1>2, <1>6, <2>1, <2>2
  <2>4. pos + len = to /\ len \in Nat
    BY <1>9, <1>10, <2>2
  <2> HIDE DEF out
  <2>5. out = (f .. (pos - 1)) \cup (pos .. (to - 1)) /\ pos <= to
    BY <1>11, <2>2, <2>3, <2>4
  <2>6. QED
    BY <1>11, <2>1, <2>3, <2>5
<1> HIDE DEF encoded, out
<1>13. index \in Nat /\ index <= n /\ index > p.index
  BY <1>2, <1>3, <1>4
<1>14. to = IF index < n THEN End(p.chunks[index]) ELSE Stop(p)
  <2>1. CASE full
    <3>1. p.paged /\ First(p) + PageBytes <= e /\ index = n
      BY <1>3, <1>9, <2>1
    <3>2. to = First(p) + PageBytes /\ Stop(p) = First(p) + PageBytes
      BY <1>2, <1>6, <1>7, <1>9, <1>10, <3>1 DEF Stop, Smaller
    <3>3. QED
      BY <1>4, <3>1, <3>2
  <2>2. CASE ~ full
    <3>1. index = p.index + 1
      BY <2>2
    <3>2. p.paged => e < First(p) + PageBytes
      BY <1>2, <1>6, <1>7, <1>9, <2>2
    <3>3. to = e
      BY <1>2, <1>6, <1>7, <1>9, <1>10, <3>2 DEF Smaller
    <3>4. CASE index < n
      BY <1>5, <3>1, <3>3, <3>4 DEF c
    <3>5. CASE ~ (index < n)
      <4>1. e = Final(p)
        BY <1>4, <1>6, <1>13, <3>1, <3>5
      <4>2. Stop(p) = e
        BY <1>2, <1>6, <1>7, <3>2, <4>1 DEF Stop, Smaller
      <4>3. QED
        BY <3>3, <3>5, <4>2
    <3>6. QED
      BY <3>4, <3>5
  <2>3. QED
    BY <2>1, <2>2
<1> HIDE DEF index
<1>15. out \in SUBSET Nat
  BY <1>6, <1>11, <1>12
<1>16. /\ q \in Request /\ q.index = index /\ q.encoded = encoded /\ q.out = out /\ SameRequest(p, q)
  BY <1>1, <1>2, <1>11, <1>13, <1>15 DEF Request, SameRequest
<1> HIDE DEF q
<1>17. /\ First(q) = First(p) /\ Final(q) = Final(p) /\ Stop(q) = Stop(p)
  BY <1>16 DEF First, Final, Stop, SameRequest
<1>18. Pos(q) = to
  <2>1. q.chunks = p.chunks /\ index # 0
    BY <1>2, <1>13, <1>16 DEF SameRequest
  <2>2. QED
    BY <1>3, <1>14, <1>16, <1>17, <2>1 DEF Pos
<1>19. Asked(q)
  BY <1>16, <1>17 DEF EncodingOK, Asked, SameRequest
<1>20. EncodingOK(q)
  <2>1. q.chunks = p.chunks
    BY <1>16 DEF SameRequest
  <2>2. QED
    BY <1>3, <1>11, <1>12, <1>13, <1>16, <1>17, <1>18, <1>19, <2>1 DEF EncodingOK
<1>21. QED
  BY <1>13, <1>16, <1>20 DEF Encodes, q


\* The chunks of Encoded, one after the other.
IsEncoding(f, p, n, limit) ==
  f[0] = p /\ (\A k \in 1 .. n : f[k] = EncodeMore(f[k - 1], limit)) /\ Encoded(p, n, limit) = f[n]

\* Encoded is a run of chunks, within any set they do not leave.
LEMMA EncodedIterates ==
  ASSUME NEW S, NEW p \in S, NEW n \in Nat, NEW limit, \A x \in S : EncodeMore(x, limit) \in S
  PROVE  \E f \in [0 .. n -> S] : IsEncoding(f, p, n, limit)
<1> DEFINE step == [k \in 1 .. n |-> [x \in S |-> EncodeMore(x, limit)]]
           Is(f) == f = [k \in 0 .. n |-> IF k = 0 THEN p ELSE EncodeMore(f[k - 1], limit)]
           pass == CHOOSE f : Is(f)
<1>1. Encoded(p, n, limit) = pass[n]
  BY DEF Encoded
<1> HIDE DEF pass
<1>2. step \in [1 .. n -> [S -> S]]
  OBVIOUS
<1>3. \A k \in 1 .. n : \A x \in S : step[k][x] = EncodeMore(x, limit)
  OBVIOUS
<1> HIDE DEF step
<1>4. PICK f \in [0 .. n -> S] : IsRun(f, p, step, n)
  BY <1>2, Iterates
<1>5. \A k \in 1 .. n : f[k] = EncodeMore(f[k - 1], limit)
  <2>1. \A k \in 1 .. n : f[k - 1] \in S
    BY <1>4
  <2>2. QED
    BY <1>3, <1>4, <2>1 DEF IsRun
<1>6. Is(f)
  BY <1>4, <1>5 DEF IsRun
<1>7. Is(pass)
  BY <1>6 DEF pass
<1>8. pass[0] = p /\ \A k \in 1 .. n : pass[k] = EncodeMore(pass[k - 1], limit)
  BY <1>7
<1>9. pass \in [0 .. n -> S]
  <2> DEFINE Good == {k \in 0 .. n : pass[k] \in S}
  <2>1. 0 \in Good
    BY <1>8
  <2>2. ASSUME NEW k \in 1 .. n, k - 1 \in Good PROVE k \in Good
    BY <1>8, <2>2
  <2> HIDE DEF Good
  <2>3. \A k \in 0 .. n : k \in Good
    BY <2>1, <2>2, Induction
  <2>4. \A k \in 0 .. n : pass[k] \in S
    BY <2>3 DEF Good
  <2>5. QED
    BY <1>7, <2>4
<1>10. IsEncoding(pass, p, n, limit)
  BY <1>1, <1>8 DEF IsEncoding
<1>11. QED
  BY <1>9, <1>10

\* Requests like p that are encoded rightly.
Encodings(p) == {x \in Request : EncodingOK(x) /\ SameRequest(p, x)}

LEMMA MoreKeeps ==
  ASSUME NEW p, NEW x \in Encodings(p), NEW limit
  PROVE  EncodeMore(x, limit) \in Encodings(p)
<1>1. EncodingOK(x) /\ SameRequest(p, x)
  BY DEF Encodings
<1>2. CASE x.index < Len(x.chunks) /\ x.encoded < limit
  <2>1. PICK y : y = EncodeMore(x, limit)
    OBVIOUS
  <2>2. Encodes(x, y)
    BY <1>1, <1>2, <2>1, EncodeStep DEF EncodeMore
  <2>3. EncodingOK(y) /\ y \in Request
    BY <2>2 DEF Encodes, EncodingOK, Asked
  <2>4. SameRequest(p, y)
    BY <1>1, <2>2 DEF Encodes, SameRequest
  <2>5. QED
    BY <2>1, <2>3, <2>4 DEF Encodings
<1>3. CASE ~ (x.index < Len(x.chunks) /\ x.encoded < limit)
  BY <1>3 DEF EncodeMore
<1>4. QED
  BY <1>2, <1>3

LEMMA EncodedIs ==
  ASSUME NEW p, EncodingOK(p), NEW n \in Nat, NEW limit, NEW q, q = Encoded(p, n, limit)
  PROVE  EncodingOK(q) /\ SameRequest(p, q)
<1>1. p \in Encodings(p)
  BY DEF Encodings, EncodingOK, Asked, SameRequest
<1>2. \A x \in Encodings(p) : EncodeMore(x, limit) \in Encodings(p)
  BY MoreKeeps
<1>3. PICK f \in [0 .. n -> Encodings(p)] : IsEncoding(f, p, n, limit)
  BY <1>1, <1>2, EncodedIterates
<1>4. q \in Encodings(p)
  BY <1>3 DEF IsEncoding
<1>5. QED
  BY <1>4 DEF Encodings

\* A page that is encoded in one go is encoded to its end.
LEMMA EncodedWhole ==
  ASSUME NEW p, EncodingOK(p), p.paged, NEW q, q = Encoded(p, Len(p.chunks), PageBytes)
  PROVE  q.index = Len(p.chunks)
<1>1. PICK n : n = Len(p.chunks) /\ n \in Nat
  BY DEF EncodingOK, Asked, Request
<1>2. p \in Encodings(p)
  BY DEF Encodings, EncodingOK, Asked, SameRequest
<1>3. \A x \in Encodings(p) : EncodeMore(x, PageBytes) \in Encodings(p)
  BY MoreKeeps
<1>4. PICK f \in [0 .. n -> Encodings(p)] : IsEncoding(f, p, n, PageBytes)
  BY <1>1, <1>2, <1>3, EncodedIterates
<1>5. \A x \in Encodings(p) : x.index \in Nat /\ x.index <= n /\ Len(x.chunks) = n
  BY <1>1 DEF Encodings, EncodingOK, SameRequest, Request
<1> DEFINE Good == {k \in 0 .. n : f[k].index >= k}
<1>6. 0 \in Good
  BY <1>1, <1>2, <1>4, <1>5 DEF IsEncoding
<1>7. ASSUME NEW k \in 1 .. n, k - 1 \in Good PROVE k \in Good
  <2>1. PICK x : x = f[k - 1]
    OBVIOUS
  <2>2. x \in Encodings(p) /\ f[k] = EncodeMore(x, PageBytes) /\ x.index >= k - 1
    BY <1>1, <1>4, <1>7, <2>1 DEF IsEncoding
  <2>3. EncodingOK(x) /\ x.paged /\ x.index \in Nat /\ x.index <= n /\ Len(x.chunks) = n
    BY <1>5, <2>2 DEF Encodings, SameRequest
  <2>4. CASE x.index = n
    <3>1. f[k] = x
      BY <1>1, <2>2, <2>3, <2>4 DEF EncodeMore
    <3>2. QED
      BY <1>1, <2>4, <3>1
  <2>5. CASE x.index # n
    <3>1. x.index < Len(x.chunks)
      BY <1>1, <2>3, <2>5
    <3>2. First(x) \in Nat /\ Pos(x) \in Nat /\ Pos(x) < First(x) + PageBytes /\ x.encoded = Pos(x) - First(x)
      BY <2>3, <3>1, Places DEF EncodingOK
    <3>3. x.encoded < PageBytes
      BY <3>2, HistoryAssumption
    <3>4. Encodes(x, f[k])
      BY <2>2, <2>3, <3>1, <3>3, EncodeStep DEF EncodeMore
    <3>5. f[k].index > x.index /\ f[k].index \in Nat
      BY <1>1, <1>4, <1>5, <3>4 DEF Encodes
    <3>6. QED
      BY <1>1, <2>2, <2>3, <3>5
  <2>6. QED
    BY <2>4, <2>5
<1> HIDE DEF Good
<1>8. \A k \in 0 .. n : k \in Good
  BY <1>1, <1>6, <1>7, Induction
<1>9. n \in Good
  BY <1>1, <1>8
<1>10. q \in Encodings(p) /\ q.index >= n
  BY <1>1, <1>4, <1>9 DEF IsEncoding, Good
<1>11. QED
  BY <1>1, <1>5, <1>10


-----------------------------------------------------------------------------
(* The inductive invariant.                                                *)

\* A request for the newest bytes has the newest chunks of what the ring
\* held, as many bytes as it asked for unless there are not as many or they
\* do not fit a response.
TailAsked(p) ==
  \E f \in Seqs :
    LET all == First(p) = f
        cut == Final(p) - f > ResponseMax
    IN  /\ p.skip = 0 /\ f <= First(p) /\ p.had = f .. (Final(p) - 1)
        /\ p.tail = 0 => all \/ cut
        /\ Final(p) - First(p) >= p.tail \/ all \/ cut

\* A request for a page is one of what its reader asked for last.
PageAsked(p) ==
  /\ p.cursor = Stop(p) /\ First(p) = p.since + p.dropped
  /\ p.client # Nobody => p.since = cursor[p.client] /\ p.cursor <= history.total_seq

PendingOK ==
  LET p == history_pending
  IN  \/ p = NonePending
      \/ /\ EncodingOK(p)
         /\ p.client \in (live \ Agents) \cup {Nobody}
         /\ IF p.paged THEN PageAsked(p) ELSE TailAsked(p)

\* Reader r has every byte before its cursor, or was told that it is gone.
Told(r) ==
  LET before == 0 .. (cursor[r] - 1)
  IN  /\ before \ (received[r] \cup lost[r]) \subseteq (IF r \in Agents THEN Nuls ELSE {})
      /\ lost[r] \subseteq before
      /\ received[r] \cap lost[r] = {}

ReaderOK(r) ==
  /\ received[r] \subseteq 0 .. (cursor[r] - 1)
  /\ received[r] # {} => cursor[r] <= history.total_seq
  /\ count[r] = Cardinality(received[r])
  /\ fresh[r] => cursor[r] <= history.total_seq /\ Told(r)

ReadersOK == \A r \in Readers : ReaderOK(r)

IInv == TypeOK /\ NewestRing(history) /\ PendingOK /\ ReadersOK


\* What the types say of the readers.
ReaderTypes ==
  /\ cursor \in [Readers -> Seqs]
  /\ received \in [Readers -> SUBSET Seqs]
  /\ count \in [Readers -> Nat]
  /\ lost \in [Readers -> SUBSET Seqs]
  /\ synced \in [Readers -> BOOLEAN]
  /\ fresh \in [Readers -> BOOLEAN]

\* The rest of the types.
OtherTypes ==
  /\ history.total_seq \in Seqs /\ history.first_seq \in Seqs /\ history.total_bytes \in 0..MaxBytes
  /\ history_pending.client \in Readers \cup {Nobody}
  /\ history_pending.index \in 0..Len(history_pending.chunks)
  /\ audience \in Audiences
  /\ live \subseteq audience
  /\ restarts \in 0..MaxRestarts

LEMMA TypesSplit == TypeOK <=> ReaderTypes /\ OtherTypes
BY Zenon DEF TypeOK, ReaderTypes, OtherTypes

\* An answer to reader r that it may count on: the bytes between those it
\* was told are gone and its next cursor, and no other.
Answers(r, out, size, next, dropped) ==
  LET page == (cursor[r] + dropped) .. (next - 1)
  IN  /\ dropped \in Nat /\ next \in Nat /\ next <= history.total_seq
      /\ size = Cardinality(out)
      /\ IF cursor[r] > history.total_seq THEN dropped = 0 /\ out = {}
         ELSE /\ cursor[r] + dropped <= next
              /\ out \subseteq page
              /\ page \ out \subseteq (IF r \in Agents THEN Nuls ELSE {})

\* The number of bytes from a to b.
LEMMA RangeSize ==
  ASSUME NEW a \in Nat, NEW b \in Nat, a <= b
  PROVE  Cardinality(a .. (b - 1)) = b - a
<1>1. PICK c \in Int : c = b - 1
  OBVIOUS
<1>2. Cardinality(a .. c) = IF a > c THEN 0 ELSE c - a + 1
  BY FS_Interval
<1>3. QED
  BY <1>1, <1>2

\* The sets of a reader after an answer.
LEMMA AnswerSets ==
  ASSUME NEW since \in Nat, NEW want \in Nat, NEW next \in Nat, since <= want, want <= next,
         NEW got, got \subseteq 0 .. (since - 1), NEW out, out \subseteq want .. (next - 1)
  PROVE  /\ got \cup out \subseteq 0 .. (next - 1)
         /\ Cardinality(got \cup out) = Cardinality(got) + Cardinality(out)
         /\ Cardinality(got) \in Nat /\ Cardinality(out) \in Nat
<1>1. IsFiniteSet(0 .. (since - 1)) /\ IsFiniteSet(want .. (next - 1))
  BY FS_Interval
<1>2. IsFiniteSet(got) /\ IsFiniteSet(out)
  BY <1>1, FS_Subset
<1>3. got \cap out = {}
  OBVIOUS
<1>4. Cardinality(got) \in Nat /\ Cardinality(out) \in Nat
  BY <1>2, FS_CardinalityType
<1>5. Cardinality(got \cup out) = Cardinality(got) + Cardinality(out) - Cardinality(got \cap out)
  BY <1>2, FS_Union
<1>6. Cardinality(got \cap out) = 0
  BY <1>3, FS_EmptySet
<1>7. QED
  BY <1>4, <1>5, <1>6

LEMMA RespondKeeps ==
  ASSUME IInv, NEW r \in Readers, NEW out, NEW size, NEW next, NEW dropped,
         Answers(r, out, size, next, dropped),
         Respond(r, cursor[r], out, size, next, dropped), UNCHANGED <<history, fresh>>
  PROVE  ReaderTypes' /\ ReadersOK'
<1>1. /\ ReaderTypes /\ ReadersOK /\ history.total_seq \in Nat /\ history.total_seq <= MaxSeq /\ MaxSeq \in Nat
  BY TypesSplit, HistoryAssumption DEF IInv, OtherTypes, Seqs
<1>2. PICK since : since = cursor[r]
  OBVIOUS
<1>3. PICK total : total = history.total_seq
  OBVIOUS
<1>4. PICK more : more = since .. (since + dropped - 1)
  OBVIOUS
<1>5. /\ since \in Nat /\ since \in Seqs /\ total \in Nat /\ total <= MaxSeq /\ dropped \in Nat /\ next \in Nat
      /\ next <= total /\ size = Cardinality(out) /\ total = history'.total_seq
  BY <1>1, <1>2, <1>3 DEF Answers, ReaderTypes, Seqs
<1>6. ReaderOK(r)
  BY <1>1 DEF ReadersOK
<1>7. /\ out \subseteq Seqs /\ size \in Nat /\ more \subseteq Seqs
      /\ received[r] \cup out \subseteq 0 .. (next - 1)
      /\ count[r] + size = Cardinality(received[r] \cup out)
  <2>1. CASE since > total
    <3>1. dropped = 0 /\ out = {}
      BY <1>2, <1>3, <2>1 DEF Answers
    <3>2. received[r] = {} /\ count[r] = Cardinality({})
      <4>1. ~ (cursor[r] <= history.total_seq)
        BY <1>2, <1>3, <1>5, <2>1
      <4>2. received[r] = {}
        BY <1>6, <4>1 DEF ReaderOK
      <4>3. count[r] = Cardinality(received[r])
        BY <1>6 DEF ReaderOK
      <4>4. QED
        BY <4>2, <4>3
    <3>3. size = 0 /\ count[r] = 0 /\ Cardinality({}) = 0
      BY <1>5, <3>1, <3>2, FS_EmptySet
    <3>4. more = {}
      BY <1>4, <1>5, <3>1
    <3>5. received[r] \cup out = {}
      BY <3>1, <3>2
    <3>6. Cardinality(received[r] \cup out) = 0
      BY <3>3, <3>5
    <3>7. received[r] \cup out \subseteq 0 .. (next - 1) /\ out \subseteq Seqs /\ more \subseteq Seqs
      BY <3>1, <3>4, <3>5
    <3>8. QED
      BY <3>3, <3>6, <3>7
  <2>2. CASE ~ (since > total)
    <3>1. PICK want : want = since + dropped
      OBVIOUS
    <3>2. want \in Nat /\ since <= want /\ want <= next /\ out \subseteq want .. (next - 1)
      BY <1>2, <1>3, <1>5, <2>2, <3>1 DEF Answers
    <3>3. received[r] \subseteq 0 .. (since - 1) /\ count[r] = Cardinality(received[r])
      BY <1>2, <1>6 DEF ReaderOK
    <3>4. /\ received[r] \cup out \subseteq 0 .. (next - 1)
          /\ Cardinality(received[r] \cup out) = Cardinality(received[r]) + Cardinality(out)
          /\ Cardinality(out) \in Nat
      BY <1>5, <3>2, <3>3, AnswerSets
    <3>5. out \subseteq Seqs /\ more \subseteq Seqs
      BY <1>1, <1>4, <1>5, <3>1, <3>2 DEF Seqs
    <3>6. QED
      BY <1>5, <3>3, <3>4, <3>5
  <2>3. QED
    BY <2>1, <2>2
<1>8. /\ cursor' = [cursor EXCEPT ![r] = next]
      /\ received' = [received EXCEPT ![r] = received[r] \cup out]
      /\ count' = [count EXCEPT ![r] = count[r] + size]
      /\ lost' = [lost EXCEPT ![r] = lost[r] \cup more]
      /\ synced' = [synced EXCEPT ![r] = TRUE]
      /\ fresh' = fresh
  BY <1>2, <1>4 DEF Respond
<1>9. next \in Seqs
  BY <1>1, <1>5 DEF Seqs
<1>10. ReaderTypes'
  BY <1>1, <1>7, <1>8, <1>9 DEF ReaderTypes
<1>11. ASSUME NEW s \in Readers, s # r PROVE ReaderOK(s)'
  <2>1. ReaderOK(s)
    BY <1>1 DEF ReadersOK
  <2>2. cursor'[s] = cursor[s] /\ received'[s] = received[s] /\ count'[s] = count[s] /\ lost'[s] = lost[s]
    BY <1>1, <1>8, <1>11 DEF ReaderTypes
  <2>3. QED
    BY <1>8, <2>1, <2>2 DEF ReaderOK, Told
<1>12. ReaderOK(r)'
  <2>1. /\ cursor'[r] = next /\ received'[r] = received[r] \cup out /\ count'[r] = count[r] + size
        /\ lost'[r] = lost[r] \cup more
    BY <1>1, <1>8 DEF ReaderTypes
  <2>2. fresh[r] => Told(r)'
    <3> SUFFICES ASSUME fresh[r] PROVE Told(r)'
      OBVIOUS
    <3>1. since <= total /\ Told(r)
      BY <1>2, <1>3, <1>6 DEF ReaderOK
    <3>2. PICK want : want = since + dropped
      OBVIOUS
    <3>3. PICK nul : nul = IF r \in Agents THEN Nuls ELSE {}
      OBVIOUS
    <3>4. want \in Nat /\ since <= want /\ want <= next /\ out \subseteq want .. (next - 1)
      BY <1>2, <1>3, <1>5, <3>1, <3>2 DEF Answers
    <3>5. (want .. (next - 1)) \ out \subseteq nul
      BY <1>2, <1>3, <1>5, <3>1, <3>2, <3>3 DEF Answers
    <3>6. /\ (0 .. (since - 1)) \ (received[r] \cup lost[r]) \subseteq nul
          /\ lost[r] \subseteq 0 .. (since - 1) /\ received[r] \cap lost[r] = {}
          /\ received[r] \subseteq 0 .. (since - 1)
      BY <1>2, <1>6, <3>1, <3>3 DEF Told, ReaderOK
    <3>7. more = since .. (want - 1)
      BY <1>4, <1>5, <3>2
    <3>8. (0 .. (next - 1)) \ (received'[r] \cup lost'[r]) \subseteq nul
      <4> SUFFICES ASSUME NEW x \in 0 .. (next - 1), x \notin received[r] \cup out, x \notin lost[r] \cup more
                   PROVE  x \in nul
        BY <2>1
      <4>1. CASE x < since
        BY <1>5, <3>6, <4>1
      <4>2. CASE x >= since /\ x < want
        BY <1>5, <3>4, <3>7, <4>2
      <4>3. CASE x >= want
        BY <1>5, <3>4, <3>5, <4>3
      <4>4. QED
        BY <1>5, <3>4, <4>1, <4>2, <4>3
    <3>9. lost'[r] \subseteq 0 .. (next - 1)
      BY <1>5, <2>1, <3>4, <3>6, <3>7
    <3>10. received'[r] \cap lost'[r] = {}
      <4> SUFFICES ASSUME NEW x, x \in received[r] \cup out, x \in lost[r] \cup more PROVE FALSE
        BY <2>1
      <4>1. CASE x \in received[r]
        BY <1>5, <3>6, <3>7, <4>1
      <4>2. CASE x \in out
        BY <1>5, <3>4, <3>6, <3>7, <4>2
      <4>3. QED
        BY <4>1, <4>2
    <3>11. QED
      BY <2>1, <3>3, <3>8, <3>9, <3>10 DEF Told
  <2>3. QED
    BY <1>5, <1>7, <1>8, <2>1, <2>2 DEF ReaderOK
<1>13. QED
  BY <1>10, <1>11, <1>12 DEF ReadersOK


-----------------------------------------------------------------------------
(* The steps.                                                              *)

LEMMA RingTypes ==
  ASSUME NEW rb, NewestRing(rb), rb.total_seq <= MaxSeq
  PROVE  rb.total_seq \in Seqs /\ rb.first_seq \in Seqs /\ rb.total_bytes \in 0..MaxBytes
<1>1. /\ rb.total_seq \in Nat /\ rb.first_seq \in Nat /\ rb.total_bytes = rb.total_seq - rb.first_seq
      /\ rb.first_seq = Larger(0, rb.total_seq - MaxBytes)
  BY DEF NewestRing, RingOK, Ring
<1>2. MaxSeq \in Nat /\ MaxBytes \in Nat
  BY HistoryAssumption, RingAssumption
<1>3. QED
  BY <1>1, <1>2 DEF Seqs, Larger

LEMMA NoRequest == /\ NonePending.client = Nobody /\ NonePending.chunks = <<>> /\ NonePending.index = 0
                   /\ NonePending.skip = 0 /\ NonePending.paged = FALSE
BY DEF NonePending

LEMMA PendingTypes ==
  ASSUME PendingOK
  PROVE  /\ history_pending.client \in Readers \cup {Nobody}
         /\ history_pending.index \in 0..Len(history_pending.chunks)
<1>1. CASE history_pending = NonePending
  BY <1>1, NoRequest
<1>2. CASE EncodingOK(history_pending)
  BY <1>2 DEF EncodingOK, Asked, Request
<1>3. QED
  BY <1>1, <1>2 DEF PendingOK

\* The invariant without what follows from the rest.
LEMMA Assemble ==
  ASSUME NewestRing(history), history.total_seq <= MaxSeq, PendingOK, ReaderTypes, ReadersOK,
         audience \in Audiences, live \subseteq audience, restarts \in 0..MaxRestarts
  PROVE  IInv
<1>1. OtherTypes
  BY RingTypes, PendingTypes DEF OtherTypes
<1>2. QED
  BY <1>1, TypesSplit DEF IInv

LEMMA Disassemble ==
  ASSUME IInv
  PROVE  /\ NewestRing(history) /\ history.total_seq <= MaxSeq /\ PendingOK /\ ReaderTypes /\ ReadersOK
         /\ audience \in Audiences /\ live \subseteq audience /\ restarts \in 0..MaxRestarts
         /\ RingOK(history) /\ history.total_seq \in Nat /\ history.first_seq \in Nat
         /\ history.first_seq <= history.total_seq
<1>1. ReaderTypes /\ OtherTypes /\ NewestRing(history) /\ RingOK(history)
  BY TypesSplit DEF IInv, NewestRing
<1>2. history.total_seq \in Nat /\ history.first_seq \in Nat /\ history.total_seq <= MaxSeq
  BY <1>1, HistoryAssumption DEF OtherTypes, Seqs
<1>3. Covers(history.chunks, history.first_seq, history.total_seq)
  BY <1>1 DEF RingOK
<1>4. history.first_seq <= history.total_seq
  BY <1>3, CoversOrder
<1>5. QED
  BY <1>1, <1>2, <1>4 DEF IInv, OtherTypes

LEMMA InitOK == Init => IInv
<1> SUFFICES ASSUME Init PROVE IInv
  OBVIOUS
<1>1. NewestRing(history) /\ history.total_seq = 0
  BY EmptyRing DEF Init, sm_rb_init
<1>2. PendingOK
  BY DEF Init, PendingOK
<1>3. MaxSeq \in Nat /\ MaxRestarts \in Nat
  BY HistoryAssumption
<1>4. ReaderTypes
  BY <1>3 DEF Init, ReaderTypes, Seqs
<1>5. ASSUME NEW r \in Readers PROVE ReaderOK(r)
  <2>1. cursor[r] = 0 /\ received[r] = {} /\ count[r] = 0 /\ lost[r] = {}
    BY DEF Init
  <2>2. Cardinality({}) = 0
    BY FS_EmptySet
  <2>3. QED
    BY <1>1, <2>1, <2>2 DEF ReaderOK, Told
<1>6. audience \in Audiences /\ live \subseteq audience /\ restarts \in 0..MaxRestarts
  BY <1>3 DEF Init
<1>7. QED
  BY <1>1, <1>2, <1>3, <1>4, <1>5, <1>6, Assemble DEF ReadersOK

\* Output comes: the ring moves on, and what the readers were told stays true.
LEMMA ToRingKeeps ==
  ASSUME IInv, NEW len \in Nat \ {0}, NEW sameTs, ToRing(len, sameTs)
  PROVE  IInv'
<1>1. /\ NewestRing(history) /\ PendingOK /\ ReaderTypes /\ ReadersOK /\ history.total_seq \in Nat
      /\ audience \in Audiences /\ live \subseteq audience /\ restarts \in 0..MaxRestarts
  BY Disassemble
<1>2. /\ history' = sm_rb_append(history, len, sameTs) /\ history.total_seq + len <= MaxSeq
      /\ history_pending' = history_pending /\ audience' = audience /\ live' = live /\ restarts' = restarts
      /\ cursor' = cursor /\ received' = received /\ count' = count /\ lost' = lost /\ synced' = synced
      /\ fresh' = fresh
  BY DEF ToRing, readerVars
<1>3. NewestRing(history') /\ history'.total_seq = history.total_seq + len
  BY <1>1, <1>2, AppendKeeps
<1>4. PICK old : old = history.total_seq
  OBVIOUS
<1>5. PICK new : new = history'.total_seq
  OBVIOUS
<1>6. old \in Nat /\ new \in Nat /\ old <= new /\ new <= MaxSeq
  BY <1>1, <1>2, <1>3, <1>4, <1>5
<1>7. cursor \in [Readers -> Nat]
  BY <1>1 DEF ReaderTypes, Seqs
<1>8. ReadersOK'
  <2> SUFFICES ASSUME NEW r \in Readers PROVE ReaderOK(r)'
    BY DEF ReadersOK
  <2>1. ReaderOK(r) /\ cursor[r] \in Nat
    BY <1>1, <1>7 DEF ReadersOK
  <2>2. Told(r)' <=> Told(r)
    BY <1>2 DEF Told
  <2>3. cursor[r] <= old => cursor[r] <= new
    BY <1>6, <2>1
  <2>4. QED
    BY <1>2, <1>4, <1>5, <2>1, <2>2, <2>3 DEF ReaderOK
<1>9. PendingOK'
  <2>1. CASE history_pending = NonePending
    BY <1>2, <2>1 DEF PendingOK
  <2>2. CASE history_pending # NonePending
    <3>1. PICK p : p = history_pending
      OBVIOUS
    <3>2. /\ EncodingOK(p) /\ p.client \in (live \ Agents) \cup {Nobody}
          /\ IF p.paged THEN PageAsked(p) ELSE TailAsked(p)
      BY <1>1, <2>2, <3>1 DEF PendingOK
    <3>3. p.paged => PageAsked(p)'
      <4> SUFFICES ASSUME p.paged PROVE PageAsked(p)'
        OBVIOUS
      <4>1. PageAsked(p)
        BY <3>2
      <4>2. p.cursor \in Nat
        BY <3>2 DEF EncodingOK, Asked, Request
      <4>3. p.cursor <= old => p.cursor <= new
        BY <1>6, <4>2
      <4>4. QED
        BY <1>2, <1>4, <1>5, <4>1, <4>3 DEF PageAsked
    <3>4. history_pending' = p
      BY <1>2, <3>1
    <3>5. QED
      BY <1>2, <3>2, <3>3, <3>4 DEF PendingOK
  <2>3. QED
    BY <2>1, <2>2
<1>10. ReaderTypes'
  BY <1>1, <1>2 DEF ReaderTypes
<1>11. NewestRing(history)' /\ (history.total_seq <= MaxSeq)'
  BY <1>3, <1>5, <1>6
<1>12. (audience \in Audiences)' /\ (live \subseteq audience)' /\ (restarts \in 0..MaxRestarts)'
  BY <1>1, <1>2
<1>13. QED
  BY <1>8, <1>9, <1>10, <1>11, <1>12, Assemble, PTL


\* A request for a page, before anything is encoded.
LEMMA StartsRequest ==
  ASSUME NEW cs, NEW skip, NEW next, NEW want \in Nat, IsPage(cs, skip, next, want, PageBytes),
         NEW p \in Request, p.chunks = cs, p.skip = skip, p.index = 0, p.encoded = 0, p.out = {}, p.paged
  PROVE  EncodingOK(p) /\ First(p) = want /\ Stop(p) = next
<1>1. First(p) = want /\ Final(p) = End(cs[Len(cs)])
  BY DEF First, Final, IsPage
<1>2. Stop(p) = next
  BY <1>1 DEF Stop, IsPage
<1>3. Pos(p) = want
  BY <1>1 DEF Pos
<1>4. Asked(p)
  BY <1>1, <1>2 DEF Asked, IsPage
<1>5. 0 <= Len(p.chunks)
  BY DEF Request
<1>6. want .. (want - 1) = {} /\ want - want = 0
  OBVIOUS
<1>7. EncodingOK(p)
  BY <1>1, <1>3, <1>4, <1>5, <1>6 DEF EncodingOK
<1>8. QED
  BY <1>1, <1>2, <1>7

\* An empty page is an answer.
LEMMA NothingNew ==
  ASSUME IInv, NEW r \in Readers, NEW page, GetsPage(history, cursor[r], PageBytes, page), page.chunks = <<>>
  PROVE  Answers(r, {}, 0, page.cursor, page.dropped)
<1>1. PICK since : since = cursor[r]
  OBVIOUS
<1>2. PICK total : total = history.total_seq
  OBVIOUS
<1>3. PICK first : first = history.first_seq
  OBVIOUS
<1>4. PICK want : want = Larger(since, first)
  OBVIOUS
<1>5. since \in Nat /\ total \in Nat /\ first \in Nat /\ first <= total
  BY <1>1, <1>2, <1>3, Disassemble DEF ReaderTypes, Seqs
<1>6. page.dropped = want - since /\ page.cursor = total /\ want >= total
  <2>1. /\ page.dropped = want - since
        /\ IF want >= total THEN page.chunks = <<>> /\ page.cursor = total
           ELSE IsPage(page.chunks, page.first_skip, page.cursor, want, PageBytes)
    BY <1>1, <1>2, <1>3, <1>4 DEF GetsPage
  <2>2. want >= total
    BY <2>1 DEF IsPage
  <2>3. QED
    BY <2>1, <2>2
<1>7. want \in Nat /\ page.dropped \in Nat /\ since + page.dropped = want
  BY <1>4, <1>5, <1>6 DEF Larger
<1>8. IF since > total THEN page.dropped = 0 ELSE want = total
  BY <1>4, <1>5, <1>6 DEF Larger
<1>9. Cardinality({}) = 0
  BY FS_EmptySet
<1>10. CASE since > total
  <2>1. /\ page.dropped = 0 /\ page.dropped \in Nat /\ page.cursor \in Nat /\ page.cursor <= history.total_seq
        /\ cursor[r] > history.total_seq
    <3>1. page.dropped = 0
      BY <1>8, <1>10
    <3>2. page.cursor \in Nat /\ page.cursor <= history.total_seq
      BY <1>2, <1>5, <1>6
    <3>3. cursor[r] > history.total_seq
      BY <1>1, <1>2, <1>10
    <3>4. QED
      BY <3>1, <3>2, <3>3
  <2>2. QED
    BY <1>9, <2>1 DEF Answers
<1>11. CASE ~ (since > total)
  <2>1. want .. (total - 1) = {} /\ want <= total
    BY <1>5, <1>8, <1>11
  <2>2. QED
    <3>1. (cursor[r] + page.dropped) .. (page.cursor - 1) = {}
      BY <1>1, <1>6, <1>7, <2>1
    <3>2. cursor[r] + page.dropped <= page.cursor /\ page.cursor <= history.total_seq /\ page.cursor \in Nat
      BY <1>1, <1>2, <1>5, <1>6, <1>7, <2>1
    <3>3. QED
      BY <1>1, <1>2, <1>7, <1>9, <1>11, <3>1, <3>2 DEF Answers
<1>12. QED
  BY <1>10, <1>11

LEMMA HistoryRequestKeeps ==
  ASSUME IInv, NEW r \in Readers, handle_history_request(r)
  PROVE  IInv'
<1>1. /\ NewestRing(history) /\ RingOK(history) /\ PendingOK /\ ReaderTypes /\ ReadersOK /\ history.total_seq \in Nat
      /\ history.first_seq \in Nat /\ history.total_seq <= MaxSeq
      /\ audience \in Audiences /\ live \subseteq audience /\ restarts \in 0..MaxRestarts
  BY Disassemble
<1>2. PICK page : page = sm_rb_get_since_seq(history, cursor[r], PageBytes)
  OBVIOUS
<1>3. cursor[r] \in Nat /\ PageBytes \in Nat \ {0}
  BY <1>1, HistoryAssumption DEF ReaderTypes, Seqs
<1>4. GetsPage(history, cursor[r], PageBytes, page)
  BY <1>1, <1>2, <1>3, SincePage
<1>5. /\ r \in live \ Agents /\ history_pending = NonePending
      /\ UNCHANGED <<history, audience, live, fresh, restarts>>
  BY DEF handle_history_request
<1>6. /\ page.chunks = <<>> => Respond(r, cursor[r], {}, 0, page.cursor, page.dropped) /\ UNCHANGED history_pending
      /\ page.chunks # <<>> =>
           /\ history_pending' = [client |-> r, chunks |-> page.chunks, index |-> 0,
                                  skip |-> page.first_skip, encoded |-> 0, out |-> {},
                                  paged |-> TRUE, since |-> cursor[r], cursor |-> page.cursor,
                                  dropped |-> page.dropped, has_more |-> page.has_more,
                                  tail |-> 0, had |-> 0..-1]
           /\ UNCHANGED readerVars
  BY <1>2 DEF handle_history_request
<1>7. ReaderTypes' /\ ReadersOK'
  <2>1. CASE page.chunks = <<>>
    <3>1. Answers(r, {}, 0, page.cursor, page.dropped)
      BY <1>4, <2>1, NothingNew
    <3>2. QED
      BY <1>5, <1>6, <2>1, <3>1, RespondKeeps
  <2>2. CASE page.chunks # <<>>
    <3>1. UNCHANGED <<cursor, received, count, lost, synced, fresh, history>>
      BY <1>5, <1>6, <2>2 DEF readerVars
    <3>2. QED
      BY <1>1, <3>1 DEF ReaderTypes, ReadersOK, ReaderOK, Told
  <2>3. QED
    BY <2>1, <2>2
<1>8. PendingOK'
  <2>1. CASE page.chunks = <<>>
    BY <1>5, <1>6, <2>1 DEF PendingOK
  <2>2. CASE page.chunks # <<>>
    <3>1. PICK p : p = history_pending'
      OBVIOUS
    <3>2. PICK want : want = Larger(cursor[r], history.first_seq)
      OBVIOUS
    <3>3. want \in Nat /\ want >= cursor[r]
      BY <1>1, <1>3, <3>2 DEF Larger
    <3>4. /\ IsPage(page.chunks, page.first_skip, page.cursor, want, PageBytes)
          /\ page.cursor <= history.total_seq
          /\ page.dropped = want - cursor[r] /\ page.has_more \in BOOLEAN
      BY <1>4, <2>2, <3>2 DEF GetsPage
    <3>5. page.chunks \in Seq(Chunk) /\ page.first_skip \in Nat /\ page.cursor \in Nat /\ page.dropped \in Nat
      <4>1. page.chunks \in Seq(Chunk) /\ page.first_skip \in Nat /\ End(page.chunks[Len(page.chunks)]) \in Nat
        BY <3>4 DEF IsPage, Covers
      <4>2. page.cursor \in Nat
        BY <1>3, <3>3, <3>4, <4>1 DEF IsPage, Smaller
      <4>3. page.dropped \in Nat
        BY <1>3, <3>3, <3>4
      <4>4. QED
        BY <4>1, <4>2, <4>3
    <3>6. 0..-1 = {}
      OBVIOUS
    <3>7. /\ p.client = r /\ p.chunks = page.chunks /\ p.index = 0 /\ p.skip = page.first_skip
          /\ p.encoded = 0 /\ p.out = {} /\ p.paged = TRUE /\ p.since = cursor[r] /\ p.cursor = page.cursor
          /\ p.dropped = page.dropped
      BY <1>6, <2>2, <3>1
    <3>8. p \in Request
      <4>1. PICK more \in BOOLEAN : more = page.has_more
        BY <3>4
      <4>2. PICK skip \in Nat : skip = page.first_skip
        BY <3>5
      <4>3. PICK next \in Nat : next = page.cursor
        BY <3>5
      <4>4. PICK gone \in Nat : gone = page.dropped
        BY <3>5
      <4>5. PICK cs \in Seq(Chunk) : cs = page.chunks
        BY <3>5
      <4>6. PICK since \in Nat : since = cursor[r]
        BY <1>3
      <4>7. PICK had \in SUBSET Nat : had = 0..-1
        BY <3>6
      <4>8. p = [client |-> r, chunks |-> cs, index |-> 0, skip |-> skip, encoded |-> 0, out |-> {},
                 paged |-> TRUE, since |-> since, cursor |-> next, dropped |-> gone, has_more |-> more,
                 tail |-> 0, had |-> had]
        BY <1>6, <2>2, <3>1, <4>1, <4>2, <4>3, <4>4, <4>5, <4>6, <4>7
      <4>9. QED
        BY <4>8 DEF Request
    <3>9. EncodingOK(p) /\ First(p) = want /\ Stop(p) = page.cursor
      BY <3>3, <3>4, <3>7, <3>8, StartsRequest
    <3>10. UNCHANGED <<cursor, history>>
      BY <1>5, <1>6, <2>2 DEF readerVars
    <3>11. PageAsked(p)'
      <4>1. First(p) = p.since + p.dropped
        BY <1>3, <3>3, <3>4, <3>7, <3>9
      <4>2. QED
        BY <3>4, <3>7, <3>9, <3>10, <4>1 DEF PageAsked
    <3>12. p.client \in (live' \ Agents) \cup {Nobody}
      BY <1>5, <3>7
    <3>13. QED
      BY <3>1, <3>7, <3>9, <3>11, <3>12 DEF PendingOK
  <2>3. QED
    BY <2>1, <2>2
<1>9. /\ NewestRing(history)' /\ (history.total_seq <= MaxSeq)' /\ (audience \in Audiences)'
      /\ (live \subseteq audience)' /\ (restarts \in 0..MaxRestarts)'
  BY <1>1, <1>5
<1>10. QED
  BY <1>7, <1>8, <1>9, Assemble, PTL


LEMMA ProcessKeeps ==
  ASSUME IInv, process_history_pending
  PROVE  IInv'
<1>1. /\ NewestRing(history) /\ RingOK(history) /\ PendingOK /\ ReaderTypes /\ ReadersOK /\ history.total_seq \in Nat
      /\ history.total_seq <= MaxSeq
      /\ audience \in Audiences /\ live \subseteq audience /\ restarts \in 0..MaxRestarts
  BY Disassemble
<1>2. PICK p : p = history_pending
  OBVIOUS
<1>3. PICK done : done = Encoded(p, EncodeChunks, p.encoded + EncodeBytes)
  OBVIOUS
<1>4. p # NonePending /\ UNCHANGED <<history, audience, live, fresh, restarts>>
  BY <1>2 DEF process_history_pending
<1>5. /\ EncodingOK(p) /\ p.client \in (live \ Agents) \cup {Nobody}
      /\ IF p.paged THEN PageAsked(p) ELSE TailAsked(p)
  BY <1>1, <1>2, <1>4 DEF PendingOK
<1>6. EncodingOK(done) /\ SameRequest(p, done)
  BY <1>3, <1>5, EncodedIs, HistoryAssumption
<1>7. /\ done.index < Len(done.chunks) => history_pending' = done /\ UNCHANGED readerVars
      /\ ~ (done.index < Len(done.chunks)) =>
           /\ history_pending' = NonePending
           /\ IF p.client \in live /\ p.paged
              THEN Respond(p.client, p.since, done.out, done.encoded, p.cursor, p.dropped)
              ELSE UNCHANGED readerVars
  BY <1>2, <1>3 DEF process_history_pending
<1>8. First(done) = First(p) /\ Final(done) = Final(p) /\ Stop(done) = Stop(p)
  BY <1>6 DEF First, Final, Stop, SameRequest
<1>9. PendingOK'
  <2>1. CASE done.index < Len(done.chunks)
    <3>1. history_pending' = done /\ UNCHANGED <<cursor, history, live>>
      BY <1>4, <1>7, <2>1 DEF readerVars
    <3>2. done.client \in (live' \ Agents) \cup {Nobody}
      BY <1>5, <1>6, <3>1 DEF SameRequest
    <3>3. CASE p.paged
      <4>1. PageAsked(done)' /\ done.paged
        BY <1>5, <1>6, <1>8, <3>1, <3>3 DEF PageAsked, SameRequest
      <4>2. QED
        BY <1>6, <3>1, <3>2, <4>1 DEF PendingOK
    <3>4. CASE ~ p.paged
      <4>1. TailAsked(done) /\ ~ done.paged
        BY <1>5, <1>6, <1>8, <3>4 DEF TailAsked, SameRequest
      <4>2. QED
        BY <1>6, <3>1, <3>2, <4>1 DEF PendingOK
    <3>5. QED
      BY <3>3, <3>4
  <2>2. CASE ~ (done.index < Len(done.chunks))
    BY <1>7, <2>2 DEF PendingOK
  <2>3. QED
    BY <2>1, <2>2
<1>10. ReaderTypes' /\ ReadersOK'
  <2>1. CASE UNCHANGED readerVars
    BY <1>1, <1>4, <2>1 DEF readerVars, ReaderTypes, ReadersOK, ReaderOK, Told
  <2>2. CASE /\ ~ (done.index < Len(done.chunks)) /\ p.client \in live /\ p.paged
             /\ Respond(p.client, p.since, done.out, done.encoded, p.cursor, p.dropped)
    <3>1. PICK r : r = p.client
      OBVIOUS
    <3>2. r \in Readers /\ r \in live \ Agents /\ r # Nobody
      BY <1>1, <1>5, <2>2, <3>1, HistoryAssumption
    <3>3. /\ p.cursor = Stop(p) /\ First(p) = p.since + p.dropped /\ p.since = cursor[r]
          /\ p.cursor <= history.total_seq
      BY <1>5, <2>2, <3>1, <3>2 DEF PageAsked
    <3>4. /\ done.index = Len(done.chunks) /\ Len(done.chunks) > 0
          /\ p.since \in Nat /\ p.dropped \in Nat /\ p.cursor \in Nat
      <4>1. /\ done.index \in Nat /\ done.index <= Len(done.chunks) /\ done.chunks \in Seq(Chunk)
            /\ done.chunks # <<>>
        BY <1>6 DEF EncodingOK, Asked, Request
      <4>2. PICK n : n = Len(done.chunks)
        OBVIOUS
      <4>3. n \in Nat /\ n > 0 /\ done.index <= n /\ ~ (done.index < n)
        BY <2>2, <4>1, <4>2
      <4>4. p.since \in Nat /\ p.dropped \in Nat /\ p.cursor \in Nat
        BY <1>5 DEF EncodingOK, Asked, Request
      <4>5. QED
        BY <4>1, <4>2, <4>3, <4>4
    <3>5. Pos(done) = Stop(p)
      BY <1>8, <3>4 DEF Pos
    <3>6. done.encoded = p.cursor - First(p) /\ done.out = First(p) .. (p.cursor - 1)
      BY <1>6, <1>8, <3>3, <3>5 DEF EncodingOK
    <3>7. done.encoded \in Nat
      BY <1>6 DEF EncodingOK, Asked, Request
    <3>8. Answers(r, done.out, done.encoded, p.cursor, p.dropped)
      <4>1. PICK f : f = First(p)
        OBVIOUS
      <4>2. f \in Nat /\ f = cursor[r] + p.dropped /\ f <= p.cursor /\ cursor[r] \in Nat
        BY <3>3, <3>4, <3>6, <3>7, <4>1
      <4>3. Cardinality(f .. (p.cursor - 1)) = p.cursor - f
        BY <3>4, <4>2, RangeSize
      <4>4. done.encoded = Cardinality(done.out)
        BY <3>6, <4>1, <4>3
      <4>5. done.out = (cursor[r] + p.dropped) .. (p.cursor - 1)
        BY <3>6, <4>1, <4>2
      <4>6. ~ (cursor[r] > history.total_seq) /\ cursor[r] + p.dropped <= p.cursor
        BY <1>1, <3>3, <3>4, <4>2
      <4>7. QED
        BY <3>3, <3>4, <4>4, <4>5, <4>6 DEF Answers
    <3>9. Respond(r, cursor[r], done.out, done.encoded, p.cursor, p.dropped)
      BY <2>2, <3>1, <3>3
    <3>10. QED
      BY <1>4, <3>2, <3>8, <3>9, RespondKeeps
  <2>3. QED
    BY <1>7, <2>1, <2>2
<1>11. /\ NewestRing(history)' /\ (history.total_seq <= MaxSeq)' /\ (audience \in Audiences)'
       /\ (live \subseteq audience)' /\ (restarts \in 0..MaxRestarts)'
  BY <1>1, <1>4
<1>12. QED
  BY <1>9, <1>10, <1>11, Assemble, PTL


\* What an agent's page holds.
LEMMA AgentPage ==
  ASSUME NEW page, NEW want \in Nat, IsPage(page.chunks, page.first_skip, page.cursor, want, PageBytes)
  PROVE  history_json_page(page).out = want .. (page.cursor - 1)
<1>1. PICK cs : cs = page.chunks
  OBVIOUS
<1>2. PICK skip : skip = page.first_skip
  OBVIOUS
<1>3. IsPage(cs, skip, page.cursor, want, PageBytes) /\ cs \in Seq(Chunk) /\ skip \in Nat /\ cs # <<>>
  BY <1>1, <1>2 DEF IsPage, Covers
<1>4. PICK p : p = [NonePending EXCEPT !.chunks = cs, !.skip = skip, !.paged = TRUE]
  OBVIOUS
<1>5. 0..-1 = {}
  OBVIOUS
<1>6. p = [client |-> Nobody, chunks |-> cs, index |-> 0, skip |-> skip, encoded |-> 0,
           out |-> {}, paged |-> TRUE, since |-> 0, cursor |-> 0, dropped |-> 0, has_more |-> FALSE,
           tail |-> 0, had |-> {}]
  BY <1>4, <1>5 DEF NonePending
<1>7. p \in Request /\ p.chunks = cs /\ p.skip = skip /\ p.index = 0 /\ p.encoded = 0 /\ p.out = {} /\ p.paged = TRUE
  BY <1>3, <1>6 DEF Request
<1>8. EncodingOK(p) /\ First(p) = want /\ Stop(p) = page.cursor
  BY <1>3, <1>7, StartsRequest
<1>9. PICK q : q = Encoded(p, Len(p.chunks), PageBytes)
  OBVIOUS
<1>10. history_json_page(page) = q
  BY <1>1, <1>2, <1>4, <1>7, <1>9 DEF history_json_page
<1>11. PICK n \in Nat : n = Len(p.chunks)
  BY <1>3, <1>7
<1>12. EncodingOK(q) /\ SameRequest(p, q)
  BY <1>8, <1>9, <1>11, EncodedIs
<1>13. q.index = Len(p.chunks)
  BY <1>7, <1>8, <1>9, EncodedWhole
<1>14. q.chunks = p.chunks /\ Len(q.chunks) = n /\ n # 0 /\ ~ (n < n)
  BY <1>3, <1>7, <1>11, <1>12 DEF SameRequest
<1>15. First(q) = want /\ Stop(q) = page.cursor
  BY <1>8, <1>12 DEF First, Final, Stop, SameRequest
<1>16. Pos(q) = page.cursor
  BY <1>11, <1>13, <1>14, <1>15 DEF Pos
<1>17. QED
  BY <1>10, <1>12, <1>15, <1>16 DEF EncodingOK

LEMMA NoAgentPage ==
  ASSUME NEW page, page.chunks = <<>>
  PROVE  history_json_page(page).out = {}
<1>1. PICK p : p = [NonePending EXCEPT !.chunks = page.chunks, !.skip = page.first_skip, !.paged = TRUE]
  OBVIOUS
<1>2. p.chunks = <<>> /\ p.index = 0 /\ p.out = {}
  BY <1>1 DEF NonePending
<1>3. Len(page.chunks) = 0 /\ ~ (p.index < Len(p.chunks))
  BY <1>2
<1>4. history_json_page(page) = Encoded(p, 0, PageBytes)
  BY <1>1, <1>3 DEF history_json_page
<1>5. \A x \in {p} : EncodeMore(x, PageBytes) \in {p}
  BY <1>3 DEF EncodeMore
<1>6. PICK f \in [0 .. 0 -> {p}] : IsEncoding(f, p, 0, PageBytes)
  BY <1>5, EncodedIterates
<1>7. Encoded(p, 0, PageBytes) = p
  BY <1>6 DEF IsEncoding
<1>8. QED
  BY <1>2, <1>4, <1>7

LEMMA AgentKeeps ==
  ASSUME IInv, NEW r \in Agents, tool_serial_output_history(r)
  PROVE  IInv'
<1>1. /\ NewestRing(history) /\ RingOK(history) /\ PendingOK /\ ReaderTypes /\ ReadersOK /\ history.total_seq \in Nat
      /\ history.first_seq \in Nat /\ history.total_seq <= MaxSeq
      /\ audience \in Audiences /\ live \subseteq audience /\ restarts \in 0..MaxRestarts
  BY Disassemble
<1>2. PICK page : page = sm_rb_get_since_seq(history, cursor[r], PageBytes)
  OBVIOUS
<1>3. r \in Readers /\ cursor[r] \in Nat /\ PageBytes \in Nat \ {0}
  BY <1>1, HistoryAssumption DEF ReaderTypes, Seqs
<1>4. GetsPage(history, cursor[r], PageBytes, page)
  BY <1>1, <1>2, <1>3, SincePage
<1>5. PICK out : out = history_json_page(page).out
  OBVIOUS
<1>6. /\ Respond(r, cursor[r], out \ Nuls, Cardinality(out \ Nuls), page.cursor, page.dropped)
      /\ UNCHANGED <<history, history_pending, audience, live, fresh, restarts>>
  BY <1>2, <1>5 DEF tool_serial_output_history
<1>7. Answers(r, out \ Nuls, Cardinality(out \ Nuls), page.cursor, page.dropped)
  <2>1. CASE page.chunks = <<>>
    <3>1. out \ Nuls = {} /\ Cardinality({}) = 0
      BY <1>5, <2>1, NoAgentPage, FS_EmptySet
    <3>2. Answers(r, {}, 0, page.cursor, page.dropped)
      BY <1>3, <1>4, <2>1, NothingNew
    <3>3. QED
      BY <3>1, <3>2
  <2>2. CASE page.chunks # <<>>
    <3>1. PICK want : want = Larger(cursor[r], history.first_seq)
      OBVIOUS
    <3>2. want \in Nat /\ want >= cursor[r]
      BY <1>1, <1>3, <3>1 DEF Larger
    <3>3. /\ IsPage(page.chunks, page.first_skip, page.cursor, want, PageBytes)
          /\ page.cursor <= history.total_seq /\ page.dropped = want - cursor[r]
          /\ ~ (want >= history.total_seq)
      BY <1>4, <2>2, <3>1 DEF GetsPage
    <3>4. out = want .. (page.cursor - 1)
      BY <1>5, <3>2, <3>3, AgentPage
    <3>5. page.cursor \in Nat /\ want <= page.cursor
      <4>1. PICK cs : cs = page.chunks
        OBVIOUS
      <4>2. PICK n : n = Len(cs)
        OBVIOUS
      <4>3. /\ Covers(cs, cs[1].start, End(cs[n])) /\ cs # <<>> /\ page.first_skip \in Nat
            /\ cs[1].start + page.first_skip = want /\ page.first_skip < cs[1].len
            /\ page.cursor = Smaller(End(cs[n]), want + PageBytes)
        BY <3>3, <4>1, <4>2 DEF IsPage
      <4>4. n \in Nat /\ n >= 1 /\ 1 \in 1 .. Len(cs) /\ n \in 1 .. Len(cs) /\ 1 <= n
        BY <4>2, <4>3 DEF Covers
      <4>5. End(cs[1]) <= End(cs[n]) /\ End(cs[n]) \in Nat
        BY <4>3, <4>4, CoversSorted DEF Covers
      <4>6. cs[1] \in Chunk
        BY <4>3, <4>4, CoversBetween
      <4>7. cs[1].start \in Nat /\ cs[1].len \in Nat /\ End(cs[1]) = cs[1].start + cs[1].len
        BY <4>6, ChunkType DEF End
      <4>8. want <= End(cs[n])
        BY <4>3, <4>5, <4>7
      <4>9. QED
        BY <1>3, <3>2, <4>3, <4>5, <4>8 DEF Smaller
    <3>6. cursor[r] + page.dropped = want /\ page.dropped \in Nat /\ ~ (cursor[r] > history.total_seq)
      BY <1>1, <1>3, <3>2, <3>3
    <3>7. /\ out \ Nuls \subseteq (cursor[r] + page.dropped) .. (page.cursor - 1)
          /\ ((cursor[r] + page.dropped) .. (page.cursor - 1)) \ (out \ Nuls) \subseteq Nuls
      BY <3>4, <3>6
    <3>8. QED
      BY <3>3, <3>5, <3>6, <3>7 DEF Answers
  <2>3. QED
    BY <2>1, <2>2
<1>8. ReaderTypes' /\ ReadersOK'
  BY <1>3, <1>6, <1>7, RespondKeeps
<1>9. PendingOK'
  <2>1. CASE history_pending = NonePending
    BY <1>6, <2>1 DEF PendingOK
  <2>2. CASE history_pending # NonePending
    <3>1. PICK p : p = history_pending
      OBVIOUS
    <3>2. /\ EncodingOK(p) /\ p.client \in (live \ Agents) \cup {Nobody}
          /\ IF p.paged THEN PageAsked(p) ELSE TailAsked(p)
      BY <1>1, <2>2, <3>1 DEF PendingOK
    <3>3. p.client # Nobody => cursor'[p.client] = cursor[p.client]
      <4>1. p.client # Nobody => p.client \in Readers /\ p.client # r
        BY <1>1, <3>2, HistoryAssumption
      <4>2. cursor' = [cursor EXCEPT ![r] = page.cursor]
        BY <1>6 DEF Respond
      <4>3. QED
        BY <1>1, <4>1, <4>2 DEF ReaderTypes
    <3>4. p.paged => PageAsked(p)'
      BY <1>6, <3>2, <3>3 DEF PageAsked
    <3>5. history_pending' = p /\ live' = live
      BY <1>6, <3>1
    <3>6. QED
      BY <3>2, <3>4, <3>5 DEF PendingOK
  <2>3. QED
    BY <2>1, <2>2
<1>10. /\ NewestRing(history)' /\ (history.total_seq <= MaxSeq)' /\ (audience \in Audiences)'
       /\ (live \subseteq audience)' /\ (restarts \in 0..MaxRestarts)'
  BY <1>1, <1>6
<1>11. QED
  BY <1>8, <1>9, <1>10, Assemble, PTL


\* A reader goes: the request it leaves is nobody's.
LEMMA RemoveKeeps ==
  ASSUME IInv, NEW r \in Readers, remove_client(r)
  PROVE  IInv'
<1>1. /\ NewestRing(history) /\ PendingOK /\ ReaderTypes /\ ReadersOK /\ history.total_seq <= MaxSeq
      /\ audience \in Audiences /\ live \subseteq audience /\ restarts \in 0..MaxRestarts
  BY Disassemble
<1>2. /\ live' = live \ {r}
      /\ history_pending' = [history_pending EXCEPT !.client = IF @ = r THEN Nobody ELSE @]
      /\ UNCHANGED <<history, audience, fresh, restarts, cursor, received, count, lost, synced>>
  BY DEF remove_client, readerVars
<1>3. ReaderTypes' /\ ReadersOK'
  BY <1>1, <1>2 DEF ReaderTypes, ReadersOK, ReaderOK, Told
<1>4. PendingOK'
  <2>1. CASE history_pending = NonePending
    <3>1. Nobody # r
      BY HistoryAssumption
    <3>2. [NonePending EXCEPT !.client = IF @ = r THEN Nobody ELSE @] = NonePending
      BY <3>1 DEF NonePending
    <3>3. QED
      BY <1>2, <2>1, <3>2 DEF PendingOK
  <2>2. CASE history_pending # NonePending
    <3>1. PICK p : p = history_pending
      OBVIOUS
    <3>2. PICK q : q = history_pending'
      OBVIOUS
    <3>3. /\ EncodingOK(p) /\ p.client \in (live \ Agents) \cup {Nobody}
          /\ IF p.paged THEN PageAsked(p) ELSE TailAsked(p)
      BY <1>1, <2>2, <3>1 DEF PendingOK
    <3>4. PICK c : c = IF p.client = r THEN Nobody ELSE p.client
      OBVIOUS
    <3>5. q = [p EXCEPT !.client = c] /\ p \in Request /\ c \in Readers \cup {Nobody}
      BY <1>2, <3>1, <3>2, <3>3, <3>4 DEF EncodingOK, Asked, Request
    <3>6. /\ q \in Request /\ q.client = c /\ q.chunks = p.chunks /\ q.index = p.index /\ q.skip = p.skip
          /\ q.encoded = p.encoded /\ q.out = p.out /\ q.paged = p.paged /\ q.since = p.since
          /\ q.cursor = p.cursor /\ q.dropped = p.dropped /\ q.tail = p.tail /\ q.had = p.had
      BY <3>5 DEF Request
    <3>7. First(q) = First(p) /\ Final(q) = Final(p) /\ Stop(q) = Stop(p) /\ Pos(q) = Pos(p)
      BY <3>6 DEF First, Final, Stop, Pos
    <3>8. EncodingOK(q)
      BY <3>3, <3>6, <3>7 DEF EncodingOK, Asked
    <3>9. c \in (live' \ Agents) \cup {Nobody} /\ (c # Nobody => c = p.client)
      BY <1>2, <3>3, <3>4
    <3>10. p.paged => PageAsked(q)'
      BY <1>2, <3>3, <3>6, <3>7, <3>9 DEF PageAsked
    <3>11. ~ p.paged => TailAsked(q)
      BY <3>3, <3>6, <3>7 DEF TailAsked
    <3>12. QED
      BY <3>2, <3>6, <3>8, <3>9, <3>10, <3>11 DEF PendingOK
  <2>3. QED
    BY <2>1, <2>2
<1>5. /\ NewestRing(history)' /\ (history.total_seq <= MaxSeq)' /\ (audience \in Audiences)'
      /\ (live \subseteq audience)' /\ (restarts \in 0..MaxRestarts)'
  BY <1>1, <1>2
<1>6. QED
  BY <1>3, <1>4, <1>5, Assemble, PTL

LEMMA ReconnectKeeps ==
  ASSUME IInv, NEW r \in Readers, Reconnect(r)
  PROVE  IInv'
<1>1. /\ NewestRing(history) /\ PendingOK /\ ReaderTypes /\ ReadersOK /\ history.total_seq <= MaxSeq
      /\ audience \in Audiences /\ live \subseteq audience /\ restarts \in 0..MaxRestarts
  BY Disassemble
<1>2. /\ live' = live \cup {r} /\ r \in audience
      /\ UNCHANGED <<history, history_pending, audience, fresh, restarts, cursor, received, count, lost, synced>>
  BY DEF Reconnect, readerVars
<1>3. ReaderTypes' /\ ReadersOK'
  BY <1>1, <1>2 DEF ReaderTypes, ReadersOK, ReaderOK, Told
<1>4. PendingOK'
  <2>1. CASE history_pending = NonePending
    BY <1>2, <2>1 DEF PendingOK
  <2>2. CASE history_pending # NonePending
    <3>1. PICK p : p = history_pending
      OBVIOUS
    <3>2. /\ EncodingOK(p) /\ p.client \in (live \ Agents) \cup {Nobody}
          /\ IF p.paged THEN PageAsked(p) ELSE TailAsked(p)
      BY <1>1, <2>2, <3>1 DEF PendingOK
    <3>3. p.paged => PageAsked(p)'
      BY <1>2, <3>2 DEF PageAsked
    <3>4. p.client \in (live' \ Agents) \cup {Nobody} /\ history_pending' = p
      BY <1>2, <3>1, <3>2
    <3>5. QED
      BY <3>2, <3>3, <3>4 DEF PendingOK
  <2>3. QED
    BY <2>1, <2>2
<1>5. /\ NewestRing(history)' /\ (history.total_seq <= MaxSeq)' /\ (audience \in Audiences)'
      /\ (live \subseteq audience)' /\ (restarts \in 0..MaxRestarts)'
  BY <1>1, <1>2
<1>6. QED
  BY <1>3, <1>4, <1>5, Assemble, PTL

\* A new broker knows nothing of the readers, whose cursors may be ahead of it.
LEMMA RestartKeeps ==
  ASSUME IInv, BrokerRestarts
  PROVE  IInv'
<1>1. /\ ReaderTypes /\ audience \in Audiences /\ live \subseteq audience /\ restarts \in 0..MaxRestarts
      /\ MaxSeq \in Nat /\ MaxRestarts \in Nat
  BY Disassemble, HistoryAssumption
<1>2. /\ restarts < MaxRestarts /\ restarts' = restarts + 1 /\ history' = sm_rb_init
      /\ history_pending' = NonePending /\ received' = [r \in Readers |-> {}]
      /\ count' = [r \in Readers |-> 0] /\ lost' = [r \in Readers |-> {}]
      /\ synced' = [r \in Readers |-> FALSE] /\ fresh' = [r \in Readers |-> cursor[r] = 0]
      /\ UNCHANGED <<audience, live, cursor>>
  BY DEF BrokerRestarts
<1>3. NewestRing(history') /\ history'.total_seq = 0
  BY <1>2, EmptyRing DEF sm_rb_init
<1>4. fresh' \in [Readers -> BOOLEAN]
  BY <1>2
<1>5. ReaderTypes'
  BY <1>1, <1>2, <1>4 DEF ReaderTypes
<1>6. ReadersOK'
  <2> SUFFICES ASSUME NEW r \in Readers PROVE ReaderOK(r)'
    BY DEF ReadersOK
  <2>1. received'[r] = {} /\ count'[r] = 0 /\ lost'[r] = {} /\ cursor' = cursor
    BY <1>2
  <2>2. fresh'[r] => cursor'[r] = 0
    BY <1>2
  <2>3. Cardinality({}) = 0
    BY FS_EmptySet
  <2>4. fresh'[r] => Told(r)' /\ cursor'[r] <= history'.total_seq
    BY <1>3, <2>1, <2>2 DEF Told
  <2>5. QED
    BY <2>1, <2>3, <2>4 DEF ReaderOK
<1>7. PendingOK'
  BY <1>2 DEF PendingOK
<1>8. /\ NewestRing(history)' /\ (history.total_seq <= MaxSeq)' /\ (audience \in Audiences)'
      /\ (live \subseteq audience)' /\ (restarts \in 0..MaxRestarts)'
  BY <1>1, <1>2, <1>3
<1>9. QED
  BY <1>5, <1>6, <1>7, <1>8, Assemble, PTL

LEMMA UnchangedKeeps ==
  ASSUME IInv, UNCHANGED vars
  PROVE  IInv'
<1>1. UNCHANGED <<history, history_pending, audience, live, cursor, received, count, lost, synced, fresh, restarts>>
  BY DEF vars, readerVars
<1>2. TypeOK'
  BY <1>1 DEF IInv, TypeOK
<1>3. PendingOK'
  BY <1>1 DEF IInv, PendingOK, PageAsked
<1>4. ReadersOK'
  BY <1>1 DEF IInv, ReadersOK, ReaderOK, Told
<1>5. QED
  BY <1>1, <1>2, <1>3, <1>4 DEF IInv


-----------------------------------------------------------------------------
(* A request for the newest bytes.                                         *)

\* Chunks that follow one another hold the bytes between their ends.
LEMMA BytesOf ==
  ASSUME NEW cs, NEW a, NEW b, Covers(cs, a, b)
  PROVE  Bytes(cs) = b - a
<1>1. PICK n : n = Len(cs) /\ n \in Nat
  BY DEF Covers
<1> DEFINE f == [k \in 0 .. n |-> IF k = 0 THEN 0 ELSE End(cs[k]) - a]
           Is(g) == g = [k \in 0 .. n |-> IF k = 0 THEN 0 ELSE g[k - 1] + cs[k].len]
           pass == CHOOSE g : Is(g)
<1>2. Bytes(cs) = pass[n]
  BY <1>1 DEF Bytes
<1> HIDE DEF pass
<1>3. \A k \in 1 .. n : cs[k] \in Chunk /\ cs[k].start \in Nat /\ cs[k].len \in Nat /\ End(cs[k]) = cs[k].start + cs[k].len
  <2>1. \A k \in 1 .. n : cs[k] \in Chunk
    BY <1>1 DEF Covers
  <2>2. QED
    BY <2>1, ChunkType DEF End
<1>4. a \in Nat /\ b \in Nat /\ \A k \in 1 .. (n - 1) : cs[k + 1].start = End(cs[k])
  BY <1>1 DEF Covers
<1>5. \A k \in 1 .. n : f[k] = f[k - 1] + cs[k].len
  <2> SUFFICES ASSUME NEW k \in 1 .. n PROVE f[k] = f[k - 1] + cs[k].len
    OBVIOUS
  <2>1. f[k] = End(cs[k]) - a
    BY <1>1
  <2>2. CASE k = 1
    <3>1. cs[1].start = a
      BY <1>1 DEF Covers
    <3>2. f[k - 1] = 0
      BY <1>1, <2>2
    <3> HIDE DEF f
    <3>3. QED
      BY <1>3, <1>4, <2>1, <2>2, <3>1, <3>2
  <2>3. CASE k # 1
    <3>1. PICK j : j = k - 1
      OBVIOUS
    <3>2. j \in 1 .. (n - 1) /\ j + 1 = k /\ j \in 0 .. n /\ j # 0
      BY <1>1, <2>3, <3>1
    <3>3. cs[k].start = End(cs[j])
      BY <1>4, <3>2
    <3>4. f[j] = End(cs[j]) - a
      BY <3>2
    <3> HIDE DEF f
    <3>5. QED
      BY <1>3, <1>4, <2>1, <3>1, <3>3, <3>4
  <2>4. QED
    BY <2>2, <2>3
<1>6. f[0] = 0
  BY <1>1
<1>7. Is(f)
  <2> DEFINE rhs == [k \in 0 .. n |-> IF k = 0 THEN 0 ELSE f[k - 1] + cs[k].len]
  <2>1. \A k \in 0 .. n : f[k] = rhs[k]
    <3> HIDE DEF f
    <3> QED
      BY <1>1, <1>5, <1>6
  <2>2. f = rhs
    <3>1. DOMAIN f = 0 .. n /\ DOMAIN rhs = 0 .. n
      OBVIOUS
    <3> QED
      BY <2>1
  <2>3. QED
    BY <2>2
<1> HIDE DEF f
<1>8. Is(pass)
  BY <1>7 DEF pass
<1>9. pass[0] = 0 /\ \A k \in 1 .. n : pass[k] = pass[k - 1] + cs[k].len
  BY <1>1, <1>8
<1> DEFINE Good == {k \in 0 .. n : pass[k] = f[k]}
<1>10. 0 \in Good
  BY <1>1, <1>6, <1>9
<1>11. ASSUME NEW k \in 1 .. n, k - 1 \in Good PROVE k \in Good
  BY <1>1, <1>5, <1>9, <1>11
<1> HIDE DEF Good
<1>12. \A k \in 0 .. n : k \in Good
  BY <1>1, <1>10, <1>11, Induction
<1>13. pass[n] = f[n]
  <2>1. n \in Good
    BY <1>1, <1>12
  <2>2. QED
    BY <2>1 DEF Good
<1>14. CASE n = 0
  <2>1. cs = <<>>
    <3>1. cs \in Seq(Chunk) /\ Len(cs) = 0
      BY <1>1, <1>14 DEF Covers
    <3>2. QED
      BY <3>1
  <2>2. a = b
    BY <2>1 DEF Covers
  <2>3. QED
    BY <1>2, <1>4, <1>6, <1>13, <1>14, <2>2
<1>15. CASE n # 0
  <2>1. End(cs[n]) = b
    BY <1>1, <1>15 DEF Covers
  <2>2. f[n] = End(cs[n]) - a
    BY <1>1, <1>15 DEF f
  <2>3. QED
    BY <1>2, <1>13, <2>1, <2>2
<1>16. QED
  BY <1>14, <1>15

\* p is the chunks from the i-th of cs on.
IsLast(p, cs, i, a, b) ==
  /\ Covers(p, cs[i].start, b) /\ p # <<>> /\ p[1] = cs[i]
  /\ Bytes(p) = b - cs[i].start /\ a <= cs[i].start /\ cs[i].start \in Nat

LEMMA LastChunks ==
  ASSUME NEW cs, NEW a, NEW b, Covers(cs, a, b), NEW n, n = Len(cs), NEW i \in 1 .. n
  PROVE  IsLast(SubSeq(cs, i, n), cs, i, a, b)
<1> DEFINE p == SubSeq(cs, i, n)
<1>1. cs \in Seq(Chunk) /\ n \in Nat
  BY DEF Covers
<1>2. i \in 1 .. Len(cs) /\ n \in i .. Len(cs)
  BY <1>1
<1>3. Covers(p, cs[i].start, End(cs[n])) /\ p # <<>>
  BY <1>2, CoversPart
<1>4. End(cs[n]) = b
  <2>1. cs # <<>>
    BY <1>1
  <2>2. QED
    BY <2>1 DEF Covers
<1>5. p[1] = cs[i]
  BY <1>1
<1>6. Bytes(p) = b - cs[i].start
  BY <1>3, <1>4, BytesOf
<1>7. a <= cs[i].start /\ cs[i].start \in Nat
  BY <1>2, CoversBetween, ChunkType
<1>8. QED
  BY <1>3, <1>4, <1>5, <1>6, <1>7 DEF IsLast

\* The newest chunks p of the chunks cs, which hold the bytes from a to b.
IsTail(p, a, b) == p # <<>> /\ Covers(p, p[1].start, b) /\ a <= p[1].start

LEMMA WithinIs ==
  ASSUME NEW cs, NEW a, NEW b, Covers(cs, a, b), NEW max \in Nat,
         NEW kept, kept = NewestWithin(cs, max), kept # <<>>
  PROVE  IsTail(kept, a, b) /\ (kept[1].start = a \/ b - a > max)
<1>1. PICK n : n = Len(cs)
  OBVIOUS
<1>2. n \in Nat /\ cs \in Seq(Chunk) /\ a \in Nat /\ b \in Nat
  BY <1>1 DEF Covers
<1> DEFINE starts == {i \in 1 .. n : Bytes(SubSeq(cs, i, n)) <= max}
           i0 == CHOOSE i \in starts : \A j \in starts : i <= j
<1>3. kept = IF starts = {} THEN <<>> ELSE SubSeq(cs, i0, n)
  BY <1>1 DEF NewestWithin
<1>4. \A i \in 1 .. n : (i \in starts <=> b - cs[i].start <= max) /\ cs[i].start \in Nat /\ a <= cs[i].start
  <2> SUFFICES ASSUME NEW i \in 1 .. n
               PROVE  (i \in starts <=> b - cs[i].start <= max) /\ cs[i].start \in Nat /\ a <= cs[i].start
    OBVIOUS
  <2>1. PICK p : p = SubSeq(cs, i, n)
    OBVIOUS
  <2>2. Bytes(p) = b - cs[i].start /\ cs[i].start \in Nat /\ a <= cs[i].start
    <3>1. IsLast(p, cs, i, a, b)
      BY <1>1, <2>1, LastChunks
    <3>2. QED
      BY <3>1 DEF IsLast
  <2>3. QED
    BY <2>1, <2>2
<1>5. starts # {} /\ starts \in SUBSET Nat
  BY <1>2, <1>3
<1>6. \E i \in starts : \A j \in starts : i <= j
  <2> HIDE DEF starts
  <2> QED
    BY <1>5, LeastNatural
<1>7. i0 \in starts /\ \A j \in starts : i0 <= j
  <2> HIDE DEF starts
  <2> QED
    BY <1>6
<1>8. i0 \in 1 .. n
  BY <1>7
<1> HIDE DEF starts, i0
<1>9. kept = SubSeq(cs, i0, n)
  BY <1>3, <1>5
<1>10. Covers(kept, cs[i0].start, b) /\ kept[1] = cs[i0] /\ a <= cs[i0].start
  <2>1. IsLast(kept, cs, i0, a, b)
    BY <1>1, <1>8, <1>9, LastChunks
  <2>2. QED
    BY <2>1 DEF IsLast
<1>11. IsTail(kept, a, b)
  BY <1>10 DEF IsTail
<1>12. CASE i0 = 1
  <2>1. cs # <<>>
    BY <1>1, <1>2, <1>8
  <2>2. cs[1].start = a
    BY <2>1 DEF Covers
  <2>3. QED
    BY <1>10, <1>11, <1>12, <2>2
<1>13. CASE i0 # 1
  <2>1. PICK j : j = i0 - 1
    OBVIOUS
  <2>2. j \in 1 .. n /\ ~ (i0 <= j)
    BY <1>2, <1>8, <1>13, <2>1
  <2>3. j \notin starts
    BY <1>7, <2>2
  <2>4. ~ (b - cs[j].start <= max) /\ cs[j].start \in Nat /\ a <= cs[j].start
    BY <1>4, <2>2, <2>3
  <2>5. b - a > max
    BY <1>2, <2>4
  <2>6. QED
    BY <1>11, <2>5
<1>14. QED
  BY <1>12, <1>13


LEMMA LastBytesIs ==
  ASSUME NEW rb, NEW a, NEW b, Covers(rb.chunks, a, b), NEW n \in Nat \ {0},
         NEW found, found = sm_rb_get_last_n_bytes(rb, n), found # <<>>
  PROVE  IsTail(found, a, b) /\ (found[1].start = a \/ b - found[1].start >= n)
<1>1. PICK cs : cs = rb.chunks
  OBVIOUS
<1>2. PICK last : last = Len(cs)
  OBVIOUS
<1>3. last \in Nat /\ cs \in Seq(Chunk) /\ a \in Nat /\ b \in Nat /\ Covers(cs, a, b)
  BY <1>1, <1>2 DEF Covers
<1> DEFINE starts == {i \in 1 .. last : i = 1 \/ Bytes(SubSeq(cs, i, last)) >= n}
           i0 == CHOOSE i \in starts : \A j \in starts : j <= i
<1>4. found = IF last = 0 \/ n = 0 THEN <<>> ELSE SubSeq(cs, i0, last)
  BY <1>1, <1>2 DEF sm_rb_get_last_n_bytes
<1>5. last # 0
  BY <1>4
<1>6. i0 \in starts
  <2>1. 1 \in starts /\ \A i \in starts : i \in 1 .. last
    BY <1>3, <1>5
  <2> HIDE DEF starts
  <2> DEFINE left == {last - i : i \in starts}
  <2>2. left \in SUBSET Nat /\ left # {}
    BY <1>3, <2>1
  <2>3. PICK x \in left : \A y \in left : x <= y
    BY <2>2, LeastNatural
  <2>4. PICK i \in starts : x = last - i
    BY <2>3
  <2>5. ASSUME NEW j \in starts PROVE j <= i
    <3>1. last - j \in left
      OBVIOUS
    <3>2. x <= last - j
      BY <2>3, <3>1
    <3>3. QED
      BY <1>3, <2>1, <2>4, <3>2
  <2>6. \E k \in starts : \A j \in starts : j <= k
    BY <2>5
  <2>7. QED
    BY <2>6
<1>7. i0 \in 1 .. last /\ (i0 = 1 \/ Bytes(SubSeq(cs, i0, last)) >= n)
  BY <1>6
<1> HIDE DEF starts, i0
<1>8. found = SubSeq(cs, i0, last)
  BY <1>4, <1>5
<1>9. IsLast(found, cs, i0, a, b)
  BY <1>2, <1>3, <1>7, <1>8, LastChunks
<1>10. /\ Covers(found, cs[i0].start, b) /\ found[1] = cs[i0] /\ a <= cs[i0].start
       /\ Bytes(found) = b - cs[i0].start
  BY <1>9 DEF IsLast
<1>11. IsTail(found, a, b)
  BY <1>10 DEF IsTail
<1>12. CASE i0 = 1
  <2>1. cs # <<>>
    BY <1>2, <1>3, <1>5
  <2>2. cs[1].start = a
    BY <1>3, <2>1 DEF Covers
  <2>3. QED
    BY <1>10, <1>11, <1>12, <2>2
<1>13. CASE i0 # 1
  <2>1. Bytes(found) >= n
    BY <1>7, <1>8, <1>13
  <2>2. QED
    BY <1>10, <1>11, <2>1
<1>14. QED
  BY <1>12, <1>13

LEMMA TailRequestKeeps ==
  ASSUME IInv, NEW r \in Readers, NEW n \in Tails, handle_tail_request(r, n)
  PROVE  IInv'
<1>1. /\ NewestRing(history) /\ RingOK(history) /\ PendingOK /\ ReaderTypes /\ ReadersOK /\ history.total_seq \in Nat
      /\ history.first_seq \in Nat /\ history.total_seq <= MaxSeq /\ history.first_seq <= history.total_seq
      /\ audience \in Audiences /\ live \subseteq audience /\ restarts \in 0..MaxRestarts
  BY Disassemble
<1>2. PICK found : found = IF n > 0 THEN sm_rb_get_last_n_bytes(history, n) ELSE sm_rb_get_all(history)
  OBVIOUS
<1>3. PICK kept : kept = NewestWithin(found, ResponseMax)
  OBVIOUS
<1>4. /\ r \in live \ Agents /\ kept # <<>>
      /\ history_pending' = [NonePending EXCEPT !.client = r, !.chunks = kept, !.tail = n,
                                                !.had = history.first_seq..(history.total_seq - 1)]
      /\ UNCHANGED <<history, audience, live, cursor, received, count, lost, synced, fresh, restarts>>
  BY <1>2, <1>3 DEF handle_tail_request, readerVars
<1>5. ReaderTypes' /\ ReadersOK'
  BY <1>1, <1>4 DEF ReaderTypes, ReadersOK, ReaderOK, Told
<1>6. PICK a : a = history.first_seq
  OBVIOUS
<1>7. PICK b : b = history.total_seq
  OBVIOUS
<1>8. /\ Covers(history.chunks, a, b) /\ a \in Nat /\ b \in Nat /\ n \in Nat /\ ResponseMax \in Nat
      /\ MaxSeq \in Nat /\ a \in Seqs
  BY <1>1, <1>6, <1>7, HistoryAssumption DEF RingOK, Seqs
<1>9. found # <<>>
  <2>1. SUFFICES ASSUME found = <<>> PROVE FALSE
    OBVIOUS
  <2>2. {i \in 1 .. Len(found) : Bytes(SubSeq(found, i, Len(found))) <= ResponseMax} = {}
    BY <2>1
  <2>3. kept = <<>>
    BY <1>3, <2>2, Zenon DEF NewestWithin
  <2>4. QED
    BY <1>4, <2>3
<1>10. IsTail(found, a, b) /\ (found[1].start = a \/ (n # 0 /\ b - found[1].start >= n))
  <2>1. CASE n > 0
    <3>1. found = sm_rb_get_last_n_bytes(history, n) /\ n \in Nat \ {0}
      BY <1>2, <1>8, <2>1
    <3>2. IsTail(found, a, b) /\ (found[1].start = a \/ b - found[1].start >= n)
      BY <1>8, <1>9, <3>1, LastBytesIs
    <3>3. QED
      BY <3>1, <3>2
  <2>2. CASE ~ (n > 0)
    <3>1. found = history.chunks
      BY <1>2, <2>2 DEF sm_rb_get_all
    <3>2. found[1].start = a
      BY <1>8, <1>9, <3>1 DEF Covers
    <3>3. QED
      BY <1>8, <1>9, <3>1, <3>2 DEF IsTail
  <2>3. QED
    BY <2>1, <2>2
<1>11. PICK s : s = found[1].start
  OBVIOUS
<1>12. Covers(found, s, b) /\ a <= s /\ s \in Nat
  BY <1>10, <1>11 DEF IsTail, Covers
<1>13. IsTail(kept, s, b) /\ (kept[1].start = s \/ b - s > ResponseMax)
  BY <1>3, <1>4, <1>8, <1>12, WithinIs
<1>14. PICK t : t = kept[1].start
  OBVIOUS
<1>15. Covers(kept, t, b) /\ s <= t /\ t \in Nat
  BY <1>13, <1>14 DEF IsTail, Covers
<1>16. PICK p : p = history_pending'
  OBVIOUS
<1>17. PICK had : had = a .. (b - 1)
  OBVIOUS
<1>18. kept \in Seq(Chunk) /\ had \in SUBSET Nat
  BY <1>8, <1>15, <1>17 DEF Covers
<1>19. p = [client |-> r, chunks |-> kept, index |-> 0, skip |-> 0, encoded |-> 0,
            out |-> {}, paged |-> FALSE, since |-> 0, cursor |-> 0, dropped |-> 0, has_more |-> FALSE,
            tail |-> n, had |-> had]
  BY <1>4, <1>6, <1>7, <1>16, <1>17 DEF NonePending
<1>20. /\ p \in Request /\ p.client = r /\ p.chunks = kept /\ p.index = 0 /\ p.skip = 0 /\ p.encoded = 0
       /\ p.out = {} /\ p.paged = FALSE /\ p.tail = n /\ p.had = had
  BY <1>8, <1>18, <1>19 DEF Request
<1>21. PICK m : m = Len(kept)
  OBVIOUS
<1>22. m \in Nat /\ m >= 1 /\ 1 \in 1 .. Len(kept) /\ m \in 1 .. Len(kept)
  BY <1>4, <1>18, <1>21
<1>23. End(kept[m]) = b
  BY <1>4, <1>15, <1>21 DEF Covers
<1>24. First(p) = t /\ Final(p) = b /\ Stop(p) = b
  <2>1. First(p) = t
    BY <1>14, <1>15, <1>20 DEF First
  <2>2. QED
    BY <1>20, <1>21, <1>23, <2>1 DEF Final, Stop
<1>25. EncodingOK(p)
  <2>1. kept[1] \in Chunk /\ kept[m] \in Chunk
    BY <1>15, <1>22, CoversBetween
  <2>2. 0 < kept[1].len /\ kept[m].start < b
    BY <1>23, <2>1, ChunkType
  <2>3. Asked(p)
    BY <1>4, <1>14, <1>15, <1>20, <1>21, <1>24, <2>2 DEF Asked
  <2>4. Pos(p) = t
    BY <1>20, <1>24 DEF Pos
  <2>5. t .. (t - 1) = {} /\ t - t = 0 /\ 0 <= m
    BY <1>15, <1>22
  <2>6. QED
    BY <1>20, <1>21, <1>24, <2>3, <2>4, <2>5 DEF EncodingOK
<1>26. TailAsked(p)
  <2>1. s = a \/ (n # 0 /\ b - s >= n)
    BY <1>10, <1>11
  <2>2. t = s \/ b - s > ResponseMax
    BY <1>13, <1>14
  <2>3. /\ n = 0 => t = a \/ b - a > ResponseMax
        /\ b - t >= n \/ t = a \/ b - a > ResponseMax
    BY <1>8, <1>12, <1>15, <2>1, <2>2
  <2>4. a <= t
    BY <1>8, <1>12, <1>15
  <2>5. QED
    BY <1>8, <1>17, <1>20, <1>24, <2>3, <2>4 DEF TailAsked
<1>27. PendingOK'
  <2>1. p.client \in (live' \ Agents) \cup {Nobody}
    BY <1>4, <1>20
  <2>2. QED
    BY <1>16, <1>20, <1>25, <1>26, <2>1 DEF PendingOK
<1>28. /\ NewestRing(history)' /\ (history.total_seq <= MaxSeq)' /\ (audience \in Audiences)'
       /\ (live \subseteq audience)' /\ (restarts \in 0..MaxRestarts)'
  BY <1>1, <1>4
<1>29. QED
  BY <1>5, <1>27, <1>28, Assemble, PTL


-----------------------------------------------------------------------------
(* The theorems.                                                           *)

LEMMA NextKeeps ==
  ASSUME IInv, [SinkNext]_allVars
  PROVE  IInv'
<1>1. ASSUME NEW len \in Sizes, NEW sameTs \in BOOLEAN, process_link_chunk(len, sameTs) PROVE IInv'
  <2>1. len \in Nat \ {0} /\ ToRing(len, sameTs)
    BY <1>1, HistoryAssumption DEF process_link_chunk
  <2>2. QED
    BY <2>1, ToRingKeeps
<1>2. ASSUME NEW len \in FenceSizes, history_fence(len) PROVE IInv'
  <2>1. len \in Nat \ {0} /\ ToRing(len, FALSE)
    BY <1>2, McpOutputAssumption DEF history_fence
  <2>2. QED
    BY <2>1, ToRingKeeps
<1>3. CASE mcp_drain_output
  BY <1>3, UnchangedKeeps DEF mcp_drain_output
<1>4. CASE ReaderStep
  <2>1. ASSUME NEW r \in Readers, handle_history_request(r) PROVE IInv'
    BY <2>1, HistoryRequestKeeps
  <2>2. ASSUME NEW r \in Readers, remove_client(r) PROVE IInv'
    BY <2>2, RemoveKeeps
  <2>3. ASSUME NEW r \in Readers, Reconnect(r) PROVE IInv'
    BY <2>3, ReconnectKeeps
  <2>4. ASSUME NEW r \in Readers, NEW n \in Tails, handle_tail_request(r, n) PROVE IInv'
    BY <2>4, TailRequestKeeps
  <2>5. ASSUME NEW r \in Agents, tool_serial_output_history(r) PROVE IInv'
    BY <2>5, AgentKeeps
  <2>6. CASE process_history_pending
    BY <2>6, ProcessKeeps
  <2>7. QED
    BY <1>4, <2>1, <2>2, <2>3, <2>4, <2>5, <2>6 DEF ReaderStep
<1>5. CASE Restart
  BY <1>5, RestartKeeps DEF Restart
<1>6. CASE UNCHANGED allVars
  BY <1>6, UnchangedKeeps DEF allVars
<1>7. QED
  BY <1>1, <1>2, <1>3, <1>4, <1>5, <1>6 DEF SinkNext

\* The ring, the request in progress and what every reader was told agree in
\* every state: chunks without a gap (evict, sm_rb_append), a request encoded
\* up to a known byte (process_history_pending), a cursor just past the last
\* byte that came (sm_rb_get_since_seq).
THEOREM InductiveInvariant == SinkSpec => []IInv
<1>1. SinkInit => IInv
  BY InitOK DEF SinkInit
<1>2. IInv /\ [SinkNext]_allVars => IInv'
  BY NextKeeps
<1>3. QED
  BY <1>1, <1>2, PTL DEF SinkSpec

LEMMA RingSafe == IInv => RingIsNewest
<1> SUFFICES ASSUME IInv PROVE RingIsNewest
  OBVIOUS
<1>1. PICK cs : cs = history.chunks
  OBVIOUS
<1>2. PICK n : n = Len(cs)
  OBVIOUS
<1>3. /\ Covers(cs, history.first_seq, history.total_seq)
      /\ history.total_bytes = history.total_seq - history.first_seq
      /\ history.first_seq = Larger(0, history.total_seq - MaxBytes)
  BY <1>1 DEF IInv, NewestRing, RingOK
<1>4. cs \in Seq(Chunk) /\ n \in Nat /\ DOMAIN cs = 1 .. n
  BY <1>2, <1>3 DEF Covers
<1>5. /\ cs = <<>> => history.first_seq = history.total_seq
      /\ cs # <<>> => cs[1].start = history.first_seq /\ cs[n].start + cs[n].len = history.total_seq
  BY <1>2, <1>3 DEF Covers, End
<1>6. ASSUME NEW i \in 1 .. n
      PROVE  /\ cs[i].len > 0 /\ cs[i].len <= cs[i].alloc
             /\ i > 1 => cs[i].start = cs[i - 1].start + cs[i - 1].len
  <2>1. cs[i] \in Chunk
    BY <1>2, <1>4
  <2>2. cs[i].len > 0 /\ cs[i].len <= cs[i].alloc
    BY <2>1, ChunkType
  <2>3. ASSUME i > 1 PROVE cs[i].start = cs[i - 1].start + cs[i - 1].len
    <3>1. PICK j : j = i - 1
      OBVIOUS
    <3>2. j \in 1 .. (n - 1) /\ j + 1 = i
      BY <1>4, <2>3, <3>1
    <3>3. cs[j + 1].start = End(cs[j])
      BY <1>2, <1>3, <3>2 DEF Covers
    <3>4. QED
      BY <3>1, <3>2, <3>3 DEF End
  <2>4. QED
    BY <2>2, <2>3
<1>7. QED
  BY <1>1, <1>2, <1>3, <1>4, <1>5, <1>6 DEF RingIsNewest

\* Every byte between the ends is in a chunk.
LEMMA ByteInChunk ==
  ASSUME NEW cs, NEW a, NEW b, Covers(cs, a, b), NEW x \in Nat, a <= x, x < b
  PROVE  \E i \in 1 .. Len(cs) : cs[i].start <= x /\ x < End(cs[i])
<1>1. PICK n : n = Len(cs)
  OBVIOUS
<1>2. cs # <<>> /\ cs \in Seq(Chunk) /\ n \in Nat /\ n >= 1 /\ a \in Nat /\ b \in Nat
  <2>1. cs # <<>>
    BY DEF Covers
  <2>2. cs \in Seq(Chunk) /\ a \in Nat /\ b \in Nat
    BY DEF Covers
  <2>3. QED
    BY <1>1, <2>1, <2>2
<1>3. \A i \in 1 .. n : cs[i].start \in Nat /\ End(cs[i]) \in Nat
  <2>1. \A i \in 1 .. n : cs[i] \in Chunk
    BY <1>1, <1>2
  <2>2. QED
    BY <2>1, ChunkType
<1>4. End(cs[n]) = b /\ cs[1].start = a /\ \A i \in 1 .. (n - 1) : cs[i + 1].start = End(cs[i])
  BY <1>1, <1>2 DEF Covers
<1> DEFINE beyond == {i \in 1 .. n : End(cs[i]) > x}
<1>5. beyond \in SUBSET Nat /\ n \in beyond
  BY <1>2, <1>4
<1>6. PICK i \in beyond : \A j \in beyond : i <= j
  <2> HIDE DEF beyond
  <2>1. beyond # {}
    BY <1>5
  <2>2. QED
    BY <1>5, <2>1, LeastNatural
<1>7. i \in 1 .. n /\ x < End(cs[i])
  BY <1>3, <1>6
<1>8. cs[i].start <= x
  <2>1. CASE i = 1
    BY <1>4, <2>1
  <2>2. CASE i # 1
    <3>1. PICK j : j = i - 1
      OBVIOUS
    <3>2. j \in 1 .. (n - 1) /\ j \in 1 .. n /\ j + 1 = i /\ ~ (i <= j)
      BY <1>2, <1>7, <2>2, <3>1
    <3>3. ~ (End(cs[j]) > x)
      BY <1>6, <3>2
    <3>4. cs[i].start = End(cs[j]) /\ End(cs[j]) \in Nat
      BY <1>3, <1>4, <3>2
    <3>5. QED
      BY <3>3, <3>4
  <2>3. QED
    BY <2>1, <2>2
<1>9. QED
  BY <1>1, <1>7, <1>8


\* What of request p is not encoded yet.
Rest(p) == UNION {p.chunks[i].start..(p.chunks[i].start + p.chunks[i].len - 1) : i \in (p.index + 1)..Len(p.chunks)}

LEMMA RestIs ==
  ASSUME NEW p, EncodingOK(p), ~ p.paged, p.skip = 0
  PROVE  /\ p.out \cup Rest(p) = First(p) .. (Final(p) - 1)
         /\ First(p) \in Nat /\ Final(p) \in Nat /\ First(p) < Final(p)
<1>1. PICK cs : cs = p.chunks
  OBVIOUS
<1>2. PICK n : n = Len(cs)
  OBVIOUS
<1>3. PICK k : k = p.index
  OBVIOUS
<1>4. PICK a : a = cs[1].start
  OBVIOUS
<1>5. PICK b : b = Final(p)
  OBVIOUS
<1>6. /\ Covers(cs, a, b) /\ cs # <<>> /\ cs \in Seq(Chunk) /\ n \in Nat /\ k \in Nat /\ k <= n
      /\ p.skip \in Nat /\ p.skip < cs[1].len
  BY <1>1, <1>2, <1>3, <1>4, <1>5 DEF EncodingOK, Asked, Request
<1>7. \A i \in 1 .. n : /\ cs[i].start \in Nat /\ cs[i].len \in Nat /\ End(cs[i]) \in Nat
                        /\ End(cs[i]) = cs[i].start + cs[i].len /\ End(cs[i]) <= b
  <2>1. \A i \in 1 .. n : cs[i] \in Chunk /\ End(cs[i]) <= b
    BY <1>2, <1>6, CoversBetween
  <2>2. QED
    BY <2>1, ChunkType DEF End
<1>8. PICK f : f = First(p)
  OBVIOUS
<1>9. n >= 1 /\ a \in Nat /\ b \in Nat /\ f = a + p.skip /\ f \in Nat /\ f < b
  <2>1. n >= 1 /\ a \in Nat /\ b \in Nat
    BY <1>2, <1>6 DEF Covers
  <2>2. f = a + p.skip /\ f \in Nat
    BY <1>1, <1>4, <1>6, <1>8, <2>1 DEF First
  <2>3. End(cs[1]) = a + cs[1].len /\ End(cs[1]) <= b /\ cs[1].len \in Nat
    BY <1>4, <1>7, <2>1
  <2>4. QED
    BY <1>6, <2>1, <2>2, <2>3
<1>10. PICK pos : pos = Pos(p)
  OBVIOUS
<1>11. p.out = f .. (pos - 1)
  BY <1>8, <1>10 DEF EncodingOK
<1>12. pos = IF k = 0 THEN f ELSE End(cs[k])
  <2>1. CASE k = n
    <3>1. Stop(p) = b
      BY <1>5 DEF Stop
    <3>2. End(cs[n]) = b
      BY <1>2, <1>6 DEF Covers
    <3>3. QED
      BY <1>1, <1>2, <1>3, <1>6, <1>8, <1>9, <1>10, <2>1, <3>1, <3>2 DEF Pos
  <2>2. CASE k # n
    <3>1. k < n
      BY <1>6, <2>2
    <3>2. QED
      BY <1>1, <1>2, <1>3, <1>8, <1>10, <3>1 DEF Pos
  <2>3. QED
    BY <2>1, <2>2
<1>13. pos \in Nat /\ f <= pos /\ pos <= b
  <2>1. CASE k = 0
    BY <1>9, <1>12, <2>1
  <2>2. CASE k # 0
    <3>1. k \in 1 .. n /\ k \in 1 .. Len(cs) /\ 1 \in 1 .. Len(cs) /\ 1 <= k /\ 1 \in 1 .. n
      BY <1>2, <1>6, <1>9, <2>2
    <3>2. End(cs[1]) <= End(cs[k])
      BY <1>6, <3>1, CoversSorted
    <3>3. End(cs[1]) = a + cs[1].len /\ End(cs[k]) <= b /\ cs[1].len \in Nat /\ End(cs[k]) \in Nat
      BY <1>4, <1>7, <3>1
    <3>4. pos = End(cs[k])
      BY <1>12, <2>2
    <3>5. QED
      BY <1>6, <1>9, <3>2, <3>3, <3>4
  <2>3. QED
    BY <2>1, <2>2
<1>14. ASSUME NEW x \in Rest(p) PROVE x \in f .. (b - 1)
  <2>1. PICK i \in (k + 1) .. n : x \in cs[i].start..(cs[i].start + cs[i].len - 1)
    BY <1>1, <1>2, <1>3 DEF Rest
  <2>2. i \in 1 .. n
    BY <1>6
  <2>3. /\ cs[i].start \in Nat /\ cs[i].len \in Nat /\ cs[i].start + cs[i].len <= b
    BY <1>7, <2>2
  <2>4. x \in Int /\ cs[i].start <= x /\ x < b
    BY <1>9, <2>1, <2>3
  <2>5. a <= cs[i].start
    BY <1>2, <1>6, <2>2, CoversBetween
  <2>6. QED
    BY <1>9, <2>3, <2>4, <2>5
<1>15. ASSUME NEW x \in f .. (b - 1), ~ (x < pos) PROVE x \in Rest(p)
  <2>1. x \in Nat /\ a <= x /\ x < b
    BY <1>9
  <2>2. PICK i \in 1 .. n : cs[i].start <= x /\ x < End(cs[i])
    BY <1>2, <1>6, <2>1, ByteInChunk
  <2>3. x \in cs[i].start..(cs[i].start + cs[i].len - 1)
    BY <1>7, <2>1, <2>2
  <2>4. i \in (k + 1) .. n
    <3>1. CASE k = 0
      BY <1>6, <3>1
    <3>2. CASE k # 0
      <4>1. pos = End(cs[k]) /\ k \in 1 .. n
        BY <1>6, <1>12, <3>2
      <4>2. ASSUME i <= k PROVE FALSE
        <5>1. i \in 1 .. Len(cs) /\ k \in 1 .. Len(cs)
          BY <1>2, <4>1
        <5>2. End(cs[i]) <= End(cs[k])
          BY <1>6, <4>2, <5>1, CoversSorted
        <5>3. End(cs[i]) \in Nat /\ End(cs[k]) \in Nat
          BY <1>7, <4>1
        <5>4. QED
          BY <1>15, <2>1, <2>2, <4>1, <5>2, <5>3
      <4>3. QED
        BY <1>6, <4>2
    <3>3. QED
      BY <3>1, <3>2
  <2>5. QED
    BY <1>1, <1>2, <1>3, <2>3, <2>4 DEF Rest
<1>16. p.out \cup Rest(p) = f .. (b - 1)
  <2>1. \A x \in p.out : x \in f .. (b - 1)
    BY <1>9, <1>11, <1>13
  <2>2. \A x \in f .. (b - 1) : x \in p.out \/ x \in Rest(p)
    <3> SUFFICES ASSUME NEW x \in f .. (b - 1) PROVE x \in p.out \/ x \in Rest(p)
      OBVIOUS
    <3>1. CASE x < pos
      BY <1>9, <1>11, <1>13, <3>1
    <3>2. CASE ~ (x < pos)
      BY <1>15, <3>2
    <3>3. QED
      BY <3>1, <3>2
  <2>3. QED
    BY <1>14, <2>1, <2>2
<1>17. QED
  BY <1>5, <1>8, <1>9, <1>16

LEMMA TailSafe == IInv => TailIsNewest
<1> SUFFICES ASSUME IInv, history_pending.client # Nobody, ~ history_pending.paged
             PROVE  LET p == history_pending
                        sent == p.out \cup Rest(p)
                        cut == Cardinality(p.had) > ResponseMax
                    IN  /\ sent # {} /\ sent \subseteq p.had
                        /\ \A s \in sent, t \in p.had : t >= s => t \in sent
                        /\ p.tail = 0 => sent = p.had \/ cut
                        /\ Cardinality(sent) >= p.tail \/ sent = p.had \/ cut
  BY DEF TailIsNewest, Rest
<1>1. PICK p : p = history_pending
  OBVIOUS
<1>2. EncodingOK(p) /\ TailAsked(p) /\ ~ p.paged
  <2>1. p # NonePending
    BY <1>1, NoRequest
  <2>2. QED
    BY <1>1, <2>1 DEF IInv, PendingOK
<1>3. PICK f \in Seqs :
        /\ p.skip = 0 /\ f <= First(p) /\ p.had = f .. (Final(p) - 1)
        /\ p.tail = 0 => First(p) = f \/ Final(p) - f > ResponseMax
        /\ Final(p) - First(p) >= p.tail \/ First(p) = f \/ Final(p) - f > ResponseMax
  BY <1>2 DEF TailAsked
<1>4. PICK sent : sent = p.out \cup Rest(p)
  OBVIOUS
<1>5. PICK a : a = First(p)
  OBVIOUS
<1>6. PICK b : b = Final(p)
  OBVIOUS
<1>7. sent = a .. (b - 1) /\ a \in Nat /\ b \in Nat /\ a < b
  BY <1>2, <1>3, <1>4, <1>5, <1>6, RestIs
<1>8. f \in Nat /\ f <= a /\ p.had = f .. (b - 1)
  BY <1>3, <1>5, <1>6, HistoryAssumption DEF Seqs
<1>9. Cardinality(sent) = b - a /\ Cardinality(p.had) = b - f
  <2>1. a <= b /\ f <= b
    BY <1>7, <1>8
  <2>2. Cardinality(a .. (b - 1)) = b - a
    BY <1>7, <2>1, RangeSize
  <2>3. Cardinality(f .. (b - 1)) = b - f
    BY <1>7, <1>8, <2>1, RangeSize
  <2>4. QED
    BY <1>7, <1>8, <2>2, <2>3
<1>10. a = f => sent = p.had
  BY <1>7, <1>8
<1>11. sent # {} /\ sent \subseteq p.had
  <2>1. sent # {}
    BY <1>7
  <2>2. sent \subseteq p.had
    BY <1>7, <1>8
  <2>3. QED
    BY <2>1, <2>2
<1>12. \A s \in sent, t \in p.had : t >= s => t \in sent
  BY <1>7, <1>8
<1>13. p.tail = 0 => sent = p.had \/ Cardinality(p.had) > ResponseMax
  BY <1>3, <1>5, <1>6, <1>9, <1>10
<1>14. Cardinality(sent) >= p.tail \/ sent = p.had \/ Cardinality(p.had) > ResponseMax
  BY <1>3, <1>5, <1>6, <1>9, <1>10
<1>15. QED
  BY <1>1, <1>4, <1>11, <1>12, <1>13, <1>14

\* The ring keeps exactly the newest bytes, whatever is merged, dropped or
\* trimmed (sm_rb_append, evict), and a request for the newest output gets it
\* without a gap while the ring moves on (handle_history_request without
\* since_seq, process_history_pending): for a ring, chunks and responses of
\* any size.
THEOREM KeepsNewest == SinkSpec => []NewestKept
<1>1. IInv => NewestKept
  BY RingSafe, TailSafe DEF NewestKept
<1>2. QED
  BY <1>1, InductiveInvariant, PTL

LEMMA LosslessSafe == IInv => Lossless
<1> SUFFICES ASSUME IInv, NEW r \in Readers
             PROVE  (fresh[r] => Accounted(r)) /\ count[r] = Cardinality(received[r])
  BY DEF Lossless
<1>1. ReaderOK(r) /\ ReaderTypes /\ history.total_seq \in Nat /\ history.total_seq <= MaxSeq /\ MaxSeq \in Nat
  BY Disassemble, HistoryAssumption DEF ReadersOK
<1>2. ASSUME fresh[r] PROVE Accounted(r)
  <2>1. Told(r) /\ cursor[r] <= history.total_seq /\ cursor[r] \in Nat /\ received[r] \subseteq 0 .. (cursor[r] - 1)
    BY <1>1, <1>2 DEF ReaderOK, ReaderTypes, Seqs
  <2>2. {s \in Seqs : s < cursor[r] /\ s < history.total_seq} = 0 .. (cursor[r] - 1)
    BY <1>1, <2>1 DEF Seqs
  <2>3. QED
    BY <2>1, <2>2 DEF Told, Accounted
<1>3. QED
  BY <1>1, <1>2 DEF ReaderOK

\* Lossless paging (sm_rb_get_since_seq, process_history_pending,
\* serial_output_history): every byte before the cursor of a reader that began
\* with this broker has reached it once or was reported to it as dropped, for
\* any sizes of ring, page and turn, any number of readers, and whatever the
\* device, other readers and lost connections do meanwhile.
THEOREM PagesLossless == SinkSpec => []Lossless
<1>1. IInv => Lossless
  BY LosslessSafe
<1>2. QED
  BY <1>1, InductiveInvariant, PTL

-----------------------------------------------------------------------------
(* The sink's buffer of unread output.                                     *)

\* The bytes of s come in order.
Rising(s) == \A i, j \in 1 .. Len(s) : i < j => s[i] < s[j]

\* s holds, in order, the bytes from a on, before b, that are not NUL.
Filters(s, a, b) ==
  /\ s \in Seq(Nat) /\ Rising(s) /\ Len(s) <= b - a
  /\ \A i \in 1 .. Len(s) : a <= s[i] /\ s[i] < b /\ s[i] \notin Nuls
  /\ \A x \in Nat : a <= x /\ x < b /\ x \notin Nuls => \E i \in 1 .. Len(s) : s[i] = x

\* One more byte.
LEMMA FilterStep ==
  ASSUME NEW s, NEW a \in Nat, NEW b \in Nat, a <= b, Filters(s, a, b), NEW t, t = CopyByte(s, b)
  PROVE  Filters(t, a, b + 1)
<1>1. /\ s \in Seq(Nat) /\ Rising(s) /\ Len(s) <= b - a
      /\ \A i \in 1 .. Len(s) : a <= s[i] /\ s[i] < b /\ s[i] \notin Nuls
      /\ \A x \in Nat : a <= x /\ x < b /\ x \notin Nuls => \E i \in 1 .. Len(s) : s[i] = x
  BY DEF Filters
<1>2. PICK n : n = Len(s)
  OBVIOUS
<1>3. n \in Nat /\ (\A i \in 1 .. n : s[i] \in Nat) /\ n <= b - a
  BY <1>1, <1>2
<1>4. CASE b \in Nuls
  <2>1. t = s
    BY <1>4 DEF CopyByte
  <2>2. Len(s) <= b + 1 - a
    BY <1>2, <1>3
  <2>3. \A i \in 1 .. Len(s) : a <= s[i] /\ s[i] < b + 1 /\ s[i] \notin Nuls
    BY <1>1, <1>2, <1>3
  <2>4. \A x \in Nat : x < b + 1 /\ x \notin Nuls => x < b
    BY <1>4
  <2>5. \A x \in Nat : a <= x /\ x < b + 1 /\ x \notin Nuls => \E i \in 1 .. Len(s) : s[i] = x
    BY <1>1, <2>4
  <2>6. QED
    BY <1>1, <2>1, <2>2, <2>3, <2>5 DEF Filters
<1>5. CASE b \notin Nuls
  <2>1. t = Append(s, b)
    BY <1>5 DEF CopyByte
  <2>2. /\ t \in Seq(Nat) /\ Len(t) = n + 1 /\ t[n + 1] = b
        /\ \A i \in 1 .. n : t[i] = s[i]
    BY <1>1, <1>2, <2>1
  <2>3. \A i \in 1 .. n + 1 : i = n + 1 \/ i \in 1 .. n
    BY <1>3
  <2>4. \A i \in 1 .. n + 1 : a <= t[i] /\ t[i] < b + 1 /\ t[i] \notin Nuls
    <3> SUFFICES ASSUME NEW i \in 1 .. n + 1 PROVE a <= t[i] /\ t[i] < b + 1 /\ t[i] \notin Nuls
      OBVIOUS
    <3>1. CASE i = n + 1
      BY <1>5, <2>2, <3>1
    <3>2. CASE i \in 1 .. n
      BY <1>1, <1>2, <1>3, <2>2, <3>2
    <3>3. QED
      BY <2>3, <3>1, <3>2
  <2>5. Rising(t)
    <3> SUFFICES ASSUME NEW i \in 1 .. n + 1, NEW j \in 1 .. n + 1, i < j PROVE t[i] < t[j]
      BY <2>2 DEF Rising
    <3>1. i \in 1 .. n
      BY <1>3
    <3>2. CASE j = n + 1
      BY <1>1, <1>2, <2>2, <3>1, <3>2
    <3>3. CASE j \in 1 .. n
      BY <1>1, <1>2, <2>2, <3>1, <3>3 DEF Rising
    <3>4. QED
      BY <2>3, <3>2, <3>3
  <2>6. ASSUME NEW x \in Nat, a <= x, x < b + 1, x \notin Nuls PROVE \E i \in 1 .. Len(t) : t[i] = x
    <3>1. CASE x = b
      BY <1>3, <2>2, <3>1
    <3>2. CASE x # b
      <4>1. PICK i \in 1 .. n : s[i] = x
        BY <1>1, <1>2, <2>6, <3>2
      <4>2. i \in 1 .. n + 1 /\ t[i] = x
        BY <1>3, <2>2, <4>1
      <4>3. QED
        BY <2>2, <4>2
    <3>3. QED
      BY <3>1, <3>2
  <2>7. Len(t) <= b + 1 - a
    BY <1>3, <2>2
  <2>8. QED
    BY <2>2, <2>4, <2>5, <2>6, <2>7 DEF Filters
<1>6. QED
  BY <1>4, <1>5

\* The copy loop is a run of such steps.
LEMMA WithoutNulsIs ==
  ASSUME NEW a \in Nat, NEW n \in Nat, NEW new, new = WithoutNuls(a, n)
  PROVE  Filters(new, a, a + n)
<1> DEFINE S == Seq(Nat)
           step == [k \in 1 .. n |-> [s \in S |-> CopyByte(s, a + k - 1)]]
           Is(f) == f = [k \in 0 .. n |-> IF k = 0 THEN <<>> ELSE CopyByte(f[k - 1], a + k - 1)]
           pass == CHOOSE f : Is(f)
<1>1. new = pass[n]
  BY DEF WithoutNuls
<1> HIDE DEF pass
<1>2. \A k \in 1 .. n : \A s \in S : CopyByte(s, a + k - 1) \in S
  BY DEF CopyByte
<1>3. step \in [1 .. n -> [S -> S]]
  BY <1>2
<1>4. \A k \in 1 .. n : \A s \in S : step[k][s] = CopyByte(s, a + k - 1)
  OBVIOUS
<1>5. <<>> \in S
  OBVIOUS
<1> HIDE DEF step, S
<1>6. PICK f \in [0 .. n -> S] : IsRun(f, <<>>, step, n)
  BY <1>3, <1>5, Iterates
<1>7. \A k \in 1 .. n : f[k] = CopyByte(f[k - 1], a + k - 1)
  <2>1. \A k \in 1 .. n : f[k - 1] \in S
    BY <1>6
  <2>2. QED
    BY <1>4, <1>6, <2>1 DEF IsRun
<1>8. Is(f)
  BY <1>6, <1>7 DEF IsRun
<1>9. Is(pass)
  BY <1>8 DEF pass
<1>10. pass[0] = <<>> /\ \A k \in 1 .. n : pass[k] = CopyByte(pass[k - 1], a + k - 1)
  BY <1>9
<1> HIDE DEF Is
<1> DEFINE Good == {k \in 0 .. n : Filters(pass[k], a, a + k)}
<1>11. 0 \in Good
  <2>1. Filters(<<>>, a, a)
    BY DEF Filters, Rising
  <2>2. a + 0 = a /\ 0 \in 0 .. n
    OBVIOUS
  <2>3. QED
    BY <1>10, <2>1, <2>2
<1>12. ASSUME NEW k \in 1 .. n, k - 1 \in Good PROVE k \in Good
  <2>1. PICK b \in Nat : b = a + k - 1
    OBVIOUS
  <2>2. PICK s : s = pass[k - 1]
    OBVIOUS
  <2>3. a + (k - 1) = b /\ a <= b /\ b + 1 = a + k
    BY <2>1
  <2>4. Filters(s, a, b)
    BY <1>12, <2>2, <2>3
  <2>5. PICK t : t = pass[k]
    OBVIOUS
  <2>6. t = CopyByte(s, b)
    BY <1>10, <2>1, <2>2, <2>5
  <2>7. Filters(t, a, b + 1)
    BY <2>3, <2>4, <2>6, FilterStep
  <2>8. QED
    BY <2>3, <2>5, <2>7
<1> HIDE DEF Good
<1>13. \A k \in 0 .. n : k \in Good
  BY <1>11, <1>12, Induction
<1>14. n \in Good
  BY <1>13
<1>15. QED
  BY <1>1, <1>14 DEF Good

\* The growth of the buffer as a run of rounds.
IsGrowth(f, cap, size) ==
  /\ f[0] = cap
  /\ \A k \in 1 .. OutputMax : f[k] = GrowMore(f[k - 1], size)
  /\ Rounds(cap, size) = f

LEMMA GrowthIterates ==
  ASSUME NEW cap \in Nat, NEW size \in Nat
  PROVE  \E f \in [0 .. OutputMax -> Nat] : IsGrowth(f, cap, size)
<1> DEFINE n == OutputMax
           step == [k \in 1 .. n |-> [x \in Nat |-> GrowMore(x, size)]]
           Is(f) == f = [k \in 0 .. n |-> IF k = 0 THEN cap ELSE GrowMore(f[k - 1], size)]
           pass == CHOOSE f : Is(f)
<1>1. Rounds(cap, size) = pass
  BY DEF Rounds
<1> HIDE DEF pass
<1>2. \A x \in Nat : GrowMore(x, size) \in Nat
  BY McpOutputAssumption DEF GrowMore, Smaller
<1>3. step \in [1 .. n -> [Nat -> Nat]]
  BY <1>2
<1>4. \A k \in 1 .. n : \A x \in Nat : step[k][x] = GrowMore(x, size)
  OBVIOUS
<1>5. n \in Nat
  BY McpOutputAssumption
<1> HIDE DEF step, n
<1>6. PICK f \in [0 .. n -> Nat] : IsRun(f, cap, step, n)
  BY <1>3, <1>5, Iterates
<1>7. \A k \in 1 .. n : f[k] = GrowMore(f[k - 1], size)
  <2>1. \A k \in 1 .. n : f[k - 1] \in Nat
    BY <1>5, <1>6
  <2>2. QED
    BY <1>4, <1>6, <2>1 DEF IsRun
<1>8. Is(f)
  BY <1>5, <1>6, <1>7 DEF IsRun
<1>9. Is(pass)
  BY <1>8 DEF pass
<1>10. pass[0] = cap /\ \A k \in 1 .. n : pass[k] = GrowMore(pass[k - 1], size)
  BY <1>5, <1>9
<1>11. pass \in [0 .. n -> Nat]
  <2> DEFINE Good == {k \in 0 .. n : pass[k] \in Nat}
  <2>1. 0 \in Good
    BY <1>5, <1>10
  <2>2. ASSUME NEW k \in 1 .. n, k - 1 \in Good PROVE k \in Good
    <3>1. k \in 0 .. n /\ pass[k - 1] \in Nat /\ pass[k] = GrowMore(pass[k - 1], size)
      BY <1>5, <1>10, <2>2
    <3>2. QED
      BY <1>2, <3>1
  <2> HIDE DEF Good
  <2>3. \A k \in 0 .. n : k \in Good
    BY <1>5, <2>1, <2>2, Induction
  <2>4. \A k \in 0 .. n : pass[k] \in Nat
    BY <2>3 DEF Good
  <2>5. QED
    BY <1>9, <2>4
<1>12. IsGrowth(pass, cap, size)
  BY <1>1, <1>10 DEF IsGrowth, n
<1>13. QED
  BY <1>11, <1>12 DEF n

\* Where the growth of the buffer may end, and where it does if none fails.
LEMMA GrownIs ==
  ASSUME NEW cap \in Nat, cap >= 1, cap <= OutputMax, NEW size \in Nat
  PROVE  /\ \A c \in Grown(cap, size) : c \in Nat /\ cap <= c /\ c <= OutputMax
         /\ Wanted(cap, size) \in Nat
         /\ Wanted(cap, size) >= size \/ Wanted(cap, size) = OutputMax
<1>1. PICK n : n = OutputMax
  OBVIOUS
<1>2. n \in Nat /\ n = OutputMax
  BY <1>1, McpOutputAssumption
<1>3. PICK f \in [0 .. n -> Nat] : IsGrowth(f, cap, size)
  BY <1>2, GrowthIterates
<1> DEFINE Good == {k \in 0 .. n : /\ f[k] \in Nat /\ cap <= f[k] /\ f[k] <= n
                                   /\ f[k] >= size \/ f[k] = n \/ f[k] >= cap + k}
<1>4. 0 \in Good
  BY <1>2, <1>3 DEF IsGrowth
<1>5. ASSUME NEW k \in 1 .. n, k - 1 \in Good PROVE k \in Good
  <2>1. PICK c : c = f[k - 1]
    OBVIOUS
  <2>2. /\ c \in Nat /\ cap <= c /\ c <= n
        /\ c >= size \/ c = n \/ c >= cap + (k - 1)
    BY <1>5, <2>1
  <2>3. f[k] = GrowMore(c, size)
    BY <1>2, <1>3, <2>1 DEF IsGrowth
  <2>4. CASE size > c /\ c < n
    <3>1. f[k] = Smaller(c * 2, n)
      BY <1>2, <2>3, <2>4 DEF GrowMore
    <3>2. PICK d \in Nat : d = c * 2
      BY <2>2
    <3>3. d >= c + 1 /\ d >= cap
      BY <2>2, <3>2
    <3>4. c >= cap + (k - 1)
      BY <1>2, <2>2, <2>4
    <3>5. d >= cap + k
      BY <2>2, <3>2, <3>3, <3>4
    <3>6. QED
      BY <1>2, <2>2, <3>1, <3>2, <3>3, <3>5 DEF Smaller
  <2>5. CASE ~ (size > c /\ c < n)
    <3>1. f[k] = c
      BY <1>2, <2>3, <2>5 DEF GrowMore
    <3>2. QED
      BY <1>2, <2>2, <2>5, <3>1
  <2>6. QED
    BY <2>4, <2>5
<1> HIDE DEF Good
<1>6. \A k \in 0 .. n : k \in Good
  BY <1>2, <1>4, <1>5, Induction
<1>7. \A k \in 0 .. n : f[k] \in Nat /\ cap <= f[k] /\ f[k] <= n
  BY <1>6 DEF Good
<1>8. Rounds(cap, size) = f /\ Wanted(cap, size) = f[n]
  BY <1>1, <1>3 DEF IsGrowth, Wanted
<1>9. f[n] >= size \/ f[n] = n
  <2>1. n \in Good
    BY <1>2, <1>6
  <2>2. f[n] >= size \/ f[n] = n \/ f[n] >= cap + n
    BY <2>1 DEF Good
  <2>3. f[n] \in Nat /\ f[n] <= n
    BY <1>2, <1>7
  <2>4. QED
    BY <1>2, <2>2, <2>3
<1>10. \A c \in Grown(cap, size) : \E k \in 0 .. n : c = f[k]
  BY <1>1, <1>2, <1>8 DEF Grown
<1>11. QED
  BY <1>1, <1>2, <1>7, <1>8, <1>9, <1>10

\* How much is given up makes room, and nothing is while there is room.
LEMMA EvictedIs ==
  ASSUME NEW m \in Nat, NEW v \in Nat, NEW c \in Nat, v <= c, NEW g, g = Evicted(m, v, c)
  PROVE  g \in Nat /\ g <= m /\ (m - g) + v <= c /\ (m + v <= c => g = 0)
<1>1. CASE m + v <= c
  BY <1>1 DEF Evicted
<1>2. CASE ~ (m + v <= c)
  <2>1. PICK need : need = Smaller(m + v - c, m)
    OBVIOUS
  <2>2. need \in Nat /\ need = m + v - c
    BY <1>2, <2>1 DEF Smaller
  <2>3. PICK half : half = c \div 2
    OBVIOUS
  <2>4. half \in Nat
    BY <2>3
  <2>5. g = Smaller(Larger(need, half), m)
    BY <1>2, <2>1, <2>3 DEF Evicted
  <2>6. QED
    BY <1>2, <2>2, <2>4, <2>5 DEF Smaller, Larger
<1>3. QED
  BY <1>1, <1>2

\* s lists the set U.
Lists(s, U) ==
  (\A i \in 1 .. Len(s) : s[i] \in U) /\ \A x \in U : \E i \in 1 .. Len(s) : s[i] = x

\* A rising sequence has as many entries as different bytes.
LEMMA RisingSize ==
  ASSUME NEW s \in Seq(Nat), Rising(s), NEW U, Lists(s, U)
  PROVE  IsFiniteSet(U) /\ Cardinality(U) = Len(s)
<1>1. PICK m : m = Len(s)
  OBVIOUS
<1>2. m \in Nat /\ s \in [1 .. m -> U]
  BY <1>1 DEF Lists
<1>3. ASSUME NEW i \in 1 .. m, NEW j \in 1 .. m, s[i] = s[j] PROVE i = j
  <2>1. s[i] \in Nat /\ s[j] \in Nat
    BY <1>1
  <2>2. i < j => s[i] < s[j]
    BY <1>1 DEF Rising
  <2>3. j < i => s[j] < s[i]
    BY <1>1 DEF Rising
  <2>4. QED
    BY <1>2, <1>3, <2>1, <2>2, <2>3
<1>4. s \in Injection(1 .. m, U)
  BY <1>2, <1>3 DEF Injection, IsInjective
<1>5. s \in Surjection(1 .. m, U)
  BY <1>1, <1>2 DEF Surjection, Lists
<1>6. IsFiniteSet(1 .. m) /\ Cardinality(1 .. m) = m
  BY <1>2, FS_Interval
<1>7. QED
  BY <1>1, <1>4, <1>5, <1>6, FS_Surjection

\* The buffer s of cap bytes holds the newest of the unread bytes U, and all
\* of them if there is room and the buffer was not refused any.
Holds(s, cap, U, refusal) ==
  /\ s \in Seq(Nat) /\ Rising(s) /\ Len(s) <= cap
  /\ \A i \in 1 .. Len(s) : s[i] \in U
  /\ \A i \in 1 .. Len(s) : \A x \in U : x > s[i] => \E j \in 1 .. Len(s) : s[j] = x
  /\ ~refusal /\ Cardinality(U) <= OutputMax => Lists(s, U)

\* What is left of s after g bytes are given up and new is added.
IsRest(t, s, new, g) ==
  /\ t \in Seq(Nat) /\ Len(t) = (Len(s) - g) + Len(new)
  /\ \A i \in 1 .. (Len(s) - g) : t[i] = s[g + i]
  /\ \A i \in 1 .. Len(new) : t[(Len(s) - g) + i] = new[i]

LEMMA RestOf ==
  ASSUME NEW s \in Seq(Nat), NEW new \in Seq(Nat), NEW g \in Nat, g <= Len(s),
         NEW t, t = SubSeq(s, g + 1, Len(s)) \o new
  PROVE  IsRest(t, s, new, g)
<1>1. PICK m \in Nat : m = Len(s)
  OBVIOUS
<1>2. PICK k \in Nat : k = g + 1
  OBVIOUS
<1>3. PICK u : u = SubSeq(s, k, m)
  OBVIOUS
<1>4. \A i \in k .. m : s[i] \in Nat
  BY <1>1, <1>2
<1>5. /\ u \in Seq(Nat) /\ Len(u) = (IF k <= m THEN m - k + 1 ELSE 0)
      /\ \A i \in 1 .. (m - k + 1) : u[i] = s[k + i - 1]
  BY <1>3, <1>4, SubSeqProperties
<1>6. PICK l \in Nat : l = m - g
  <2>1. g <= m
    BY <1>1
  <2>2. m - g \in Nat
    BY <2>1
  <2>3. QED
    BY <2>2
<1>7. Len(u) = l
  BY <1>1, <1>2, <1>5, <1>6
<1>8. \A i \in 1 .. l : i \in 1 .. (m - k + 1) /\ k + i - 1 = g + i
  BY <1>1, <1>2, <1>6
<1>9. \A i \in 1 .. l : u[i] = s[g + i]
  BY <1>5, <1>8
<1>10. PICK v \in Nat : v = Len(new)
  OBVIOUS
<1>11. t = u \o new
  BY <1>1, <1>2, <1>3
<1>12. /\ t \in Seq(Nat) /\ Len(t) = l + v
       /\ \A i \in 1 .. (l + v) : t[i] = IF i <= l THEN u[i] ELSE new[i - l]
  <2>1. /\ u \o new \in Seq(Nat) /\ Len(u \o new) = Len(u) + Len(new)
        /\ \A i \in 1 .. Len(u) + Len(new) : (u \o new)[i] = IF i <= Len(u) THEN u[i] ELSE new[i - Len(u)]
    BY <1>5, ConcatProperties
  <2>2. QED
    BY <1>7, <1>10, <1>11, <2>1
<1>13. \A i \in 1 .. l : i \in 1 .. (l + v) /\ i <= l
  OBVIOUS
<1>14. \A i \in 1 .. v : l + i \in 1 .. (l + v) /\ ~ (l + i <= l) /\ (l + i) - l = i
  OBVIOUS
<1>15. /\ \A i \in 1 .. l : t[i] = s[g + i]
       /\ \A i \in 1 .. v : t[l + i] = new[i]
  BY <1>9, <1>12, <1>13, <1>14
<1>16. QED
  BY <1>1, <1>6, <1>10, <1>12, <1>15 DEF IsRest

\* The bytes that a chunk adds to the unread ones.
Fresh(a, b) == {x \in a .. (b - 1) : x \notin Nuls}

LEMMA FreshIs ==
  ASSUME NEW a \in Nat, NEW b \in Nat, NEW new, Filters(new, a, b)
  PROVE  Lists(new, Fresh(a, b)) /\ IsFiniteSet(Fresh(a, b)) /\ Cardinality(Fresh(a, b)) = Len(new)
<1>1. /\ new \in Seq(Nat) /\ Rising(new)
      /\ \A i \in 1 .. Len(new) : a <= new[i] /\ new[i] < b /\ new[i] \notin Nuls
      /\ \A x \in Nat : a <= x /\ x < b /\ x \notin Nuls => \E i \in 1 .. Len(new) : new[i] = x
  BY DEF Filters
<1>2. \A i \in 1 .. Len(new) : new[i] \in Nat
  BY <1>1
<1>3. \A i \in 1 .. Len(new) : new[i] \in Fresh(a, b)
  BY <1>1, <1>2 DEF Fresh
<1>4. \A x \in Fresh(a, b) : x \in Nat /\ a <= x /\ x < b /\ x \notin Nuls
  BY DEF Fresh
<1>5. Lists(new, Fresh(a, b))
  BY <1>1, <1>3, <1>4 DEF Lists
<1>6. QED
  BY <1>1, <1>5, RisingSize

\* Places in the rest.
Behind(l, i) == l + i

RestIn(m, g, l, v) ==
  /\ \A i \in 1 .. l : g + i \in 1 .. m
  /\ \A i \in 1 .. v : Behind(l, i) \in 1 .. (l + v)
  /\ \A i \in 1 .. (l + v) : i \in 1 .. l \/ \E j \in 1 .. v : i = Behind(l, j)
  /\ \A k \in 1 .. m : k > g => \E h \in 1 .. l : g + h = k /\ h \in 1 .. (l + v)

LEMMA RestPlaces ==
  ASSUME NEW m \in Nat, NEW g \in Nat, NEW l \in Nat, NEW v \in Nat, m = Behind(g, l)
  PROVE  RestIn(m, g, l, v)
<1>0. m = g + l
  BY DEF Behind
<1>1. \A i \in 1 .. l : g + i \in 1 .. m
  BY <1>0
<1>2. \A i \in 1 .. v : l + i \in 1 .. (l + v)
  OBVIOUS
<1>3. ASSUME NEW i \in 1 .. (l + v), i \notin 1 .. l PROVE \E j \in 1 .. v : i = l + j
  <2>1. i - l \in 1 .. v /\ i = l + (i - l)
    BY <1>3
  <2>2. QED
    BY <2>1
<1>4. ASSUME NEW k \in 1 .. m, k > g PROVE \E h \in 1 .. l : g + h = k /\ h \in 1 .. (l + v)
  <2>1. k - g \in 1 .. l /\ g + (k - g) = k /\ k - g \in 1 .. (l + v)
    BY <1>0, <1>4
  <2>2. QED
    BY <2>1
<1>5. QED
  BY <1>1, <1>2, <1>3, <1>4 DEF Behind, RestIn

\* A buffer of c bytes, grown from cap where w were wanted, has given up g of
\* its m bytes and kept l for v that come.
Fits(cap, c, w, m, g, l, v) ==
  /\ cap <= c /\ c <= OutputMax /\ l + v <= c /\ (m + v <= c => g = 0)
  /\ w >= m + v \/ w = OutputMax

NowRefused(refusal, new, c, w) == refusal \/ (new # <<>> /\ c < w)

\* All that BufferStep needs, under one name.
Stepping(s, cap, U, refusal, a, b, new, m, v, g, l, c, w, t) ==
  /\ cap \in Nat /\ U \in SUBSET Nat /\ IsFiniteSet(U) /\ refusal \in BOOLEAN
  /\ Holds(s, cap, U, refusal)
  /\ a \in Nat /\ b \in Nat /\ Filters(new, a, b) /\ \A x \in U : x < a
  /\ m \in Nat /\ m = Len(s) /\ v \in Nat /\ v = Len(new)
  /\ g \in Nat /\ l \in Nat /\ m = Behind(g, l)
  /\ c \in Nat /\ w \in Nat /\ Fits(cap, c, w, m, g, l, v)
  /\ IsRest(t, s, new, g)

\* Room is made for what comes, at the expense of the oldest bytes only.
LEMMA BufferStep ==
  ASSUME NEW s, NEW cap, NEW U, NEW refusal, NEW a, NEW b, NEW new, NEW m, NEW v, NEW g, NEW l,
         NEW c, NEW w, NEW t, Stepping(s, cap, U, refusal, a, b, new, m, v, g, l, c, w, t)
  PROVE  Holds(t, c, U \cup Fresh(a, b), NowRefused(refusal, new, c, w))
<1>0. /\ cap \in Nat /\ U \in SUBSET Nat /\ IsFiniteSet(U) /\ refusal \in BOOLEAN
      /\ Holds(s, cap, U, refusal)
      /\ a \in Nat /\ b \in Nat /\ Filters(new, a, b) /\ \A x \in U : x < a
      /\ m \in Nat /\ m = Len(s) /\ v \in Nat /\ v = Len(new)
      /\ g \in Nat /\ l \in Nat /\ m = Behind(g, l)
      /\ c \in Nat /\ w \in Nat /\ Fits(cap, c, w, m, g, l, v)
      /\ IsRest(t, s, new, g)
  BY Zenon DEF Stepping
<1> USE <1>0
<1>1. /\ s \in Seq(Nat) /\ Rising(s) /\ Len(s) <= cap
      /\ \A i \in 1 .. Len(s) : s[i] \in U
      /\ \A i \in 1 .. Len(s) : \A x \in U : x > s[i] => \E j \in 1 .. Len(s) : s[j] = x
  BY DEF Holds
<1>2. m = Len(s) /\ m <= cap
  BY <1>1
<1>3. new \in Seq(Nat) /\ Rising(new)
  BY DEF Filters
<1>4. v = Len(new)
  OBVIOUS
<1>5. /\ g <= m /\ l + v <= c /\ (m + v <= c => g = 0)
      /\ cap <= c /\ c <= OutputMax /\ (w >= m + v \/ w = OutputMax)
  BY DEF Behind, Fits
<1>6. l = m - g
  BY DEF Behind
<1>7. /\ t \in Seq(Nat) /\ Len(t) = l + v
      /\ \A i \in 1 .. l : t[i] = s[g + i]
      /\ \A i \in 1 .. v : t[Behind(l, i)] = new[i]
  <2>1. /\ t \in Seq(Nat) /\ Len(t) = (m - g) + v
        /\ \A i \in 1 .. (m - g) : t[i] = s[g + i]
        /\ \A i \in 1 .. v : t[(m - g) + i] = new[i]
    BY <1>2, <1>4 DEF IsRest
  <2>2. QED
    BY <1>6, <2>1 DEF Behind
<1>8. PICK N : N = Fresh(a, b)
  OBVIOUS
<1>9. Lists(new, N) /\ IsFiniteSet(N) /\ Cardinality(N) = v
  BY <1>4, <1>8, FreshIs
<1>10. /\ \A i \in 1 .. v : new[i] \in N
       /\ \A x \in N : \E i \in 1 .. v : new[i] = x
       /\ \A x \in N : x \in Nat /\ a <= x
  BY <1>4, <1>8, <1>9 DEF Lists, Fresh
<1>11. /\ \A i \in 1 .. l : g + i \in 1 .. m
       /\ \A i \in 1 .. v : Behind(l, i) \in 1 .. (l + v)
       /\ \A k \in 1 .. m : k > g => \E h \in 1 .. l : g + h = k /\ h \in 1 .. (l + v)
  <2>1. RestIn(m, g, l, v)
    BY RestPlaces
  <2>2. QED
    BY <2>1 DEF RestIn
<1>12. \A i \in 1 .. (l + v) : i \in 1 .. l \/ \E j \in 1 .. v : i = Behind(l, j)
  <2>1. RestIn(m, g, l, v)
    BY RestPlaces
  <2>2. QED
    BY <2>1 DEF RestIn
<1>13. \A i \in 1 .. l : t[i] \in U /\ t[i] \in Nat
  BY <1>1, <1>2, <1>7, <1>11
<1>14. \A i \in 1 .. v : t[Behind(l, i)] \in N /\ t[Behind(l, i)] \in Nat
  BY <1>7, <1>10
<1>15. \A i \in 1 .. Len(t) : t[i] \in U \cup N
  BY <1>7, <1>12, <1>13, <1>14
<1>16. Rising(t)
  <2> SUFFICES ASSUME NEW i \in 1 .. (l + v), NEW j \in 1 .. (l + v), i < j PROVE t[i] < t[j]
    BY <1>7 DEF Rising
  <2>1. CASE j \in 1 .. l
    <3>1. i \in 1 .. l /\ g + i < g + j
      BY <1>5, <2>1
    <3>2. s[g + i] < s[g + j]
      BY <1>1, <1>2, <1>11, <2>1, <3>1 DEF Rising
    <3>3. QED
      BY <1>7, <2>1, <3>1, <3>2
  <2>2. CASE \E k \in 1 .. v : j = Behind(l, k)
    <3>1. PICK k \in 1 .. v : j = Behind(l, k)
      BY <2>2
    <3>2. t[j] \in N /\ a <= t[j] /\ t[j] \in Nat
      BY <1>10, <1>14, <3>1
    <3>3. CASE i \in 1 .. l
      <4>1. t[i] \in Nat /\ t[i] < a
        BY <1>13, <3>3
      <4>2. QED
        BY <3>2, <4>1
    <3>4. CASE \E h \in 1 .. v : i = Behind(l, h)
      <4>1. PICK h \in 1 .. v : i = Behind(l, h)
        BY <3>4
      <4>2. h < k
        BY <3>1, <4>1 DEF Behind
      <4>3. new[h] < new[k]
        BY <1>3, <1>4, <4>2 DEF Rising
      <4>4. QED
        BY <1>7, <3>1, <4>1, <4>3
    <3>5. QED
      BY <1>12, <3>3, <3>4
  <2>3. QED
    BY <1>12, <2>1, <2>2
<1>17. \A x \in N : \E j \in 1 .. Len(t) : t[j] = x
  <2> SUFFICES ASSUME NEW x \in N PROVE \E j \in 1 .. (l + v) : t[j] = x
    BY <1>7
  <2>1. PICK k \in 1 .. v : new[k] = x
    BY <1>10
  <2>2. PICK j \in 1 .. (l + v) : j = Behind(l, k)
    BY <1>11
  <2>3. t[j] = x
    BY <1>7, <2>1, <2>2
  <2>4. QED
    BY <2>3
<1>18. ASSUME NEW i \in 1 .. (l + v), NEW x \in U \cup N, x > t[i]
       PROVE  \E j \in 1 .. Len(t) : t[j] = x
  <2>1. CASE x \in N
    BY <1>17, <2>1
  <2>2. CASE x \in U
    <3>1. x < a /\ x \in Nat
      BY <2>2
    <3>2. i \in 1 .. l
      <4> SUFFICES ASSUME NEW k \in 1 .. v, i = Behind(l, k) PROVE FALSE
        BY <1>12
      <4>1. t[i] \in N /\ t[i] \in Nat /\ a <= t[i]
        BY <1>10, <1>14
      <4>2. QED
        BY <1>18, <3>1, <4>1
    <3>3. g + i \in 1 .. m /\ t[i] = s[g + i]
      BY <1>7, <1>11, <3>2
    <3>4. PICK k \in 1 .. m : s[k] = x
      BY <1>1, <1>2, <1>18, <2>2, <3>3
    <3>5. k > g
      <4>1. SUFFICES ASSUME k <= g PROVE FALSE
        BY <1>5
      <4>2. k < g + i
        BY <1>5, <3>2, <4>1
      <4>3. s[k] < s[g + i]
        BY <1>1, <1>2, <3>3, <4>2 DEF Rising
      <4>4. t[i] \in Nat
        BY <1>13, <3>2
      <4>5. QED
        BY <1>18, <3>1, <3>3, <3>4, <4>3, <4>4
    <3>7. PICK h \in 1 .. l : g + h = k /\ h \in 1 .. (l + v)
      BY <1>11, <3>5
    <3>8. t[h] = x
      BY <1>7, <3>4, <3>7
    <3>9. QED
      BY <1>7, <3>7, <3>8
  <2>3. QED
    BY <2>1, <2>2
<1>19. ASSUME ~ NowRefused(refusal, new, c, w), Cardinality(U \cup N) <= OutputMax
       PROVE  Lists(t, U \cup N)
  <2>1. IsFiniteSet(U \cup N) /\ Cardinality(U \cup N) = Cardinality(U) + Cardinality(N) - Cardinality(U \cap N)
    BY <1>9, FS_Union
  <2>2. Cardinality(U \cap N) = 0
    <3>1. U \cap N = {}
      BY <1>10
    <3>2. QED
      BY <3>1, FS_EmptySet
  <2>3. Cardinality(U) \in Nat /\ Cardinality(N) \in Nat
    BY <1>9, FS_CardinalityType
  <2>4. PICK n \in Nat : n = Cardinality(U)
    BY <2>3
  <2>5. n + v <= OutputMax /\ n <= OutputMax
    BY <1>9, <1>19, <2>1, <2>2, <2>4, McpOutputAssumption
  <2>6. Lists(s, U)
    BY <1>19, <2>4, <2>5 DEF Holds, NowRefused
  <2>7. n = m
    BY <1>1, <1>2, <2>4, <2>6, RisingSize
  <2>8. m + v <= c
    <3>1. CASE new = <<>>
      <4>1. v = 0
        BY <1>4, <3>1
      <4>2. QED
        BY <1>2, <1>5, <4>1
    <3>2. CASE new # <<>>
      <4>1. ~ (c < w)
        BY <1>19, <3>2 DEF NowRefused
      <4>2. w >= m + v \/ w = OutputMax
        BY <1>5
      <4>3. QED
        BY <2>5, <2>7, <4>1, <4>2
    <3>3. QED
      BY <3>1, <3>2
  <2>9. g = 0 /\ l = m
    BY <1>5, <1>6, <2>8
  <2>10. ASSUME NEW x \in U PROVE \E j \in 1 .. Len(t) : t[j] = x
    <3>1. PICK k \in 1 .. m : s[k] = x
      BY <1>2, <2>6 DEF Lists
    <3>2. k \in 1 .. l /\ g + k = k /\ k \in 1 .. (l + v)
      BY <2>9
    <3>3. t[k] = x
      BY <1>7, <3>1, <3>2
    <3>4. QED
      BY <1>7, <3>2, <3>3
  <2>11. QED
    BY <1>15, <1>17, <2>10 DEF Lists
<1>20. Len(t) <= c
  BY <1>5, <1>6, <1>7
<1>21. QED
  BY <1>7, <1>8, <1>15, <1>16, <1>18, <1>19, <1>20 DEF Holds

\* The bytes of the device that serial_read has not returned.
UnreadBytes == (read .. (history.total_seq - 1)) \ (fenced \cup Nuls)

\* The buffer holds the newest of them; without a sink there is none.
UnreadInv ==
  /\ output_cap \in Nat /\ OutputInit <= output_cap /\ output_cap <= OutputMax
  /\ read \in Nat /\ read <= history.total_seq
  /\ \A x \in fenced : x \in Nat /\ x < history.total_seq
  /\ refused \in BOOLEAN
  /\ IF HasSink THEN Holds(output_buf, output_cap, UnreadBytes, refused) ELSE output_buf = <<>>

\* A buffer that was just emptied.
LEMMA EmptyHolds ==
  ASSUME NEW cap \in Nat, NEW refusal, NEW U, U = {}
  PROVE  Holds(<<>>, cap, U, refusal)
<1>1. <<>> \in Seq(Nat) /\ Len(<<>>) = 0
  OBVIOUS
<1>2. QED
  BY <1>1 DEF Holds, Rising, Lists

\* Nothing is unread at the start, and nothing after a restart.
LEMMA NothingUnread ==
  ASSUME history = sm_rb_init, output_buf = <<>>, output_cap = OutputInit, fenced = {}, read = 0, refused = FALSE
  PROVE  UnreadInv
<1>1. history.total_seq = 0
  BY DEF sm_rb_init
<1>2. UnreadBytes = {}
  BY <1>1 DEF UnreadBytes
<1>3. OutputInit \in Nat /\ OutputInit <= OutputMax /\ OutputMax \in Nat
  BY McpOutputAssumption
<1>4. Holds(<<>>, output_cap, UnreadBytes, refused)
  BY <1>2, <1>3, EmptyHolds
<1>5. QED
  <2>1. fenced = {} /\ read = 0 /\ refused = FALSE /\ output_buf = <<>> /\ output_cap = OutputInit
    OBVIOUS
  <2>2. /\ output_cap \in Nat /\ OutputInit <= output_cap /\ output_cap <= OutputMax
        /\ read \in Nat /\ read <= history.total_seq
    BY <1>1, <1>3, <2>1
  <2>3. \A x \in fenced : x \in Nat /\ x < history.total_seq
    BY <2>1
  <2>4. Holds(output_buf, output_cap, UnreadBytes, refused)
    BY <1>4, <2>1
  <2>5. QED
    BY <2>1, <2>2, <2>3, <2>4 DEF UnreadInv

\* Nothing that the buffer depends on changes.
LEMMA SameUnread ==
  ASSUME UnreadInv, UNCHANGED <<history, audience, output_buf, output_cap, fenced, read, refused>>
  PROVE  UnreadInv'
BY DEF UnreadInv, UnreadBytes, HasSink

\* Requests leave the ring and the audience alone.
LEMMA ReaderStepKeeps ==
  ASSUME UnreadInv, ReaderStep, UNCHANGED sinkVars
  PROVE  UnreadInv'
<1>1. UNCHANGED <<history, audience>>
  <2>1. ASSUME NEW r \in Readers, handle_history_request(r) PROVE UNCHANGED <<history, audience>>
    BY <2>1 DEF handle_history_request
  <2>2. ASSUME NEW r \in Readers, remove_client(r) PROVE UNCHANGED <<history, audience>>
    BY <2>2 DEF remove_client
  <2>3. ASSUME NEW r \in Readers, Reconnect(r) PROVE UNCHANGED <<history, audience>>
    BY <2>3 DEF Reconnect
  <2>4. ASSUME NEW r \in Readers, NEW n \in Tails, handle_tail_request(r, n) PROVE UNCHANGED <<history, audience>>
    BY <2>4 DEF handle_tail_request
  <2>5. ASSUME NEW r \in Agents, tool_serial_output_history(r) PROVE UNCHANGED <<history, audience>>
    BY <2>5 DEF tool_serial_output_history
  <2>6. CASE process_history_pending
    BY <2>6 DEF process_history_pending
  <2>7. QED
    BY <2>1, <2>2, <2>3, <2>4, <2>5, <2>6 DEF ReaderStep
<1>2. QED
  BY <1>1, SameUnread DEF sinkVars

\* The ring moves on by len bytes.
LEMMA RingMoves ==
  ASSUME IInv, NEW len \in Nat \ {0}, NEW sameTs, ToRing(len, sameTs)
  PROVE  /\ history.total_seq \in Nat /\ history'.total_seq = history.total_seq + len
         /\ audience' = audience
<1>1. NewestRing(history) /\ history.total_seq \in Nat
  BY Disassemble
<1>2. history' = sm_rb_append(history, len, sameTs) /\ audience' = audience
  BY DEF ToRing
<1>3. QED
  BY <1>1, <1>2, AppendKeeps

\* The broker's own lines do not count.
LEMMA FenceKeeps ==
  ASSUME IInv, UnreadInv, NEW len \in FenceSizes, history_fence(len)
  PROVE  UnreadInv'
<1>1. len \in Nat \ {0} /\ ToRing(len, FALSE)
  BY McpOutputAssumption DEF history_fence
<1>2. PICK n : n = history.total_seq
  OBVIOUS
<1>3. n \in Nat /\ history'.total_seq = n + len /\ audience' = audience
  BY <1>1, <1>2, RingMoves
<1>4. /\ fenced' = (IF HasSink THEN fenced \cup (n .. (n + len - 1)) ELSE fenced)
      /\ UNCHANGED <<output_buf, output_cap, read, refused>>
  BY <1>2 DEF history_fence
<1>5. /\ read \in Nat /\ read <= n /\ \A x \in fenced : x \in Nat /\ x < n
  BY <1>2 DEF UnreadInv
<1>6. /\ read' \in Nat /\ read' <= history'.total_seq
      /\ \A x \in fenced' : x \in Nat /\ x < history'.total_seq
  BY <1>1, <1>3, <1>4, <1>5
<1>7. HasSink' <=> HasSink
  BY <1>3 DEF HasSink
<1>8. HasSink => UnreadBytes' = UnreadBytes
  <2> SUFFICES ASSUME HasSink PROVE UnreadBytes' = UnreadBytes
    OBVIOUS
  <2>1. UnreadBytes' = (read .. (n + len - 1)) \ ((fenced \cup (n .. (n + len - 1))) \cup Nuls)
    <3>1. fenced' = fenced \cup (n .. (n + len - 1)) /\ read' = read
      BY <1>4
    <3>2. UnreadBytes' = (read' .. (history'.total_seq - 1)) \ (fenced' \cup Nuls)
      BY DEF UnreadBytes
    <3>3. history'.total_seq - 1 = n + len - 1
      BY <1>1, <1>3
    <3>4. QED
      BY <3>1, <3>2, <3>3
  <2>2. UnreadBytes = (read .. (n - 1)) \ (fenced \cup Nuls)
    BY <1>2 DEF UnreadBytes
  <2>3. QED
    BY <1>1, <1>3, <1>5, <2>1, <2>2
<1>9. QED
  BY <1>4, <1>6, <1>7, <1>8 DEF UnreadInv

\* Output comes: mcp_buffer_output keeps the newest of it.
LEMMA ChunkKeeps ==
  ASSUME IInv, UnreadInv, NEW len \in Sizes, NEW sameTs \in BOOLEAN, process_link_chunk(len, sameTs)
  PROVE  UnreadInv'
<1>1. len \in Nat \ {0} /\ len <= OutputInit /\ ToRing(len, sameTs) /\ OutputInit \in Nat \ {0} /\ OutputMax \in Nat
  BY HistoryAssumption, McpOutputAssumption DEF process_link_chunk
<1>2. PICK n : n = history.total_seq
  OBVIOUS
<1>3. n \in Nat /\ history'.total_seq = n + len /\ audience' = audience
  BY <1>1, <1>2, RingMoves
<1>4. /\ IF HasSink THEN mcp_buffer_output(n, len) ELSE UNCHANGED <<output_buf, output_cap, refused>>
      /\ fenced' = fenced /\ read' = read
  BY <1>2 DEF process_link_chunk
<1>5. /\ output_cap \in Nat /\ OutputInit <= output_cap /\ output_cap <= OutputMax
      /\ read \in Nat /\ read <= n /\ (\A x \in fenced : x \in Nat /\ x < n)
      /\ refused \in BOOLEAN
      /\ IF HasSink THEN Holds(output_buf, output_cap, UnreadBytes, refused) ELSE output_buf = <<>>
  BY <1>2 DEF UnreadInv
<1>6. /\ read' \in Nat /\ read' <= history'.total_seq
      /\ \A x \in fenced' : x \in Nat /\ x < history'.total_seq
  BY <1>1, <1>3, <1>4, <1>5
<1>7. HasSink' <=> HasSink
  BY <1>3 DEF HasSink
<1>8. CASE ~HasSink
  <2>1. output_buf' = output_buf /\ output_cap' = output_cap /\ refused' = refused
    BY <1>4, <1>8
  <2>2. QED
    BY <1>5, <1>6, <1>7, <1>8, <2>1 DEF UnreadInv
<1>9. CASE HasSink
  <2>1. PICK U : U = UnreadBytes
    OBVIOUS
  <2>2. U = (read .. (n - 1)) \ (fenced \cup Nuls)
    BY <1>2, <2>1 DEF UnreadBytes
  <2>3. U \in SUBSET Nat /\ (\A x \in U : x < n) /\ IsFiniteSet(U)
    <3>1. IsFiniteSet(read .. (n - 1))
      BY <1>3, <1>5, FS_Interval
    <3>2. U \in SUBSET (read .. (n - 1))
      BY <2>2
    <3>3. IsFiniteSet(U)
      BY <3>1, <3>2, FS_Subset
    <3>4. QED
      BY <1>3, <1>5, <3>2, <3>3
  <2>4. PICK b \in Nat : b = n + len
    BY <1>1, <1>3
  <2>5. UnreadBytes' = U \cup Fresh(n, b)
    <3>1. UnreadBytes' = (read' .. (history'.total_seq - 1)) \ (fenced' \cup Nuls)
      BY DEF UnreadBytes
    <3>2. UnreadBytes' = (read .. (b - 1)) \ (fenced \cup Nuls)
      BY <1>3, <1>4, <2>4, <3>1
    <3>3. n < b
      BY <1>1, <1>3, <2>4
    <3>4. QED
      BY <1>3, <1>5, <2>2, <3>2, <3>3 DEF Fresh
  <2>6. PICK new : new = WithoutNuls(n, len)
    OBVIOUS
  <2>7. Filters(new, n, b)
    <3>1. Filters(new, n, n + len)
      BY <1>1, <1>3, <2>6, WithoutNulsIs
    <3>2. QED
      BY <2>4, <3>1
  <2>8. PICK s : s = output_buf
    OBVIOUS
  <2>9. Holds(s, output_cap, U, refused)
    BY <1>5, <1>9, <2>1, <2>8
  <2>10. s \in Seq(Nat) /\ new \in Seq(Nat) /\ Len(s) <= output_cap /\ Len(new) <= b - n
    BY <2>7, <2>9 DEF Holds, Filters
  <2>11. PICK m \in Nat : m = Len(s)
    BY <2>10
  <2>12. PICK v \in Nat : v = Len(new)
    BY <2>10
  <2>13. PICK size \in Nat : size = m + v
    OBVIOUS
  <2>14. mcp_buffer_output(n, len)
    BY <1>4, <1>9
  <2>15. PICK c : /\ c \in (IF new = <<>> THEN {output_cap} ELSE Grown(output_cap, size))
                  /\ output_cap' = c
                  /\ refused' = (refused \/ (new # <<>> /\ c < Wanted(output_cap, size)))
                  /\ output_buf' = SubSeq(s, Evicted(m, v, c) + 1, m) \o new
    BY <2>6, <2>8, <2>11, <2>12, <2>13, <2>14 DEF mcp_buffer_output
  <2>16. /\ \A d \in Grown(output_cap, size) : d \in Nat /\ output_cap <= d /\ d <= OutputMax
         /\ Wanted(output_cap, size) \in Nat
         /\ Wanted(output_cap, size) >= size \/ Wanted(output_cap, size) = OutputMax
    <3>1. output_cap >= 1
      BY <1>1, <1>5
    <3>2. QED
      BY <1>5, <3>1, GrownIs
  <2>17. c \in Nat /\ output_cap <= c /\ c <= OutputMax
    BY <1>5, <2>15, <2>16
  <2>18. PICK w : w = Wanted(output_cap, size)
    OBVIOUS
  <2>19. w \in Nat /\ (w >= m + v \/ w = OutputMax)
    BY <2>13, <2>16, <2>18
  <2>20. PICK g : g = Evicted(m, v, c)
    OBVIOUS
  <2>21. v <= c
    <3>1. v <= len
      BY <1>1, <1>3, <2>4, <2>10, <2>12
    <3>2. QED
      BY <1>1, <1>5, <2>17, <3>1
  <2>22. g \in Nat /\ g <= m /\ (m - g) + v <= c /\ (m + v <= c => g = 0)
    BY <2>17, <2>20, <2>21, EvictedIs
  <2>23. PICK l \in Nat : l = m - g
    <3>1. m - g \in Nat
      BY <2>22
    <3>2. QED
      BY <3>1
  <2>24. m = Behind(g, l) /\ l + v <= c
    BY <2>22, <2>23 DEF Behind
  <2>25. PICK t : t = output_buf'
    OBVIOUS
  <2>26. t = SubSeq(s, g + 1, Len(s)) \o new /\ g <= Len(s)
    BY <2>11, <2>15, <2>20, <2>22, <2>25
  <2>27. IsRest(t, s, new, g)
    BY <2>10, <2>22, <2>26, RestOf
  <2>28. Holds(t, c, U \cup Fresh(n, b), NowRefused(refused, new, c, w))
    <3>1. Fits(output_cap, c, w, m, g, l, v)
      BY <2>17, <2>19, <2>22, <2>24 DEF Fits
    <3>2. m = Behind(g, l) /\ g \in Nat /\ c \in Nat /\ w \in Nat
      BY <2>17, <2>19, <2>22, <2>24
    <3>3. Stepping(s, output_cap, U, refused, n, b, new, m, v, g, l, c, w, t)
      BY <1>3, <1>5, <2>3, <2>7, <2>9, <2>11, <2>12, <2>27, <3>1, <3>2, Zenon DEF Stepping
    <3>4. QED
      BY <3>3, BufferStep, Zenon
  <2>29. refused' = NowRefused(refused, new, c, w) /\ output_cap' = c
    BY <2>15, <2>18 DEF NowRefused
  <2>30. Holds(output_buf', output_cap', UnreadBytes', refused')
    BY <2>5, <2>25, <2>28, <2>29
  <2>31. refused' \in BOOLEAN
    BY <2>29 DEF NowRefused
  <2>32. output_cap' \in Nat /\ OutputInit <= output_cap' /\ output_cap' <= OutputMax
    BY <1>1, <1>5, <2>17, <2>29
  <2>33. QED
    BY <1>6, <1>7, <1>9, <2>30, <2>31, <2>32 DEF UnreadInv
<1>10. QED
  BY <1>8, <1>9

\* serial_read returns all there is, and nothing newer is left behind.
LEMMA DrainKeeps ==
  ASSUME IInv, UnreadInv, mcp_drain_output
  PROVE  UnreadInv'
<1>1. PICK n : n = history.total_seq
  OBVIOUS
<1>2. n \in Nat
  BY <1>1, Disassemble
<1>3. PICK s : s = output_buf
  OBVIOUS
<1>4. /\ s # <<>> /\ read' = Last(s) + 1 /\ output_buf' = <<>>
      /\ history' = history /\ audience' = audience
      /\ output_cap' = output_cap /\ fenced' = fenced /\ refused' = refused
  BY <1>3 DEF mcp_drain_output, vars
<1>5. /\ output_cap \in Nat /\ OutputInit <= output_cap /\ output_cap <= OutputMax
      /\ read \in Nat /\ read <= n /\ (\A x \in fenced : x \in Nat /\ x < n)
      /\ refused \in BOOLEAN /\ HasSink /\ Holds(s, output_cap, UnreadBytes, refused)
  BY <1>1, <1>3, <1>4 DEF UnreadInv
<1>6. /\ s \in Seq(Nat) /\ Rising(s) /\ \A i \in 1 .. Len(s) : s[i] \in UnreadBytes
      /\ \A i \in 1 .. Len(s) : \A x \in UnreadBytes : x > s[i] => \E j \in 1 .. Len(s) : s[j] = x
  BY <1>5 DEF Holds
<1>7. PICK m : m = Len(s)
  OBVIOUS
<1>8. m \in 1 .. Len(s) /\ m \in Nat
  BY <1>4, <1>6, <1>7
<1>9. PICK z : z = s[m]
  OBVIOUS
<1>10. read' = z + 1 /\ z \in UnreadBytes
  BY <1>4, <1>6, <1>7, <1>8, <1>9 DEF Last
<1>11. z \in Nat /\ read <= z /\ z < n
  BY <1>1, <1>2, <1>5, <1>10 DEF UnreadBytes
<1>12. UnreadBytes' = {}
  <2> SUFFICES ASSUME NEW x \in UnreadBytes' PROVE FALSE
    OBVIOUS
  <2>1. x \in (read' .. (n - 1)) /\ x \notin fenced \cup Nuls
    BY <1>1, <1>4 DEF UnreadBytes
  <2>2. x \in Nat /\ z < x /\ x \in UnreadBytes
    BY <1>1, <1>2, <1>5, <1>10, <1>11, <2>1 DEF UnreadBytes
  <2>3. PICK j \in 1 .. Len(s) : s[j] = x
    BY <1>6, <1>8, <1>9, <2>2
  <2>4. CASE j = m
    BY <1>9, <1>11, <2>2, <2>3, <2>4
  <2>5. CASE j # m
    <3>1. j < m
      BY <1>7, <1>8, <2>5
    <3>2. s[j] < s[m]
      BY <1>6, <1>8, <3>1 DEF Rising
    <3>3. QED
      BY <1>9, <1>11, <2>2, <2>3, <3>2
  <2>6. QED
    BY <2>4, <2>5
<1>13. Holds(<<>>, output_cap', UnreadBytes', refused')
  BY <1>4, <1>5, <1>12, EmptyHolds
<1>14. read' \in Nat /\ read' <= n
  BY <1>2, <1>10, <1>11
<1>15. QED
  BY <1>1, <1>4, <1>5, <1>13, <1>14 DEF UnreadInv

LEMMA SinkKeeps ==
  ASSUME IInv, UnreadInv, [SinkNext]_allVars
  PROVE  UnreadInv'
<1>1. ASSUME NEW len \in Sizes, NEW sameTs \in BOOLEAN, process_link_chunk(len, sameTs) PROVE UnreadInv'
  BY <1>1, ChunkKeeps
<1>2. ASSUME NEW len \in FenceSizes, history_fence(len) PROVE UnreadInv'
  BY <1>2, FenceKeeps
<1>3. CASE mcp_drain_output
  BY <1>3, DrainKeeps
<1>4. CASE ReaderStep /\ UNCHANGED sinkVars
  BY <1>4, ReaderStepKeeps
<1>5. CASE Restart
  <2>1. /\ (history = sm_rb_init)' /\ (output_buf = <<>>)' /\ (output_cap = OutputInit)' /\ (fenced = {})'
        /\ (read = 0)' /\ (refused = FALSE)'
    BY <1>5 DEF Restart, BrokerRestarts
  <2>2. QED
    BY <2>1, NothingUnread, PTL
<1>6. CASE UNCHANGED allVars
  BY <1>6, SameUnread DEF allVars, vars, sinkVars
<1>7. QED
  BY <1>1, <1>2, <1>3, <1>4, <1>5, <1>6 DEF SinkNext

LEMMA UnreadSafe == IInv /\ UnreadInv => UnreadIsNewest
<1> SUFFICES ASSUME IInv, UnreadInv, HasSink PROVE UnreadIsNewest
  BY DEF UnreadIsNewest
<1>1. PICK s : s = output_buf
  OBVIOUS
<1>2. Holds(s, output_cap, UnreadBytes, refused)
  BY <1>1 DEF UnreadInv
<1>3. /\ s \in Seq(Nat) /\ Rising(s) /\ Len(s) <= output_cap
      /\ \A i \in 1 .. Len(s) : s[i] \in UnreadBytes
      /\ \A i \in 1 .. Len(s) : \A x \in UnreadBytes : x > s[i] => \E j \in 1 .. Len(s) : s[j] = x
      /\ ~refused /\ Cardinality(UnreadBytes) <= OutputMax => Lists(s, UnreadBytes)
  BY <1>2 DEF Holds
<1>4. PICK m \in Nat : m = Len(s)
  BY <1>3
<1>5. \A x : x \in Range(s) <=> \E i \in 1 .. m : s[i] = x
  BY <1>3, <1>4 DEF Range
<1>6. \A i \in 1 .. (m - 1) : s[i] < s[i + 1]
  <2> SUFFICES ASSUME NEW i \in 1 .. (m - 1) PROVE s[i] < s[i + 1]
    OBVIOUS
  <2>1. i \in 1 .. m /\ i + 1 \in 1 .. m /\ i < i + 1
    OBVIOUS
  <2>2. QED
    BY <1>3, <1>4, <2>1 DEF Rising
<1>7. Range(s) \subseteq UnreadBytes
  BY <1>3, <1>4, <1>5
<1>8. \A x \in Range(s), y \in UnreadBytes : y > x => y \in Range(s)
  <2> SUFFICES ASSUME NEW x \in Range(s), NEW y \in UnreadBytes, y > x PROVE y \in Range(s)
    OBVIOUS
  <2>1. PICK i \in 1 .. m : s[i] = x
    BY <1>5
  <2>2. \E j \in 1 .. m : s[j] = y
    BY <1>3, <1>4, <2>1
  <2>3. QED
    BY <1>5, <2>2
<1>9. ~refused /\ Cardinality(UnreadBytes) <= OutputMax => Range(s) = UnreadBytes
  <2> SUFFICES ASSUME ~refused, Cardinality(UnreadBytes) <= OutputMax PROVE UnreadBytes \subseteq Range(s)
    BY <1>7
  <2>1. Lists(s, UnreadBytes)
    BY <1>3
  <2>2. QED
    BY <1>4, <1>5, <2>1 DEF Lists
<1>10. QED
  BY <1>1, <1>3, <1>4, <1>6, <1>7, <1>8, <1>9 DEF UnreadIsNewest, UnreadBytes

\* What serial_read will return is the newest output, in order, without a gap
\* and without a byte it returned before, and it fits the buffer, whatever the
\* buffer's sizes, the chunks and the NULs in them, and wherever growing it
\* fails (mcp_buffer_output, mcp_drain_output).
THEOREM UnreadSafety == SinkSpec => []UnreadIsNewest
<1>1. SinkInit => IInv /\ UnreadInv
  <2> SUFFICES ASSUME SinkInit PROVE IInv /\ UnreadInv
    OBVIOUS
  <2>1. IInv
    BY InitOK DEF SinkInit
  <2>2. history = sm_rb_init
    BY DEF SinkInit, Init
  <2>3. UnreadInv
    BY <2>2, NothingUnread DEF SinkInit
  <2>4. QED
    BY <2>1, <2>3
<1>2. IInv /\ UnreadInv /\ [SinkNext]_allVars => (IInv /\ UnreadInv)'
  BY NextKeeps, SinkKeeps
<1>3. IInv /\ UnreadInv => UnreadIsNewest
  BY UnreadSafe
<1>4. QED
  BY <1>1, <1>2, <1>3, PTL DEF SinkSpec
=============================================================================
