---------------------------- MODULE Rules_proofs ----------------------------
(***************************************************************************)
(* Proofs about the standing rules: for windows, chunks, tables and        *)
(* streams of any size, what fires is real and current, what should fire   *)
(* does, and clients are told of every incident that is recorded.          *)
(***************************************************************************)
EXTENDS Rules, FiniteSetTheorems, FunctionTheorems, SequenceTheorems, WellFoundedInduction, TLAPS

-----------------------------------------------------------------------------
(* Least and greatest elements, and iteration.                             *)
\* A nonempty set of natural numbers has a least element.
LEMMA LeastNatural ==
  ASSUME NEW S \in SUBSET Nat, S # {}
  PROVE  \E x \in S : \A y \in S : x <= y
<1> DEFINE R == {ss \in Nat \X Nat : ss[1] < ss[2]}
<1>1. R = OpToRel(<, Nat)
  BY Zenon DEF OpToRel
<1>2. IsWellFoundedOn(R, Nat)
  BY <1>1, NatLessThanWellFounded, Zenon
<1>3. ASSUME NEW a \in Nat, NEW b \in Nat, a < b
      PROVE  <<a, b>> \in R
  <2> DEFINE p == <<a, b>>
  <2>1. p \in Nat \X Nat /\ p[1] = a /\ p[2] = b
    OBVIOUS
  <2> HIDE DEF p
  <2>2. p \in R
    BY <2>1, <1>3
  <2>3. QED
    BY <2>2 DEF p
<1> HIDE DEF R
<1>4. PICK x \in S : \A y \in S : ~ (<<y, x>> \in R)
  BY <1>2, WFMin
<1>5. \A y \in S : ~ (y < x)
  BY <1>3, <1>4, Zenon
<1>6. QED
  BY <1>5

\* Min finds it.
LEMMA MinIsLeast ==
  ASSUME NEW S \in SUBSET Nat, S # {}
  PROVE  Min(S) \in S /\ \A y \in S : Min(S) <= y
BY LeastNatural DEF Min

\* Max finds the greatest element of a bounded one.
LEMMA MaxIsGreatest ==
  ASSUME NEW S \in SUBSET Nat, S # {}, NEW n \in Nat, \A y \in S : y <= n
  PROVE  Max(S) \in S /\ \A y \in S : Max(S) >= y
<1> DEFINE T == {n - y : y \in S}
<1>1. T \in SUBSET Nat /\ T # {}
  <2>1. \A y \in S : y \in Nat /\ y <= n
    OBVIOUS
  <2>2. \A y \in S : n - y \in Nat
    BY <2>1
  <2>3. QED
    BY <2>2
<1>2. PICK z \in T : \A y \in T : z <= y
  BY <1>1, LeastNatural
<1>3. PICK x \in S : z = n - x
  BY <1>2
<1>4. \A y \in S : n - x <= n - y
  BY <1>2, <1>3
<1>5. \A y \in S : x >= y
  BY <1>4
<1>6. QED
  BY <1>5 DEF Max

\* Induction up to n, over the set of the numbers at which something holds.
LEMMA Induction ==
  ASSUME NEW n \in Nat, NEW Good, 0 \in Good,
         \A k \in 1 .. n : k - 1 \in Good => k \in Good
  PROVE  \A k \in 0 .. n : k \in Good
<1> SUFFICES ASSUME \E k \in 0 .. n : k \notin Good PROVE FALSE
  OBVIOUS
<1> DEFINE Bad == {k \in 0 .. n : k \notin Good}
<1>1. Bad \in SUBSET Nat /\ Bad # {}
  OBVIOUS
<1>2. PICK k \in Bad : \A j \in Bad : k <= j
  BY <1>1, LeastNatural
<1>3. k \in 1 .. n /\ k - 1 \in 0 .. n
  BY <1>2
<1>4. k - 1 \in Good
  BY <1>2, <1>3
<1>5. QED
  BY <1>2, <1>3, <1>4

IsRun(f, start, step, n) == f[0] = start /\ \A k \in 1 .. n : f[k] = step[k][f[k - 1]]

\* Steps can be taken one after the other, each from one set to the next.
LEMMA Runs ==
  ASSUME NEW n \in Nat, NEW S, NEW start \in S[0], NEW step,
         \A k \in 1 .. n : \A x \in S[k - 1] : step[k][x] \in S[k]
  PROVE  \E f : /\ f = [k \in 0 .. n |-> f[k]] /\ IsRun(f, start, step, n)
               /\ \A k \in 0 .. n : f[k] \in S[k]
<1> DEFINE Ok(f, m) == /\ f = [k \in 0 .. m |-> f[k]] /\ IsRun(f, start, step, m)
                       /\ \A k \in 0 .. m : f[k] \in S[k]
           Good == {m \in 0 .. n : \E f : Ok(f, m)}
<1>1. 0 \in Good
  <2> DEFINE f == [k \in 0 .. 0 |-> start]
  <2>1. f[0] = start /\ f = [k \in 0 .. 0 |-> f[k]]
    OBVIOUS
  <2> HIDE DEF f
  <2>2. Ok(f, 0)
    BY <2>1 DEF IsRun
  <2>3. QED
    BY <2>2
<1>2. ASSUME NEW m \in 1 .. n, m - 1 \in Good PROVE m \in Good
  <2>1. PICK f : Ok(f, m - 1)
    BY <1>2
  <2>2. PICK next : next = step[m][f[m - 1]]
    OBVIOUS
  <2>3. next \in S[m]
    <3>1. f[m - 1] \in S[m - 1]
      BY <2>1
    <3>2. QED
      BY <2>2, <3>1
  <2> DEFINE h == [k \in 0 .. m |-> IF k = m THEN next ELSE f[k]]
  <2>4. h[m] = next /\ (\A k \in 0 .. (m - 1) : h[k] = f[k]) /\ h = [k \in 0 .. m |-> h[k]]
    OBVIOUS
  <2> HIDE DEF h
  <2>5. \A k \in 0 .. m : h[k] \in S[k]
    <3>1. \A k \in 0 .. m : k = m \/ k \in 0 .. (m - 1)
      OBVIOUS
    <3>2. \A k \in 0 .. (m - 1) : f[k] \in S[k]
      BY <2>1
    <3>3. QED
      BY <2>3, <2>4, <3>1, <3>2
  <2>6. h[0] = start
    BY <2>1, <2>4 DEF IsRun
  <2>7. ASSUME NEW k \in 1 .. m PROVE h[k] = step[k][h[k - 1]]
    <3>1. h[k - 1] = f[k - 1]
      <4>1. k - 1 \in 0 .. (m - 1)
        OBVIOUS
      <4>2. QED
        BY <2>4, <4>1
    <3>2. CASE k = m
      BY <2>2, <2>4, <3>1, <3>2
    <3>3. CASE k # m
      <4>1. k \in 1 .. (m - 1) /\ k \in 0 .. (m - 1)
        BY <3>3
      <4>2. QED
        BY <2>1, <2>4, <3>1, <4>1 DEF IsRun
    <3>4. QED
      BY <3>2, <3>3
  <2>8. Ok(h, m)
    BY <2>4, <2>5, <2>6, <2>7 DEF IsRun
  <2>9. QED
    BY <2>8
<1>3. \A m \in 0 .. n : m \in Good
  <2> HIDE DEF Good
  <2>1. QED
    BY <1>1, <1>2, Induction
<1>4. QED
  BY <1>3

\* SetToSeq names every element once.
Lists(s, T) ==
  /\ s \in Seq(T) /\ (\A i, j \in 1 .. Len(s) : s[i] = s[j] => i = j)
  /\ \A x \in T : \E i \in 1 .. Len(s) : s[i] = x

LEMMA SetToSeqIs ==
  ASSUME NEW T, IsFiniteSet(T), NEW s, s = SetToSeq(T)
  PROVE  Lists(s, T)
<1>1. PICK n \in Nat : n = Cardinality(T)
  BY FS_CardinalityType
<1>2. ExistsBijection(1 .. n, T)
  BY <1>1, FS_CardinalityType
<1>3. PICK f \in Bijection(1 .. n, T) : TRUE
  BY <1>2 DEF ExistsBijection
<1>4. f \in [1 .. n -> T] /\ IsInjective(f)
  BY <1>3 DEF Bijection, Injection, IsInjective
<1>5. s \in [1 .. n -> T] /\ IsInjective(s)
  BY <1>1, <1>4 DEF SetToSeq
<1>6. s \in Seq(T) /\ Len(s) = n
  BY <1>5
<1>7. s \in Injection(1 .. n, T)
  BY <1>5 DEF Injection, IsInjective
<1>8. s \in Surjection(1 .. n, T)
  <2>1. IsFiniteSet(1 .. n) /\ Cardinality(1 .. n) = n
    BY FS_Interval
  <2>2. QED
    BY <1>1, <1>7, <2>1, FS_Injection
<1>9. QED
  BY <1>5, <1>6, <1>8 DEF Surjection, IsInjective, Lists


-----------------------------------------------------------------------------
(* Windows over the positions of a stream.                                 *)

\* Window w holds the newest positions of a stream of length n, all of them.
Recent(w, n) == w \in Seq(Nat) /\ Len(w) <= n /\ \A j \in 1 .. Len(w) : w[j] = (n - Len(w)) + j

\* Window w holds positions of a stream of length n in their order, and from
\* its first cell on every one that is not in gaps.
Rises(w) == \A i, j \in 1 .. Len(w) : i < j => w[i] < w[j]
Covers(w, n, gaps) ==
  \A x \in 1 .. n : Len(w) > 0 /\ x >= w[1] => x \in gaps \/ \E j \in 1 .. Len(w) : w[j] = x
Kept(w, n, gaps) ==
  /\ w \in Seq(Nat) /\ (\A j \in 1 .. Len(w) : w[j] \in 1 .. n)
  /\ Rises(w) /\ Covers(w, n, gaps)

\* The positions of a chunk of n bytes behind a stream of length l.
Added(l, n) == [i \in 1 .. n |-> l + i]

\* Those positions are p, and the stream has length k with them.
Chunk(p, k, l, n) == p = Added(l, n) /\ k = l + n

\* Window w is window v with a chunk appended.
Grown(w, v, p) == w = v \o p

IsAdded(p, l, n) == p \in Seq(Nat) /\ Len(p) = n /\ \A i \in 1 .. n : p[i] = l + i
IsJoin(w, v, p, S) ==
  /\ w \in Seq(S) /\ Len(w) = Len(v) + Len(p)
  /\ \A j \in 1 .. Len(v) : w[j] = v[j]
  /\ \A j \in 1 .. (Len(v) + Len(p)) : j > Len(v) => w[j] = p[j - Len(v)]
IsTail(w, v, d, S) == w \in Seq(S) /\ Len(w) = Len(v) - d /\ \A j \in 1 .. Len(w) : w[j] = v[d + j]

LEMMA AddedIs ==
  ASSUME NEW l \in Nat, NEW n \in Nat, NEW p, p = Added(l, n)
  PROVE  IsAdded(p, l, n)
<1>1. p \in [1 .. n -> Nat]
  BY DEF Added
<1>2. \A i \in 1 .. n : p[i] = l + i
  BY DEF Added
<1>3. QED
  BY <1>1, <1>2 DEF IsAdded

\* Two sequences of positions, one behind the other.
LEMMA Joined ==
  ASSUME NEW S, NEW v \in Seq(S), NEW p \in Seq(S), NEW w, w = v \o p
  PROVE  IsJoin(w, v, p, S)
BY ConcatProperties DEF IsJoin

\* The newest cells of a window.
LEMMA Tailed ==
  ASSUME NEW S, NEW v \in Seq(S), NEW d \in Nat, d <= Len(v), NEW w, w = SubSeq(v, d + 1, Len(v))
  PROVE  IsTail(w, v, d, S)
<1>1. PICK x \in Int : x = d + 1
  OBVIOUS
<1>2. PICK y \in Nat : y = Len(v)
  OBVIOUS
<1>3. \A i \in x .. y : v[i] \in S
  BY <1>1, <1>2
<1>4. /\ w \in Seq(S) /\ Len(w) = (IF x <= y THEN y - x + 1 ELSE 0)
      /\ \A i \in 1 .. (y - x + 1) : w[i] = v[x + i - 1]
  BY <1>1, <1>2, <1>3, SubSeqProperties
<1>5. Len(w) = y - d
  BY <1>1, <1>2, <1>4
<1>6. \A i \in 1 .. (y - d) : w[i] = v[x + i - 1]
  BY <1>1, <1>2, <1>4
<1>7. \A i \in 1 .. (y - d) : x + i - 1 = d + i
  BY <1>1, <1>2
<1>8. \A i \in 1 .. (y - d) : w[i] = v[d + i]
  BY <1>6, <1>7
<1>9. QED
  BY <1>2, <1>4, <1>5, <1>8 DEF IsTail

LEMMA RecentExtended ==
  ASSUME NEW l \in Nat, NEW n \in Nat, NEW v, Recent(v, l), NEW p, NEW k \in Nat, Chunk(p, k, l, n),
         NEW w, Grown(w, v, p)
  PROVE  Recent(w, k) /\ Len(w) = Len(v) + n
<1>0. p = Added(l, n) /\ k = l + n
  BY DEF Chunk
<1>1. PICK m \in Nat : m = Len(v)
  BY DEF Recent
<1>2. p \in Seq(Nat) /\ Len(p) = n /\ \A i \in 1 .. n : p[i] = l + i
  <2>1. IsAdded(p, l, n)
    BY <1>0, AddedIs
  <2>2. QED
    BY <2>1 DEF IsAdded
<1>3. v \in Seq(Nat) /\ m <= l /\ \A j \in 1 .. m : v[j] = (l - m) + j
  BY <1>1 DEF Recent
<1>4. /\ w \in Seq(Nat) /\ Len(w) = m + n
      /\ (\A j \in 1 .. m : w[j] = v[j]) /\ (\A j \in 1 .. (m + n) : j > m => w[j] = p[j - m])
  <2>1. IsJoin(w, v, p, Nat)
    BY <1>2, <1>3, Joined DEF Grown
  <2>2. QED
    BY <1>1, <1>2, <2>1 DEF IsJoin
<1>5. ASSUME NEW j \in 1 .. (m + n) PROVE w[j] = (k - (m + n)) + j
  <2>1. CASE j <= m
    BY <1>0, <1>3, <1>4, <2>1
  <2>2. CASE j > m
    <3>1. PICK i \in 1 .. n : i = j - m
      BY <2>2
    <3>2. w[j] = l + i
      BY <1>2, <1>4, <2>2, <3>1
    <3>3. l + i = (k - (m + n)) + j
      BY <1>0, <3>1
    <3>4. QED
      BY <3>2, <3>3
  <2>3. j <= m \/ j > m
    OBVIOUS
  <2>4. QED
    BY <2>1, <2>2, <2>3, Zenon
<1>6. m + n <= k
  BY <1>0, <1>3
<1>7. \A j \in 1 .. Len(w) : w[j] = (k - Len(w)) + j
  BY <1>4, <1>5
<1>8. QED
  BY <1>1, <1>4, <1>6, <1>7 DEF Recent

\* Window w is window v without its d oldest cells.
Shrunk(w, v, d) == w = SubSeq(v, d + 1, Len(v))

LEMMA RecentTailed ==
  ASSUME NEW l \in Nat, NEW v, Recent(v, l), NEW d \in Nat, d <= Len(v), NEW w, Shrunk(w, v, d)
  PROVE  Recent(w, l) /\ Len(w) = Len(v) - d
<1>1. PICK m \in Nat : m = Len(v)
  BY DEF Recent
<1>2. v \in Seq(Nat) /\ m <= l /\ \A j \in 1 .. m : v[j] = (l - m) + j
  BY <1>1 DEF Recent
<1>3. w \in Seq(Nat) /\ Len(w) = m - d /\ \A j \in 1 .. Len(w) : w[j] = v[d + j]
  <2>1. IsTail(w, v, d, Nat)
    BY <1>2, Tailed DEF Shrunk
  <2>2. QED
    BY <1>1, <2>1 DEF IsTail
<1>4. PICK k \in Nat : k = Len(w)
  BY <1>3
<1>5. k = m - d /\ k <= l
  BY <1>1, <1>2, <1>3, <1>4
<1>6. ASSUME NEW j \in 1 .. k PROVE w[j] = (l - k) + j
  <2>1. PICK i \in 1 .. m : i = d + j
    BY <1>1, <1>5
  <2>2. w[j] = (l - m) + i
    BY <1>2, <1>3, <1>4, <2>1
  <2>3. (l - m) + i = (l - k) + j
    BY <1>1, <1>5, <2>1
  <2>4. QED
    BY <2>2, <2>3
<1>7. QED
  BY <1>1, <1>3, <1>4, <1>5, <1>6 DEF Recent

LEMMA MatchIs ==
  ASSUME NEW w \in Seq(Nat), NEW text, NEW first \in Nat, first > 0, NEW to \in Nat, to <= Len(w),
         MatchesAt(w, text, first, to) # {}
  PROVE  \E j \in first .. (to - 1) : Match(w, text, first, to) = <<w[j], w[j + 1]>>
<1>1. PICK S : S = MatchesAt(w, text, first, to)
  OBVIOUS
<1>2. S \in SUBSET Nat /\ S \subseteq first .. (to - 1) /\ S # {}
  <2>1. S \subseteq first .. (to - 1)
    BY <1>1 DEF MatchesAt
  <2>2. \A x \in first .. (to - 1) : x \in Nat
    OBVIOUS
  <2>3. QED
    BY <1>1, <2>1, <2>2
<1>3. PICK j : j = Min(S)
  OBVIOUS
<1>4. j \in S
  BY <1>2, <1>3, MinIsLeast
<1>5. Match(w, text, first, to) = <<w[j], w[j + 1]>>
  BY <1>1, <1>3 DEF Match
<1>6. QED
  BY <1>2, <1>4, <1>5


-----------------------------------------------------------------------------
(* The autoresponder's window.                                             *)

\* Two cells of a window are as far apart as their positions allow.
LEMMA KeptNext ==
  ASSUME NEW n \in Nat, NEW gaps, NEW w, Kept(w, n, gaps), NEW j \in Nat, j > 0, j + 1 <= Len(w)
  PROVE  w[j + 1] = w[j] + 1 \/ w[j] + 1 \in gaps
<1> SUFFICES ASSUME w[j + 1] # w[j] + 1, w[j] + 1 \notin gaps PROVE FALSE
  OBVIOUS
<1>1. PICK m \in Nat : m = Len(w)
  BY DEF Kept
<1>2. j \in 1 .. m /\ j + 1 \in 1 .. m /\ 1 \in 1 .. m
  BY <1>1
<1>3. PICK a \in 1 .. n : a = w[j]
  BY <1>1, <1>2 DEF Kept
<1>4. PICK b \in 1 .. n : b = w[j + 1]
  BY <1>1, <1>2 DEF Kept
<1>5. PICK c \in 1 .. n : c = w[1]
  BY <1>1, <1>2 DEF Kept
<1>6. \A i, k \in 1 .. m : i < k => w[i] < w[k]
  BY <1>1 DEF Kept, Rises
<1>7. a < b
  <2>1. j < j + 1
    OBVIOUS
  <2>2. QED
    BY <1>2, <1>3, <1>4, <1>6, <2>1
<1>8. c <= a
  <2>1. CASE j = 1
    BY <1>3, <1>5, <2>1
  <2>2. CASE j > 1
    BY <1>2, <1>3, <1>5, <1>6, <2>2
  <2>3. QED
    BY <2>1, <2>2
<1>9. PICK x \in 1 .. n : x = a + 1
  BY <1>7
<1>10. x < b /\ x > a /\ x >= c /\ x \notin gaps
  BY <1>3, <1>4, <1>7, <1>8, <1>9
<1>11. PICK i \in 1 .. m : w[i] = x
  BY <1>1, <1>2, <1>5, <1>10 DEF Kept, Covers
<1>12. CASE i <= j
  <2>1. CASE i = j
    BY <1>3, <1>10, <1>11, <2>1
  <2>2. CASE i < j
    BY <1>2, <1>3, <1>6, <1>10, <1>11, <2>2
  <2>3. QED
    BY <1>12, <2>1, <2>2
<1>13. CASE i > j
  <2>1. CASE i = j + 1
    BY <1>4, <1>10, <1>11, <2>1
  <2>2. CASE i > j + 1
    BY <1>2, <1>4, <1>6, <1>10, <1>11, <2>2
  <2>3. QED
    BY <1>13, <2>1, <2>2
<1>14. QED
  BY <1>12, <1>13

\* Positions that are passed over are gaps.
LEMMA KeptSkips ==
  ASSUME NEW n \in Nat, NEW gaps, NEW w, Kept(w, n, gaps), NEW k \in Nat, n <= k, NEW more,
         \A x \in 1 .. k : x > n => x \in more
  PROVE  Kept(w, k, gaps \cup more)
<1>1. w \in Seq(Nat) /\ Rises(w)
  BY DEF Kept
<1>2. \A j \in 1 .. Len(w) : w[j] \in 1 .. k
  <2>1. \A x \in 1 .. n : x \in 1 .. k
    OBVIOUS
  <2>2. QED
    BY <2>1 DEF Kept
<1>3. Covers(w, k, gaps \cup more)
  <2> SUFFICES ASSUME NEW x \in 1 .. k, Len(w) > 0, x >= w[1]
               PROVE  x \in gaps \cup more \/ \E j \in 1 .. Len(w) : w[j] = x
    BY DEF Covers
  <2>1. CASE x > n
    BY <2>1
  <2>2. CASE x <= n
    <3>1. x \in 1 .. n
      BY <2>2
    <3>2. QED
      BY <3>1 DEF Kept, Covers
  <2>3. QED
    BY <2>1, <2>2
<1>4. QED
  BY <1>1, <1>2, <1>3 DEF Kept

\* The oldest cells make room.
LEMMA KeptTailed ==
  ASSUME NEW n \in Nat, NEW gaps, NEW v, Kept(v, n, gaps), NEW d \in Nat, d <= Len(v),
         NEW w, Shrunk(w, v, d)
  PROVE  Kept(w, n, gaps) /\ Len(w) = Len(v) - d
<1>1. PICK m \in Nat : m = Len(v)
  BY DEF Kept
<1>2. v \in Seq(Nat) /\ \A i, k \in 1 .. m : i < k => v[i] < v[k]
  BY <1>1 DEF Kept, Rises
<1>3. IsTail(w, v, d, Nat)
  BY <1>2, Tailed DEF Shrunk
<1>4. PICK k \in Nat : k = Len(w) /\ k = m - d
  <2>1. m - d \in Nat
    BY <1>1
  <2>2. Len(w) = m - d
    BY <1>1, <1>3 DEF IsTail
  <2>3. QED
    BY <2>1, <2>2
<1>5. w \in Seq(Nat) /\ \A j \in 1 .. k : w[j] = v[d + j]
  BY <1>3, <1>4 DEF IsTail
<1>6. \A j \in 1 .. k : d + j \in 1 .. m
  BY <1>1, <1>4
<1>7. \A j \in 1 .. k : w[j] \in 1 .. n
  BY <1>1, <1>5, <1>6 DEF Kept
<1>8. Rises(w)
  <2> SUFFICES ASSUME NEW i \in 1 .. k, NEW j \in 1 .. k, i < j PROVE w[i] < w[j]
    BY <1>4 DEF Rises
  <2>1. PICK a \in 1 .. m : a = d + i
    BY <1>6
  <2>2. PICK b \in 1 .. m : b = d + j
    BY <1>6
  <2>3. a < b
    BY <2>1, <2>2
  <2>4. QED
    BY <1>2, <1>5, <2>1, <2>2, <2>3
<1>9. Covers(w, n, gaps)
  <2> SUFFICES ASSUME NEW x \in 1 .. n, k > 0, x >= w[1], x \notin gaps
               PROVE  \E j \in 1 .. k : w[j] = x
    BY <1>4 DEF Covers
  <2>1. 1 \in 1 .. k /\ 1 \in 1 .. m
    BY <1>4
  <2>2. PICK a \in 1 .. m : a = d + 1
    BY <1>6, <2>1
  <2>3. w[1] = v[a]
    BY <1>5, <2>1, <2>2
  <2>4. PICK y \in 1 .. n : y = v[a]
    BY <1>1, <2>1 DEF Kept
  <2>a. PICK z \in 1 .. n : z = v[1]
    BY <1>1, <2>1 DEF Kept
  <2>b. x >= y
    BY <2>3, <2>4
  <2>5. x >= v[1]
    <3>1. a = 1 \/ a > 1
      OBVIOUS
    <3>2. z <= y
      BY <1>2, <2>1, <2>4, <2>a, <3>1
    <3>3. QED
      BY <2>a, <2>b, <3>2
  <2>6. PICK b \in 1 .. m : v[b] = x
    BY <1>1, <2>1, <2>5 DEF Kept, Covers
  <2>7. b >= a
    <3> SUFFICES ASSUME b < a PROVE FALSE
      OBVIOUS
    <3>1. v[b] < v[a]
      BY <1>2
    <3>2. x < y
      BY <2>4, <2>6, <3>1
    <3>3. QED
      BY <2>b, <3>2
  <2>8. PICK j \in 1 .. k : j = b - d
    BY <1>4, <2>2, <2>7
  <2>9. d + j = b
    BY <2>8
  <2>10. QED
    BY <1>5, <2>6, <2>8, <2>9
<1>10. QED
  BY <1>1, <1>4, <1>5, <1>7, <1>8, <1>9 DEF Kept


\* A chunk is appended.
IsGrown(w, v, l, n) ==
  /\ Len(w) = Len(v) + n
  /\ (\A j \in 1 .. Len(v) : w[j] = v[j])
  /\ \A j \in 1 .. (Len(v) + n) : j > Len(v) => w[j] = l + (j - Len(v))

LEMMA KeptExtended ==
  ASSUME NEW l \in Nat, NEW n \in Nat, n > 0, NEW gaps, NEW v, Kept(v, l, gaps), NEW p, NEW k \in Nat, Chunk(p, k, l, n),
         NEW w, Grown(w, v, p)
  PROVE  Kept(w, k, gaps) /\ IsGrown(w, v, l, n)
<1>0. p = Added(l, n) /\ k = l + n
  BY DEF Chunk
<1>1. PICK m \in Nat : m = Len(v)
  BY DEF Kept
<1>2. v \in Seq(Nat) /\ (\A i, j \in 1 .. m : i < j => v[i] < v[j]) /\ \A j \in 1 .. m : v[j] \in 1 .. l
  BY <1>1 DEF Kept, Rises
<1>3. IsAdded(p, l, n)
  BY <1>0, AddedIs
<1>4. p \in Seq(Nat) /\ Len(p) = n /\ \A i \in 1 .. n : p[i] = l + i
  BY <1>3 DEF IsAdded
<1>5. IsJoin(w, v, p, Nat)
  BY <1>2, <1>4, Joined DEF Grown
<1>6. PICK q \in Nat : q = m + n
  OBVIOUS
<1>7. /\ w \in Seq(Nat) /\ Len(w) = q
      /\ (\A j \in 1 .. m : w[j] = v[j]) /\ (\A j \in 1 .. q : j > m => w[j] = p[j - m])
  BY <1>1, <1>4, <1>5, <1>6 DEF IsJoin
<1>8. \A j \in 1 .. q : j > m => w[j] = l + (j - m)
  <2> SUFFICES ASSUME NEW j \in 1 .. q, j > m PROVE w[j] = l + (j - m)
    OBVIOUS
  <2>1. PICK i \in 1 .. n : i = j - m
    BY <1>6
  <2>2. QED
    BY <1>4, <1>7, <2>1
<1>a. \A j \in 1 .. m : w[j] \in 1 .. l
  BY <1>2, <1>7
<1>b. \A j \in 1 .. q : j > m => w[j] \in (l + 1) .. k
  <2> SUFFICES ASSUME NEW j \in 1 .. q, j > m PROVE w[j] \in (l + 1) .. k
    OBVIOUS
  <2>1. PICK y : y = l + (j - m)
    OBVIOUS
  <2>2. y \in (l + 1) .. k
    BY <1>0, <1>6, <2>1
  <2>3. QED
    BY <1>8, <2>1, <2>2
<1>9. \A j \in 1 .. q : w[j] \in 1 .. k
  <2>1. \A j \in 1 .. q : j \in 1 .. m \/ j > m
    OBVIOUS
  <2>2. (\A x \in 1 .. l : x \in 1 .. k) /\ (\A x \in (l + 1) .. k : x \in 1 .. k)
    BY <1>0
  <2>3. QED
    BY <1>a, <1>b, <2>1, <2>2
<1>10. Rises(w)
  <2> SUFFICES ASSUME NEW i \in 1 .. q, NEW j \in 1 .. q, i < j PROVE w[i] < w[j]
    BY <1>7 DEF Rises
  <2>1. PICK a \in 1 .. k : a = w[i]
    BY <1>9
  <2>2. PICK b \in 1 .. k : b = w[j]
    BY <1>9
  <2>3. CASE j <= m
    <3>1. i \in 1 .. m /\ j \in 1 .. m
      BY <2>3
    <3>2. v[i] < v[j]
      BY <1>2, <3>1
    <3>3. QED
      BY <1>7, <3>1, <3>2
  <2>4. CASE i > m
    <3>0. i > m /\ j > m
      BY <2>4
    <3>1. a = l + (i - m) /\ b = l + (j - m)
      BY <1>8, <2>1, <2>2, <3>0
    <3>2. a < b
      BY <2>4, <3>1
    <3>3. QED
      BY <2>1, <2>2, <3>2
  <2>5. CASE i <= m /\ j > m
    <3>1. i \in 1 .. m
      BY <2>5
    <3>2. a \in 1 .. l /\ b \in (l + 1) .. k
      BY <1>a, <1>b, <2>1, <2>2, <2>5, <3>1
    <3>3. a < b
      BY <3>2
    <3>4. QED
      BY <2>1, <2>2, <3>3
  <2>6. j <= m \/ i > m \/ (i <= m /\ j > m)
    OBVIOUS
  <2>7. QED
    BY <2>3, <2>4, <2>5, <2>6, Zenon
<1>11. Covers(w, k, gaps)
  <2> SUFFICES ASSUME NEW x \in 1 .. k, q > 0, x >= w[1], x \notin gaps
               PROVE  \E j \in 1 .. q : w[j] = x
    BY <1>7 DEF Covers
  <2>1. CASE x > l
    <3>1. PICK j \in 1 .. q : j = m + (x - l)
      BY <1>0, <1>6, <2>1
    <3>2. j > m /\ l + (j - m) = x
      BY <2>1, <3>1
    <3>3. QED
      BY <1>8, <3>2
  <2>2. CASE x <= l
    <3>1. m > 0
      <4> SUFFICES ASSUME m = 0 PROVE FALSE
        OBVIOUS
      <4>1. 1 \in 1 .. q /\ 1 > m
        OBVIOUS
      <4>2. PICK y \in (l + 1) .. k : y = w[1]
        BY <1>b, <4>1
      <4>3. x >= y
        BY <4>2
      <4>4. y \in Int /\ y > l
        OBVIOUS
      <4>5. QED
        BY <2>2, <4>3, <4>4
    <3>2. 1 \in 1 .. m
      BY <3>1
    <3>3. w[1] = v[1]
      BY <1>7, <3>2
    <3>4. x \in 1 .. l
      BY <2>2
    <3>5. PICK j \in 1 .. m : v[j] = x
      BY <1>1, <3>1, <3>3, <3>4 DEF Kept, Covers
    <3>6. j \in 1 .. q
      BY <1>6
    <3>7. QED
      BY <1>7, <3>5, <3>6
  <2>3. x > l \/ x <= l
    OBVIOUS
  <2>4. QED
    BY <2>1, <2>2, <2>3, Zenon
<1>12. Kept(w, k, gaps)
  BY <1>7, <1>9, <1>10, <1>11 DEF Kept
<1>13. QED
  BY <1>1, <1>6, <1>7, <1>8, <1>12 DEF IsGrown

LEMMA KeptEmpty ==
  ASSUME NEW n \in Nat, NEW gaps
  PROVE  Kept(<<>>, n, gaps)
BY DEF Kept, Rises, Covers

\* The newest position is the last cell, unless it is a gap.
LEMMA KeptNewest ==
  ASSUME NEW n \in Nat, n > 0, NEW gaps, NEW w, Kept(w, n, gaps), Len(w) > 0, n \notin gaps
  PROVE  w[Len(w)] = n
<1>1. PICK m \in Nat : m = Len(w)
  BY DEF Kept
<1>2. 1 \in 1 .. m /\ m \in 1 .. m /\ n \in 1 .. n
  BY <1>1
<1>3. w[1] \in 1 .. n /\ w[m] \in 1 .. n
  BY <1>1, <1>2 DEF Kept
<1>4. n >= w[1]
  BY <1>3
<1>5. PICK j \in 1 .. m : w[j] = n
  BY <1>1, <1>2, <1>4 DEF Kept, Covers
<1>6. CASE j = m
  BY <1>1, <1>5, <1>6
<1>7. CASE j < m
  <2>1. w[j] < w[m]
    BY <1>1, <1>2, <1>7 DEF Kept, Rises
  <2>2. QED
    BY <1>3, <1>5, <2>1
<1>8. QED
  BY <1>6, <1>7


-----------------------------------------------------------------------------
(* The table of rules and the store of incidents.                          *)

Rule == [name : Names, once : BOOLEAN, enabled : BOOLEAN]
Incident == [name : Signatures, text : Nat \X Nat]

\* One rule of the table is considered.
Considered(s, matched, k) ==
  IF matched /\ rules[k].name \in Ready /\ Len(s) < MaxFired THEN Append(s, rules[k].name) ELSE s

\* Firing goes through the table.
LEMMA FiringRuns ==
  ASSUME NEW matched, NEW n \in Nat, n = Len(rules), NEW S, <<>> \in S[0],
         \A k \in 1 .. n : \A x \in S[k - 1] : Considered(x, matched, k) \in S[k]
  PROVE  Firing(matched) \in S[n]
<1> DEFINE step == [k \in 1 .. n |-> [x \in S[k - 1] |-> Considered(x, matched, k)]]
           Is(f) == f = [k \in 0 .. n |-> IF k = 0 THEN <<>> ELSE Considered(f[k - 1], matched, k)]
           pass == CHOOSE f : Is(f)
<1>1. Firing(matched) = pass[n]
  BY DEF Firing, Considered
<1> HIDE DEF pass
<1>2. \A k \in 1 .. n : \A x \in S[k - 1] : step[k][x] = Considered(x, matched, k)
  OBVIOUS
<1> HIDE DEF step
<1>3. \A k \in 1 .. n : \A x \in S[k - 1] : step[k][x] \in S[k]
  BY <1>2
<1>4. PICK f : /\ f = [k \in 0 .. n |-> f[k]] /\ IsRun(f, <<>>, step, n)
               /\ \A k \in 0 .. n : f[k] \in S[k]
  BY <1>3, Runs
<1>5. \A k \in 1 .. n : f[k] = Considered(f[k - 1], matched, k)
  <2>1. \A k \in 1 .. n : f[k - 1] \in S[k - 1]
    BY <1>4
  <2>2. QED
    BY <1>2, <1>4, <2>1 DEF IsRun
<1>6. Is(f)
  <2>1. \A k \in 0 .. n : f[k] = IF k = 0 THEN <<>> ELSE Considered(f[k - 1], matched, k)
    <3>1. \A k \in 0 .. n : k = 0 \/ k \in 1 .. n
      OBVIOUS
    <3>2. QED
      BY <1>4, <1>5, <3>1 DEF IsRun
  <2>2. f \in [0 .. n -> {f[k] : k \in 0 .. n}]
    BY <1>4
  <2>3. QED
    BY <2>1, <2>2
<1>7. Is(pass)
  BY <1>6 DEF pass
<1>8. pass[0] = <<>> /\ \A k \in 1 .. n : pass[k] = Considered(pass[k - 1], matched, k)
  BY <1>7
<1> DEFINE Good == {k \in 0 .. n : pass[k] \in S[k]}
<1>9. 0 \in Good
  BY <1>8
<1>10. ASSUME NEW k \in 1 .. n, k - 1 \in Good PROVE k \in Good
  BY <1>8, <1>10
<1>11. \A k \in 0 .. n : k \in Good
  <2> HIDE DEF Good
  <2>1. QED
    BY <1>9, <1>10, Induction
<1>12. QED
  BY <1>1, <1>11

\* Storing goes through the new incidents.
LEMMA StoredRuns ==
  ASSUME NEW new, NEW n \in Nat, n = Len(new), NEW store, NEW S, store \in S[0],
         \A k \in 1 .. n : \A x \in S[k - 1] : Stored(x, new[k]) \in S[k]
  PROVE  StoredAll(store, new) \in S[n]
<1> DEFINE step == [k \in 1 .. n |-> [x \in S[k - 1] |-> Stored(x, new[k])]]
           Is(f) == f = [k \in 0 .. n |-> IF k = 0 THEN store ELSE Stored(f[k - 1], new[k])]
           pass == CHOOSE f : Is(f)
<1>1. StoredAll(store, new) = pass[n]
  BY DEF StoredAll
<1> HIDE DEF pass
<1>2. \A k \in 1 .. n : \A x \in S[k - 1] : step[k][x] = Stored(x, new[k])
  OBVIOUS
<1> HIDE DEF step
<1>3. \A k \in 1 .. n : \A x \in S[k - 1] : step[k][x] \in S[k]
  BY <1>2
<1>4. PICK f : /\ f = [k \in 0 .. n |-> f[k]] /\ IsRun(f, store, step, n)
               /\ \A k \in 0 .. n : f[k] \in S[k]
  BY <1>3, Runs
<1>5. \A k \in 1 .. n : f[k] = Stored(f[k - 1], new[k])
  <2>1. \A k \in 1 .. n : f[k - 1] \in S[k - 1]
    BY <1>4
  <2>2. QED
    BY <1>2, <1>4, <2>1 DEF IsRun
<1>6. Is(f)
  <2>1. \A k \in 0 .. n : f[k] = IF k = 0 THEN store ELSE Stored(f[k - 1], new[k])
    <3>1. \A k \in 0 .. n : k = 0 \/ k \in 1 .. n
      OBVIOUS
    <3>2. QED
      BY <1>4, <1>5, <3>1 DEF IsRun
  <2>2. f \in [0 .. n -> {f[k] : k \in 0 .. n}]
    BY <1>4
  <2>3. QED
    BY <2>1, <2>2
<1>7. Is(pass)
  BY <1>6 DEF pass
<1>8. pass[0] = store /\ \A k \in 1 .. n : pass[k] = Stored(pass[k - 1], new[k])
  BY <1>7
<1> DEFINE Good == {k \in 0 .. n : pass[k] \in S[k]}
<1>9. 0 \in Good
  BY <1>8
<1>10. ASSUME NEW k \in 1 .. n, k - 1 \in Good PROVE k \in Good
  BY <1>8, <1>10
<1>11. \A k \in 0 .. n : k \in Good
  <2> HIDE DEF Good
  <2>1. QED
    BY <1>9, <1>10, Induction
<1>12. QED
  BY <1>1, <1>11


ListsName(s, x) == \E i \in 1 .. Len(s) : s[i] = x
ListsAll(t, s) == \A x : ListsName(s, x) => ListsName(t, x)

LEMMA AppendHas ==
  ASSUME NEW T, NEW s \in Seq(T), NEW a \in T, NEW t, t = Append(s, a)
  PROVE  /\ t \in Seq(T) /\ Len(t) = Len(s) + 1 /\ ListsName(t, a)
         /\ ListsAll(t, s)
<1>1. t \in Seq(T) /\ Len(t) = Len(s) + 1 /\ t[Len(s) + 1] = a /\ (\A i \in 1 .. Len(s) : t[i] = s[i]) /\ Len(s) \in Nat
  BY AppendProperties
<1>2. ListsName(t, a)
  BY <1>1 DEF ListsName
<1>3. ASSUME NEW x, ListsName(s, x) PROVE ListsName(t, x)
  <2>1. PICK i \in 1 .. Len(s) : s[i] = x
    BY <1>3 DEF ListsName
  <2>2. i \in 1 .. Len(t) /\ t[i] = x
    BY <1>1, <2>1
  <2>3. QED
    BY <2>2 DEF ListsName
<1>4. QED
  BY <1>1, <1>2, <1>3 DEF ListsAll

\* What fires are names; a rule that is ready when the text matched fires,
\* unless as many as may have fired already.
Due(s, matched, k) ==
  \A i \in 1 .. k : matched /\ rules[i].name \in Ready => ListsName(s, rules[i].name) \/ Len(s) = MaxFired

LEMMA FiringIs ==
  ASSUME rules \in Seq(Rule), NEW matched \in BOOLEAN, NEW f, f = Firing(matched)
  PROVE  /\ f \in Seq(Names) /\ Len(f) <= MaxFired /\ (~matched => f = <<>>)
         /\ Due(f, matched, Len(rules))
<1>1. PICK n \in Nat : n = Len(rules)
  OBVIOUS
<1>2. MaxFired \in Nat
  BY RulesAssumption
<1> DEFINE S == [k \in 0 .. n |-> {s \in Seq(Names) : /\ Len(s) <= MaxFired /\ (~matched => s = <<>>)
                                                     /\ Due(s, matched, k)}]
<1>3. <<>> \in S[0]
  <2>1. Due(<<>>, matched, 0)
    BY DEF Due
  <2>2. <<>> \in Seq(Names) /\ Len(<<>>) = 0
    OBVIOUS
  <2>3. QED
    BY <1>2, <2>1, <2>2
<1>4. ASSUME NEW k \in 1 .. n, NEW s \in S[k - 1] PROVE Considered(s, matched, k) \in S[k]
  <2>1. s \in Seq(Names) /\ Len(s) <= MaxFired /\ (~matched => s = <<>>) /\ Due(s, matched, k - 1) /\ Len(s) \in Nat
    BY <1>4
  <2> HIDE DEF S
  <2>2. PICK a \in Names : a = rules[k].name
    <3>1. PICK r \in Rule : r = rules[k]
      BY <1>1
    <3>2. r.name \in Names
      BY DEF Rule
    <3>3. QED
      BY <3>1, <3>2
  <2>3. \A i \in 1 .. k : i = k \/ i \in 1 .. (k - 1)
    OBVIOUS
  <2>4. PICK t : t = Considered(s, matched, k)
    OBVIOUS
  <2>5. /\ t \in Seq(Names) /\ Len(t) <= MaxFired /\ (~matched => t = <<>>)
        /\ Due(t, matched, k)
    <3>1. CASE matched /\ a \in Ready /\ Len(s) < MaxFired
      <4>1. t = Append(s, a)
        BY <2>2, <2>4, <3>1 DEF Considered
      <4>2. /\ t \in Seq(Names) /\ Len(t) = Len(s) + 1 /\ ListsName(t, a)
            /\ ListsAll(t, s)
        <5>1. s \in Seq(Names)
          BY <2>1
        <5>2. QED
          BY <4>1, <5>1, AppendHas, Zenon
      <4>3. Len(t) <= MaxFired /\ Len(s) # MaxFired
        BY <1>2, <2>1, <3>1, <4>2
      <4>4. Due(t, matched, k)
        BY <2>1, <2>2, <2>3, <4>2, <4>3 DEF Due, ListsAll
      <4>5. QED
        BY <3>1, <4>2, <4>3, <4>4
    <3>2. CASE ~(matched /\ a \in Ready /\ Len(s) < MaxFired)
      <4>1. t = s
        BY <2>2, <2>4, <3>2 DEF Considered
      <4>2. matched /\ a \in Ready => Len(s) = MaxFired
        BY <1>2, <2>1, <3>2
      <4>3. Due(s, matched, k)
        BY <2>1, <2>2, <2>3, <4>2 DEF Due
      <4>4. QED
        BY <2>1, <4>1, <4>3
    <3>3. QED
      BY <3>1, <3>2
  <2>6. QED
    BY <2>4, <2>5 DEF S
<1> HIDE DEF S
<1>5. f \in S[n]
  BY <1>1, <1>3, <1>4, FiringRuns
<1>6. QED
  BY <1>1, <1>5 DEF S

\* The last k of a store are the first k of what is new.
EndsWith(store, new, k) == \A i \in 1 .. k : store[(Len(store) - k) + i] = new[i]

\* There is room for k new ones when a quarter is dropped.
Fits(k) == k <= IncidentCap - IncidentCap \div 4

IsStored(t, s, a) == t = Stored(s, a)

\* The store when k of the new ones are in it, and the k-th that comes next.
Stage(s, T, new, k) == s \in Seq(T) /\ k <= Len(s) /\ Len(s) <= IncidentCap /\ EndsWith(s, new, k)
Comes(a, new, k, j) == k > 0 /\ j = k - 1 /\ a = new[k] /\ Fits(k)

LEMMA StoredStep ==
  ASSUME NEW T, NEW s, NEW a \in T, NEW new, NEW k \in Nat, NEW j \in Nat, Comes(a, new, k, j),
         Stage(s, T, new, j), NEW t, IsStored(t, s, a)
  PROVE  Stage(t, T, new, k)
<1>a. k > 0 /\ j = k - 1 /\ a = new[k] /\ Fits(k)
  BY DEF Comes
<1>b. s \in Seq(T) /\ j <= Len(s) /\ Len(s) <= IncidentCap /\ EndsWith(s, new, j)
  BY DEF Stage
<1> SUFFICES t \in Seq(T) /\ k <= Len(t) /\ Len(t) <= IncidentCap /\ EndsWith(t, new, k)
  BY DEF Stage
<1> USE <1>a, <1>b
<1>1. PICK c \in Nat : c = IncidentCap /\ c >= 4
  BY RulesAssumption
<1>2. PICK d \in Nat : d = c \div 4 /\ d >= 1 /\ d < c
  BY <1>1
<1>3. PICK m \in Nat : m = Len(s)
  OBVIOUS
<1>4. ASSUME NEW r \in Seq(T), j <= Len(r), Len(r) < c, EndsWith(r, new, j), t = Append(r, a)
      PROVE  t \in Seq(T) /\ k <= Len(t) /\ Len(t) <= IncidentCap /\ EndsWith(t, new, k)
  <2>1. PICK q \in Nat : q = Len(r)
    OBVIOUS
  <2>2. t \in Seq(T) /\ Len(t) = q + 1 /\ t[q + 1] = a /\ (\A i \in 1 .. q : t[i] = r[i])
    BY <1>4, <2>1, AppendProperties
  <2>3. ASSUME NEW i \in 1 .. k PROVE t[((q + 1) - k) + i] = new[i]
    <3>1. CASE i = k
      <4>1. ((q + 1) - k) + i = q + 1
        BY <3>1
      <4>2. QED
        BY <2>2, <3>1, <4>1
    <3>2. CASE i < k
      <4>0. j <= q /\ i <= j
        BY <1>4, <2>1, <3>2
      <4>1. PICK x \in 1 .. q : x = (q - j) + i
        BY <4>0
      <4>2. ((q + 1) - k) + i = x
        BY <4>1
      <4>3. i \in 1 .. j
        BY <3>2
      <4>4. r[x] = new[i]
        BY <1>4, <2>1, <4>1, <4>3 DEF EndsWith
      <4>5. QED
        BY <2>2, <4>1, <4>2, <4>4
    <3>3. QED
      BY <3>1, <3>2
  <2>4. EndsWith(t, new, k)
    BY <2>2, <2>3 DEF EndsWith
  <2>5. k <= Len(t) /\ Len(t) <= IncidentCap
    BY <1>1, <1>4, <2>1, <2>2
  <2>6. QED
    BY <2>2, <2>4, <2>5
<1>5. CASE m < c
  <2>1. t = Append(s, a)
    BY <1>1, <1>3, <1>5 DEF Stored, IsStored
  <2>2. QED
    BY <1>3, <1>4, <1>5, <2>1
<1>6. CASE m >= c
  <2>1. PICK r : r = SubSeq(s, d + 1, Len(s))
    OBVIOUS
  <2>2. t = Append(r, a)
    BY <1>1, <1>2, <1>3, <1>6, <2>1 DEF Stored, IsStored
  <2>3. d <= Len(s) /\ m = c
    BY <1>1, <1>2, <1>3, <1>6
  <2>4. IsTail(r, s, d, T)
    BY <2>1, <2>3, Tailed
  <2>5. PICK q \in Nat : q = Len(r) /\ q = m - d
    <3>1. m - d \in Nat
      BY <1>2, <2>3
    <3>2. QED
      BY <1>3, <2>4, <3>1 DEF IsTail
  <2>6. r \in Seq(T) /\ q < c /\ j <= q
    BY <1>1, <1>2, <2>3, <2>4, <2>5 DEF IsTail, Fits
  <2>7. EndsWith(r, new, j)
    <3> SUFFICES ASSUME NEW i \in 1 .. j PROVE r[(q - j) + i] = new[i]
      BY <2>5 DEF EndsWith
    <3>1. PICK x \in 1 .. q : x = (q - j) + i
      BY <2>6
    <3>2. r[x] = s[d + x]
      BY <2>4, <2>5 DEF IsTail
    <3>3. d + x = (m - j) + i
      BY <2>5, <3>1
    <3>4. s[(m - j) + i] = new[i]
      BY <1>3 DEF EndsWith
    <3>5. QED
      BY <3>1, <3>2, <3>3, <3>4
  <2>8. QED
    BY <1>4, <2>2, <2>5, <2>6, <2>7
<1>7. QED
  BY <1>3, <1>5, <1>6

LEMMA StoredIs ==
  ASSUME NEW T, NEW store \in Seq(T), Len(store) <= IncidentCap, NEW new \in Seq(T),
         Fits(Len(new)), NEW t, t = StoredAll(store, new)
  PROVE  t \in Seq(T) /\ Len(t) <= IncidentCap /\ Announcing(t, new) = new
<1>1. PICK n \in Nat : n = Len(new)
  OBVIOUS
<1> DEFINE S == [k \in 0 .. n |-> {s \in Seq(T) : k <= Len(s) /\ Len(s) <= IncidentCap /\ EndsWith(s, new, k)}]
<1>2. store \in S[0]
  BY DEF EndsWith
<1>3. ASSUME NEW k \in 1 .. n, NEW s \in S[k - 1] PROVE Stored(s, new[k]) \in S[k]
  <2>1. PICK j \in Nat : j = k - 1
    OBVIOUS
  <2>2. s \in Seq(T) /\ j <= Len(s) /\ Len(s) <= IncidentCap /\ EndsWith(s, new, j)
    BY <1>3, <2>1
  <2> HIDE DEF S
  <2>3. PICK a \in T : a = new[k]
    BY <1>1
  <2>4. k \in Nat /\ k > 0 /\ Fits(k)
    BY <1>1, RulesAssumption DEF Fits
  <2>5. PICK u : IsStored(u, s, a)
    BY DEF IsStored
  <2>6. Stage(u, T, new, k)
    <3>1. Comes(a, new, k, j) /\ Stage(s, T, new, j)
      BY <2>1, <2>2, <2>3, <2>4 DEF Comes, Stage
    <3>2. QED
      BY <2>4, <2>5, <3>1, StoredStep
  <2>7. QED
    BY <2>3, <2>5, <2>6 DEF S, IsStored, Stage
<1> HIDE DEF S
<1>4. t \in S[n]
  BY <1>1, <1>2, <1>3, StoredRuns
<1>5. t \in Seq(T) /\ n <= Len(t) /\ Len(t) <= IncidentCap /\ EndsWith(t, new, n)
  BY <1>4 DEF S
<1>6. PICK m \in Nat : m = Len(t)
  BY <1>5
<1>7. PICK d \in Nat : d = m - n /\ d <= m
  <2>1. n <= m
    BY <1>5, <1>6
  <2>2. QED
    BY <2>1
<1>8. PICK r : r = SubSeq(t, d + 1, Len(t))
  OBVIOUS
<1>9. r = Announcing(t, new)
  BY <1>1, <1>6, <1>7, <1>8 DEF Announcing
<1>10. IsTail(r, t, d, T)
  BY <1>5, <1>6, <1>7, <1>8, Tailed
<1>11. r \in Seq(T) /\ Len(r) = n
  BY <1>6, <1>7, <1>10 DEF IsTail
<1>12. \A i \in 1 .. n : r[i] = new[i]
  BY <1>5, <1>6, <1>7, <1>10, <1>11 DEF IsTail, EndsWith
<1>13. r = new
  BY <1>1, <1>11, <1>12, SeqEqual
<1>14. QED
  BY <1>5, <1>9, <1>13


-----------------------------------------------------------------------------
(* The invariant.                                                          *)

Text == Alphabet \cup {"|"}

\* The text before an empty window is no part of a match.
Fresh(window, gaps) ==
  Len(stream) > 0 /\ Len(window) = 0 => stream[Len(stream)] = "|" \/ Len(stream) \in gaps

\* The detector's window holds the newest output of the link; the autoresponder's
\* lacks only what came while there was no rule; both are searched to their ends.
RInv ==
  /\ stream \in Seq(Text) /\ Len(stream) <= MaxStream
  /\ rules \in Seq(Rule) /\ Len(rules) <= MaxRules /\ cooling \subseteq Names \cup Signatures
  /\ incidents \in Seq(Incident) /\ Len(incidents) <= IncidentCap
  /\ recorded \in Seq(Incident) /\ announced = recorded
  /\ anOffset = Len(anWindow) /\ Recent(anWindow, Len(stream)) /\ Fresh(anWindow, {})
  /\ arOffset = Len(arWindow) /\ Len(arWindow) < WindowCap
  /\ Kept(arWindow, Len(stream), skipped) /\ Fresh(arWindow, skipped)

\* The detector's window before the chunk is appended.
LEMMA TrimmedIs ==
  ASSUME RInv
  PROVE  /\ Recent(Trimmed.window, Len(stream)) /\ Trimmed.offset = Len(Trimmed.window)
         /\ Len(Trimmed.window) = 0 => Len(anWindow) = 0
<1>1. PICK m \in Nat : m = Len(anWindow)
  BY DEF RInv, Recent
<1>2. anOffset = m /\ Recent(anWindow, Len(stream)) /\ Len(stream) \in Nat
  BY <1>1 DEF RInv
<1>3. TrimKeep \in Nat /\ TrimAbove \in Nat /\ TrimKeep <= TrimAbove /\ TrimKeep > 0
  BY RulesAssumption
<1>4. CASE m > TrimAbove
  <2>1. PICK d \in Nat : d = m - TrimKeep /\ d < m
    BY <1>3, <1>4
  <2>2. PICK w : w = SubSeq(anWindow, d + 1, Len(anWindow))
    OBVIOUS
  <2>3. d <= Len(anWindow) /\ Shrunk(w, anWindow, d)
    BY <1>1, <2>1, <2>2 DEF Shrunk
  <2>4. Recent(w, Len(stream)) /\ Len(w) = Len(anWindow) - d
    <3>1. PICK l \in Nat : l = Len(stream)
      BY <1>2
    <3>2. Recent(anWindow, l)
      BY <1>2, <3>1
    <3>3. Recent(w, l) /\ Len(w) = Len(anWindow) - d
      BY <2>3, <3>2, RecentTailed
    <3>4. QED
      BY <3>1, <3>3
  <2>5. Newest(anWindow, TrimKeep) = w
    <3>1. Len(anWindow) - TrimKeep + 1 = d + 1
      BY <1>1, <2>1
    <3>2. QED
      BY <2>2, <3>1 DEF Newest
  <2>6. Trimmed = [window |-> w, offset |-> m - d]
    BY <1>1, <1>2, <1>4, <2>1, <2>5 DEF Trimmed
  <2>7. Len(w) = m - d /\ m - d > 0
    BY <1>1, <1>3, <2>1, <2>4
  <2>8. QED
    BY <2>4, <2>6, <2>7
<1>5. CASE ~(m > TrimAbove)
  <2>1. Trimmed = [window |-> anWindow, offset |-> m]
    BY <1>1, <1>2, <1>5 DEF Trimmed
  <2>2. QED
    BY <1>1, <1>2, <2>1
<1>6. QED
  BY <1>4, <1>5

LEMMA SearchStartIs ==
  ASSUME NEW m \in Nat, NEW f, f = SearchStart(m)
  PROVE  f \in Nat /\ f > 0 /\ (m > 0 => f <= m) /\ (m = 0 => f = 1) /\ f >= m - Overlap + 1
BY RulesAssumption DEF SearchStart

\* Names of signatures, as the incidents of a chunk have them.
Reports(new, hit) == \A s \in Signatures : hit /\ s \notin cooling => s \in NamesIn(new)

HitNames(hit) == SetToSeq({s \in Signatures : hit /\ s \notin cooling})
Made(names, t) == [i \in DOMAIN names |-> [name |-> names[i], text |-> t]]

LEMMA NewIs ==
  ASSUME NEW hit \in BOOLEAN, NEW t, hit => t \in Nat \X Nat, NEW new, NEW names,
         names = HitNames(hit), new = Made(names, t)
  PROVE  /\ new \in Seq(Incident) /\ Fits(Len(new)) /\ Reports(new, hit)
         /\ \A i \in 1 .. Len(new) : hit /\ new[i].text = t
<1>1. PICK T : T = {s \in Signatures : hit /\ s \notin cooling}
  OBVIOUS
<1>2. IsFiniteSet(Signatures) /\ T \in SUBSET Signatures
  BY <1>1, RulesAssumption
<1>3. IsFiniteSet(T) /\ Cardinality(T) <= Cardinality(Signatures)
  BY <1>2, FS_Subset
<1>4. /\ names \in Seq(T) /\ (\A i, j \in 1 .. Len(names) : names[i] = names[j] => i = j)
      /\ \A x \in T : \E i \in 1 .. Len(names) : names[i] = x
  <2>1. names = SetToSeq(T)
    BY <1>1 DEF HitNames
  <2>2. Lists(names, T)
    BY <1>3, <2>1, SetToSeqIs
  <2>3. QED
    BY <2>2 DEF Lists
<1>5. PICK n \in Nat : n = Len(names)
  BY <1>4
<1>6. DOMAIN names = 1 .. n /\ \A i \in 1 .. n : names[i] \in T
  BY <1>4, <1>5
<1>7. \A i \in 1 .. n : hit /\ names[i] \in Signatures
  BY <1>1, <1>6
<1>8. new = [i \in 1 .. n |-> [name |-> names[i], text |-> t]]
  BY <1>6 DEF Made
<1>9. \A i \in 1 .. n : [name |-> names[i], text |-> t] \in Incident
  BY <1>7 DEF Incident
<1>10. new \in [1 .. n -> Incident]
  BY <1>8, <1>9
<1>11. new \in Seq(Incident) /\ Len(new) = n /\ DOMAIN new = 1 .. n
  BY <1>10
<1>12. \A i \in 1 .. n : hit /\ new[i].text = t /\ new[i].name = names[i]
  BY <1>7, <1>8
<1>13. Fits(n)
  <2>1. n <= Cardinality(T)
    <3>1. names \in [1 .. n -> T]
      BY <1>4, <1>5
    <3>2. names \in Injection(1 .. n, T)
      BY <1>4, <1>5, <3>1 DEF Injection, IsInjective
    <3>3. IsFiniteSet(1 .. n) /\ Cardinality(1 .. n) = n
      BY FS_Interval
    <3>4. QED
      BY <1>3, <3>2, <3>3, FS_Injection
  <2>2. Cardinality(T) \in Nat /\ Cardinality(Signatures) \in Nat
    BY <1>2, <1>3, FS_CardinalityType
  <2>3. Cardinality(Signatures) <= IncidentCap - IncidentCap \div 4 /\ IncidentCap \in Nat
    BY RulesAssumption
  <2>4. QED
    BY <1>3, <2>1, <2>2, <2>3 DEF Fits
<1>14. Reports(new, hit)
  <2> SUFFICES ASSUME NEW s \in Signatures, hit, s \notin cooling PROVE s \in NamesIn(new)
    BY DEF Reports
  <2>1. s \in T
    BY <1>1
  <2>2. PICK i \in 1 .. n : names[i] = s
    BY <1>4, <1>5, <2>1
  <2>3. new[i].name = s /\ i \in DOMAIN new
    BY <1>11, <1>12, <2>2
  <2>4. QED
    BY <2>3 DEF NamesIn
<1>15. QED
  BY <1>11, <1>12, <1>13, <1>14


\* The two positions of a match follow one another.
Adjoins(t) == t \in Nat \X Nat /\ t[2] = t[1] + 1

\* The pattern, at position i of a text.
Occurs(text, i) == text[i] = "p" /\ text[i + 1] = "q"

\* What the detector makes of a chunk of n bytes behind a stream of length l.
LEMMA AnomalyIs ==
  ASSUME RInv, NEW l \in Nat, l = Len(stream), NEW n \in Nat, n > 0, NEW k \in Nat, NEW p, Chunk(p, k, l, n),
         NEW text, l > 0 => text[l] = stream[l], NEW a, a = sm_anomaly_feed(text, p)
  PROVE  /\ Recent(a.window, k) /\ Len(a.window) > 0
         /\ a.new \in Seq(Incident) /\ Fits(Len(a.new)) /\ a.incidents = StoredAll(incidents, a.new)
         /\ \A i \in 1 .. Len(a.new) : Adjoins(a.new[i].text)
         /\ (\E i \in l .. (k - 1) : i > 0 /\ Occurs(text, i)) /\ Overlap + n <= Scratch =>
              Signatures \ cooling \subseteq NamesIn(a.new)
<1>0. k = l + n
  BY DEF Chunk
<1>1. PICK v : v = Trimmed.window
  OBVIOUS
<1>2. PICK o : o = Trimmed.offset
  OBVIOUS
<1>3. Recent(v, l) /\ o = Len(v) /\ (Len(v) = 0 => Len(anWindow) = 0)
  BY <1>1, <1>2, TrimmedIs
<1>4. PICK m \in Nat : m = Len(v)
  BY <1>3 DEF Recent
<1>5. PICK w : w = v \o p
  OBVIOUS
<1>6. Recent(w, k) /\ Len(w) = m + n
  <2>0. Grown(w, v, p) /\ Chunk(p, k, l, n)
    BY <1>5 DEF Grown
  <2>1. Recent(v, l)
    BY <1>3
  <2>2. Recent(w, k) /\ Len(w) = Len(v) + n
    BY <2>0, <2>1, RecentExtended
  <2>3. QED
    BY <1>4, <2>2
<1>7. PICK f : f = SearchStart(m)
  OBVIOUS
<1>8. f \in Nat /\ f > 0 /\ (m > 0 => f <= m) /\ (m = 0 => f = 1) /\ f >= m - Overlap + 1
  BY <1>7, SearchStartIs
<1>9. PICK to : to = IF Len(w) > f + Scratch - 1 THEN f + Scratch - 1 ELSE Len(w)
  OBVIOUS
<1>10. Scratch \in Nat /\ Overlap \in Nat
  BY RulesAssumption
<1>11. to \in Nat /\ to <= m + n /\ (to = m + n \/ to = f + Scratch - 1)
  BY <1>6, <1>8, <1>9, <1>10
<1>12. PICK hit : hit = (MatchesAt(w, text, f, to) # {})
  OBVIOUS
<1>13. PICK t : t = Match(w, text, f, to)
  OBVIOUS
<1>14. PICK names : names = HitNames(hit)
  OBVIOUS
<1>15. PICK new : new = Made(names, t)
  OBVIOUS
<1>16. a = [window |-> w, new |-> new, incidents |-> StoredAll(incidents, new)]
  BY <1>1, <1>2, <1>3, <1>4, <1>5, <1>7, <1>9, <1>12, <1>13, <1>14, <1>15 DEF sm_anomaly_feed, HitNames, Made
<1>17. w \in Seq(Nat) /\ \A j \in 1 .. (m + n) : w[j] = (k - (m + n)) + j
  BY <1>6 DEF Recent
<1>18. m <= l
  BY <1>3, <1>4 DEF Recent
<1>19. hit => Adjoins(t)
  <2> SUFFICES ASSUME hit PROVE Adjoins(t)
    OBVIOUS
  <2>1. MatchesAt(w, text, f, to) # {}
    BY <1>12
  <2>2. to <= Len(w)
    BY <1>6, <1>11
  <2>3. PICK j \in f .. (to - 1) : t = <<w[j], w[j + 1]>>
    <3>1. w \in Seq(Nat) /\ f \in Nat /\ f > 0 /\ to \in Nat
      BY <1>8, <1>11, <1>17
    <3>2. \E j \in f .. (to - 1) : Match(w, text, f, to) = <<w[j], w[j + 1]>>
      BY <2>1, <2>2, <3>1, MatchIs
    <3>3. QED
      BY <1>13, <3>2
  <2>4. j \in 1 .. (m + n) /\ j + 1 \in 1 .. (m + n)
    BY <1>8, <1>11
  <2>5. PICK x : x = w[j]
    OBVIOUS
  <2>6. PICK y : y = w[j + 1]
    OBVIOUS
  <2>7. x = (k - (m + n)) + j /\ y = (k - (m + n)) + (j + 1)
    BY <1>17, <2>4, <2>5, <2>6
  <2>8. x \in Nat /\ y \in Nat /\ y = x + 1
    <3>0. k - (m + n) = l - m /\ l - m \in Nat
      BY <1>0, <1>18
    <3>1. PICK d \in Nat : d = k - (m + n)
      BY <3>0
    <3>2. x = d + j /\ y = d + (j + 1)
      BY <2>7, <3>1
    <3>3. QED
      BY <2>4, <3>2
  <2>9. t = <<x, y>>
    BY <2>3, <2>5, <2>6
  <2>10. QED
    BY <2>8, <2>9 DEF Adjoins
<1>20. hit \in BOOLEAN /\ (hit => t \in Nat \X Nat)
  BY <1>12, <1>19 DEF Adjoins
<1>21. /\ new \in Seq(Incident) /\ Fits(Len(new)) /\ Reports(new, hit)
       /\ \A i \in 1 .. Len(new) : hit /\ new[i].text = t
  BY <1>14, <1>15, <1>20, NewIs
<1>22. \A i \in 1 .. Len(new) : Adjoins(new[i].text)
  BY <1>19, <1>21
<1>23. ASSUME NEW i \in l .. (k - 1), i > 0, Occurs(text, i), Overlap + n <= Scratch
       PROVE  hit
  <2>0. i \in Int /\ i >= l /\ i <= k - 1
    OBVIOUS
  <2>1. PICK j \in Nat : j = (m + i) - l
    <3>1. m + i \in Int /\ m + i >= l
      BY <2>0
    <3>2. (m + i) - l \in Nat
      BY <3>1
    <3>3. QED
      BY <3>2
  <2>2. j > 0
    <3> SUFFICES ASSUME j = 0 PROVE FALSE
      BY <2>1
    <3>1. m = 0 /\ i = l /\ l > 0
      BY <1>23, <2>1
    <3>2. Len(anWindow) = 0
      BY <1>3, <1>4, <3>1
    <3>3. stream[l] = "|"
      BY <3>1, <3>2 DEF RInv, Fresh
    <3>4. text[l] = "p"
      BY <1>23, <3>1 DEF Occurs
    <3>5. QED
      BY <3>1, <3>3, <3>4
  <2>3. j >= m /\ j <= m + n - 1
    BY <1>0, <2>1
  <2>4. f <= j
    <3>1. CASE m > 0
      BY <1>8, <2>3, <3>1
    <3>2. CASE m = 0
      BY <1>8, <2>2, <3>2
    <3>3. QED
      BY <3>1, <3>2
  <2>5. j <= to - 1
    <3>1. CASE to = m + n
      BY <2>3, <3>1
    <3>2. CASE to = f + Scratch - 1
      BY <1>8, <1>10, <1>23, <2>3, <3>2
    <3>3. QED
      BY <1>11, <3>1, <3>2
  <2>6. j \in f .. (to - 1)
    BY <1>8, <1>11, <2>4, <2>5
  <2>7. j \in 1 .. (m + n) /\ j + 1 \in 1 .. (m + n)
    BY <2>2, <2>3
  <2>8. w[j] = (k - (m + n)) + j /\ w[j + 1] = (k - (m + n)) + (j + 1)
    BY <1>17, <2>7
  <2>9. (k - (m + n)) + j = i /\ (k - (m + n)) + (j + 1) = i + 1
    BY <1>0, <2>1
  <2>10. w[j] = i /\ w[j + 1] = i + 1
    BY <2>8, <2>9
  <2>11. j \in MatchesAt(w, text, f, to)
    BY <1>23, <2>6, <2>10 DEF MatchesAt, Occurs
  <2>12. QED
    BY <1>12, <2>11
<1>24. (\E i \in l .. (k - 1) : i > 0 /\ Occurs(text, i)) /\ Overlap + n <= Scratch =>
         Signatures \ cooling \subseteq NamesIn(new)
  <2> SUFFICES ASSUME NEW i \in l .. (k - 1), i > 0, Occurs(text, i), Overlap + n <= Scratch
               PROVE  Signatures \ cooling \subseteq NamesIn(new)
    OBVIOUS
  <2>1. hit
    BY <1>23
  <2>2. QED
    BY <1>21, <2>1 DEF Reports
<1>25. a.window = w /\ a.new = new /\ a.incidents = StoredAll(incidents, new)
  BY <1>16
<1>26. Len(w) > 0
  BY <1>6
<1>27. QED
  BY <1>6, <1>21, <1>22, <1>24, <1>25, <1>26



\* The autoresponder's window with a chunk of n bytes: o older cells, then the
\* chunk's.
Ahead(w, o, l, n) ==
  /\ Len(w) = o + n /\ (\A j \in 1 .. o : w[j] \in 1 .. l)
  /\ \A j \in 1 .. (o + n) : j > o => w[j] = l + (j - o)

LEMMA AppendedIs ==
  ASSUME RInv, NEW l \in Nat, l = Len(stream), NEW n \in Nat, n > 0, n <= MaxChunk, NEW k \in Nat, NEW p,
         Chunk(p, k, l, n), Len(p) = n, NEW w, w = window_append(p).window, NEW o, o = window_append(p).offset
  PROVE  /\ Kept(w, k, skipped) /\ o \in Nat /\ Ahead(w, o, l, n) /\ Len(w) < WindowCap
         /\ o = 0 => Len(arWindow) = 0
         /\ o > 0 /\ l > 0 /\ l \notin skipped => w[o] = l
<1>1. PICK m \in Nat : m = Len(arWindow)
  BY DEF RInv, Kept
<1>2. WindowCap \in Nat /\ n <= WindowCap - 2 /\ m <= WindowCap - 1
  BY <1>1, RulesAssumption DEF RInv
<1>3. PICK d : d = IF (m + n) - (WindowCap - 1) > 0 THEN (m + n) - (WindowCap - 1) ELSE 0
  OBVIOUS
<1>4. d \in Nat /\ d <= m /\ (m > 0 => d < m) /\ (m - d) + n <= WindowCap - 1
  BY <1>2, <1>3
<1>5. PICK u : u = SubSeq(arWindow, d + 1, Len(arWindow))
  OBVIOUS
<1>6. Kept(u, l, skipped) /\ Len(u) = m - d
  <2>1. PICK v : v = arWindow
    OBVIOUS
  <2>2. Kept(v, l, skipped) /\ d <= Len(v) /\ Shrunk(u, v, d) /\ d \in Nat
    BY <1>1, <1>4, <1>5, <2>1 DEF RInv, Shrunk
  <2>3. Kept(u, l, skipped) /\ Len(u) = Len(v) - d
    BY <2>2, KeptTailed
  <2>4. QED
    BY <1>1, <2>1, <2>3
<1>7. arOffset = m
  BY <1>1 DEF RInv
<1>8. w = u \o p /\ o = m - d
  <2>1. PICK x : x = SubSeq(arWindow, d + 1, Len(arWindow)) \o p
    OBVIOUS
  <2>2. PICK y : y = IF m > d THEN m - d ELSE 0
    OBVIOUS
  <2>3. window_append(p) = [window |-> x, offset |-> y]
    BY <1>1, <1>3, <1>7, <2>1, <2>2 DEF window_append
  <2>4. w = x /\ o = y
    BY <2>3
  <2>5. y = m - d
    BY <1>4, <2>2
  <2>6. x = u \o p
    BY <1>5, <2>1, Zenon
  <2>7. QED
    BY <2>4, <2>5, <2>6
<1>9. PICK e \in Nat : e = m - d
  BY <1>4
<1>10. Kept(w, k, skipped) /\ IsGrown(w, u, l, n)
  <2>1. Grown(w, u, p) /\ Chunk(p, k, l, n) /\ Kept(u, l, skipped)
    BY <1>6, <1>8 DEF Grown
  <2>2. QED
    BY <2>1, KeptExtended
<1>11. /\ Len(u) = e /\ o = e /\ Len(w) = e + n /\ (\A j \in 1 .. e : w[j] = u[j])
       /\ \A j \in 1 .. (e + n) : j > e => w[j] = l + (j - e)
  BY <1>6, <1>8, <1>9, <1>10 DEF IsGrown
<1>12. \A j \in 1 .. e : w[j] \in 1 .. l
  BY <1>6, <1>11 DEF Kept
<1>13. Ahead(w, o, l, n)
  BY <1>11, <1>12 DEF Ahead
<1>14. Len(w) < WindowCap
  BY <1>2, <1>4, <1>9, <1>11
<1>15. ASSUME o = 0 PROVE Len(arWindow) = 0
  BY <1>1, <1>4, <1>8, <1>15
<1>16. ASSUME o > 0, l > 0, l \notin skipped PROVE w[o] = l
  <2>1. u[Len(u)] = l
    <3>1. Kept(u, l, skipped)
      BY <1>6
    <3>2. Len(u) > 0
      BY <1>11, <1>16
    <3>3. l > 0 /\ l \notin skipped
      BY <1>16
    <3>4. QED
      BY <3>1, <3>2, <3>3, KeptNewest
  <2>2. e \in 1 .. e
    BY <1>11, <1>16
  <2>3. QED
    BY <1>11, <2>1, <2>2
<1>17. QED
  BY <1>9, <1>10, <1>11, <1>13, <1>14, <1>15, <1>16

\* The line that the search starts with: no line ends in it, and the one before
\* it has ended.
LEMMA LineStartIs ==
  ASSUME NEW w, NEW text, NEW o \in Nat, NEW f, f = LineStart(w, text, o)
  PROVE  /\ f \in Nat /\ f >= 1 /\ f <= o + 1
         /\ (\A j \in 1 .. o : j >= f => text[w[j]] # "\n")
         /\ (f > 1 => text[w[f - 1]] = "\n")
<1>1. PICK B : B = {j \in 1 .. o : text[w[j]] = "\n"}
  OBVIOUS
<1>2. f = IF B = {} THEN 1 ELSE Max(B) + 1
  BY <1>1 DEF LineStart
<1>3. CASE B = {}
  BY <1>1, <1>2, <1>3
<1>4. CASE B # {}
  <2>1. B \in SUBSET Nat /\ \A y \in B : y <= o
    BY <1>1
  <2>2. PICK x : x = Max(B)
    OBVIOUS
  <2>3. x \in B /\ \A y \in B : x >= y
    BY <1>4, <2>1, <2>2, MaxIsGreatest
  <2>4. x \in 1 .. o /\ text[w[x]] = "\n"
    BY <1>1, <2>3
  <2>5. f = x + 1
    BY <1>2, <1>4, <2>2
  <2>6. f - 1 = x
    BY <2>4, <2>5
  <2>7. ASSUME NEW j \in 1 .. o, j >= f PROVE text[w[j]] # "\n"
    <3>1. j \notin B
      BY <2>3, <2>4, <2>5, <2>7
    <3>2. QED
      BY <1>1, <3>1
  <2>8. QED
    BY <2>4, <2>5, <2>6, <2>7
<1>5. QED
  BY <1>3, <1>4



\* The two positions of a match follow one another, but for gaps; no line ended
\* between them and the end of a stream of length l, but in gaps.
Real(t, gaps) == t[2] = t[1] + 1 \/ t[1] + 1 \in gaps
Current(t, text, l, gaps) == \A j \in t[2] + 1 .. l : text[j] = "\n" => j \in gaps

\* What the search from the start of the line finds is real and current.
LEMMA FoundIs ==
  ASSUME NEW l \in Nat, NEW n \in Nat, NEW k \in Nat, k = l + n, NEW w, NEW gaps, Kept(w, k, gaps),
         NEW o \in Nat, Ahead(w, o, l, n), NEW text, NEW f, f = LineStart(w, text, o),
         NEW t, t = Match(w, text, f, o + n), MatchesAt(w, text, f, o + n) # {}
  PROVE  t \in Nat \X Nat /\ Real(t, gaps) /\ Current(t, text, l, gaps)
<1>1. f \in Nat /\ f >= 1 /\ f <= o + 1 /\ (\A j \in 1 .. o : j >= f => text[w[j]] # "\n")
  BY LineStartIs
<1>2. PICK m \in Nat : m = o + n
  OBVIOUS
<1>3. w \in Seq(Nat) /\ Len(w) = m
  BY <1>2 DEF Kept, Ahead
<1>4. PICK j \in f .. (m - 1) : t = <<w[j], w[j + 1]>>
  <2>1. MatchesAt(w, text, f, m) # {} /\ f > 0 /\ m <= Len(w)
    BY <1>1, <1>2, <1>3
  <2>2. \E j \in f .. (m - 1) : Match(w, text, f, m) = <<w[j], w[j + 1]>>
    BY <1>1, <1>3, <2>1, MatchIs
  <2>3. QED
    BY <1>2, <2>2
<1>5. j \in 1 .. m /\ j + 1 \in 1 .. m /\ 1 \in 1 .. m /\ j \in Nat /\ j > 0 /\ j + 1 <= Len(w)
  BY <1>1, <1>3
<1>6. PICK x \in 1 .. k : x = w[j]
  BY <1>3, <1>5 DEF Kept
<1>7. PICK y \in 1 .. k : y = w[j + 1]
  BY <1>3, <1>5 DEF Kept
<1>8. t = <<x, y>>
  BY <1>4, <1>6, <1>7
<1>9. t \in Nat \X Nat /\ t[1] = x /\ t[2] = y
  BY <1>8
<1>10. w[j + 1] = w[j] + 1 \/ w[j] + 1 \in gaps
  BY <1>5, KeptNext
<1>11. Real(t, gaps)
  BY <1>6, <1>7, <1>9, <1>10 DEF Real
<1>12. ASSUME NEW z \in (y + 1) .. l, text[z] = "\n", z \notin gaps PROVE FALSE
  <2>1. z \in 1 .. k /\ z > y /\ z <= l
    BY <1>12
  <2>2. PICK c \in 1 .. k : c = w[1]
    BY <1>3, <1>5 DEF Kept
  <2>3. \A a, b \in 1 .. m : a < b => w[a] < w[b]
    BY <1>3 DEF Kept, Rises
  <2>4. c <= y
    <3>1. 1 < j + 1
      BY <1>5
    <3>2. w[1] < w[j + 1]
      BY <1>5, <2>3, <3>1
    <3>3. QED
      BY <1>7, <2>2, <3>2
  <2>5. z >= w[1] /\ Len(w) > 0
    BY <1>3, <1>5, <2>1, <2>2, <2>4
  <2>6. PICK b \in 1 .. m : w[b] = z
    BY <1>3, <1>12, <2>1, <2>5 DEF Kept, Covers
  <2>7. b > j + 1
    <3> SUFFICES ASSUME b < j + 1 \/ b = j + 1 PROVE FALSE
      BY <1>5
    <3>1. CASE b = j + 1
      BY <1>7, <2>1, <2>6, <3>1
    <3>2. CASE b < j + 1
      <4>1. w[b] < w[j + 1]
        BY <1>5, <2>3, <3>2
      <4>2. QED
        BY <1>7, <2>1, <2>6, <4>1
    <3>3. QED
      BY <3>1, <3>2
  <2>8. b <= o
    <3> SUFFICES ASSUME b > o PROVE FALSE
      BY <1>2
    <3>1. w[b] = l + (b - o)
      BY <1>2 DEF Ahead
    <3>2. QED
      BY <2>1, <2>6, <3>1
  <2>9. b \in 1 .. o /\ b >= f
    BY <1>1, <2>7, <2>8
  <2>10. text[w[b]] # "\n"
    BY <1>1, <2>9
  <2>11. QED
    BY <1>12, <2>6, <2>10
<1>13. Current(t, text, l, gaps)
  BY <1>9, <1>12 DEF Current
<1>14. QED
  BY <1>9, <1>11, <1>13

\* A prompt that the chunk completes is found, wherever the reads cut it.
LEMMA PromptFound ==
  ASSUME NEW l \in Nat, NEW n \in Nat, NEW k \in Nat, k = l + n, NEW w, NEW o \in Nat, Ahead(w, o, l, n),
         NEW text, NEW f, f = LineStart(w, text, o), NEW i \in Nat, i >= l, i <= k - 1, i > 0, Occurs(text, i),
         i = l => o > 0 /\ w[o] = l
  PROVE  MatchesAt(w, text, f, o + n) # {}
<1>1. /\ f \in Nat /\ f >= 1 /\ f <= o + 1
      /\ (f > 1 => text[w[f - 1]] = "\n")
  BY LineStartIs
<1>2. PICK j \in Nat : j = (i - l) + o
  OBVIOUS
<1>3. j + 1 \in 1 .. (o + n) /\ j + 1 > o /\ l + ((j + 1) - o) = i + 1
  BY <1>2
<1>4. w[j + 1] = i + 1
  BY <1>3 DEF Ahead
<1>5. j > 0 /\ w[j] = i /\ f <= j
  <2>1. CASE i > l
    <3>1. j \in 1 .. (o + n) /\ j > o /\ l + (j - o) = i
      BY <1>2, <2>1
    <3>2. w[j] = i
      BY <3>1 DEF Ahead
    <3>3. QED
      BY <1>1, <3>1, <3>2
  <2>2. CASE i = l
    <3>1. j = o /\ o > 0 /\ w[o] = l
      BY <1>2, <2>2
    <3>2. f # o + 1
      <4> SUFFICES ASSUME f = o + 1 PROVE FALSE
        OBVIOUS
      <4>1. f - 1 = o /\ f > 1
        BY <3>1
      <4>2. text[w[o]] = "\n"
        BY <1>1, <4>1
      <4>3. text[w[o]] = "p"
        BY <2>2, <3>1 DEF Occurs
      <4>4. QED
        BY <4>2, <4>3
    <3>3. QED
      BY <1>1, <2>2, <3>1, <3>2
  <2>3. i > l \/ i = l
    OBVIOUS
  <2>4. QED
    BY <2>1, <2>2, <2>3, Zenon
<1>6. j \in f .. ((o + n) - 1)
  BY <1>1, <1>3, <1>5
<1>7. j \in MatchesAt(w, text, f, o + n)
  BY <1>4, <1>5, <1>6 DEF MatchesAt, Occurs
<1>8. QED
  BY <1>7


Answer == [name : Names, text : Nat \X Nat]

\* Every rule that may fire does, when the chunk behind a stream of length l
\* completes a prompt that is not in gaps.
Answered(fired, text, l, k, gaps) ==
  \A name \in Ready : \A i \in Nat :
    i >= l /\ i <= k - 1 /\ i > 0 /\ Occurs(text, i) /\ i \notin gaps /\ i + 1 \notin gaps =>
      name \in NamesIn(fired) \/ Len(fired) = MaxFired

\* The table when rules of these names have fired.
Spent(fired) ==
  [i \in DOMAIN rules |-> IF rules[i].name \in fired /\ rules[i].once
                            THEN [rules[i] EXCEPT !.enabled = FALSE] ELSE rules[i]]

LEMMA SpentIs ==
  ASSUME rules \in Seq(Rule), NEW fired, NEW s, s = Spent(fired)
  PROVE  s \in Seq(Rule) /\ Len(s) = Len(rules)
<1>1. PICK n \in Nat : n = Len(rules)
  OBVIOUS
<1>2. DOMAIN rules = 1 .. n /\ \A i \in 1 .. n : rules[i] \in Rule
  BY <1>1
<1>3. \A r \in Rule : [r EXCEPT !.enabled = FALSE] \in Rule
  BY DEF Rule
<1>4. s = [i \in 1 .. n |-> IF rules[i].name \in fired /\ rules[i].once
                              THEN [rules[i] EXCEPT !.enabled = FALSE] ELSE rules[i]]
  BY <1>2 DEF Spent
<1>5. s \in [1 .. n -> Rule]
  BY <1>2, <1>3, <1>4
<1>6. QED
  BY <1>1, <1>5

\* The answers to a match t.
LEMMA AnswersAre ==
  ASSUME NEW t, NEW names \in Seq(Names), NEW fired, fired = Made(names, t),
         Len(names) > 0 => t \in Nat \X Nat
  PROVE  /\ fired \in Seq(Answer) /\ Len(fired) = Len(names) /\ (\A i \in DOMAIN fired : fired[i].text = t)
         /\ \A x : ListsName(names, x) => x \in NamesIn(fired)
<1>1. PICK n \in Nat : n = Len(names)
  OBVIOUS
<1>2. DOMAIN names = 1 .. n /\ \A i \in 1 .. n : names[i] \in Names
  BY <1>1
<1>3. fired = [i \in 1 .. n |-> [name |-> names[i], text |-> t]]
  BY <1>2 DEF Made
<1>4. \A i \in 1 .. n : [name |-> names[i], text |-> t] \in Answer
  BY <1>1, <1>2 DEF Answer
<1>5. fired \in [1 .. n -> Answer]
  BY <1>3, <1>4
<1>6. fired \in Seq(Answer) /\ Len(fired) = n /\ DOMAIN fired = 1 .. n
  BY <1>5
<1>7. \A i \in 1 .. n : fired[i].text = t /\ fired[i].name = names[i]
  BY <1>3
<1>8. ASSUME NEW x, ListsName(names, x) PROVE x \in NamesIn(fired)
  <2>1. PICK i \in 1 .. n : names[i] = x
    BY <1>1, <1>8 DEF ListsName
  <2>2. QED
    BY <1>6, <1>7, <2>1 DEF NamesIn
<1>9. QED
  BY <1>1, <1>6, <1>7, <1>8

\* What the autoresponder makes of a chunk: the window it keeps, the rules it
\* has left, and its answers.
Keeps(a, k) ==
  /\ Kept(a.window, k, a.skipped) /\ Len(a.window) < WindowCap /\ a.offset = Len(a.window)
  /\ Len(a.window) = 0 => k \in a.skipped
Answers(a, text, l, k) ==
  /\ a.fired \in Seq(Answer) /\ Answered(a.fired, text, l, k, a.skipped)
  /\ \A i \in DOMAIN a.fired : Real(a.fired[i].text, a.skipped) /\ Current(a.fired[i].text, text, l, a.skipped)

LEMMA FedNone ==
  ASSUME RInv, NEW l \in Nat, l = Len(stream), NEW n \in Nat, n > 0, NEW k \in Nat, NEW p,
         Chunk(p, k, l, n), NEW text, NEW a, a = sm_autoresponder_feed(text, p), rules = <<>>
  PROVE  Keeps(a, k) /\ Answers(a, text, l, k) /\ a.rules \in Seq(Rule) /\ Len(a.rules) = Len(rules)
<1>1. a.window = arWindow /\ a.offset = arOffset /\ a.rules = rules /\ a.fired = <<>> /\ a.skipped = skipped \cup ToSet(p)
  BY DEF sm_autoresponder_feed
<1>2. k = l + n /\ IsAdded(p, l, n)
  BY AddedIs DEF Chunk
<1>3. PICK more : more = ToSet(p)
  OBVIOUS
<1>4. \A x \in 1 .. k : x > l => x \in more
  <2> SUFFICES ASSUME NEW x \in 1 .. k, x > l PROVE x \in more
    OBVIOUS
  <2>1. PICK i \in 1 .. n : x = l + i
    <3>1. x - l \in 1 .. n /\ x = l + (x - l)
      BY <1>2
    <3>2. QED
      BY <3>1
  <2>2. DOMAIN p = 1 .. n /\ p[i] = x
    BY <1>2, <2>1 DEF IsAdded
  <2>3. QED
    BY <1>3, <2>2 DEF ToSet
<1>5. Kept(arWindow, k, skipped \cup more)
  <2>1. PICK w : w = arWindow
    OBVIOUS
  <2>2. PICK gaps : gaps = skipped
    OBVIOUS
  <2>3. Kept(w, l, gaps) /\ l <= k
    BY <1>2, <2>1, <2>2 DEF RInv
  <2>4. Kept(w, k, gaps \cup more)
    BY <1>4, <2>3, KeptSkips
  <2>5. QED
    BY <2>1, <2>2, <2>4
<1>6. k \in a.skipped
  BY <1>1, <1>2, <1>3, <1>4
<1>7. Keeps(a, k)
  BY <1>1, <1>3, <1>5, <1>6 DEF Keeps, RInv
<1>8. Ready = {}
  BY DEF Ready
<1>9. a.fired \in Seq(Answer) /\ DOMAIN a.fired = {}
  BY <1>1
<1>10. Answers(a, text, l, k)
  BY <1>8, <1>9 DEF Answers, Answered
<1>11. QED
  BY <1>1, <1>7, <1>10 DEF RInv


LEMMA FedSome ==
  ASSUME RInv, NEW l \in Nat, l = Len(stream), NEW n \in Nat, n > 0, n <= MaxChunk, NEW k \in Nat, NEW p,
         Chunk(p, k, l, n), NEW text, l > 0 => text[l] = stream[l],
         NEW a, a = sm_autoresponder_feed(text, p), rules # <<>>
  PROVE  Keeps(a, k) /\ Answers(a, text, l, k) /\ a.rules \in Seq(Rule) /\ Len(a.rules) = Len(rules)
<1>1. k = l + n /\ Len(p) = n
  BY AddedIs DEF Chunk, IsAdded
<1>2. PICK w : w = window_append(p).window
  OBVIOUS
<1>3. PICK o : o = window_append(p).offset
  OBVIOUS
<1>4. /\ Kept(w, k, skipped) /\ o \in Nat /\ Ahead(w, o, l, n) /\ Len(w) < WindowCap
      /\ o = 0 => Len(arWindow) = 0
      /\ o > 0 /\ l > 0 /\ l \notin skipped => w[o] = l
  BY <1>1, <1>2, <1>3, AppendedIs
<1>5. PICK m \in Nat : m = o + n
  BY <1>4
<1>6. Len(w) = m
  BY <1>5, <1>4 DEF Ahead
<1>7. PICK f : f = LineStart(w, text, o)
  OBVIOUS
<1>8. PICK matched : matched = (MatchesAt(w, text, f, m) # {})
  OBVIOUS
<1>9. PICK names : names = Firing(matched)
  OBVIOUS
<1>10. PICK t : t = Match(w, text, f, m)
  OBVIOUS
<1>11. /\ a.window = w /\ a.offset = m /\ a.rules = Spent(ToSet(names)) /\ a.fired = Made(names, t)
       /\ a.skipped = skipped
  BY <1>2, <1>3, <1>6, <1>7, <1>8, <1>9, <1>10 DEF sm_autoresponder_feed, Spent, Made
<1>12. rules \in Seq(Rule) /\ matched \in BOOLEAN
  BY <1>8 DEF RInv
<1>13. /\ names \in Seq(Names) /\ Len(names) <= MaxFired /\ (~matched => names = <<>>)
       /\ Due(names, matched, Len(rules))
  BY <1>9, <1>12, FiringIs
<1>14. matched => t \in Nat \X Nat /\ Real(t, skipped) /\ Current(t, text, l, skipped)
  <2> SUFFICES ASSUME matched PROVE t \in Nat \X Nat /\ Real(t, skipped) /\ Current(t, text, l, skipped)
    OBVIOUS
  <2>1. PICK gaps : gaps = skipped
    OBVIOUS
  <2>2. /\ Kept(w, k, gaps) /\ Ahead(w, o, l, n) /\ o \in Nat /\ k = l + n
        /\ t = Match(w, text, f, o + n) /\ MatchesAt(w, text, f, o + n) # {}
    BY <1>1, <1>4, <1>5, <1>8, <1>10, <2>1
  <2>3. t \in Nat \X Nat /\ Real(t, gaps) /\ Current(t, text, l, gaps)
    BY <1>7, <2>2, FoundIs
  <2>4. QED
    BY <2>1, <2>3
<1>15. Len(names) > 0 => matched
  BY <1>13
<1>16. PICK fired : fired = Made(names, t)
  OBVIOUS
<1>17. /\ fired \in Seq(Answer) /\ Len(fired) = Len(names) /\ (\A i \in DOMAIN fired : fired[i].text = t)
       /\ \A x : ListsName(names, x) => x \in NamesIn(fired)
  BY <1>13, <1>14, <1>15, <1>16, AnswersAre
<1>18. \A i \in DOMAIN fired : Real(fired[i].text, skipped) /\ Current(fired[i].text, text, l, skipped)
  <2> SUFFICES ASSUME NEW i \in DOMAIN fired
               PROVE  Real(fired[i].text, skipped) /\ Current(fired[i].text, text, l, skipped)
    OBVIOUS
  <2>1. Len(names) > 0
    BY <1>13, <1>17
  <2>2. QED
    BY <1>14, <1>15, <1>17, <2>1
<1>19. Answered(fired, text, l, k, skipped)
  <2> SUFFICES ASSUME NEW name \in Ready, NEW i \in Nat, i >= l, i <= k - 1, i > 0, Occurs(text, i),
                      i \notin skipped, i + 1 \notin skipped
               PROVE  name \in NamesIn(fired) \/ Len(fired) = MaxFired
    BY DEF Answered
  <2>1. i = l => o > 0 /\ w[o] = l
    <3> SUFFICES ASSUME i = l PROVE o > 0 /\ w[o] = l
      OBVIOUS
    <3>1. l > 0 /\ l \notin skipped
      OBVIOUS
    <3>2. o # 0
      <4> SUFFICES ASSUME o = 0 PROVE FALSE
        OBVIOUS
      <4>1. Len(arWindow) = 0
        BY <1>4
      <4>2. stream[l] = "|"
        BY <3>1, <4>1 DEF RInv, Fresh
      <4>3. text[l] = "p"
        BY DEF Occurs
      <4>4. QED
        BY <3>1, <4>2, <4>3
    <3>3. QED
      BY <1>4, <3>1, <3>2
  <2>2. MatchesAt(w, text, f, o + n) # {}
    BY <1>1, <1>4, <1>7, <2>1, PromptFound
  <2>3. matched
    BY <1>5, <1>8, <2>2
  <2>4. PICK j \in 1 .. Len(rules) : name = rules[j].name
    BY <1>12 DEF Ready
  <2>5. ListsName(names, name) \/ Len(names) = MaxFired
    BY <1>13, <2>3, <2>4 DEF Due
  <2>6. QED
    BY <1>17, <2>5
<1>20. Answers(a, text, l, k)
  BY <1>11, <1>16, <1>17, <1>18, <1>19 DEF Answers
<1>21. Len(w) > 0
  BY <1>4, <1>5, <1>6
<1>22. Keeps(a, k)
  BY <1>4, <1>6, <1>11, <1>21 DEF Keeps
<1>23. a.rules \in Seq(Rule) /\ Len(a.rules) = Len(rules)
  <2>1. PICK s : s = Spent(ToSet(names))
    OBVIOUS
  <2>2. s \in Seq(Rule) /\ Len(s) = Len(rules)
    BY <1>12, <2>1, SpentIs
  <2>3. QED
    BY <1>11, <2>1, <2>2
<1>24. QED
  BY <1>20, <1>22, <1>23



\* What both make of a chunk, and what the broker keeps of it.
Fed(l, n, k, text, p, an, ar) ==
  /\ l = Len(stream) /\ k = l + n /\ Chunk(p, k, l, n)
  /\ text \in Seq(Text) /\ Len(text) = k /\ (\A x \in 1 .. l : text[x] = stream[x])
  /\ an = sm_anomaly_feed(text, p) /\ ar = sm_autoresponder_feed(text, p)

LEMMA FedIs ==
  ASSUME NEW n \in 1 .. MaxChunk, NEW bytes \in [1 .. n -> Alphabet], RInv, process_link_chunk(bytes)
  PROVE  \E l \in Nat, k \in Nat : \E text, p, an, ar :
           /\ Fed(l, n, k, text, p, an, ar) /\ k <= MaxStream
           /\ stream' = text /\ rules' = ar.rules /\ skipped' = ar.skipped
           /\ arWindow' = ar.window /\ arOffset' = ar.offset
           /\ anWindow' = an.window /\ anOffset' = Len(an.window)
           /\ incidents' = an.incidents
           /\ announced' = announced \o Announcing(an.incidents, an.new)
           /\ recorded' = recorded \o an.new
           /\ cooling' = cooling \cup NamesIn(an.new) \cup NamesIn(ar.fired)
           /\ last' = [from |-> l + 1, upto |-> k, ready |-> Ready \cup (Signatures \ cooling),
                       fired |-> ar.fired, reported |-> an.new]
<1>1. stream \in Seq(Text)
  BY DEF RInv
<1>2. PICK l \in Nat : l = Len(stream)
  BY <1>1
<1>3. n \in Nat /\ DOMAIN bytes = 1 .. n
  BY RulesAssumption
<1>4. bytes \in Seq(Text) /\ Len(bytes) = n
  <2>1. bytes \in [1 .. n -> Text]
    BY DEF Text
  <2>2. QED
    BY <1>3, <2>1
<1>5. PICK text : text = stream \o bytes
  OBVIOUS
<1>6. PICK p : p = [i \in DOMAIN bytes |-> Len(stream) + i]
  OBVIOUS
<1>7. PICK k \in Nat : k = l + n
  BY <1>3
<1>8. PICK an : an = sm_anomaly_feed(text, p)
  OBVIOUS
<1>9. PICK ar : ar = sm_autoresponder_feed(text, p)
  OBVIOUS
<1>10. text \in Seq(Text) /\ Len(text) = k /\ \A x \in 1 .. l : text[x] = stream[x]
  <2>1. IsJoin(text, stream, bytes, Text)
    <3>1. PICK s : s = stream
      OBVIOUS
    <3>2. s \in Seq(Text) /\ text = s \o bytes
      BY <1>1, <1>5, <3>1
    <3>3. IsJoin(text, s, bytes, Text)
      BY <1>4, <3>2, Joined
    <3>4. QED
      BY <3>1, <3>3
  <2>2. QED
    BY <1>2, <1>4, <1>7, <2>1 DEF IsJoin
<1>11. Chunk(p, k, l, n)
  BY <1>2, <1>3, <1>6, <1>7 DEF Chunk, Added
<1>12. Fed(l, n, k, text, p, an, ar)
  BY <1>2, <1>7, <1>8, <1>9, <1>10, <1>11 DEF Fed
<1>13. /\ Len(text) <= MaxStream
       /\ stream' = text /\ rules' = ar.rules /\ skipped' = ar.skipped
       /\ arWindow' = ar.window /\ arOffset' = ar.offset
       /\ anWindow' = an.window /\ anOffset' = Len(an.window)
       /\ incidents' = an.incidents
       /\ announced' = announced \o Announcing(an.incidents, an.new)
       /\ recorded' = recorded \o an.new
       /\ cooling' = cooling \cup NamesIn(an.new) \cup NamesIn(ar.fired)
       /\ last' = [from |-> Len(stream) + 1, upto |-> Len(text), ready |-> Ready \cup (Signatures \ cooling),
                   fired |-> ar.fired, reported |-> an.new]
  BY <1>5, <1>6, <1>8, <1>9, Zenon DEF process_link_chunk
<1>14. last' = [from |-> l + 1, upto |-> k, ready |-> Ready \cup (Signatures \ cooling),
                fired |-> ar.fired, reported |-> an.new]
  BY <1>2, <1>10, <1>13, Zenon
<1>15. k <= MaxStream
  BY <1>10, <1>13
<1>16. QED
  BY <1>12, <1>13, <1>14, <1>15, Zenon

\* The facts about both, of what was fed.
LEMMA FedFacts ==
  ASSUME RInv, NEW l \in Nat, NEW n \in Nat, n > 0, n <= MaxChunk, NEW k \in Nat, NEW text, NEW p, NEW an, NEW ar,
         Fed(l, n, k, text, p, an, ar)
  PROVE  /\ Recent(an.window, k) /\ Len(an.window) > 0
         /\ an.new \in Seq(Incident) /\ an.incidents \in Seq(Incident) /\ Len(an.incidents) <= IncidentCap
         /\ Announcing(an.incidents, an.new) = an.new
         /\ \A i \in 1 .. Len(an.new) : Adjoins(an.new[i].text)
         /\ (\E i \in l .. (k - 1) : i > 0 /\ Occurs(text, i)) /\ Overlap + n <= Scratch =>
              Signatures \ cooling \subseteq NamesIn(an.new)
         /\ Keeps(ar, k) /\ Answers(ar, text, l, k) /\ ar.rules \in Seq(Rule) /\ Len(ar.rules) = Len(rules)
<1>1. /\ l = Len(stream) /\ k = l + n /\ Chunk(p, k, l, n)
      /\ an = sm_anomaly_feed(text, p) /\ ar = sm_autoresponder_feed(text, p)
  BY DEF Fed
<1>2. l > 0 => text[l] = stream[l]
  BY DEF Fed
<1>3. /\ Recent(an.window, k) /\ Len(an.window) > 0
      /\ an.new \in Seq(Incident) /\ Fits(Len(an.new)) /\ an.incidents = StoredAll(incidents, an.new)
      /\ \A i \in 1 .. Len(an.new) : Adjoins(an.new[i].text)
      /\ (\E i \in l .. (k - 1) : i > 0 /\ Occurs(text, i)) /\ Overlap + n <= Scratch =>
           Signatures \ cooling \subseteq NamesIn(an.new)
  BY <1>1, <1>2, AnomalyIs
<1>4. an.incidents \in Seq(Incident) /\ Len(an.incidents) <= IncidentCap /\ Announcing(an.incidents, an.new) = an.new
  <2>1. PICK new : new = an.new
    OBVIOUS
  <2>2. PICK store : store = incidents
    OBVIOUS
  <2>3. PICK t : t = an.incidents
    OBVIOUS
  <2>4. PICK T : T = Incident
    OBVIOUS
  <2>5. store \in Seq(T) /\ Len(store) <= IncidentCap /\ new \in Seq(T) /\ Fits(Len(new)) /\ t = StoredAll(store, new)
    BY <1>3, <2>1, <2>2, <2>3, <2>4 DEF RInv
  <2>6. t \in Seq(T) /\ Len(t) <= IncidentCap /\ Announcing(t, new) = new
    BY <2>5, StoredIs
  <2>7. QED
    BY <2>1, <2>3, <2>4, <2>6
<1>5. Keeps(ar, k) /\ Answers(ar, text, l, k) /\ ar.rules \in Seq(Rule) /\ Len(ar.rules) = Len(rules)
  <2>1. CASE rules = <<>>
    BY <1>1, <2>1, FedNone
  <2>2. CASE rules # <<>>
    BY <1>1, <1>2, <2>2, FedSome
  <2>3. QED
    BY <2>1, <2>2
<1>6. QED
  BY <1>3, <1>4, <1>5


\* A chunk keeps the invariant, and what it sets off is exact.
LEMMA ChunkStep ==
  ASSUME NEW n \in 1 .. MaxChunk, NEW bytes \in [1 .. n -> Alphabet], RInv, process_link_chunk(bytes)
  PROVE  RInv' /\ MatchesExact'
<1>0. n \in Nat /\ n > 0 /\ n <= MaxChunk
  BY RulesAssumption
<1>1. PICK l \in Nat, k \in Nat : \E text, p, an, ar :
           /\ Fed(l, n, k, text, p, an, ar) /\ k <= MaxStream
           /\ stream' = text /\ rules' = ar.rules /\ skipped' = ar.skipped
           /\ arWindow' = ar.window /\ arOffset' = ar.offset
           /\ anWindow' = an.window /\ anOffset' = Len(an.window)
           /\ incidents' = an.incidents
           /\ announced' = announced \o Announcing(an.incidents, an.new)
           /\ recorded' = recorded \o an.new
           /\ cooling' = cooling \cup NamesIn(an.new) \cup NamesIn(ar.fired)
           /\ last' = [from |-> l + 1, upto |-> k, ready |-> Ready \cup (Signatures \ cooling),
                       fired |-> ar.fired, reported |-> an.new]
  BY FedIs, Zenon
<1>2. PICK text, p, an, ar :
           /\ Fed(l, n, k, text, p, an, ar) /\ k <= MaxStream
           /\ stream' = text /\ rules' = ar.rules /\ skipped' = ar.skipped
           /\ arWindow' = ar.window /\ arOffset' = ar.offset
           /\ anWindow' = an.window /\ anOffset' = Len(an.window)
           /\ incidents' = an.incidents
           /\ announced' = announced \o Announcing(an.incidents, an.new)
           /\ recorded' = recorded \o an.new
           /\ cooling' = cooling \cup NamesIn(an.new) \cup NamesIn(ar.fired)
           /\ last' = [from |-> l + 1, upto |-> k, ready |-> Ready \cup (Signatures \ cooling),
                       fired |-> ar.fired, reported |-> an.new]
  BY <1>1, Zenon
<1>3. Fed(l, n, k, text, p, an, ar)
  BY <1>2
<1>4. /\ Recent(an.window, k) /\ Len(an.window) > 0
      /\ an.new \in Seq(Incident) /\ an.incidents \in Seq(Incident) /\ Len(an.incidents) <= IncidentCap
      /\ Announcing(an.incidents, an.new) = an.new
      /\ \A i \in 1 .. Len(an.new) : Adjoins(an.new[i].text)
      /\ (\E i \in l .. (k - 1) : i > 0 /\ Occurs(text, i)) /\ Overlap + n <= Scratch =>
           Signatures \ cooling \subseteq NamesIn(an.new)
      /\ Keeps(ar, k) /\ Answers(ar, text, l, k) /\ ar.rules \in Seq(Rule) /\ Len(ar.rules) = Len(rules)
  BY <1>0, <1>3, FedFacts
<1>5. k = l + n /\ text \in Seq(Text) /\ Len(text) = k
  BY <1>3 DEF Fed
<1>6. PICK new : new = an.new
  OBVIOUS
<1>7. PICK fired : fired = ar.fired
  OBVIOUS
<1>8. PICK gaps : gaps = ar.skipped
  OBVIOUS
<1>9. new \in Seq(Incident) /\ fired \in Seq(Answer)
  BY <1>4, <1>6, <1>7 DEF Answers
<1>10. stream' \in Seq(Text) /\ Len(stream') <= MaxStream /\ Len(stream') = k
  BY <1>2, <1>5
<1>11. rules' \in Seq(Rule) /\ Len(rules') <= MaxRules
  BY <1>2, <1>4 DEF RInv
<1>12. cooling' \subseteq Names \cup Signatures
  <2>1. cooling \subseteq Names \cup Signatures
    BY DEF RInv
  <2>2. NamesIn(new) \subseteq Signatures
    <3>1. \A i \in DOMAIN new : new[i] \in Incident
      BY <1>9
    <3>2. \A x \in Incident : x.name \in Signatures
      BY DEF Incident
    <3>3. QED
      BY <3>1, <3>2 DEF NamesIn
  <2>3. NamesIn(fired) \subseteq Names
    <3>1. \A i \in DOMAIN fired : fired[i] \in Answer
      BY <1>9
    <3>2. \A x \in Answer : x.name \in Names
      BY DEF Answer
    <3>3. QED
      BY <3>1, <3>2 DEF NamesIn
  <2>4. cooling' = cooling \cup NamesIn(new) \cup NamesIn(fired)
    BY <1>2, <1>6, <1>7
  <2>5. QED
    BY <2>1, <2>2, <2>3, <2>4
<1>13. incidents' \in Seq(Incident) /\ Len(incidents') <= IncidentCap
  BY <1>2, <1>4
<1>14. recorded' \in Seq(Incident) /\ announced' = recorded'
  <2>1. recorded \in Seq(Incident) /\ announced = recorded
    BY DEF RInv
  <2>2. recorded' = recorded \o new /\ announced' = announced \o new
    BY <1>2, <1>4, <1>6
  <2>3. QED
    BY <1>9, <2>1, <2>2
<1>15. anOffset' = Len(anWindow') /\ Recent(anWindow', Len(stream')) /\ Fresh(anWindow, {})'
  <2>1. anOffset' = Len(anWindow') /\ Len(anWindow') > 0 /\ Recent(anWindow', k)
    BY <1>2, <1>4
  <2>2. Fresh(anWindow, {})'
    BY <2>1 DEF Fresh
  <2>3. QED
    BY <1>10, <2>1, <2>2
<1>16. /\ arOffset' = Len(arWindow') /\ Len(arWindow') < WindowCap
       /\ Kept(arWindow', Len(stream'), skipped') /\ Fresh(arWindow, skipped)'
  <2>1. /\ arOffset' = Len(arWindow') /\ Len(arWindow') < WindowCap /\ Kept(arWindow', k, skipped')
        /\ Len(arWindow') = 0 => k \in skipped'
    BY <1>2, <1>4 DEF Keeps
  <2>2. Fresh(arWindow, skipped)'
    BY <1>10, <2>1 DEF Fresh
  <2>3. QED
    BY <1>10, <2>1, <2>2
<1>17. RInv'
  BY <1>10, <1>11, <1>12, <1>13, <1>14, <1>15, <1>16 DEF RInv
<1>18. /\ last'.from = l + 1 /\ last'.upto = k /\ last'.ready = Ready \cup (Signatures \ cooling)
       /\ last'.fired = fired /\ last'.reported = new /\ stream' = text /\ skipped' = gaps
  BY <1>2, <1>6, <1>7, <1>8
<1>19. MatchIsReal'
  <2>1. \A i \in DOMAIN new : new[i].text[2] = new[i].text[1] + 1
    <3>1. DOMAIN new = 1 .. Len(new)
      BY <1>9
    <3>2. \A i \in 1 .. Len(new) : Adjoins(new[i].text)
      BY <1>4, <1>6
    <3>3. QED
      BY <3>1, <3>2 DEF Adjoins
  <2>2. \A i \in DOMAIN fired : fired[i].text[2] = fired[i].text[1] + 1 \/ fired[i].text[1] + 1 \in gaps
    BY <1>4, <1>7, <1>8 DEF Answers, Real
  <2>3. QED
    BY <1>18, <2>1, <2>2 DEF MatchIsReal
<1>20. NoStaleAnswer'
  <2>1. \A i \in DOMAIN fired : \A j \in fired[i].text[2] + 1 .. l : text[j] = "\n" => j \in gaps
    BY <1>4, <1>7, <1>8 DEF Answers, Current
  <2>2. last'.from - 1 = l
    BY <1>18
  <2>3. QED
    BY <1>18, <2>1, <2>2 DEF NoStaleAnswer
<1>21. PICK done : done = Completed'
  OBVIOUS
<1>22. \A i \in done : i \in Nat /\ i >= l /\ i <= k - 1 /\ i > 0 /\ Occurs(text, i)
  <2>1. done = {i \in (l + 1) - 1 .. k - 1 : i > 0 /\ text[i] = "p" /\ text[i + 1] = "q"}
    BY <1>18, <1>21 DEF Completed
  <2>2. \A i \in (l + 1) - 1 .. k - 1 : i \in Nat /\ i >= l /\ i <= k - 1
    OBVIOUS
  <2>3. QED
    BY <2>1, <2>2 DEF Occurs
<1>23. NoPromptMissed'
  <2> SUFFICES ASSUME NEW name \in Ready, NEW i \in done, i \notin gaps, i + 1 \notin gaps
               PROVE  name \in NamesIn(fired) \/ Len(fired) = MaxFired
    <3>1. \A name \in last'.ready \cap Names : name \in Ready
      BY <1>18, RulesAssumption
    <3>2. \A i \in done \ {j \in done : {j, j + 1} \cap gaps # {}} : i \in done /\ i \notin gaps /\ i + 1 \notin gaps
      OBVIOUS
    <3>3. NamesIn(last.fired)' = NamesIn(fired)
      BY <1>18 DEF NamesIn
    <3>4. QED
      BY <1>18, <1>21, <3>1, <3>2, <3>3 DEF NoPromptMissed
  <2>1. Answered(fired, text, l, k, gaps)
    BY <1>4, <1>7, <1>8 DEF Answers
  <2>2. QED
    BY <1>22, <2>1 DEF Answered
<1>24. NoPanicMissed'
  <2> SUFFICES ASSUME done # {}, Overlap + (k - (l + 1) + 1) <= Scratch
               PROVE  (Ready \cup (Signatures \ cooling)) \cap Signatures \subseteq NamesIn(new)
    <3>1. NamesIn(last.reported)' = NamesIn(new)
      BY <1>18 DEF NamesIn
    <3>2. QED
      BY <1>18, <1>21, <3>1 DEF NoPanicMissed
  <2>1. Overlap + n <= Scratch
    BY <1>5, RulesAssumption
  <2>2. \E i \in l .. (k - 1) : i > 0 /\ Occurs(text, i)
    <3>1. PICK i \in done : TRUE
      OBVIOUS
    <3>2. i \in l .. (k - 1) /\ i > 0 /\ Occurs(text, i)
      BY <1>22
    <3>3. QED
      BY <3>2
  <2>3. Signatures \ cooling \subseteq NamesIn(new)
    BY <1>4, <1>6, <2>1, <2>2
  <2>4. Ready \cap Signatures = {}
    <3>1. Ready \subseteq Names
      <4>1. \A i \in DOMAIN rules : rules[i] \in Rule
        BY DEF RInv
      <4>2. \A x \in Rule : x.name \in Names
        BY DEF Rule
      <4>3. QED
        BY <4>1, <4>2 DEF Ready
    <3>2. QED
      BY <3>1, RulesAssumption
  <2>5. QED
    BY <2>3, <2>4
<1>25. QED
  BY <1>17, <1>19, <1>20, <1>23, <1>24 DEF MatchesExact



\* The table of rules changes, and nothing of the output.
LEMMA ConfigureTable ==
  ASSUME RInv, handle_configure_autoresponder
  PROVE  rules' \in Seq(Rule) /\ Len(rules') <= MaxRules /\ cooling' \subseteq cooling
<1>1. rules \in Seq(Rule) /\ Len(rules) <= MaxRules
  BY DEF RInv
<1>2. PICK n \in Nat : n = Len(rules)
  BY <1>1
<1>3. MaxRules \in Nat /\ DOMAIN rules = 1 .. n /\ n <= MaxRules /\ \A i \in 1 .. n : rules[i] \in Rule
  BY <1>1, <1>2, RulesAssumption
<1>4. PICK name \in Names : (\E once \in BOOLEAN : sm_autoresponder_add(name, once)) \/ sm_autoresponder_remove(name)
  BY Zenon DEF handle_configure_autoresponder
<1>5. ASSUME NEW once \in BOOLEAN, sm_autoresponder_add(name, once)
      PROVE  rules' \in Seq(Rule) /\ Len(rules') <= MaxRules /\ cooling' \subseteq cooling
  <2>1. PICK rule : rule = [name |-> name, once |-> once, enabled |-> TRUE]
    OBVIOUS
  <2>2. rule \in Rule
    BY <2>1 DEF Rule
  <2>3. /\ name \in RuleNames \/ Len(rules) < MaxRules
        /\ rules' = IF name \in RuleNames
                      THEN [i \in DOMAIN rules |-> IF rules[i].name = name THEN rule ELSE rules[i]]
                      ELSE Append(rules, rule)
        /\ cooling' = cooling \ {name}
    BY <1>5, <2>1 DEF sm_autoresponder_add
  <2>4. CASE name \in RuleNames
    <3>1. rules' = [i \in 1 .. n |-> IF rules[i].name = name THEN rule ELSE rules[i]]
      BY <1>3, <2>3, <2>4
    <3>2. rules' \in [1 .. n -> Rule]
      BY <1>3, <2>2, <3>1
    <3>3. rules' \in Seq(Rule) /\ Len(rules') = n
      BY <3>2
    <3>4. QED
      BY <1>3, <2>3, <3>3
  <2>5. CASE name \notin RuleNames
    <3>1. rules' = Append(rules, rule) /\ n < MaxRules
      BY <1>2, <2>3, <2>5
    <3>2. rules' \in Seq(Rule) /\ Len(rules') = n + 1
      BY <1>1, <1>2, <2>2, <3>1, AppendProperties
    <3>3. QED
      BY <1>3, <2>3, <3>1, <3>2
  <2>6. QED
    BY <2>4, <2>5
<1>6. ASSUME sm_autoresponder_remove(name)
      PROVE  rules' \in Seq(Rule) /\ Len(rules') <= MaxRules /\ cooling' \subseteq cooling
  <2>1. PICK i \in DOMAIN rules : rules' = RemoveAt(rules, i)
    BY <1>6, Zenon DEF sm_autoresponder_remove
  <2>2. cooling' = cooling \ {name}
    BY <1>6, Zenon DEF sm_autoresponder_remove
  <2>3. i \in 1 .. n
    BY <1>3
  <2>4. PICK before : before = SubSeq(rules, 1, i - 1)
    OBVIOUS
  <2>5. PICK after : after = SubSeq(rules, i + 1, Len(rules))
    OBVIOUS
  <2>6. rules' = before \o after
    BY <2>1, <2>4, <2>5, Zenon DEF RemoveAt
  <2>7. before \in Seq(Rule) /\ Len(before) = i - 1
    <3>1. PICK y \in Nat : y = i - 1
      BY <2>3
    <3>2. \A j \in 1 .. y : rules[j] \in Rule
      BY <1>3, <2>3, <3>1
    <3>3. before = SubSeq(rules, 1, y)
      BY <2>4, <3>1
    <3>4. before \in Seq(Rule) /\ Len(before) = IF 1 <= y THEN y - 1 + 1 ELSE 0
      BY <3>2, <3>3, SubSeqProperties
    <3>5. QED
      BY <3>1, <3>4
  <2>8. after \in Seq(Rule) /\ Len(after) = n - i
    <3>1. PICK s : s = rules
      OBVIOUS
    <3>2. s \in Seq(Rule) /\ i \in Nat /\ i <= Len(s) /\ after = SubSeq(s, i + 1, Len(s))
      BY <1>1, <1>2, <2>3, <2>5, <3>1
    <3>3. IsTail(after, s, i, Rule)
      BY <3>2, Tailed
    <3>4. QED
      BY <1>2, <3>1, <3>3 DEF IsTail
  <2>9. rules' \in Seq(Rule) /\ Len(rules') = (i - 1) + (n - i)
    <3>1. PICK r : r = rules'
      OBVIOUS
    <3>2. before \in Seq(Rule) /\ after \in Seq(Rule) /\ r = before \o after
      BY <2>6, <2>7, <2>8, <3>1
    <3>3. IsJoin(r, before, after, Rule)
      BY <3>2, Joined
    <3>4. QED
      BY <2>7, <2>8, <3>1, <3>3 DEF IsJoin
  <2>10. QED
    BY <1>3, <2>2, <2>3, <2>9
<1>7. QED
  BY <1>4, <1>5, <1>6

\* The properties are about the last chunk, the stream and the gaps alone.
LEMMA ExactStays ==
  ASSUME MatchesExact, UNCHANGED <<stream, skipped, last>>
  PROVE  MatchesExact'
<1>1. MatchIsReal'
  BY DEF MatchesExact, MatchIsReal
<1>2. NoPromptMissed'
  BY DEF MatchesExact, NoPromptMissed, Completed, NamesIn
<1>3. NoStaleAnswer'
  BY DEF MatchesExact, NoStaleAnswer
<1>4. NoPanicMissed'
  BY DEF MatchesExact, NoPanicMissed, Completed, NamesIn
<1>5. QED
  BY <1>1, <1>2, <1>3, <1>4 DEF MatchesExact

\* Before the first chunk of a link nothing has fired.
LEMMA NoFeedExact ==
  ASSUME last = NoFeed
  PROVE  MatchesExact
<1>1. last.from = 1 /\ last.upto = 0 /\ last.ready = {} /\ last.fired = <<>> /\ last.reported = <<>>
  BY DEF NoFeed
<1>2. Completed = {}
  BY <1>1 DEF Completed
<1>3. QED
  BY <1>1, <1>2 DEF MatchesExact, MatchIsReal, NoPromptMissed, NoStaleAnswer, NoPanicMissed


-----------------------------------------------------------------------------
(* The theorems.                                                           *)

\* The invariant holds at the start, and so do the properties.
LEMMA InitRules ==
  ASSUME Init
  PROVE  RInv /\ MatchesExact
<1>1. last = NoFeed
  BY DEF Init
<1>2. MatchesExact
  BY <1>1, NoFeedExact
<1>3. stream = <<>> /\ rules = <<>> /\ incidents = <<>> /\ recorded = <<>> /\ announced = <<>> /\ cooling = {}
  BY DEF Init
<1>4. arWindow = <<>> /\ arOffset = 0 /\ anWindow = <<>> /\ anOffset = 0 /\ skipped = {}
  BY DEF Init
<1>5. MaxStream \in Nat /\ MaxRules \in Nat /\ IncidentCap \in Nat /\ WindowCap \in Nat /\ WindowCap > 0
  BY RulesAssumption
<1>6. Recent(anWindow, Len(stream)) /\ Fresh(anWindow, {}) /\ Fresh(arWindow, skipped)
  BY <1>3, <1>4 DEF Recent, Fresh
<1>7. Kept(arWindow, Len(stream), skipped)
  BY <1>3, <1>4 DEF Kept, Rises, Covers
<1>8. QED
  BY <1>2, <1>3, <1>4, <1>5, <1>6, <1>7 DEF RInv

\* Both windows start over with a link.
LEMMA BringUpStep ==
  ASSUME RInv, link_bring_up
  PROVE  RInv' /\ MatchesExact'
<1>1. /\ Len(stream) < MaxStream /\ stream' = Append(stream, "|") /\ last' = NoFeed
      /\ arWindow' = <<>> /\ arOffset' = 0 /\ anWindow' = <<>> /\ anOffset' = 0
      /\ UNCHANGED <<rules, skipped, incidents, announced, recorded, cooling>>
  BY DEF link_bring_up
<1>2. MatchesExact'
  <2>1. (last = NoFeed)'
    BY <1>1 DEF NoFeed
  <2>2. QED
    BY <2>1, NoFeedExact, PTL
<1>3. stream \in Seq(Text) /\ MaxStream \in Nat
  BY RulesAssumption DEF RInv
<1>4. PICK k \in Nat : k = Len(stream) + 1
  BY <1>3
<1>5. stream' \in Seq(Text) /\ Len(stream') = k /\ stream'[k] = "|" /\ k <= MaxStream
  <2>1. "|" \in Text
    BY DEF Text
  <2>2. QED
    BY <1>1, <1>3, <1>4, <2>1, AppendProperties
<1>6. Recent(anWindow', Len(stream')) /\ Fresh(anWindow, {})' /\ Fresh(arWindow, skipped)'
  BY <1>1, <1>5 DEF Recent, Fresh
<1>7. Kept(arWindow', Len(stream'), skipped')
  BY <1>1, <1>5, KeptEmpty
<1>8. WindowCap \in Nat /\ WindowCap > 0
  BY RulesAssumption
<1>9. QED
  BY <1>1, <1>2, <1>5, <1>6, <1>7, <1>8 DEF RInv

\* The other steps leave the output and the windows alone.
LEMMA RestStep ==
  ASSUME RInv, MatchesExact, rules' \in Seq(Rule), Len(rules') <= MaxRules, cooling' \subseteq cooling,
         UNCHANGED <<stream, arWindow, arOffset, skipped, anVars, last>>
  PROVE  RInv' /\ MatchesExact'
<1>1. UNCHANGED <<stream, skipped, last>> /\ UNCHANGED <<arWindow, arOffset, anWindow, anOffset, incidents, announced, recorded>>
  BY DEF anVars
<1>2. MatchesExact'
  BY <1>1, ExactStays
<1>3. Fresh(anWindow, {})' /\ Fresh(arWindow, skipped)'
  BY <1>1 DEF RInv, Fresh
<1>4. cooling' \subseteq Names \cup Signatures
  BY DEF RInv
<1>5. QED
  BY <1>1, <1>2, <1>3, <1>4 DEF RInv

\* Every step of the rules keeps the invariant and the properties.
LEMMA NextRules ==
  ASSUME RInv, MatchesExact, [Next]_vars
  PROVE  RInv' /\ MatchesExact'
<1>1. ASSUME NEW n \in 1 .. MaxChunk, NEW bytes \in [1 .. n -> Alphabet], process_link_chunk(bytes)
      PROVE  RInv' /\ MatchesExact'
  BY <1>1, ChunkStep
<1>2. CASE handle_configure_autoresponder
  <2>1. rules' \in Seq(Rule) /\ Len(rules') <= MaxRules /\ cooling' \subseteq cooling
    BY <1>2, ConfigureTable
  <2>2. UNCHANGED <<stream, arWindow, arOffset, skipped, anVars, last>>
    BY <1>2 DEF handle_configure_autoresponder
  <2>3. QED
    BY <2>1, <2>2, RestStep
<1>3. CASE sm_anomaly_add_pattern
  <2>1. cooling' \subseteq cooling /\ UNCHANGED rules
    BY <1>3 DEF sm_anomaly_add_pattern, arVars
  <2>2. UNCHANGED <<stream, arWindow, arOffset, skipped, anVars, last>>
    BY <1>3 DEF sm_anomaly_add_pattern, arVars
  <2>3. rules' \in Seq(Rule) /\ Len(rules') <= MaxRules
    BY <2>1 DEF RInv
  <2>4. QED
    BY <2>1, <2>2, <2>3, RestStep
<1>4. CASE link_bring_up
  BY <1>4, BringUpStep
<1>5. ASSUME NEW x \in Names \cup Signatures, CooldownPasses(x)
      PROVE  RInv' /\ MatchesExact'
  <2>1. cooling' \subseteq cooling /\ UNCHANGED rules
    BY <1>5 DEF CooldownPasses, arVars
  <2>2. UNCHANGED <<stream, arWindow, arOffset, skipped, anVars, last>>
    BY <1>5 DEF CooldownPasses, arVars
  <2>3. rules' \in Seq(Rule) /\ Len(rules') <= MaxRules
    BY <2>1 DEF RInv
  <2>4. QED
    BY <2>1, <2>2, <2>3, RestStep
<1>6. CASE UNCHANGED vars
  <2>1. cooling' \subseteq cooling /\ UNCHANGED rules
    BY <1>6 DEF vars, arVars
  <2>2. UNCHANGED <<stream, arWindow, arOffset, skipped, anVars, last>>
    BY <1>6 DEF vars, arVars
  <2>3. rules' \in Seq(Rule) /\ Len(rules') <= MaxRules
    BY <2>1 DEF RInv
  <2>4. QED
    BY <2>1, <2>2, <2>3, RestStep
<1>7. QED
  BY <1>1, <1>2, <1>3, <1>4, <1>5, <1>6, Zenon DEF Next


\* The invariant of the standing rules, whatever the sizes of windows, chunks,
\* tables and stream: the detector's window is the end of the link's output, the
\* autoresponder's lacks only what came while there was no rule, and both have
\* been searched to their ends (process_link_chunk, link_bring_up).
THEOREM RulesInvariant == Spec => [](RInv /\ MatchesExact)
<1>1. Init => RInv /\ MatchesExact
  BY InitRules
<1>2. RInv /\ MatchesExact /\ [Next]_vars => (RInv /\ MatchesExact)'
  BY NextRules
<1>3. QED
  BY <1>1, <1>2, PTL DEF Spec

\* Windows, tables and the incident store stay within their buffers, and the
\* search offsets within their windows (window_append, sm_anomaly_feed).
THEOREM RulesTypes == Spec => []TypeOK
<1>1. RInv => TypeOK
  <2> SUFFICES ASSUME RInv PROVE TypeOK
    OBVIOUS
  <2>1. Len(arWindow) \in Nat /\ Len(anWindow) \in Nat
    BY DEF RInv, Recent, Kept
  <2>2. stream \in Seq(Alphabet \cup {"|"})
    BY DEF RInv, Text
  <2>3. QED
    BY <2>1, <2>2 DEF RInv, TypeOK
<1>2. QED
  BY <1>1, RulesInvariant, PTL

\* What fires is real and current, and what should fire does, wherever the reads
\* cut the output, however long the lines are and however the windows are trimmed
\* (sm_autoresponder_feed, sm_anomaly_feed).
THEOREM MatchesSafety == Spec => []MatchesExact
BY RulesInvariant, PTL

\* Clients are told of exactly the incidents that are recorded, in order, also
\* when the full store drops a quarter of itself in the middle of a chunk
\* (process_link_chunk, sm_anomaly_feed).
THEOREM AnnouncedSafety == Spec => []EveryIncidentAnnounced
<1>1. RInv => EveryIncidentAnnounced
  BY DEF RInv, EveryIncidentAnnounced
<1>2. QED
  BY <1>1, RulesInvariant, PTL
=============================================================================
