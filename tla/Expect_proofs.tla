---------------------------- MODULE Expect_proofs ----------------------------
(***************************************************************************)
(* Proofs about the expect engine: for any number of clients, ids, slots   *)
(* and requests and any limit on a collection, the table holds exactly the *)
(* requests that wait, every request gets one final outcome, and every     *)
(* call of the MCP sink is told what became of its own request.            *)
(***************************************************************************)
EXTENDS Expect, FiniteSetTheorems, FunctionTheorems, SequenceTheorems, TLAPS

-----------------------------------------------------------------------------
(* Iteration. Nothing is assumed of a recursive function: that there is    *)
(* one is proved from the least number principle, and so is what holds of  *)
(* each of its values.                                                     *)

\* A nonempty set of natural numbers has a least element.
LEMMA LeastNatural ==
  ASSUME NEW S \in SUBSET Nat, S # {}
  PROVE  \E x \in S : \A y \in S : x <= y
<1> DEFINE Rel == {ss \in Nat \X Nat : ss[1] < ss[2]}
<1>1. Rel = OpToRel(<, Nat)
  BY Zenon DEF OpToRel
<1>2. IsWellFoundedOn(Rel, Nat)
  BY <1>1, NatLessThanWellFounded, Zenon
<1>3. ASSUME NEW a \in Nat, NEW b \in Nat, a < b
      PROVE  <<a, b>> \in Rel
  <2> DEFINE p == <<a, b>>
  <2>1. p \in Nat \X Nat /\ p[1] = a /\ p[2] = b
    OBVIOUS
  <2> HIDE DEF p
  <2>2. p \in Rel
    BY <2>1, <1>3
  <2>3. QED
    BY <2>2 DEF p
<1> HIDE DEF Rel
<1>4. PICK x \in S : \A y \in S : ~ (<<y, x>> \in Rel)
  BY <1>2, WFMin
<1>5. \A y \in S : ~ (y < x)
  BY <1>3, <1>4, Zenon
<1>6. QED
  BY <1>5

\* What holds at the start and is kept by every step up to n holds up to n:
\* Good is the set of the numbers at which it holds.
LEMMA Induction ==
  ASSUME NEW n \in Nat, NEW Good, 0 \in Good,
         \A k \in 1 .. n : k - 1 \in Good => k \in Good
  PROVE  \A k \in 0 .. n : k \in Good
<1> SUFFICES ASSUME \E k \in 0 .. n : k \notin Good PROVE FALSE
  OBVIOUS
<1> DEFINE Bad == {k \in 0 .. n : k \notin Good}
<1>1. Bad \in SUBSET Nat /\ Bad # {}
  OBVIOUS
<1>2. PICK k \in Bad : \A j \in Bad : k <= j
  BY <1>1, LeastNatural
<1>3. k \in 1 .. n /\ k - 1 \in 0 .. n
  BY <1>2
<1>4. k - 1 \in Good
  BY <1>2, <1>3
<1>5. QED
  BY <1>2, <1>3, <1>4

IsRun(f, start, step, n) == f[0] = start /\ \A k \in 1 .. n : f[k] = step[f[k - 1]]

\* A step can be iterated from a start.
LEMMA Iterates ==
  ASSUME NEW S, NEW start \in S, NEW step \in [S -> S], NEW n \in Nat
  PROVE  \E f \in [0 .. n -> S] : IsRun(f, start, step, n)
<1> DEFINE Runs(f, m) == f[0] = start /\ \A k \in 1 .. m : f[k] = step[f[k - 1]]
           Good == {m \in Nat : \E f \in [0 .. m -> S] : Runs(f, m)}
<1>1. 0 \in Good
  <2> DEFINE f == [k \in 0 .. 0 |-> start]
  <2>1. f \in [0 .. 0 -> S] /\ Runs(f, 0)
    OBVIOUS
  <2>2. QED
    BY <2>1
<1>2. ASSUME NEW m \in 1 .. n, m - 1 \in Good PROVE m \in Good
  <2>1. PICK f \in [0 .. m - 1 -> S] : Runs(f, m - 1)
    BY <1>2
  <2> DEFINE g == [k \in 0 .. m |-> IF k = m THEN step[f[m - 1]] ELSE f[k]]
  <2>2. g \in [0 .. m -> S]
    <3>1. f[m - 1] \in S
      BY <2>1
    <3>2. step[f[m - 1]] \in S
      BY <3>1
    <3>3. \A k \in 0 .. m : k # m => f[k] \in S
      BY <2>1
    <3>4. QED
      BY <3>2, <3>3
  <2>3. g[0] = start
    BY <2>1
  <2>4. ASSUME NEW k \in 1 .. m PROVE g[k] = step[g[k - 1]]
    <3>1. CASE k = m
      BY <3>1
    <3>2. CASE k # m
      <4>1. k \in 1 .. m - 1 /\ k - 1 \in 0 .. m /\ k - 1 # m
        BY <3>2
      <4>2. QED
        BY <2>1, <3>2, <4>1
    <3>3. QED
      BY <3>1, <3>2
  <2> HIDE DEF g
  <2>5. Runs(g, m) /\ m \in Nat
    BY <2>3, <2>4
  <2>6. QED
    BY <2>2, <2>5
<1> HIDE DEF Good
<1>3. \A m \in 0 .. n : m \in Good
  BY <1>1, <1>2, Induction
<1>4. n \in Good
  BY <1>3
<1>5. QED
  BY <1>4 DEF Good, IsRun

-----------------------------------------------------------------------------
(* One pass over the table.                                                *)

SweepStates(R) == [t : Seq(R), i : Nat \ {0}, out : Seq(R)]

\* Removing an entry moves the last one into its place.
LEMMA SwapRemoveMoves ==
  ASSUME NEW R, NEW t \in Seq(R), NEW i \in 1 .. Len(t), NEW u, u = SwapRemove(t, i)
  PROVE  /\ u \in Seq(R) /\ Len(u) = Len(t) - 1
         /\ \A j \in 1 .. Len(u) : u[j] = IF j = i THEN t[Len(t)] ELSE t[j]
<1>1. u = [j \in 1 .. (Len(t) - 1) |-> IF j = i THEN t[Len(t)] ELSE t[j]]
  BY DEF SwapRemove
<1>2. Len(t) - 1 \in Nat /\ \A j \in 1 .. (Len(t) - 1) : (IF j = i THEN t[Len(t)] ELSE t[j]) \in R
  OBVIOUS
<1>3. u \in [1 .. (Len(t) - 1) -> R]
  BY <1>1, <1>2
<1>4. u \in Seq(R) /\ Len(u) = Len(t) - 1
  BY <1>2, <1>3
<1>5. QED
  BY <1>1, <1>4

\* An iteration leaves a state of the pass.
LEMMA SweepStepType ==
  ASSUME NEW R, NEW s \in SweepStates(R), NEW limit, NEW gone
  PROVE  SweepStep(s, limit, gone) \in SweepStates(R)
<1>1. s.t \in Seq(R) /\ s.i \in Nat \ {0} /\ s.out \in Seq(R)
  BY DEF SweepStates
<1>2. CASE s.i > Len(s.t) \/ Len(s.out) = limit
  BY <1>2 DEF SweepStep
<1>3. CASE ~ (s.i > Len(s.t) \/ Len(s.out) = limit) /\ s.t[s.i].n \in gone
  <2>1. PICK u : u = SwapRemove(s.t, s.i)
    OBVIOUS
  <2>2. s.i \in 1 .. Len(s.t)
    BY <1>1, <1>3
  <2>3. u \in Seq(R)
    BY <1>1, <2>1, <2>2, SwapRemoveMoves
  <2>4. Append(s.out, s.t[s.i]) \in Seq(R)
    BY <1>1, <2>2
  <2>5. SweepStep(s, limit, gone) = [t |-> u, i |-> s.i, out |-> Append(s.out, s.t[s.i])]
    BY <1>3, <2>1 DEF SweepStep
  <2>6. QED
    BY <1>1, <2>3, <2>4, <2>5 DEF SweepStates
<1>4. CASE ~ (s.i > Len(s.t) \/ Len(s.out) = limit) /\ s.t[s.i].n \notin gone
  <2>1. SweepStep(s, limit, gone) = [s EXCEPT !.i = @ + 1]
    BY <1>4 DEF SweepStep
  <2>2. QED
    BY <1>1, <2>1 DEF SweepStates
<1>5. QED
  BY <1>2, <1>3, <1>4

\* The pass is the iteration of its step.
LEMMA SweepIterates ==
  ASSUME NEW R, NEW t \in Seq(R), NEW limit, NEW gone
  PROVE  \E f \in [0 .. Len(t) -> SweepStates(R)] :
           /\ f[0] = [t |-> t, i |-> 1, out |-> <<>>]
           /\ \A k \in 1 .. Len(t) : f[k] = SweepStep(f[k - 1], limit, gone)
           /\ Sweep(t, limit, gone) = f[Len(t)]
<1> DEFINE S == SweepStates(R)
           start == [t |-> t, i |-> 1, out |-> <<>>]
           step == [s \in S |-> SweepStep(s, limit, gone)]
           n == Len(t)
           Is(f) == f = [k \in 0 .. n |-> IF k = 0 THEN start ELSE SweepStep(f[k - 1], limit, gone)]
           pass == CHOOSE f : Is(f)
<1>1. start \in S /\ step \in [S -> S] /\ n \in Nat
  <2>1. <<>> \in Seq(R)
    OBVIOUS
  <2>2. QED
    BY <2>1, SweepStepType DEF SweepStates
<1>2. Sweep(t, limit, gone) = pass[n]
  BY DEF Sweep
<1> HIDE DEF S, n, start, step
<1>3. PICK f \in [0 .. n -> S] : IsRun(f, start, step, n)
  BY <1>1, Iterates
<1>4. \A k \in 1 .. n : f[k] = SweepStep(f[k - 1], limit, gone)
  <2>1. \A s \in S : step[s] = SweepStep(s, limit, gone)
    BY DEF step
  <2>2. QED
    BY <1>1, <1>3, <2>1 DEF IsRun
<1>5. Is(f)
  BY <1>1, <1>3, <1>4 DEF IsRun
<1>6. Is(pass)
  BY <1>5
<1> HIDE DEF pass
<1>7. pass[0] = start /\ \A k \in 1 .. n : pass[k] = SweepStep(pass[k - 1], limit, gone)
  BY <1>1, <1>6
<1>8. pass \in [0 .. n -> S]
  <2> DEFINE Good == {k \in 0 .. n : pass[k] \in S}
  <2>1. 0 \in Good
    BY <1>1, <1>7
  <2>2. ASSUME NEW k \in 1 .. n, k - 1 \in Good PROVE k \in Good
    BY <1>1, <1>7, <2>2, SweepStepType DEF S
  <2> HIDE DEF Good
  <2>3. \A k \in 0 .. n : k \in Good
    BY <1>1, <2>1, <2>2, Induction
  <2>4. \A k \in 0 .. n : pass[k] \in S
    BY <2>3 DEF Good
  <2>5. QED
    BY <1>6, <2>4
<1>9. QED
  BY <1>2, <1>7, <1>8 DEF S, n, start

Entries(t) == {t[i] : i \in DOMAIN t}

\* No two entries have the same number.
Unique(t) == \A a, b \in DOMAIN t : t[a].n = t[b].n => a = b

Apart(t, u) == \A a \in DOMAIN t, b \in DOMAIN u : t[a].n # u[b].n

\* What the last entry's move leaves: all the others, once.
LEMMA SwapRemoveLoses ==
  ASSUME NEW R, NEW t \in Seq(R), NEW i \in 1 .. Len(t), NEW u, u = SwapRemove(t, i)
  PROVE  /\ Entries(u) \cup {t[i]} = Entries(t)
         /\ Unique(t) => Unique(u) /\ \A j \in DOMAIN u : u[j].n # t[i].n
<1>1. /\ u \in Seq(R) /\ Len(u) = Len(t) - 1
      /\ \A j \in 1 .. Len(u) : u[j] = IF j = i THEN t[Len(t)] ELSE t[j]
  BY SwapRemoveMoves
<1>2. DOMAIN t = 1 .. Len(t) /\ DOMAIN u = 1 .. Len(u) /\ Len(t) \in Nat
  BY <1>1
<1>3. ASSUME NEW e \in Entries(u) PROVE e \in Entries(t)
  <2>1. PICK j \in 1 .. Len(u) : e = u[j]
    BY <1>2 DEF Entries
  <2>2. e = t[Len(t)] \/ e = t[j]
    BY <1>1, <2>1
  <2>3. Len(t) \in DOMAIN t /\ j \in DOMAIN t
    BY <1>1, <1>2
  <2>4. QED
    BY <2>2, <2>3 DEF Entries
<1>4. ASSUME NEW e \in Entries(t), e # t[i] PROVE e \in Entries(u)
  <2>1. PICK j \in 1 .. Len(t) : e = t[j]
    BY <1>2 DEF Entries
  <2>2. j # i
    BY <1>4, <2>1
  <2>3. CASE j = Len(t)
    <3>1. i \in 1 .. Len(u)
      BY <1>1, <1>2, <2>2, <2>3
    <3>2. e = u[i]
      BY <1>1, <2>1, <2>3, <3>1
    <3>3. QED
      BY <1>2, <3>1, <3>2 DEF Entries
  <2>4. CASE j # Len(t)
    <3>1. j \in 1 .. Len(u)
      BY <1>1, <1>2, <2>4
    <3>2. e = u[j]
      BY <1>1, <2>1, <2>2, <3>1
    <3>3. QED
      BY <1>2, <3>1, <3>2 DEF Entries
  <2>5. QED
    BY <2>3, <2>4
<1>5. t[i] \in Entries(t)
  BY <1>2 DEF Entries
<1>6. ASSUME Unique(t) PROVE Unique(u) /\ \A j \in DOMAIN u : u[j].n # t[i].n
  <2> DEFINE from(j) == IF j = i THEN Len(t) ELSE j
  <2>1. \A j \in DOMAIN u : u[j] = t[from(j)] /\ from(j) \in DOMAIN t /\ from(j) # i
    BY <1>1, <1>2
  <2>2. \A a, b \in DOMAIN u : from(a) = from(b) => a = b
    BY <1>1, <1>2
  <2> HIDE DEF from
  <2>3. Unique(u)
    BY <1>6, <2>1, <2>2 DEF Unique
  <2>4. \A j \in DOMAIN u : u[j].n # t[i].n
    BY <1>2, <1>6, <2>1 DEF Unique
  <2>5. QED
    BY <2>3, <2>4
<1>7. QED
  BY <1>3, <1>4, <1>5, <1>6

\* An entry added at the end.
LEMMA AppendEntries ==
  ASSUME NEW R, NEW t \in Seq(R), NEW r \in R, NEW u, u = Append(t, r)
  PROVE  \A e : e \in Entries(u) <=> e \in Entries(t) \/ e = r
<1>1. /\ u \in Seq(R) /\ Len(u) = Len(t) + 1 /\ u[Len(u)] = r
      /\ \A j \in 1 .. Len(t) : u[j] = t[j]
  OBVIOUS
<1>2. DOMAIN t = 1 .. Len(t) /\ DOMAIN u = 1 .. Len(u) /\ Len(t) \in Nat
  BY <1>1
<1>3. Entries(u) = Entries(t) \cup {r}
  <2>1. ASSUME NEW e \in Entries(u) PROVE e \in Entries(t) \cup {r}
    <3>1. PICK j \in 1 .. Len(u) : e = u[j]
      BY <1>2 DEF Entries
    <3>2. QED
      BY <1>1, <1>2, <3>1 DEF Entries
  <2>2. ASSUME NEW e \in Entries(t) PROVE e \in Entries(u)
    <3>1. PICK j \in 1 .. Len(t) : e = t[j]
      BY <1>2 DEF Entries
    <3>2. j \in DOMAIN u /\ e = u[j]
      BY <1>1, <1>2, <3>1
    <3>3. QED
      BY <3>2 DEF Entries
  <2>3. r \in Entries(u)
    BY <1>1, <1>2 DEF Entries
  <2>4. QED
    BY <2>1, <2>2, <2>3
<1>4. QED
  BY <1>3

\* One with a new number.
LEMMA AppendUnique ==
  ASSUME NEW R, NEW t \in Seq(R), NEW r \in R, NEW u, u = Append(t, r),
         Unique(t), \A j \in DOMAIN t : t[j].n # r.n
  PROVE  Unique(u)
<1>1. /\ u \in Seq(R) /\ Len(u) = Len(t) + 1 /\ u[Len(u)] = r
      /\ \A j \in 1 .. Len(t) : u[j] = t[j]
  OBVIOUS
<1>2. DOMAIN t = 1 .. Len(t) /\ DOMAIN u = 1 .. Len(u) /\ Len(t) \in Nat
  BY <1>1
<1>3. ASSUME NEW a \in DOMAIN u, NEW b \in DOMAIN u, u[a].n = u[b].n PROVE a = b
  <2>1. CASE a = Len(u) \/ b = Len(u)
    BY <1>1, <1>2, <1>3, <2>1
  <2>2. CASE a # Len(u) /\ b # Len(u)
    <3>1. a \in DOMAIN t /\ b \in DOMAIN t /\ u[a] = t[a] /\ u[b] = t[b]
      BY <1>1, <1>2, <2>2
    <3>2. QED
      BY <1>3, <3>1 DEF Unique
  <2>3. QED
    BY <2>1, <2>2
<1>4. QED
  BY <1>3 DEF Unique

\* How far a pass over t has come in state s: it has moved entries and lost
\* none, took out only what it should, and has left nothing of it behind.
SweepOK(s, t, gone) ==
  /\ Entries(s.t) \cup Entries(s.out) = Entries(t)
  /\ Len(s.t) + Len(s.out) = Len(t)
  /\ Unique(s.t) /\ Unique(s.out) /\ Apart(s.t, s.out)
  /\ \A b \in DOMAIN s.out : s.out[b].n \in gone
  /\ \A a \in DOMAIN s.t : a < s.i => s.t[a].n \notin gone
  /\ s.i <= Len(s.t) + 1

\* It has made k iterations, or is at its end.
SweepAt(s, limit, k) ==
  s.i > Len(s.t) \/ Len(s.out) = limit \/ (s.i - 1) + Len(s.out) = k

\* An iteration keeps it so.
LEMMA SweepStepKeeps ==
  ASSUME NEW R, NEW t \in Seq(R), NEW s \in SweepStates(R), NEW limit, NEW gone, NEW k \in Nat,
         SweepOK(s, t, gone), SweepAt(s, limit, k),
         NEW z, z = SweepStep(s, limit, gone)
  PROVE  SweepOK(z, t, gone) /\ SweepAt(z, limit, k + 1)
<1>1. s.t \in Seq(R) /\ s.i \in Nat \ {0} /\ s.out \in Seq(R)
  BY DEF SweepStates
<1>2. CASE s.i > Len(s.t) \/ Len(s.out) = limit
  <2>1. z = s
    BY <1>2 DEF SweepStep
  <2>2. QED
    BY <1>2, <2>1 DEF SweepAt
<1>3. CASE ~ (s.i > Len(s.t) \/ Len(s.out) = limit) /\ s.t[s.i].n \in gone
  <2>1. PICK tt, i, oo : tt = s.t /\ i = s.i /\ oo = s.out
    OBVIOUS
  <2>2. /\ tt \in Seq(R) /\ i \in Nat \ {0} /\ oo \in Seq(R) /\ Len(tt) \in Nat /\ Len(oo) \in Nat
        /\ ~ (i > Len(tt)) /\ tt[i].n \in gone /\ Len(oo) # limit
    BY <1>1, <1>3, <2>1
  <2>3. /\ Entries(tt) \cup Entries(oo) = Entries(t)
        /\ Len(tt) + Len(oo) = Len(t)
        /\ Unique(tt) /\ Unique(oo) /\ Apart(tt, oo)
        /\ \A b \in DOMAIN oo : oo[b].n \in gone
        /\ \A a \in DOMAIN tt : a < i => tt[a].n \notin gone
    BY <2>1 DEF SweepOK
  <2>4. (i - 1) + Len(oo) = k
    BY <1>3, <2>1 DEF SweepAt
  <2>5. PICK u : u = SwapRemove(tt, i)
    OBVIOUS
  <2>6. PICK r : r = tt[i]
    OBVIOUS
  <2>7. PICK v : v = Append(oo, r)
    OBVIOUS
  <2>8. z = [t |-> u, i |-> i, out |-> v]
    BY <1>3, <2>1, <2>5, <2>6, <2>7 DEF SweepStep
  <2>9. z.t = u /\ z.i = i /\ z.out = v
    BY <2>8
  <2>10. i \in 1 .. Len(tt) /\ r \in R /\ r.n \in gone
    BY <2>2, <2>6
  <2>11. /\ u \in Seq(R) /\ Len(u) = Len(tt) - 1
        /\ \A j \in 1 .. Len(u) : u[j] = IF j = i THEN tt[Len(tt)] ELSE tt[j]
    <3>1. tt \in Seq(R) /\ i \in 1 .. Len(tt)
      BY <2>2, <2>10
    <3>2. QED
      BY <3>1, <2>5, SwapRemoveMoves, SMTT(30)
  <2>12. Entries(u) \cup {r} = Entries(tt) /\ Unique(u) /\ \A j \in DOMAIN u : u[j].n # r.n
    <3>1. tt \in Seq(R) /\ i \in 1 .. Len(tt) /\ Unique(tt)
      BY <2>2, <2>3, <2>10
    <3>2. /\ Entries(u) \cup {tt[i]} = Entries(tt)
          /\ Unique(tt) => Unique(u) /\ \A j \in DOMAIN u : u[j].n # tt[i].n
      BY <3>1, <2>5, SwapRemoveLoses, SMTT(30)
    <3>3. QED
      BY <2>6, <3>1, <3>2
  <2>13. DOMAIN tt = 1 .. Len(tt) /\ DOMAIN u = 1 .. Len(u) /\ DOMAIN oo = 1 .. Len(oo)
    BY <2>2, <2>11
  <2>14. \A b \in DOMAIN oo : oo[b].n # r.n
    BY <2>3, <2>6, <2>10, <2>13 DEF Apart
  <2>15. v \in Seq(R) /\ Len(v) = Len(oo) + 1 /\ Entries(v) = Entries(oo) \cup {r} /\ Unique(v)
    <3>1. oo \in Seq(R) /\ r \in R /\ v = Append(oo, r)
      BY <2>2, <2>7, <2>10
    <3>2. v \in Seq(R) /\ Len(v) = Len(oo) + 1
      BY <3>1
    <3>3. Entries(v) = Entries(oo) \cup {r}
      <4>1. \A e : e \in Entries(v) <=> e \in Entries(oo) \/ e = r
        BY <3>1, AppendEntries
      <4>2. QED
        BY <4>1
    <3>4. Unique(v)
      BY <2>3, <2>14, <3>1, AppendUnique
    <3>5. QED
      BY <3>2, <3>3, <3>4
  <2>16. DOMAIN v = 1 .. Len(v) /\ \A b \in DOMAIN v : v[b] = r \/ (b \in DOMAIN oo /\ v[b] = oo[b])
    BY <2>2, <2>7, <2>10, <2>13, <2>15
  <2>17. \A a \in DOMAIN u : \E c \in DOMAIN tt : u[a] = tt[c]
    BY <2>2, <2>10, <2>11, <2>13
  <2>18. Apart(u, v)
    <3>1. ASSUME NEW a \in DOMAIN u, NEW b \in DOMAIN v PROVE u[a].n # v[b].n
      <4>1. CASE v[b] = r
        BY <2>12, <4>1
      <4>2. CASE b \in DOMAIN oo /\ v[b] = oo[b]
        <5>1. PICK c \in DOMAIN tt : u[a] = tt[c]
          BY <2>17
        <5>2. QED
          BY <2>3, <4>2, <5>1 DEF Apart
      <4>3. QED
        BY <2>16, <4>1, <4>2
    <3>2. QED
      BY <3>1 DEF Apart
  <2>19. \A b \in DOMAIN v : v[b].n \in gone
    BY <2>3, <2>10, <2>16
  <2>20. \A a \in DOMAIN u : a < i => u[a].n \notin gone
    <3>1. ASSUME NEW a \in DOMAIN u, a < i PROVE a \in DOMAIN tt /\ u[a] = tt[a]
      BY <2>2, <2>11, <2>13, <3>1
    <3>2. QED
      BY <2>3, <3>1
  <2>21. Entries(u) \cup Entries(v) = Entries(t)
    BY <2>3, <2>12, <2>15
  <2>22. Len(u) + Len(v) = Len(t) /\ i <= Len(u) + 1
    <3>1. Len(u) = Len(tt) - 1 /\ Len(v) = Len(oo) + 1 /\ Len(tt) + Len(oo) = Len(t)
      BY <2>3, <2>11, <2>15
    <3>2. Len(tt) \in Nat /\ Len(oo) \in Nat /\ i \in Nat /\ i <= Len(tt)
      BY <2>2
    <3>3. QED
      BY <3>1, <3>2
  <2>23. SweepOK(z, t, gone)
    BY <2>9, <2>12, <2>15, <2>18, <2>19, <2>20, <2>21, <2>22 DEF SweepOK
  <2>24. (i - 1) + Len(v) = k + 1
    BY <2>2, <2>4, <2>15
  <2>25. SweepAt(z, limit, k + 1)
    BY <2>9, <2>24 DEF SweepAt
  <2>26. QED
    BY <2>23, <2>25
<1>4. CASE ~ (s.i > Len(s.t) \/ Len(s.out) = limit) /\ s.t[s.i].n \notin gone
  <2>1. z = [s EXCEPT !.i = @ + 1]
    BY <1>4 DEF SweepStep
  <2>2. z.t = s.t /\ z.out = s.out /\ z.i = s.i + 1
    BY <2>1 DEF SweepStates
  <2>3. \A a \in DOMAIN s.t : a < z.i => s.t[a].n \notin gone
    BY <1>1, <1>4, <2>2 DEF SweepOK
  <2>4. z.i <= Len(s.t) + 1
    BY <1>1, <1>4, <2>2
  <2>5. SweepOK(z, t, gone)
    BY <2>2, <2>3, <2>4 DEF SweepOK
  <2>6. (s.i - 1) + Len(s.out) = k
    BY <1>4 DEF SweepAt
  <2>7. SweepAt(z, limit, k + 1)
    BY <1>1, <2>2, <2>6 DEF SweepAt
  <2>8. QED
    BY <2>5, <2>7
<1>5. QED
  BY <1>2, <1>3, <1>4

\* What a whole pass does to a table whose entries have different numbers.
LEMMA SweepSplits ==
  ASSUME NEW R, NEW t \in Seq(R), Unique(t), NEW limit, NEW gone, NEW z, z = Sweep(t, limit, gone)
  PROVE  /\ z.t \in Seq(R) /\ z.out \in Seq(R)
         /\ SweepOK(z, t, gone)
         /\ Len(z.out) # limit => \A a \in DOMAIN z.t : z.t[a].n \notin gone
<1>1. PICK f \in [0 .. Len(t) -> SweepStates(R)] :
        /\ f[0] = [t |-> t, i |-> 1, out |-> <<>>]
        /\ \A k \in 1 .. Len(t) : f[k] = SweepStep(f[k - 1], limit, gone)
        /\ Sweep(t, limit, gone) = f[Len(t)]
  BY SweepIterates
<1>2. PICK n : n = Len(t) /\ n \in Nat
  OBVIOUS
<1> DEFINE Good == {k \in 0 .. n : SweepOK(f[k], t, gone) /\ SweepAt(f[k], limit, k)}
<1>3. 0 \in Good
  <2>1. f[0].t = t /\ f[0].i = 1 /\ f[0].out = <<>>
    BY <1>1
  <2>2. Entries(<<>>) = {} /\ Len(<<>>) = 0 /\ DOMAIN <<>> = {} /\ Unique(<<>>) /\ Apart(t, <<>>)
    BY DEF Entries, Unique, Apart
  <2>3. SweepOK(f[0], t, gone)
    BY <2>1, <2>2 DEF SweepOK
  <2>4. SweepAt(f[0], limit, 0)
    BY <2>1, <2>2 DEF SweepAt
  <2>5. QED
    BY <1>2, <2>3, <2>4
<1>4. ASSUME NEW k \in 1 .. n, k - 1 \in Good PROVE k \in Good
  <2>1. f[k - 1] \in SweepStates(R) /\ f[k] = SweepStep(f[k - 1], limit, gone) /\ k - 1 \in Nat
    BY <1>1, <1>2
  <2>2. SweepOK(f[k - 1], t, gone) /\ SweepAt(f[k - 1], limit, k - 1)
    BY <1>4
  <2>3. SweepOK(f[k], t, gone) /\ SweepAt(f[k], limit, (k - 1) + 1)
    BY <2>1, <2>2, SweepStepKeeps
  <2>4. QED
    BY <1>2, <2>3
<1> HIDE DEF Good
<1>5. n \in Good
  <2>1. \A k \in 0 .. n : k \in Good
    BY <1>2, <1>3, <1>4, Induction
  <2>2. QED
    BY <1>2, <2>1
<1>6. /\ SweepOK(z, t, gone) /\ SweepAt(z, limit, n) /\ z \in SweepStates(R)
  BY <1>1, <1>2, <1>5 DEF Good
<1>7. z.t \in Seq(R) /\ z.out \in Seq(R) /\ z.i \in Nat \ {0}
  BY <1>6 DEF SweepStates
<1>8. ASSUME Len(z.out) # limit, NEW a \in DOMAIN z.t PROVE z.t[a].n \notin gone
  <2>1. z.i > Len(z.t)
    <3>1. PICK l, m : l = Len(z.t) /\ m = Len(z.out)
      OBVIOUS
    <3>2. l + m = n /\ z.i <= l + 1
      BY <1>2, <1>6, <3>1 DEF SweepOK
    <3>3. z.i > l \/ (z.i - 1) + m = n
      BY <1>6, <1>8, <3>1 DEF SweepAt
    <3>4. l \in Nat /\ m \in Nat
      BY <1>7, <3>1
    <3>5. PICK i : i = z.i /\ i \in Nat
      BY <1>7
    <3>6. i > l
      BY <1>2, <3>2, <3>3, <3>4, <3>5
    <3>7. QED
      BY <3>1, <3>5, <3>6
  <2>2. a < z.i
    BY <1>7, <2>1
  <2>3. QED
    BY <1>6, <2>2 DEF SweepOK
<1>9. QED
  BY <1>6, <1>7, <1>8

-----------------------------------------------------------------------------
(* The inductive invariant.                                                *)

\* Requests as the table has them: what has matched has been heard.
Req == {r \in [n : N, id : Ids \cup {Mcp}, client : Clients \cup {Mcp}, matched : BOOLEAN,
               aborted : BOOLEAN, late : BOOLEAN, heard : BOOLEAN] : r.matched => r.heard}

Types ==
  /\ requests \in Seq(Req)
  /\ live \subseteq Clients
  /\ pending \in [1..McpSlots -> [n : {0} \cup N, kind : Kinds]]
  /\ issued \in 0..MaxRequests
  /\ outcome \in [N -> {"new", "waiting", "cancelled"} \cup Results]
  /\ asked \in [N -> {"none"} \cup Kinds]
  /\ reply \in [N -> {"none", "error"} \cup Replies]

\* The table holds the waiting requests, each once, of those who are still
\* there.
Holds ==
  /\ Unique(requests)
  /\ \A n \in N : n \in Numbers(requests) <=> outcome[n] = "waiting"
  /\ \A r \in Entries(requests) : r.client \in live \cup {Mcp}

\* Requests are numbered in order; of one that is not made yet nothing is
\* known.
Numbered ==
  /\ \A n \in N : outcome[n] = "new" <=> n > issued
  /\ \A n \in N : n > issued => asked[n] = "none"

\* A slot has the kind of the call it was taken for, and a call of the sink
\* that waits has a slot.
SlotsTrue ==
  /\ \A i \in 1..McpSlots : pending[i].n # 0 => asked[pending[i].n] = pending[i].kind
  /\ \A n \in N : asked[n] # "none" /\ outcome[n] = "waiting" => \E i \in 1..McpSlots : pending[i].n = n

\* Nothing is answered before its time.
NoReplyYet == \A n \in N : outcome[n] \in {"new", "waiting"} => reply[n] = "none"

IInv == Types /\ Holds /\ Numbered /\ SlotsTrue /\ NoReplyYet /\ AnswerFits

-----------------------------------------------------------------------------
(* What the operations on the table leave.                                 *)

\* Numbers are those of the entries.
LEMMA NumbersOfEntries ==
  ASSUME NEW t, NEW m
  PROVE  m \in Numbers(t) <=> \E r \in Entries(t) : r.n = m
BY DEF Numbers, Entries

\* Distinct entries have distinct numbers.
LEMMA UniqueEntries ==
  ASSUME NEW t, Unique(t), NEW r \in Entries(t), NEW q \in Entries(t), r.n = q.n
  PROVE  r = q
BY DEF Unique, Entries

\* A pass splits a table in what is left and what is taken out.
LEMMA SweepParts ==
  ASSUME NEW R, NEW t \in Seq(R), Unique(t), NEW limit, NEW gone, NEW z, z = Sweep(t, limit, gone)
  PROVE  /\ z.t \in Seq(R) /\ z.out \in Seq(R) /\ Unique(z.t) /\ Unique(z.out)
         /\ Entries(z.t) \subseteq Entries(t) /\ Entries(z.out) \subseteq Entries(t)
         /\ \A m : m \in Numbers(t) <=> m \in Numbers(z.t) \/ m \in Numbers(z.out)
         /\ \A m : m \in Numbers(z.t) => m \notin Numbers(z.out)
         /\ \A m : m \in Numbers(z.out) => m \in gone
<1>1. z.t \in Seq(R) /\ z.out \in Seq(R) /\ SweepOK(z, t, gone)
  BY SweepSplits
<1>2. /\ Entries(z.t) \cup Entries(z.out) = Entries(t)
      /\ Unique(z.t) /\ Unique(z.out) /\ Apart(z.t, z.out)
      /\ \A b \in DOMAIN z.out : z.out[b].n \in gone
  BY <1>1 DEF SweepOK
<1>3. \A m : m \in Numbers(t) <=> m \in Numbers(z.t) \/ m \in Numbers(z.out)
  BY <1>2, NumbersOfEntries
<1>4. \A m : m \in Numbers(z.t) => m \notin Numbers(z.out)
  BY <1>2 DEF Apart, Numbers
<1>5. \A m : m \in Numbers(z.out) => m \in gone
  BY <1>2 DEF Numbers
<1>6. Entries(z.t) \subseteq Entries(t) /\ Entries(z.out) \subseteq Entries(t)
  BY <1>2
<1>7. QED
  BY <1>1, <1>2, <1>3, <1>4, <1>5, <1>6

\* A pass without a limit leaves nothing that should go.
LEMMA SweepAll ==
  ASSUME NEW R, NEW t \in Seq(R), Unique(t), NEW gone, NEW z, z = Sweep(t, Len(t), gone),
         NEW m \in Numbers(z.t)
  PROVE  m \notin gone
<1>1. z.t \in Seq(R) /\ z.out \in Seq(R) /\ SweepOK(z, t, gone)
  BY SweepSplits
<1>2. Len(z.out) # Len(t) => \A a \in DOMAIN z.t : z.t[a].n \notin gone
  BY SweepSplits
<1>3. PICK a \in DOMAIN z.t : m = z.t[a].n
  BY DEF Numbers
<1>4. Len(z.out) # Len(t)
  <2>1. PICK l, k : l = Len(z.t) /\ k = Len(z.out)
    OBVIOUS
  <2>2. l \in Nat /\ k \in Nat /\ l + k = Len(t)
    <3>1. l \in Nat /\ k \in Nat
      BY <1>1, <2>1
    <3>2. l + k = Len(t)
      BY <1>1, <2>1 DEF SweepOK
    <3>3. QED
      BY <3>1, <3>2
  <2>3. l # 0
    BY <1>1, <1>3, <2>1
  <2>4. QED
    BY <2>1, <2>2, <2>3
<1>5. QED
  BY <1>2, <1>3, <1>4

\* What is left after some entries were cancelled.
Remains(u, t) == u \in Seq(Req) /\ Unique(u) /\ Entries(u) \subseteq Entries(t)

\* Cancelling takes out what it names and only moves the rest.
LEMMA CancelRemains ==
  ASSUME NEW t \in Seq(Req), Unique(t), NEW c
  PROVE  /\ Remains(sm_expect_cancel_client(t, c), t)
         /\ \A r \in Entries(sm_expect_cancel_client(t, c)) : r.client # c
         /\ Remains(sm_expect_cancel_id(t, c), t)
         /\ \A r \in Entries(sm_expect_cancel_id(t, c)) : r.id # c
<1>1. ASSUME NEW gone, NEW z, z = Sweep(t, Len(t), gone)
      PROVE  /\ Remains(z.t, t)
             /\ \A r \in Entries(z.t) : r.n \notin gone
  <2>1. Remains(z.t, t)
    BY <1>1, SweepParts DEF Remains
  <2>2. ASSUME NEW r \in Entries(z.t) PROVE r.n \notin gone
    <3>1. PICK m : m = r.n /\ m \in Numbers(z.t)
      BY NumbersOfEntries
    <3>2. QED
      BY <1>1, <3>1, SweepAll
  <2>3. QED
    BY <2>1, <2>2
<1>2. Remains(sm_expect_cancel_client(t, c), t)
  BY <1>1 DEF sm_expect_cancel_client
<1>3. Remains(sm_expect_cancel_id(t, c), t)
  BY <1>1 DEF sm_expect_cancel_id
<1>4. ASSUME NEW r \in Entries(sm_expect_cancel_client(t, c)) PROVE r.client # c
  <2> DEFINE Gone(q) == q.client = c
             gone == {t[i].n : i \in {j \in DOMAIN t : Gone(t[j])}}
  <2>1. sm_expect_cancel_client(t, c) = Sweep(t, Len(t), gone).t
    BY DEF sm_expect_cancel_client, Those
  <2> HIDE DEF gone
  <2>2. r.n \notin gone
    BY <1>1, <1>4, <2>1
  <2>3. PICK i \in DOMAIN t : t[i] = r
    BY <1>2, <1>4 DEF Remains, Entries
  <2>4. QED
    BY <2>2, <2>3 DEF gone
<1>5. ASSUME NEW r \in Entries(sm_expect_cancel_id(t, c)) PROVE r.id # c
  <2> DEFINE Gone(q) == q.id = c
             gone == {t[i].n : i \in {j \in DOMAIN t : Gone(t[j])}}
  <2>1. sm_expect_cancel_id(t, c) = Sweep(t, Len(t), gone).t
    BY DEF sm_expect_cancel_id, Those
  <2> HIDE DEF gone
  <2>2. r.n \notin gone
    BY <1>1, <1>5, <2>1
  <2>3. PICK i \in DOMAIN t : t[i] = r
    BY <1>3, <1>5 DEF Remains, Entries
  <2>4. QED
    BY <2>2, <2>3 DEF gone
<1>6. QED
  BY <1>2, <1>3, <1>4, <1>5

\* A new request at the end of the table.
LEMMA AddRemains ==
  ASSUME IInv, issued < MaxRequests, NEW id \in Ids \cup {Mcp}, NEW c \in live \cup {Mcp},
         NEW t, t = sm_expect_add(requests, issued + 1, id, c)
  PROVE  /\ t \in Seq(Req) /\ Unique(t)
         /\ \A r : r \in Entries(t) <=> r \in Entries(requests) \/ r = Request(issued + 1, id, c)
         /\ Request(issued + 1, id, c).n = issued + 1 /\ Request(issued + 1, id, c).id = id
         /\ Request(issued + 1, id, c).client = c
         /\ issued + 1 \in N
<1>1. PICK q : q = Request(issued + 1, id, c)
  OBVIOUS
<1>2. requests \in Seq(Req) /\ Unique(requests) /\ issued \in Nat /\ live \subseteq Clients
  BY ExpectAssumption DEF IInv, Types, Holds
<1>3. issued + 1 \in N
  BY <1>2, ExpectAssumption DEF N
<1>4. q \in Req /\ q.n = issued + 1 /\ q.id = id /\ q.client = c
  BY <1>1, <1>2, <1>3 DEF Request, Req
<1>5. t = Append(requests, q)
  BY <1>1 DEF sm_expect_add
<1>6. outcome[issued + 1] = "new"
  BY <1>2, <1>3 DEF IInv, Numbered
<1>7. issued + 1 \notin Numbers(requests)
  BY <1>3, <1>6 DEF IInv, Holds
<1>8. \A j \in DOMAIN requests : requests[j].n # q.n
  BY <1>4, <1>7 DEF Numbers
<1>9. t \in Seq(Req)
  BY <1>2, <1>4, <1>5
<1>10. Unique(t)
  BY <1>2, <1>4, <1>5, <1>8, AppendUnique
<1>11. \A r : r \in Entries(t) <=> r \in Entries(requests) \/ r = q
  BY <1>2, <1>4, <1>5, AppendEntries
<1>12. QED
  BY <1>1, <1>3, <1>4, <1>9, <1>10, <1>11

-----------------------------------------------------------------------------
(* Requests are withdrawn.                                                 *)

\* Nothing but the withdrawn requests is affected.
LEMMA WithdrawKeeps ==
  ASSUME IInv, NEW t, Remains(t, requests), Withdraw(t), UNCHANGED <<issued, callVars>>,
         live' \subseteq Clients, \A r \in Entries(t) : r.client \in live' \cup {Mcp}
  PROVE  IInv'
<1>1. /\ requests' = t /\ issued' = issued /\ pending' = pending /\ asked' = asked /\ reply' = reply
      /\ outcome' = [n \in N |-> IF n \in Numbers(requests) \ Numbers(t) THEN "cancelled" ELSE outcome[n]]
  BY DEF Withdraw, callVars
<1>2. t \in Seq(Req) /\ Unique(t) /\ Entries(t) \subseteq Entries(requests)
  BY DEF Remains
<1>3. \A n : n \in Numbers(t) => n \in Numbers(requests)
  BY <1>2, NumbersOfEntries
<1>4. \A n \in N : /\ n \in Numbers(t) => outcome[n] = "waiting" /\ outcome'[n] = "waiting"
                   /\ n \notin Numbers(t) /\ outcome[n] = "waiting" => outcome'[n] = "cancelled"
                   /\ outcome[n] # "waiting" => outcome'[n] = outcome[n]
  BY <1>1, <1>3 DEF IInv, Holds
<1>5. Types'
  BY <1>1, <1>2 DEF IInv, Types
<1>6. Holds'
  BY <1>1, <1>2, <1>4 DEF Holds
<1>7. Numbered'
  BY <1>1, <1>4 DEF IInv, Numbered
<1>8. SlotsTrue'
  BY <1>1, <1>4 DEF IInv, SlotsTrue
<1>9. NoReplyYet'
  BY <1>1, <1>4 DEF IInv, NoReplyYet
<1>10. AnswerFits'
  <2> SUFFICES ASSUME NEW n \in N, asked[n] # "none"
               PROVE  /\ outcome'[n] \in Results <=> reply[n] \in Replies
                      /\ reply[n] = "text" => outcome'[n] = "matched" \/ (asked[n] = "silent" /\ outcome'[n] = "timeout")
                      /\ reply[n] = "timeout" => outcome'[n] = "timeout" /\ asked[n] = "wait"
                      /\ reply[n] = "aborted" => outcome'[n] = "aborted" /\ asked[n] # "monitor"
                      /\ reply[n] = "report" => asked[n] = "monitor"
                      /\ reply[n] = "nothing" => outcome'[n] # "matched"
    BY <1>1 DEF AnswerFits
  <2>1. CASE outcome'[n] = outcome[n]
    BY <2>1 DEF IInv, AnswerFits
  <2>2. CASE outcome'[n] = "cancelled" /\ outcome[n] = "waiting"
    BY <2>2 DEF IInv, NoReplyYet, Results, Replies
  <2>3. QED
    BY <1>4, <2>1, <2>2
<1>11. QED
  BY <1>5, <1>6, <1>7, <1>8, <1>9, <1>10 DEF IInv

-----------------------------------------------------------------------------
(* Requests are accepted.                                                  *)

\* A table after an accepted request: the old requests or fewer, and the new
\* one when it waits.
Extends(t, became) ==
  /\ t \in Seq(Req) /\ Unique(t) /\ became \in {"waiting", "cancelled"}
  /\ \A r \in Entries(t) : r.client \in live \cup {Mcp}
  /\ \A m : m \in Numbers(t) => m \in Numbers(requests) \/ m = issued + 1
  /\ issued + 1 \in Numbers(t) <=> became = "waiting"

\* What becomes of the requests when one is accepted.
OnlyCancels ==
  \A m \in N : m # issued + 1 =>
    outcome'[m] = outcome[m] \/ (outcome[m] = "waiting" /\ outcome'[m] = "cancelled")

\* The table still holds what waits.
LEMMA AcceptedHolds ==
  ASSUME IInv, issued < MaxRequests, live' = live, NEW t, NEW became, Extends(t, became),
         Accepted(t, became)
  PROVE  /\ issued + 1 \in N /\ issued' = issued + 1 /\ issued' \in 0..MaxRequests
         /\ requests' \in Seq(Req) /\ live' \subseteq Clients
         /\ outcome' \in [N -> {"new", "waiting", "cancelled"} \cup Results]
         /\ Holds'
         /\ \A n \in N : outcome'[n] = "new" <=> n > issued'
         /\ outcome[issued + 1] = "new" /\ outcome'[issued + 1] = became
         /\ OnlyCancels
<1>1. issued \in Nat /\ MaxRequests \in Nat /\ issued <= MaxRequests
  BY ExpectAssumption DEF IInv, Types
<1>2. issued + 1 \in N /\ issued + 1 \in 0..MaxRequests
  BY <1>1 DEF N
<1>3. PICK n : n = issued + 1
  OBVIOUS
<1>4. /\ requests' = t /\ issued' = n
      /\ outcome' = [m \in N |-> IF m = n THEN became
                                 ELSE IF m \in Numbers(requests) \ Numbers(t) THEN "cancelled" ELSE outcome[m]]
  BY <1>3 DEF Accepted
<1>5. became \in {"waiting", "cancelled"} /\ t \in Seq(Req) /\ Unique(t)
  BY DEF Extends
<1>6. \A m \in N : m \in Numbers(requests) <=> outcome[m] = "waiting"
  BY DEF IInv, Holds
<1>7. outcome[n] = "new"
  BY <1>1, <1>2, <1>3 DEF IInv, Numbered
<1>8. \A m \in N : m # n => /\ m \in Numbers(t) => outcome'[m] = "waiting" /\ outcome[m] = "waiting"
                            /\ m \notin Numbers(t) /\ outcome[m] = "waiting" => outcome'[m] = "cancelled"
                            /\ outcome[m] # "waiting" => outcome'[m] = outcome[m]
  BY <1>3, <1>4, <1>6 DEF Extends
<1>9. outcome'[n] = became
  BY <1>2, <1>3, <1>4
<1>10. outcome' \in [N -> {"new", "waiting", "cancelled"} \cup Results]
  BY <1>4, <1>5 DEF IInv, Types
<1>11. Holds'
  <2>1. \A m \in N : m \in Numbers(t) <=> outcome'[m] = "waiting"
    BY <1>3, <1>5, <1>8, <1>9 DEF Extends
  <2>2. QED
    BY <1>4, <1>5, <2>1 DEF Holds, Extends
<1>12. ASSUME NEW m \in N PROVE outcome'[m] = "new" <=> m > issued'
  <2>1. m \in Nat /\ (outcome[m] = "new" <=> m > issued)
    BY DEF IInv, Numbered, N
  <2>2. CASE m = n
    BY <1>1, <1>3, <1>4, <1>5, <1>9, <2>2
  <2>3. CASE m # n
    <3>1. outcome'[m] = "new" <=> outcome[m] = "new"
      BY <1>8, <2>3
    <3>2. m > issued' <=> m > issued
      BY <1>1, <1>3, <1>4, <2>1, <2>3
    <3>3. QED
      BY <2>1, <3>1, <3>2
  <2>4. QED
    BY <2>2, <2>3
<1>13. OnlyCancels
  BY <1>3, <1>8 DEF OnlyCancels
<1>14. live' \subseteq Clients
  BY DEF IInv, Types
<1>15. QED
  BY <1>2, <1>3, <1>4, <1>5, <1>7, <1>9, <1>10, <1>11, <1>12, <1>13, <1>14

\* What a call of kind k may be answered when its request came to o.
Fits(o, k, a) ==
  /\ o \in Results <=> a \in Replies
  /\ a = "text" => o = "matched" \/ (k = "silent" /\ o = "timeout")
  /\ a = "timeout" => o = "timeout" /\ k = "wait"
  /\ a = "aborted" => o = "aborted" /\ k # "monitor"
  /\ a = "report" => k = "monitor"
  /\ a = "nothing" => o # "matched"

\* AnswerFits says so of every call.
LEMMA AnswersFit ==
  AnswerFits <=> \A n \in N : asked[n] # "none" => Fits(outcome[n], asked[n], reply[n])
BY DEF AnswerFits, Fits

\* An unanswered call fits any outcome that is no result.
LEMMA UnansweredFits ==
  ASSUME NEW o \in {"new", "waiting", "cancelled"}, NEW k, NEW a \in {"none", "error"}
  PROVE  Fits(o, k, a)
BY DEF Fits, Results, Replies

\* A request of a socket client concerns no call.
LEMMA ClientAskKeeps ==
  ASSUME IInv, issued < MaxRequests, live' = live, UNCHANGED callVars,
         NEW t, NEW became, Extends(t, became), Accepted(t, became)
  PROVE  IInv'
<1>1. pending' = pending /\ asked' = asked /\ reply' = reply
  BY DEF callVars
<1>2. /\ issued + 1 \in N /\ issued' = issued + 1 /\ issued' \in 0..MaxRequests
      /\ requests' \in Seq(Req) /\ live' \subseteq Clients
      /\ outcome' \in [N -> {"new", "waiting", "cancelled"} \cup Results]
      /\ Holds'
      /\ \A n \in N : outcome'[n] = "new" <=> n > issued'
      /\ outcome[issued + 1] = "new" /\ outcome'[issued + 1] = became
      /\ OnlyCancels
  BY AcceptedHolds
<1>3. became \in {"waiting", "cancelled"}
  BY DEF Extends
<1>4. asked[issued + 1] = "none" /\ reply[issued + 1] = "none"
  BY <1>2 DEF IInv, Numbered, NoReplyYet
<1>5. Types'
  BY <1>1, <1>2 DEF IInv, Types
<1>6. \A n \in N : n > issued' => n > issued
  BY <1>2, ExpectAssumption DEF IInv, Types, N
<1>7. Numbered'
  BY <1>1, <1>2, <1>6 DEF IInv, Numbered
<1>8. SlotsTrue'
  BY <1>1, <1>2, <1>4 DEF IInv, SlotsTrue, OnlyCancels
<1>9. NoReplyYet'
  BY <1>1, <1>2, <1>4 DEF IInv, NoReplyYet, OnlyCancels
<1>10. AnswerFits'
  <2>1. ASSUME NEW n \in N, asked[n] # "none" PROVE Fits(outcome'[n], asked[n], reply[n])
    <3>1. n # issued + 1
      BY <1>4, <2>1
    <3>2. CASE outcome'[n] = outcome[n]
      BY <2>1, <3>2, AnswersFit DEF IInv
    <3>3. CASE outcome[n] = "waiting" /\ outcome'[n] = "cancelled"
      <4>1. reply[n] = "none"
        BY <3>3 DEF IInv, NoReplyYet
      <4>2. QED
        BY <3>3, <4>1, UnansweredFits
    <3>4. QED
      BY <1>2, <3>1, <3>2, <3>3 DEF OnlyCancels
  <2>2. QED
    BY <1>1, <2>1 DEF AnswerFits, Fits
<1>11. QED
  BY <1>2, <1>5, <1>7, <1>8, <1>9, <1>10 DEF IInv

\* A request that is added waits.
LEMMA AddExtends ==
  ASSUME IInv, issued < MaxRequests, NEW id \in Ids \cup {Mcp}, NEW c \in live \cup {Mcp}
  PROVE  Extends(sm_expect_add(requests, issued + 1, id, c), "waiting")
<1>1. PICK t : t = sm_expect_add(requests, issued + 1, id, c)
  OBVIOUS
<1>2. PICK q : q = Request(issued + 1, id, c)
  OBVIOUS
<1>3. /\ t \in Seq(Req) /\ Unique(t)
      /\ \A r : r \in Entries(t) <=> r \in Entries(requests) \/ r = q
      /\ q.n = issued + 1 /\ q.client = c
  BY <1>1, <1>2, AddRemains
<1>4. \A r \in Entries(t) : r.client \in live \cup {Mcp}
  BY <1>3 DEF IInv, Holds
<1>5. \A m : m \in Numbers(t) => m \in Numbers(requests) \/ m = issued + 1
  BY <1>3, NumbersOfEntries
<1>6. issued + 1 \in Numbers(t)
  BY <1>3, NumbersOfEntries
<1>7. QED
  BY <1>1, <1>3, <1>4, <1>5, <1>6 DEF Extends

\* One that is taken out again by its id is gone, whoever else had that id.
LEMMA AddCancelExtends ==
  ASSUME IInv, issued < MaxRequests, NEW id \in Ids \cup {Mcp}, NEW c \in live \cup {Mcp}
  PROVE  Extends(sm_expect_cancel_id(sm_expect_add(requests, issued + 1, id, c), id), "cancelled")
<1>1. PICK t : t = sm_expect_add(requests, issued + 1, id, c)
  OBVIOUS
<1>2. PICK q : q = Request(issued + 1, id, c)
  OBVIOUS
<1>3. /\ t \in Seq(Req) /\ Unique(t)
      /\ \A r : r \in Entries(t) <=> r \in Entries(requests) \/ r = q
      /\ q.n = issued + 1 /\ q.id = id
  BY <1>1, <1>2, AddRemains
<1>4. PICK u : u = sm_expect_cancel_id(t, id)
  OBVIOUS
<1>5. Remains(u, t) /\ \A r \in Entries(u) : r.id # id
  BY <1>3, <1>4, CancelRemains
<1>6. Extends(t, "waiting")
  BY <1>1, AddExtends
<1>7. u \in Seq(Req) /\ Unique(u) /\ Entries(u) \subseteq Entries(t)
  BY <1>5 DEF Remains
<1>8. \A r \in Entries(u) : r.client \in live \cup {Mcp}
  BY <1>6, <1>7 DEF Extends
<1>9. \A m : m \in Numbers(u) => m \in Numbers(t)
  BY <1>7, NumbersOfEntries
<1>10. \A m : m \in Numbers(u) => m \in Numbers(requests) \/ m = issued + 1
  BY <1>6, <1>9 DEF Extends
<1>11. issued + 1 \notin Numbers(u)
  <2>1. ASSUME NEW r \in Entries(u), r.n = issued + 1 PROVE FALSE
    <3>1. r \in Entries(t) /\ q \in Entries(t)
      BY <1>3, <1>7
    <3>2. r = q
      BY <1>3, <2>1, <3>1, UniqueEntries
    <3>3. QED
      BY <1>3, <1>5, <3>2
  <2>2. QED
    BY <2>1, NumbersOfEntries
<1>12. QED
  BY <1>1, <1>4, <1>7, <1>8, <1>10, <1>11 DEF Extends

\* One that is never seen in the table, which may have lost others.
LEMMA RemainsExtends ==
  ASSUME IInv, issued < MaxRequests, NEW t, Remains(t, requests)
  PROVE  Extends(t, "cancelled")
<1>1. t \in Seq(Req) /\ Unique(t) /\ Entries(t) \subseteq Entries(requests)
  BY DEF Remains
<1>2. \A r \in Entries(t) : r.client \in live \cup {Mcp}
  BY <1>1 DEF IInv, Holds
<1>3. \A m : m \in Numbers(t) => m \in Numbers(requests)
  BY <1>1, NumbersOfEntries
<1>4. issued \in Nat /\ issued + 1 \in N
  BY ExpectAssumption DEF IInv, Types, N
<1>5. outcome[issued + 1] = "new"
  BY <1>4 DEF IInv, Numbered
<1>6. issued + 1 \notin Numbers(t)
  BY <1>3, <1>4, <1>5 DEF IInv, Holds
<1>7. QED
  BY <1>1, <1>2, <1>3, <1>6 DEF Extends

\* Socket clients ask.
LEMMA ClientsKeep ==
  ASSUME IInv, NEW c \in Clients, NEW id \in Ids,
         handle_send_expect(c, id) \/ handle_listen_expect(c, id)
  PROVE  IInv'
<1>1. issued < MaxRequests /\ c \in live /\ live' = live /\ UNCHANGED callVars
  BY DEF handle_send_expect, handle_listen_expect, MayAsk
<1>2. Extends(sm_expect_add(requests, issued + 1, id, c), "waiting")
  BY <1>1, AddExtends
<1>3. Extends(sm_expect_cancel_id(sm_expect_add(requests, issued + 1, id, c), id), "cancelled")
  BY <1>1, AddCancelExtends
<1>4. \/ Accepted(sm_expect_add(requests, issued + 1, id, c), "waiting")
      \/ Accepted(sm_expect_cancel_id(sm_expect_add(requests, issued + 1, id, c), id), "cancelled")
  BY DEF handle_send_expect, handle_listen_expect
<1>5. QED
  BY <1>1, <1>2, <1>3, <1>4, ClientAskKeeps


\* The answers of the calls whose requests are only cancelled, if that.
LEMMA OthersFit ==
  ASSUME IInv, NEW n \in N, asked[n] # "none",
         outcome'[n] = outcome[n] \/ (outcome[n] = "waiting" /\ outcome'[n] = "cancelled")
  PROVE  Fits(outcome'[n], asked[n], reply[n])
<1>1. CASE outcome'[n] = outcome[n]
  BY <1>1, AnswersFit DEF IInv
<1>2. CASE outcome[n] = "waiting" /\ outcome'[n] = "cancelled"
  <2>1. reply[n] = "none"
    BY <1>2 DEF IInv, NoReplyYet
  <2>2. QED
    BY <1>2, <2>1, UnansweredFits
<1>3. QED
  BY <1>1, <1>2

\* A call that is opened takes a free slot and waits.
LEMMA CallOpens ==
  ASSUME IInv, issued < MaxRequests, live' = live, NEW kind \in Kinds, NEW t, Extends(t, "waiting"),
         Accepted(t, "waiting"), NEW slot \in FreeSlots, mcp_alloc_pending(slot, kind),
         asked' = [asked EXCEPT ![issued + 1] = kind], reply' = reply
  PROVE  IInv'
<1>1. /\ issued + 1 \in N /\ issued' = issued + 1 /\ issued' \in 0..MaxRequests
      /\ requests' \in Seq(Req) /\ live' \subseteq Clients
      /\ outcome' \in [N -> {"new", "waiting", "cancelled"} \cup Results]
      /\ Holds'
      /\ \A n \in N : outcome'[n] = "new" <=> n > issued'
      /\ outcome[issued + 1] = "new" /\ outcome'[issued + 1] = "waiting"
      /\ OnlyCancels
  BY AcceptedHolds
<1>2. PICK q : q = issued + 1
  OBVIOUS
<1>3. q \in N /\ q # 0 /\ asked[q] = "none" /\ reply[q] = "none" /\ outcome[q] = "new"
  <2>1. q \in N /\ outcome[q] = "new"
    BY <1>1, <1>2
  <2>2. asked[q] = "none" /\ reply[q] = "none"
    BY <2>1 DEF IInv, Numbered, NoReplyYet
  <2>3. q # 0
    BY <2>1 DEF N
  <2>4. QED
    BY <2>1, <2>2, <2>3
<1>4. /\ asked' = [asked EXCEPT ![q] = kind]
      /\ pending' = [pending EXCEPT ![slot] = [n |-> q, kind |-> kind]]
      /\ slot \in 1..McpSlots /\ pending[slot].n = 0
  BY <1>2 DEF mcp_alloc_pending, FreeSlots
<1>5. /\ pending \in [1..McpSlots -> [n : {0} \cup N, kind : Kinds]]
      /\ asked \in [N -> {"none"} \cup Kinds]
      /\ reply \in [N -> {"none", "error"} \cup Replies]
  BY DEF IInv, Types
<1>6. /\ pending' \in [1..McpSlots -> [n : {0} \cup N, kind : Kinds]]
      /\ pending'[slot].n = q /\ pending'[slot].kind = kind
      /\ \A i \in 1..McpSlots : i # slot => pending'[i] = pending[i]
  BY <1>3, <1>4, <1>5
<1>7. /\ asked' \in [N -> {"none"} \cup Kinds]
      /\ asked'[q] = kind /\ \A n \in N : n # q => asked'[n] = asked[n]
  BY <1>3, <1>4, <1>5
<1>8. Types'
  BY <1>1, <1>5, <1>6, <1>7 DEF Types
<1>9. Numbered'
  <2>1. ASSUME NEW n \in N, n > issued' PROVE n > issued /\ n # q
    <3>1. n \in Nat /\ issued \in Nat /\ issued' = issued + 1
      BY <1>1, ExpectAssumption DEF IInv, Types, N
    <3>2. QED
      BY <1>2, <2>1, <3>1
  <2>2. \A n \in N : n > issued' => asked'[n] = "none"
    BY <1>7, <2>1 DEF IInv, Numbered
  <2>3. QED
    BY <1>1, <2>2 DEF Numbered
<1>10. SlotsTrue'
  <2>1. ASSUME NEW i \in 1..McpSlots, pending'[i].n # 0
        PROVE  asked'[pending'[i].n] = pending'[i].kind
    <3>1. CASE i = slot
      BY <1>6, <1>7, <3>1
    <3>2. CASE i # slot
      <4>1. pending'[i] = pending[i] /\ asked[pending[i].n] = pending[i].kind
        BY <1>6, <2>1, <3>2 DEF IInv, SlotsTrue
      <4>2. pending[i].n \in N /\ pending[i].kind \in Kinds
        BY <1>5, <2>1, <4>1
      <4>3. pending[i].n # q
        BY <1>3, <4>1, <4>2 DEF Kinds
      <4>4. QED
        BY <1>7, <4>1, <4>2, <4>3
    <3>3. QED
      BY <3>1, <3>2
  <2>2. ASSUME NEW n \in N, asked'[n] # "none", outcome'[n] = "waiting"
        PROVE  \E i \in 1..McpSlots : pending'[i].n = n
    <3>1. CASE n = q
      BY <1>4, <1>6, <3>1
    <3>2. CASE n # q
      <4>1. asked[n] # "none" /\ outcome[n] = "waiting"
        BY <1>1, <1>2, <1>7, <2>2, <3>2 DEF OnlyCancels
      <4>2. PICK i \in 1..McpSlots : pending[i].n = n
        BY <4>1 DEF IInv, SlotsTrue
      <4>3. n # 0
        BY DEF N
      <4>4. i # slot
        BY <1>4, <4>2, <4>3
      <4>5. QED
        BY <1>6, <4>2, <4>4
    <3>3. QED
      BY <3>1, <3>2
  <2>3. QED
    BY <2>1, <2>2 DEF SlotsTrue
<1>11. NoReplyYet'
  BY <1>1, <1>2, <1>3 DEF IInv, NoReplyYet, OnlyCancels
<1>12. AnswerFits'
  <2>1. ASSUME NEW n \in N, asked'[n] # "none" PROVE Fits(outcome'[n], asked'[n], reply'[n])
    <3>1. CASE n = q
      BY <1>1, <1>2, <1>3, <3>1, UnansweredFits
    <3>2. CASE n # q
      <4>1. asked'[n] = asked[n] /\ asked[n] # "none"
        BY <1>7, <2>1, <3>2
      <4>2. outcome'[n] = outcome[n] \/ (outcome[n] = "waiting" /\ outcome'[n] = "cancelled")
        BY <1>1, <1>2, <3>2 DEF OnlyCancels
      <4>3. QED
        BY <4>1, <4>2, OthersFit
    <3>3. QED
      BY <3>1, <3>2
  <2>2. QED
    BY <2>1 DEF AnswerFits, Fits
<1>13. QED
  BY <1>1, <1>8, <1>9, <1>10, <1>11, <1>12 DEF IInv


\* A call that cannot be opened is told so, and its request is gone.
LEMMA CallFails ==
  ASSUME IInv, issued < MaxRequests, live' = live, NEW kind \in {"none"} \cup Kinds, NEW t,
         Extends(t, "cancelled"), Accepted(t, "cancelled"), pending' = pending,
         asked' = [asked EXCEPT ![issued + 1] = kind],
         reply' = [reply EXCEPT ![issued + 1] = "error"]
  PROVE  IInv'
<1>1. /\ issued + 1 \in N /\ issued' = issued + 1 /\ issued' \in 0..MaxRequests
      /\ requests' \in Seq(Req) /\ live' \subseteq Clients
      /\ outcome' \in [N -> {"new", "waiting", "cancelled"} \cup Results]
      /\ Holds'
      /\ \A n \in N : outcome'[n] = "new" <=> n > issued'
      /\ outcome[issued + 1] = "new" /\ outcome'[issued + 1] = "cancelled"
      /\ OnlyCancels
  BY AcceptedHolds
<1>2. PICK q : q = issued + 1
  OBVIOUS
<1>3. q \in N /\ asked[q] = "none" /\ outcome[q] = "new" /\ outcome'[q] = "cancelled"
  BY <1>1, <1>2 DEF IInv, Numbered
<1>4. asked' = [asked EXCEPT ![q] = kind] /\ reply' = [reply EXCEPT ![q] = "error"]
  BY <1>2
<1>5. /\ pending \in [1..McpSlots -> [n : {0} \cup N, kind : Kinds]]
      /\ asked \in [N -> {"none"} \cup Kinds]
      /\ reply \in [N -> {"none", "error"} \cup Replies]
  BY DEF IInv, Types
<1>6. /\ asked' \in [N -> {"none"} \cup Kinds]
      /\ asked'[q] = kind /\ \A n \in N : n # q => asked'[n] = asked[n]
  BY <1>3, <1>4, <1>5
<1>7. /\ reply' \in [N -> {"none", "error"} \cup Replies]
      /\ reply'[q] = "error" /\ \A n \in N : n # q => reply'[n] = reply[n]
  BY <1>3, <1>4, <1>5
<1>8. Types'
  BY <1>1, <1>5, <1>6, <1>7 DEF Types
<1>9. Numbered'
  <2>1. ASSUME NEW n \in N, n > issued' PROVE n > issued /\ n # q
    <3>1. n \in Nat /\ issued \in Nat /\ issued' = issued + 1
      BY <1>1, ExpectAssumption DEF IInv, Types, N
    <3>2. QED
      BY <1>2, <2>1, <3>1
  <2>2. \A n \in N : n > issued' => asked'[n] = "none"
    BY <1>6, <2>1 DEF IInv, Numbered
  <2>3. QED
    BY <1>1, <2>2 DEF Numbered
<1>10. SlotsTrue'
  <2>1. ASSUME NEW i \in 1..McpSlots, pending[i].n # 0
        PROVE  asked'[pending[i].n] = pending[i].kind
    <3>1. asked[pending[i].n] = pending[i].kind
      BY <2>1 DEF IInv, SlotsTrue
    <3>2. pending[i].n \in N /\ pending[i].kind \in Kinds
      BY <1>5, <2>1
    <3>3. pending[i].n # q
      BY <1>3, <3>1, <3>2 DEF Kinds
    <3>4. QED
      BY <1>6, <3>1, <3>2, <3>3
  <2>2. ASSUME NEW n \in N, asked'[n] # "none", outcome'[n] = "waiting"
        PROVE  \E i \in 1..McpSlots : pending[i].n = n
    <3>1. n # q
      BY <1>3, <2>2
    <3>2. asked[n] # "none" /\ outcome[n] = "waiting"
      BY <1>1, <1>2, <1>6, <2>2, <3>1 DEF OnlyCancels
    <3>3. QED
      BY <3>2 DEF IInv, SlotsTrue
  <2>3. QED
    BY <2>1, <2>2 DEF SlotsTrue
<1>11. NoReplyYet'
  BY <1>1, <1>2, <1>3, <1>7 DEF IInv, NoReplyYet, OnlyCancels
<1>12. AnswerFits'
  <2>1. ASSUME NEW n \in N, asked'[n] # "none" PROVE Fits(outcome'[n], asked'[n], reply'[n])
    <3>1. CASE n = q
      BY <1>3, <1>7, <3>1, UnansweredFits
    <3>2. CASE n # q
      <4>1. asked'[n] = asked[n] /\ asked[n] # "none" /\ reply'[n] = reply[n]
        BY <1>6, <1>7, <2>1, <3>2
      <4>2. outcome'[n] = outcome[n] \/ (outcome[n] = "waiting" /\ outcome'[n] = "cancelled")
        BY <1>1, <1>2, <3>2 DEF OnlyCancels
      <4>3. QED
        BY <4>1, <4>2, OthersFit
    <3>3. QED
      BY <3>1, <3>2
  <2>2. QED
    BY <2>1 DEF AnswerFits, Fits
<1>13. QED
  BY <1>1, <1>8, <1>9, <1>10, <1>11, <1>12 DEF IInv

\* A tool of the sink asks.
LEMMA OpenCallKeeps ==
  ASSUME IInv, NEW kind \in Kinds, NEW t, Remains(t, requests), OpenCall(kind, t)
  PROVE  IInv'
<1>1. /\ issued < MaxRequests /\ live' = live
      /\ asked' = [asked EXCEPT ![issued + 1] = kind]
  BY DEF OpenCall, MayAsk
<1>2. CASE FreeSlots # {}
  <2>1. PICK slot : slot = CHOOSE i \in FreeSlots : \A j \in FreeSlots : i <= j
    OBVIOUS
  <2>2. FreeSlots \in SUBSET Nat
    BY DEF FreeSlots
  <2>3. slot \in FreeSlots
    BY <1>2, <2>1, <2>2, LeastNatural
  <2>4. /\ Accepted(sm_expect_add(requests, issued + 1, Mcp, Mcp), "waiting")
        /\ mcp_alloc_pending(slot, kind) /\ reply' = reply
    BY <1>2, <2>1 DEF OpenCall
  <2>5. Extends(sm_expect_add(requests, issued + 1, Mcp, Mcp), "waiting")
    BY <1>1, AddExtends
  <2>6. QED
    BY <1>1, <2>3, <2>4, <2>5, CallOpens
<1>3. CASE FreeSlots = {}
  <2>1. /\ Accepted(t, "cancelled") /\ pending' = pending
        /\ reply' = [reply EXCEPT ![issued + 1] = "error"]
    BY <1>3 DEF OpenCall
  <2>2. Extends(t, "cancelled")
    BY <1>1, RemainsExtends
  <2>3. QED
    BY <1>1, <2>1, <2>2, CallFails
<1>4. QED
  BY <1>2, <1>3

\* Every tool of the sink that waits.
LEMMA ToolsKeep ==
  ASSUME IInv, mcp_tool_dispatch
  PROVE  IInv'
<1>1. Remains(requests, requests) /\ Remains(sm_expect_cancel_client(requests, Mcp), requests)
  <2>1. requests \in Seq(Req) /\ Unique(requests)
    BY DEF IInv, Types, Holds
  <2>2. QED
    BY <2>1, CancelRemains DEF Remains
<1>2. PICK t : t = sm_expect_cancel_client(requests, Mcp)
  OBVIOUS
<1>3. ASSUME WriteFails PROVE IInv'
  <2>1. /\ issued < MaxRequests /\ live' = live /\ pending' = pending
        /\ Accepted(requests, "cancelled")
        /\ asked' = asked
        /\ reply' = [reply EXCEPT ![issued + 1] = "error"]
    BY <1>3 DEF WriteFails, MayAsk
  <2>2. issued + 1 \in N /\ outcome[issued + 1] = "new"
    <3>1. issued + 1 \in N /\ issued \in Nat
      BY <2>1, ExpectAssumption DEF IInv, Types, N
    <3>2. QED
      BY <3>1 DEF IInv, Numbered
  <2>3. asked[issued + 1] = "none"
    BY <2>2 DEF IInv, Numbered
  <2>4. asked' = [asked EXCEPT ![issued + 1] = "none"]
    BY <2>1, <2>2, <2>3 DEF IInv, Types
  <2>5. Extends(requests, "cancelled")
    BY <1>1, <2>1, RemainsExtends
  <2>6. QED
    BY <2>1, <2>4, <2>5, CallFails
<1>4. \/ \E kind \in Kinds : OpenCall(kind, t) \/ OpenCall(kind, requests)
      \/ WriteFails
  BY <1>2 DEF mcp_tool_dispatch, tool_serial_send_command, tool_serial_wait_for, tool_serial_reset,
     tool_serial_monitor, Kinds
<1>5. QED
  BY <1>1, <1>2, <1>3, <1>4, OpenCallKeeps


-----------------------------------------------------------------------------
(* Requests are answered.                                                  *)

\* A table with the requests of the present one, fed, aborted or too late.
Same(t) ==
  /\ t \in Seq(Req) /\ Unique(t)
  /\ \A m : m \in Numbers(t) <=> m \in Numbers(requests)
  /\ \A r \in Entries(t) : r.client \in live \cup {Mcp}

\* What a call is told fits its result.
LEMMA ResultFits ==
  ASSUME NEW r \in Req, NEW kind \in Kinds
  PROVE  /\ Result(r) \in Results
         /\ mcp_on_expect_result(r, kind) \in Replies
         /\ Fits(Result(r), kind, mcp_on_expect_result(r, kind))
<1>1. r.matched \in BOOLEAN /\ r.aborted \in BOOLEAN /\ r.heard \in BOOLEAN
  BY Zenon DEF Req
<1>2. r.matched => r.heard
  BY DEF Req
<1>3. PICK o, a : o = Result(r) /\ a = mcp_on_expect_result(r, kind)
  OBVIOUS
<1>4. o \in Results
  BY <1>3 DEF Result, Results
<1>5. a \in Replies
  BY <1>3 DEF mcp_on_expect_result, Replies
<1>6. CASE r.aborted
  <2>1. o = "aborted"
    BY <1>3, <1>6 DEF Result
  <2>2. (a = "aborted" /\ kind # "monitor") \/ a = "nothing" \/ (a = "report" /\ kind = "monitor")
    BY <1>3, <1>6 DEF mcp_on_expect_result
  <2>3. QED
    BY <1>3, <1>4, <1>5, <2>1, <2>2 DEF Fits
<1>7. CASE ~ r.aborted /\ r.matched
  <2>1. o = "matched"
    BY <1>3, <1>7 DEF Result
  <2>2. a = "text" \/ (a = "report" /\ kind = "monitor")
    BY <1>2, <1>3, <1>7 DEF mcp_on_expect_result
  <2>3. QED
    BY <1>3, <1>4, <1>5, <2>1, <2>2 DEF Fits
<1>8. CASE ~ r.aborted /\ ~ r.matched
  <2>1. o = "timeout"
    BY <1>3, <1>8 DEF Result
  <2>2. a = "nothing" \/ (a = "timeout" /\ kind = "wait") \/ (a = "report" /\ kind = "monitor")
          \/ (a = "text" /\ kind = "silent")
    BY <1>3, <1>8 DEF mcp_on_expect_result, Kinds
  <2>3. QED
    BY <1>3, <1>4, <1>5, <2>1, <2>2 DEF Fits
<1>9. QED
  BY <1>6, <1>7, <1>8

\* One collection, whatever its limit lets it take: a request of the sink is
\* answered in the call that waits for it.
LEMMA CollectKeeps ==
  ASSUME IInv, NEW t, Same(t), process_expect_results(t), issued' = issued, live' = live
  PROVE  IInv'
<1>1. PICK c : c = sm_expect_collect(t, CollectMax)
  OBVIOUS
<1> DEFINE Of(n) == c.out[CHOOSE i \in DOMAIN c.out : c.out[i].n = n]
           slots == {i \in 1..McpSlots : pending[i].n \in Numbers(c.out)}
           KindOf(n) == pending[CHOOSE i \in slots : pending[i].n = n].kind
<1>2. /\ requests' = c.t /\ asked' = asked
      /\ outcome' = [n \in N |-> IF n \in Numbers(c.out) THEN Result(Of(n)) ELSE outcome[n]]
      /\ reply' = [n \in N |-> IF \E i \in slots : pending[i].n = n
                               THEN mcp_on_expect_result(Of(n), KindOf(n)) ELSE reply[n]]
      /\ pending' = [i \in 1..McpSlots |-> IF i \in slots THEN [pending[i] EXCEPT !.n = 0] ELSE pending[i]]
  BY <1>1 DEF process_expect_results
<1>3. /\ c.t \in Seq(Req) /\ c.out \in Seq(Req) /\ Unique(c.t) /\ Unique(c.out)
      /\ Entries(c.t) \subseteq Entries(t) /\ Entries(c.out) \subseteq Entries(t)
      /\ \A m : m \in Numbers(t) <=> m \in Numbers(c.t) \/ m \in Numbers(c.out)
      /\ \A m : m \in Numbers(c.t) => m \notin Numbers(c.out)
  <2>1. PICK gone : gone = Those(t, Done)
    OBVIOUS
  <2>2. c = Sweep(t, CollectMax, gone)
    BY <1>1, <2>1 DEF sm_expect_collect
  <2>3. QED
    BY <2>2, SweepParts DEF Same
<1>4. ASSUME NEW n \in Numbers(c.out) PROVE Of(n) \in Req /\ Of(n).n = n
  <2>1. \E i \in DOMAIN c.out : c.out[i].n = n
    BY DEF Numbers
  <2>2. PICK i : i = CHOOSE j \in DOMAIN c.out : c.out[j].n = n
    OBVIOUS
  <2>3. i \in DOMAIN c.out /\ c.out[i].n = n
    BY <2>1, <2>2
  <2>4. c.out[i] \in Req
    BY <1>3, <2>3
  <2>5. Of(n) = c.out[i]
    BY <2>2
  <2>6. QED
    BY <2>3, <2>4, <2>5
<1>5. ASSUME NEW n \in Numbers(c.out) PROVE n \in N /\ n # 0 /\ outcome[n] = "waiting"
  <2>1. n \in N
    BY <1>4 DEF Req
  <2>2. n \in Numbers(requests)
    BY <1>3 DEF Same
  <2>3. QED
    BY <2>1, <2>2 DEF IInv, Holds, N
<1>6. ASSUME NEW n, \E i \in slots : pending[i].n = n
      PROVE  n \in Numbers(c.out) /\ KindOf(n) = asked[n] /\ KindOf(n) \in Kinds
  <2>1. PICK i : i = CHOOSE j \in slots : pending[j].n = n
    OBVIOUS
  <2>2. i \in slots /\ pending[i].n = n
    BY <1>6, <2>1
  <2>3. i \in 1..McpSlots /\ n \in Numbers(c.out)
    BY <2>2
  <2>4. n # 0
    BY <1>5, <2>3
  <2>5. asked[n] = pending[i].kind
    BY <2>2, <2>3, <2>4 DEF IInv, SlotsTrue
  <2>6. pending[i].kind \in Kinds
    BY <2>3 DEF IInv, Types
  <2>7. QED
    BY <2>1, <2>3, <2>5, <2>6
<1>7. \A i \in slots : i \in 1..McpSlots /\ pending[i].n \in Numbers(c.out)
  OBVIOUS
<1>8. \A i \in 1..McpSlots : i \notin slots => pending[i].n \notin Numbers(c.out)
  OBVIOUS
<1> HIDE DEF Of, slots, KindOf
<1>9. \A n \in N : /\ n \in Numbers(c.out) => outcome'[n] = Result(Of(n)) /\ outcome'[n] \in Results
                   /\ n \notin Numbers(c.out) => outcome'[n] = outcome[n]
  <2>1. PICK k \in Kinds : TRUE
    BY DEF Kinds
  <2>2. \A n \in Numbers(c.out) : Result(Of(n)) \in Results
    BY <1>4, <2>1, ResultFits
  <2>3. QED
    BY <1>2, <2>2
<1>10. \A n \in N : /\ (\E i \in slots : pending[i].n = n) => reply'[n] = mcp_on_expect_result(Of(n), asked[n])
                    /\ n \notin Numbers(c.out) => reply'[n] = reply[n]
  BY <1>2, <1>6
<1>11. \A i \in 1..McpSlots : /\ i \in slots => pending'[i].n = 0
                              /\ i \notin slots => pending'[i] = pending[i]
  BY <1>2 DEF IInv, Types
<1>12. Types'
  <2>1. outcome' \in [N -> {"new", "waiting", "cancelled"} \cup Results]
    BY <1>2, <1>9 DEF IInv, Types
  <2>2. reply' \in [N -> {"none", "error"} \cup Replies]
    <3>1. ASSUME NEW n \in N
          PROVE  (IF \E i \in slots : pending[i].n = n THEN mcp_on_expect_result(Of(n), KindOf(n)) ELSE reply[n])
                   \in {"none", "error"} \cup Replies
      <4>1. CASE \E i \in slots : pending[i].n = n
        <5>1. mcp_on_expect_result(Of(n), KindOf(n)) \in Replies
          BY <1>4, <1>6, <4>1, ResultFits
        <5>2. QED
          BY <4>1, <5>1
      <4>2. CASE ~ \E i \in slots : pending[i].n = n
        BY <4>2 DEF IInv, Types
      <4>3. QED
        BY <4>1, <4>2
    <3>2. QED
      BY <1>2, <3>1
  <2>3. pending' \in [1..McpSlots -> [n : {0} \cup N, kind : Kinds]]
    BY <1>2 DEF IInv, Types
  <2>4. QED
    BY <1>2, <1>3, <2>1, <2>2, <2>3 DEF IInv, Types
<1>13. Holds'
  <2>1. ASSUME NEW n \in N PROVE n \in Numbers(c.t) <=> outcome'[n] = "waiting"
    <3>1. n \in Numbers(requests) <=> outcome[n] = "waiting"
      BY DEF IInv, Holds
    <3>2. n \in Numbers(requests) <=> n \in Numbers(c.t) \/ n \in Numbers(c.out)
      BY <1>3 DEF Same
    <3>3. QED
      BY <1>3, <1>9, <3>1, <3>2 DEF Results
  <2>2. \A r \in Entries(c.t) : r.client \in live' \cup {Mcp}
    BY <1>3 DEF Same
  <2>3. QED
    BY <1>2, <1>3, <2>1, <2>2 DEF Holds
<1>14. Numbered'
  <2>1. \A n \in N : outcome'[n] = "new" <=> outcome[n] = "new"
    BY <1>5, <1>9 DEF Results
  <2>2. QED
    BY <1>2, <2>1 DEF IInv, Numbered
<1>15. SlotsTrue'
  <2>1. ASSUME NEW i \in 1..McpSlots, pending'[i].n # 0
        PROVE  asked[pending'[i].n] = pending'[i].kind
    BY <1>11, <2>1 DEF IInv, SlotsTrue
  <2>2. ASSUME NEW n \in N, asked[n] # "none", outcome'[n] = "waiting"
        PROVE  \E i \in 1..McpSlots : pending'[i].n = n
    <3>1. n \notin Numbers(c.out) /\ outcome[n] = "waiting"
      BY <1>9, <2>2 DEF Results
    <3>2. PICK i \in 1..McpSlots : pending[i].n = n
      BY <2>2, <3>1 DEF IInv, SlotsTrue
    <3>3. i \notin slots
      BY <1>7, <3>1, <3>2
    <3>4. QED
      BY <1>11, <3>2, <3>3
  <2>3. QED
    BY <1>2, <2>1, <2>2 DEF SlotsTrue
<1>16. NoReplyYet'
  BY <1>9, <1>10 DEF IInv, NoReplyYet, Results
<1>17. AnswerFits'
  <2>1. ASSUME NEW n \in N, asked[n] # "none" PROVE Fits(outcome'[n], asked[n], reply'[n])
    <3>1. CASE n \in Numbers(c.out)
      <4>1. PICK i \in 1..McpSlots : pending[i].n = n
        BY <1>5, <2>1, <3>1 DEF IInv, SlotsTrue
      <4>2. i \in slots
        BY <1>8, <3>1, <4>1
      <4>3. outcome'[n] = Result(Of(n)) /\ reply'[n] = mcp_on_expect_result(Of(n), asked[n])
        BY <1>9, <1>10, <3>1, <4>1, <4>2
      <4>4. asked[n] \in Kinds
        BY <2>1 DEF IInv, Types
      <4>5. QED
        BY <1>4, <3>1, <4>3, <4>4, ResultFits
    <3>2. CASE n \notin Numbers(c.out)
      BY <1>9, <1>10, <2>1, <3>2, AnswersFit DEF IInv
    <3>3. QED
      BY <3>1, <3>2
  <2>2. QED
    BY <1>2, <2>1 DEF AnswerFits, Fits
<1>18. QED
  BY <1>12, <1>13, <1>14, <1>15, <1>16, <1>17 DEF IInv


\* Entry by entry changes that keep a request's number, id and client keep the
\* table's requests.
LEMMA SameByEntry ==
  ASSUME NEW t, Same(t), NEW u \in Seq(Req), DOMAIN u = DOMAIN t,
         \A i \in DOMAIN t : u[i].n = t[i].n /\ u[i].client = t[i].client
  PROVE  Same(u)
<1>1. Unique(u)
  BY DEF Same, Unique
<1>2. \A m : m \in Numbers(u) <=> m \in Numbers(t)
  BY DEF Numbers
<1>3. \A r \in Entries(u) : r.client \in live \cup {Mcp}
  BY DEF Same, Entries
<1>4. QED
  BY <1>1, <1>2, <1>3 DEF Same

\* Device output, an abort and a passed deadline.
LEMMA ChangedSame ==
  ASSUME NEW t, Same(t), NEW hits
  PROVE  /\ Same(sm_expect_feed(t, hits))
         /\ Same(sm_expect_abort_all(t))
         /\ \A i \in DOMAIN t : Same([t EXCEPT ![i].late = TRUE])
<1>1. t \in Seq(Req) /\ Len(t) \in Nat /\ DOMAIN t = 1..Len(t)
  BY DEF Same
<1>2. ASSUME NEW u, DOMAIN u = DOMAIN t, \A i \in DOMAIN t : u[i] \in Req,
             u = [i \in DOMAIN t |-> u[i]]
      PROVE  u \in Seq(Req)
  <2>1. u \in [1..Len(t) -> Req]
    BY <1>1, <1>2
  <2>2. QED
    BY <1>1, <2>1
<1>3. ASSUME NEW i \in DOMAIN t PROVE t[i] \in Req
  BY <1>1
<1>4. Same(sm_expect_feed(t, hits))
  <2>1. PICK u : u = sm_expect_feed(t, hits)
    OBVIOUS
  <2>2. u = [i \in DOMAIN t |-> [t[i] EXCEPT !.matched = @ \/ t[i].n \in hits, !.heard = TRUE]]
    BY <2>1 DEF sm_expect_feed
  <2>3. ASSUME NEW i \in DOMAIN t
        PROVE  u[i] \in Req /\ u[i].n = t[i].n /\ u[i].client = t[i].client
    <3>1. PICK r : r = t[i] /\ r \in Req
      BY <1>3
    <3>2. (r.matched \/ r.n \in hits) \in BOOLEAN
      OBVIOUS
    <3>3. u[i] = [r EXCEPT !.matched = (r.matched \/ r.n \in hits), !.heard = TRUE]
      BY <2>2, <3>1
    <3>4. QED
      BY <3>1, <3>2, <3>3 DEF Req
  <2>4. DOMAIN u = DOMAIN t /\ u = [i \in DOMAIN t |-> u[i]]
    BY <2>2
  <2>5. u \in Seq(Req)
    BY <1>2, <2>3, <2>4
  <2>6. QED
    BY <2>1, <2>3, <2>4, <2>5, SameByEntry
<1>5. Same(sm_expect_abort_all(t))
  <2>1. PICK u : u = sm_expect_abort_all(t)
    OBVIOUS
  <2>2. u = [i \in DOMAIN t |-> [t[i] EXCEPT !.aborted = @ \/ ~t[i].matched]]
    BY <2>1 DEF sm_expect_abort_all
  <2>3. ASSUME NEW i \in DOMAIN t
        PROVE  u[i] \in Req /\ u[i].n = t[i].n /\ u[i].client = t[i].client
    <3>1. PICK r : r = t[i] /\ r \in Req
      BY <1>3
    <3>2. (r.aborted \/ ~ r.matched) \in BOOLEAN
      OBVIOUS
    <3>3. u[i] = [r EXCEPT !.aborted = (r.aborted \/ ~ r.matched)]
      BY <2>2, <3>1
    <3>4. QED
      BY <3>1, <3>2, <3>3 DEF Req
  <2>4. DOMAIN u = DOMAIN t /\ u = [i \in DOMAIN t |-> u[i]]
    BY <2>2
  <2>5. u \in Seq(Req)
    BY <1>2, <2>3, <2>4
  <2>6. QED
    BY <2>1, <2>3, <2>4, <2>5, SameByEntry
<1>6. ASSUME NEW j \in DOMAIN t PROVE Same([t EXCEPT ![j].late = TRUE])
  <2>1. PICK u : u = [t EXCEPT ![j].late = TRUE]
    OBVIOUS
  <2>2. PICK r : r = t[j] /\ r \in Req
    BY <1>3
  <2>3. u[j] = [r EXCEPT !.late = TRUE]
    BY <1>1, <1>6, <2>1, <2>2
  <2>4. u[j] \in Req /\ u[j].n = r.n /\ u[j].client = r.client
    BY <2>2, <2>3 DEF Req
  <2>5. \A i \in DOMAIN t : u[i] \in Req /\ u[i].n = t[i].n /\ u[i].client = t[i].client
    BY <1>1, <1>3, <2>1, <2>2, <2>4
  <2>6. DOMAIN u = DOMAIN t /\ u = [i \in DOMAIN t |-> u[i]]
    BY <1>1, <2>1
  <2>7. u \in Seq(Req)
    BY <1>2, <2>5, <2>6
  <2>8. QED
    BY <2>1, <2>5, <2>6, <2>7, SameByEntry
<1>7. QED
  BY <1>4, <1>5, <1>6

\* The table itself is such a table.
LEMMA TableSame ==
  ASSUME IInv
  PROVE  Same(requests)
BY DEF IInv, Types, Holds, Same

\* A step that only changes the entries keeps the invariant.
LEMMA SameKeeps ==
  ASSUME IInv, NEW t, Same(t), requests' = t, UNCHANGED <<live, issued, outcome, callVars>>
  PROVE  IInv'
<1>1. /\ live' = live /\ issued' = issued /\ outcome' = outcome
      /\ pending' = pending /\ asked' = asked /\ reply' = reply
  BY DEF callVars
<1>2. t \in Seq(Req)
  BY DEF Same
<1>3. Types'
  BY <1>1, <1>2 DEF IInv, Types
<1>4. Holds'
  BY <1>1 DEF IInv, Holds, Same
<1>5. QED
  BY <1>1, <1>3, <1>4 DEF IInv, Numbered, SlotsTrue, NoReplyYet, AnswerFits


-----------------------------------------------------------------------------
(* The theorems.                                                           *)

\* The invariant holds at the start.
LEMMA InitHolds ==
  ASSUME Init
  PROVE  IInv
<1>1. Numbers(requests) = {} /\ Entries(requests) = {} /\ Unique(requests) /\ requests \in Seq(Req)
  BY DEF Init, Numbers, Entries, Unique
<1>2. Types
  BY <1>1, ExpectAssumption DEF Init, Types, Kinds
<1>3. Holds
  BY <1>1 DEF Init, Holds
<1>4. Numbered
  BY DEF Init, Numbered, N
<1>5. SlotsTrue
  BY DEF Init, SlotsTrue
<1>6. NoReplyYet
  BY DEF Init, NoReplyYet
<1>7. AnswerFits
  BY DEF Init, AnswerFits
<1>8. QED
  BY <1>2, <1>3, <1>4, <1>5, <1>6, <1>7 DEF IInv

\* Every handler keeps it.
LEMMA NextKeeps ==
  ASSUME IInv, [Next]_vars
  PROVE  IInv'
<1>1. requests \in Seq(Req) /\ Unique(requests) /\ live \subseteq Clients
      /\ \A r \in Entries(requests) : r.client \in live \cup {Mcp}
  BY DEF IInv, Types, Holds
<1>2. CASE \E c \in Clients, id \in Ids : handle_send_expect(c, id) \/ handle_listen_expect(c, id)
  BY <1>2, ClientsKeep
<1>3. CASE mcp_tool_dispatch
  BY <1>3, ToolsKeep
<1>4. ASSUME NEW hits \in SUBSET Numbers(requests), NEW critical \in BOOLEAN,
             process_link_chunk(hits, critical)
      PROVE  IInv'
  <2>1. PICK fed : fed = sm_expect_feed(requests, hits)
    OBVIOUS
  <2>2. Same(fed) /\ Same(sm_expect_abort_all(fed))
    BY <2>1, TableSame, ChangedSame
  <2>3. /\ live' = live /\ issued' = issued
        /\ \/ process_expect_results(sm_expect_abort_all(fed))
           \/ requests' = fed /\ UNCHANGED <<outcome, callVars>>
    BY <1>4, <2>1 DEF process_link_chunk
  <2>4. CASE process_expect_results(sm_expect_abort_all(fed))
    BY <2>2, <2>3, <2>4, CollectKeeps
  <2>5. CASE requests' = fed /\ UNCHANGED <<outcome, callVars>>
    BY <2>2, <2>3, <2>5, SameKeeps
  <2>6. QED
    BY <2>3, <2>4, <2>5
<1>5. CASE handle_link_disconnect
  <2>1. Same(sm_expect_abort_all(requests))
    BY TableSame, ChangedSame
  <2>2. QED
    BY <1>5, <2>1, CollectKeeps DEF handle_link_disconnect
<1>6. CASE LinkBack
  BY <1>6, TableSame, SameKeeps DEF LinkBack
<1>7. CASE sm_broker_do_suspend
  <2>1. PICK t : t = sm_expect_cancel_all(requests) /\ t = <<>>
    BY DEF sm_expect_cancel_all
  <2>2. Remains(t, requests) /\ Entries(t) = {}
    BY <2>1 DEF Remains, Unique, Entries
  <2>3. Withdraw(t) /\ UNCHANGED <<issued, callVars>> /\ live' = live
    BY <1>7, <2>1 DEF sm_broker_do_suspend
  <2>4. QED
    BY <1>1, <2>2, <2>3, WithdrawKeeps
<1>8. ASSUME NEW c \in Clients, remove_client(c) PROVE IInv'
  <2>1. PICK t : t = sm_expect_cancel_client(requests, c)
    OBVIOUS
  <2>2. Remains(t, requests) /\ \A r \in Entries(t) : r.client # c
    BY <1>1, <2>1, CancelRemains
  <2>3. Withdraw(t) /\ UNCHANGED <<issued, callVars>> /\ live' = live \ {c}
    BY <1>8, <2>1 DEF remove_client
  <2>4. \A r \in Entries(t) : r.client \in live' \cup {Mcp}
    BY <1>1, <2>2, <2>3 DEF Remains
  <2>5. live' \subseteq Clients
    BY <1>1, <2>3
  <2>6. QED
    BY <2>2, <2>3, <2>4, <2>5, WithdrawKeeps
<1>9. CASE CollectTurn
  BY <1>9, TableSame, CollectKeeps DEF CollectTurn
<1>10. ASSUME NEW n \in N, DeadlinePasses(n) PROVE IInv'
  <2>1. PICK i \in DOMAIN requests : requests' = [requests EXCEPT ![i].late = TRUE]
    BY <1>10 DEF DeadlinePasses
  <2>2. Same([requests EXCEPT ![i].late = TRUE])
    BY TableSame, ChangedSame
  <2>3. QED
    BY <1>10, <2>1, <2>2, SameKeeps DEF DeadlinePasses
<1>11. CASE UNCHANGED vars
  BY <1>11, TableSame, SameKeeps DEF vars
<1>12. QED
  BY <1>2, <1>3, <1>4, <1>5, <1>6, <1>7, <1>8, <1>9, <1>10, <1>11 DEF Next

\* The table, the outcomes, the sink's slots and its answers agree, for any
\* clients, ids, limits and number of requests (expect.c, mcp_sink.c).
THEOREM InductiveInvariant == Spec => []IInv
<1>1. Init => IInv
  BY InitHolds
<1>2. IInv /\ [Next]_vars => IInv'
  BY NextKeeps
<1>3. QED
  BY <1>1, <1>2, PTL DEF Spec


\* A table without duplicates has as many numbers as entries.
LEMMA UniqueCounts ==
  ASSUME NEW R, NEW t \in Seq(R), Unique(t)
  PROVE  Cardinality(Numbers(t)) = Len(t)
<1>1. Len(t) \in Nat /\ DOMAIN t = 1..Len(t)
  OBVIOUS
<1> DEFINE f == [i \in 1..Len(t) |-> t[i].n]
<1>2. f \in [1..Len(t) -> Numbers(t)]
  BY <1>1 DEF Numbers
<1>3. \A a, b \in 1..Len(t) : f[a] = f[b] => a = b
  BY <1>1 DEF Unique
<1>4. \A m \in Numbers(t) : \E i \in 1..Len(t) : f[i] = m
  BY <1>1 DEF Numbers
<1> HIDE DEF f
<1>5. f \in Bijection(1..Len(t), Numbers(t))
  BY <1>2, <1>3, <1>4, Fun_IsBij
<1>6. ExistsBijection(1..Len(t), Numbers(t))
  BY <1>5, Fun_ExistsBij
<1>7. QED
  BY <1>1, <1>6, FS_CountingElements

\* TableHoldsWaiting, for any table, limits and clients: no move of an entry,
\* no limited collection and no cancellation loses a request or leaves one
\* behind (expect.c, remove_client).
THEOREM TableSafety == Spec => []TableHoldsWaiting
<1>1. ASSUME IInv PROVE TableHoldsWaiting
  <2>1. requests \in Seq(Req) /\ Unique(requests)
    BY <1>1 DEF IInv, Types, Holds
  <2>2. \A m : m \in Numbers(requests) => m \in N
    BY <2>1 DEF Numbers, Req
  <2>3. Numbers(requests) = {n \in N : outcome[n] = "waiting"}
    BY <1>1, <2>2 DEF IInv, Holds
  <2>4. Cardinality(Numbers(requests)) = Len(requests)
    BY <2>1, UniqueCounts
  <2>5. \A i \in DOMAIN requests : requests[i].client \in live \cup {Mcp}
    BY <1>1 DEF IInv, Holds, Entries
  <2>6. QED
    BY <2>3, <2>4, <2>5 DEF TableHoldsWaiting
<1>2. QED
  BY <1>1, InductiveInvariant, PTL

\* AnswerFits, for any number of slots, calls and collections: a reused slot
\* never answers in the terms of the call that had it before
\* (mcp_on_expect_result).
THEOREM AnswerSafety == Spec => []AnswerFits
<1>1. IInv => AnswerFits
  BY DEF IInv
<1>2. QED
  BY <1>1, InductiveInvariant, PTL

-----------------------------------------------------------------------------
(* What a collection delivers.                                             *)

\* It answers requests that wait and no others; one with room left answers
\* all that are done.
LEMMA CollectDelivers ==
  ASSUME IInv, NEW t, Same(t), process_expect_results(t),
         NEW out, out = sm_expect_collect(t, CollectMax).out
  PROVE  /\ out \in Seq(Req) /\ Unique(out) /\ outcome' \in [N -> {"new", "waiting", "cancelled"} \cup Results]
         /\ \A n \in N : /\ n \in Numbers(out) => outcome[n] = "waiting" /\ outcome'[n] \in Results
                         /\ n \notin Numbers(out) => outcome'[n] = outcome[n]
         /\ Len(out) # CollectMax => \A r \in Entries(t) : Done(r) => r.n \in Numbers(out)
<1>1. PICK c : c = sm_expect_collect(t, CollectMax) /\ out = c.out
  OBVIOUS
<1>2. PICK gone : gone = Those(t, Done)
  OBVIOUS
<1>3. c = Sweep(t, CollectMax, gone)
  BY <1>1, <1>2 DEF sm_expect_collect
<1>4. t \in Seq(Req) /\ Unique(t)
  BY DEF Same
<1>5. /\ c.t \in Seq(Req) /\ out \in Seq(Req) /\ Unique(out)
      /\ \A m : m \in Numbers(t) <=> m \in Numbers(c.t) \/ m \in Numbers(out)
  BY <1>1, <1>3, <1>4, SweepParts
<1>6. Len(out) # CollectMax => \A a \in DOMAIN c.t : c.t[a].n \notin gone
  BY <1>1, <1>3, <1>4, SweepSplits
<1> DEFINE Of(n) == out[CHOOSE i \in DOMAIN out : out[i].n = n]
<1>7. outcome' = [n \in N |-> IF n \in Numbers(out) THEN Result(Of(n)) ELSE outcome[n]]
  BY <1>1 DEF process_expect_results
<1> HIDE DEF Of
<1>8. \A r : Result(r) \in Results
  BY DEF Result, Results
<1>9. \A n \in N : n \in Numbers(out) => outcome[n] = "waiting"
  BY <1>5 DEF IInv, Holds, Same
<1>10. \A n \in N : /\ n \in Numbers(out) => outcome'[n] \in Results
                    /\ n \notin Numbers(out) => outcome'[n] = outcome[n]
  BY <1>7, <1>8
<1>11. outcome' \in [N -> {"new", "waiting", "cancelled"} \cup Results]
  BY <1>7, <1>8 DEF IInv, Types
<1>12. ASSUME Len(out) # CollectMax, NEW r \in Entries(t), Done(r) PROVE r.n \in Numbers(out)
  <2>1. r.n \in gone
    <3>1. PICK i \in DOMAIN t : t[i] = r
      BY DEF Entries
    <3>2. i \in {j \in DOMAIN t : Done(t[j])} /\ t[i].n = r.n
      BY <1>12, <3>1
    <3>3. QED
      BY <1>2, <3>2 DEF Those
  <2>2. PICK m : m = r.n /\ m \in Numbers(t)
    BY NumbersOfEntries
  <2>3. m \notin Numbers(c.t)
    BY <1>6, <1>12, <2>1, <2>2 DEF Numbers
  <2>4. QED
    BY <1>5, <2>2, <2>3
<1>13. QED
  BY <1>5, <1>9, <1>10, <1>11, <1>12

\* CollectComplete of every step: a collection that had room for more has
\* delivered all that was ready, whatever the swaps moved (sm_expect_collect).
THEOREM CollectsAll == Spec => [][CollectComplete]_vars
<1>1. ASSUME IInv, [Next]_vars PROVE [CollectComplete]_vars
  <2> SUFFICES ASSUME NEW n \in Numbers(requests), CollectTurn,
                      Done(requests[CHOOSE i \in DOMAIN requests : requests[i].n = n])
               PROVE  \/ outcome'[n] # "waiting"
                      \/ Cardinality({m \in N : outcome[m] # outcome'[m]}) = CollectMax
    BY DEF CollectComplete
  <2>1. PICK i : i = CHOOSE j \in DOMAIN requests : requests[j].n = n
    OBVIOUS
  <2>2. i \in DOMAIN requests /\ requests[i].n = n
    BY <2>1 DEF Numbers
  <2>3. PICK r : r = requests[i] /\ r \in Entries(requests) /\ r.n = n
    BY <2>2 DEF Entries
  <2>4. Done(r)
    BY <2>1, <2>3
  <2>5. PICK out : out = sm_expect_collect(requests, CollectMax).out
    OBVIOUS
  <2>6. /\ out \in Seq(Req) /\ Unique(out)
        /\ \A m \in N : /\ m \in Numbers(out) => outcome[m] = "waiting" /\ outcome'[m] \in Results
                        /\ m \notin Numbers(out) => outcome'[m] = outcome[m]
        /\ Len(out) # CollectMax => \A q \in Entries(requests) : Done(q) => q.n \in Numbers(out)
    <3>1. process_expect_results(requests) /\ Same(requests)
      BY <1>1, TableSame DEF CollectTurn
    <3>2. QED
      BY <1>1, <2>5, <3>1, CollectDelivers
  <2>7. n \in N
    BY <1>1, <2>2 DEF IInv, Types, Req
  <2>8. CASE Len(out) # CollectMax
    <3>1. n \in Numbers(out)
      BY <2>3, <2>4, <2>6, <2>8
    <3>2. QED
      BY <2>6, <2>7, <3>1 DEF Results
  <2>9. CASE Len(out) = CollectMax
    <3>1. \A m : m \in Numbers(out) => m \in N
      BY <2>6 DEF Numbers, Req
    <3>2. {m \in N : outcome[m] # outcome'[m]} = Numbers(out)
      BY <2>6, <3>1 DEF Results
    <3>3. Cardinality(Numbers(out)) = CollectMax
      BY <2>6, <2>9, UniqueCounts
    <3>4. QED
      BY <3>2, <3>3
  <2>10. QED
    BY <2>8, <2>9
<1>2. QED
  BY <1>1, InductiveInvariant, PTL DEF Spec


-----------------------------------------------------------------------------
(* The engine keeps the safety part of its promise.                        *)

\* One who waits is answered, or cancelled; nothing else changes.
LEMMA SettleIsPromised ==
  ASSUME IInv, NEW T \in {{"cancelled"}, Results},
         outcome' \in [N -> {"new", "waiting", "cancelled"} \cup Results],
         \A n \in N : outcome'[n] = outcome[n] \/ (outcome[n] = "waiting" /\ outcome'[n] \in T)
  PROVE  Promise!Next
<1>1. Promise!Outcomes = {"new", "waiting", "cancelled"} \cup Results /\ Promise!Answers = Results
  BY DEF Promise!Outcomes, Promise!Answers, Results
<1>2. \A n \in N : n \in Promise!Waiting <=> outcome[n] = "waiting"
  BY DEF Promise!Waiting, N
<1>3. Promise!Become(Promise!Waiting, T)
  <2>1. outcome' \in [1..MaxRequests -> Promise!Outcomes]
    BY <1>1 DEF N
  <2>2. \A n \in 1..MaxRequests :
          IF n \in Promise!Waiting THEN outcome'[n] \in T \cup {outcome[n]} ELSE outcome'[n] = outcome[n]
    BY <1>2 DEF N
  <2>3. QED
    BY <2>1, <2>2 DEF Promise!Become
<1>4. CASE T = {"cancelled"}
  BY <1>3, <1>4 DEF Promise!Next, Promise!Cancel
<1>5. CASE T = Results
  BY <1>1, <1>3, <1>5 DEF Promise!Next, Promise!Answer
<1>6. QED
  BY <1>4, <1>5

\* A request is accepted.
LEMMA AcceptIsPromised ==
  ASSUME IInv, issued < MaxRequests, live' = live, NEW t, NEW became, Extends(t, became),
         Accepted(t, became)
  PROVE  Promise!Next
<1>1. /\ issued + 1 \in N
      /\ outcome' \in [N -> {"new", "waiting", "cancelled"} \cup Results]
      /\ outcome[issued + 1] = "new" /\ outcome'[issued + 1] = became
      /\ OnlyCancels
  BY AcceptedHolds
<1>2. became \in {"waiting", "cancelled"}
  BY DEF Extends
<1>3. PICK n : n = issued + 1 /\ n \in 1..MaxRequests
  BY <1>1 DEF N
<1>4. \A m \in 1..(n - 1) : outcome[m] # "new"
  <2>1. ASSUME NEW m \in 1..(n - 1) PROVE m \in N /\ ~ (m > issued)
    BY <1>3, ExpectAssumption DEF IInv, Types, N
  <2>2. QED
    BY <2>1 DEF IInv, Numbered
<1>5. Promise!Outcomes = {"new", "waiting", "cancelled"} \cup Results
  BY DEF Promise!Outcomes, Promise!Answers, Results
<1>6. \A m \in N : m \in Promise!Waiting <=> outcome[m] = "waiting"
  BY DEF Promise!Waiting, N
<1>7. Promise!Become(Promise!Waiting \cup {n}, {"waiting", "cancelled"})
  <2>1. outcome' \in [1..MaxRequests -> Promise!Outcomes]
    BY <1>1, <1>5 DEF N
  <2>2. \A m \in 1..MaxRequests :
          IF m \in Promise!Waiting \cup {n} THEN outcome'[m] \in {"waiting", "cancelled"} \cup {outcome[m]}
          ELSE outcome'[m] = outcome[m]
    BY <1>1, <1>2, <1>3, <1>6 DEF N, OnlyCancels
  <2>3. QED
    BY <2>1, <2>2 DEF Promise!Become
<1>8. Promise!Accept
  BY <1>1, <1>2, <1>3, <1>4, <1>7 DEF Promise!Accept
<1>9. QED
  BY <1>8 DEF Promise!Next

\* Results that are delivered.
LEMMA CollectIsPromised ==
  ASSUME IInv, NEW t, Same(t), process_expect_results(t)
  PROVE  Promise!Next
<1>1. PICK out : out = sm_expect_collect(t, CollectMax).out
  OBVIOUS
<1>2. /\ outcome' \in [N -> {"new", "waiting", "cancelled"} \cup Results]
      /\ \A n \in N : /\ n \in Numbers(out) => outcome[n] = "waiting" /\ outcome'[n] \in Results
                      /\ n \notin Numbers(out) => outcome'[n] = outcome[n]
  BY <1>1, CollectDelivers
<1>3. QED
  BY <1>2, SettleIsPromised

\* Requests that are withdrawn.
LEMMA WithdrawIsPromised ==
  ASSUME IInv, NEW t, Withdraw(t)
  PROVE  Promise!Next
<1>1. outcome' = [n \in N |-> IF n \in Numbers(requests) \ Numbers(t) THEN "cancelled" ELSE outcome[n]]
  BY DEF Withdraw
<1>2. \A n \in N : outcome'[n] = outcome[n] \/ (outcome[n] = "waiting" /\ outcome'[n] \in {"cancelled"})
  BY <1>1 DEF IInv, Holds
<1>3. outcome' \in [N -> {"new", "waiting", "cancelled"} \cup Results]
  BY <1>1 DEF IInv, Types
<1>4. QED
  BY <1>2, <1>3, SettleIsPromised

\* A call of the sink.
LEMMA CallIsPromised ==
  ASSUME IInv, mcp_tool_dispatch
  PROVE  Promise!Next
<1>1. Remains(requests, requests) /\ Remains(sm_expect_cancel_client(requests, Mcp), requests)
  <2>1. requests \in Seq(Req) /\ Unique(requests)
    BY DEF IInv, Types, Holds
  <2>2. QED
    BY <2>1, CancelRemains DEF Remains
<1>2. issued < MaxRequests /\ live' = live
  BY DEF mcp_tool_dispatch, tool_serial_send_command, tool_serial_wait_for, tool_serial_reset,
     tool_serial_monitor, OpenCall, WriteFails, MayAsk
<1>3. PICK t : t = sm_expect_cancel_client(requests, Mcp)
  OBVIOUS
<1>4. \/ Accepted(sm_expect_add(requests, issued + 1, Mcp, Mcp), "waiting")
      \/ Accepted(t, "cancelled") \/ Accepted(requests, "cancelled")
  BY <1>3 DEF mcp_tool_dispatch, tool_serial_send_command, tool_serial_wait_for, tool_serial_reset,
     tool_serial_monitor, OpenCall, WriteFails
<1>5. /\ Extends(sm_expect_add(requests, issued + 1, Mcp, Mcp), "waiting")
      /\ Extends(t, "cancelled") /\ Extends(requests, "cancelled")
  BY <1>1, <1>2, <1>3, AddExtends, RemainsExtends
<1>6. QED
  BY <1>2, <1>4, <1>5, AcceptIsPromised

\* Every step of the engine is a step of the promise or leaves the outcomes.
LEMMA StepIsPromised ==
  ASSUME IInv, [Next]_vars
  PROVE  [Promise!Next]_outcome
<1>1. CASE \E c \in Clients, id \in Ids : handle_send_expect(c, id) \/ handle_listen_expect(c, id)
  <2>1. PICK c \in Clients, id \in Ids : handle_send_expect(c, id) \/ handle_listen_expect(c, id)
    BY <1>1
  <2>2. issued < MaxRequests /\ c \in live /\ live' = live
    BY <2>1 DEF handle_send_expect, handle_listen_expect, MayAsk
  <2>3. /\ Extends(sm_expect_add(requests, issued + 1, id, c), "waiting")
        /\ Extends(sm_expect_cancel_id(sm_expect_add(requests, issued + 1, id, c), id), "cancelled")
    BY <2>2, AddExtends, AddCancelExtends
  <2>4. \/ Accepted(sm_expect_add(requests, issued + 1, id, c), "waiting")
        \/ Accepted(sm_expect_cancel_id(sm_expect_add(requests, issued + 1, id, c), id), "cancelled")
    BY <2>1 DEF handle_send_expect, handle_listen_expect
  <2>5. QED
    BY <2>2, <2>3, <2>4, AcceptIsPromised
<1>2. CASE mcp_tool_dispatch
  BY <1>2, CallIsPromised
<1>3. ASSUME NEW hits \in SUBSET Numbers(requests), NEW critical \in BOOLEAN,
             process_link_chunk(hits, critical)
      PROVE  [Promise!Next]_outcome
  <2>1. PICK fed : fed = sm_expect_feed(requests, hits)
    OBVIOUS
  <2>2. Same(sm_expect_abort_all(fed))
    BY <2>1, TableSame, ChangedSame
  <2>3. process_expect_results(sm_expect_abort_all(fed)) \/ outcome' = outcome
    BY <1>3, <2>1 DEF process_link_chunk
  <2>4. QED
    BY <2>2, <2>3, CollectIsPromised
<1>4. CASE handle_link_disconnect
  <2>1. Same(sm_expect_abort_all(requests))
    BY TableSame, ChangedSame
  <2>2. QED
    BY <1>4, <2>1, CollectIsPromised DEF handle_link_disconnect
<1>5. CASE LinkBack
  BY <1>5 DEF LinkBack
<1>6. CASE sm_broker_do_suspend
  BY <1>6, WithdrawIsPromised DEF sm_broker_do_suspend
<1>7. CASE \E c \in Clients : remove_client(c)
  BY <1>7, WithdrawIsPromised DEF remove_client
<1>8. CASE CollectTurn
  BY <1>8, TableSame, CollectIsPromised DEF CollectTurn
<1>9. CASE \E n \in N : DeadlinePasses(n)
  BY <1>9 DEF DeadlinePasses
<1>10. CASE UNCHANGED vars
  BY <1>10 DEF vars
<1>11. QED
  BY <1>1, <1>2, <1>3, <1>4, <1>5, <1>6, <1>7, <1>8, <1>9, <1>10 DEF Next

\* The engine implements the safety part of its promise: requests are
\* accepted in order, and one that has an outcome keeps it, whatever the table,
\* the limits and the races of aborts, deadlines and cancellations do.
THEOREM KeepsSafePromise == Spec => Promise!SafeSpec
<1>1. Init => Promise!Init
  BY DEF Init, Promise!Init, N
<1>2. IInv /\ [Next]_vars => [Promise!Next]_outcome
  BY StepIsPromised
<1>3. QED
  BY <1>1, <1>2, InductiveInvariant, PTL DEF Spec, Promise!SafeSpec
=============================================================================
