-------------------------- MODULE GdbSession_proofs --------------------------
(***************************************************************************)
(* Proofs about smolmux-gdb-mcp: a result is the one of the command in     *)
(* flight, and a stop read is forgotten by no tool but the reset that lets *)
(* the target run, for any number of calls, commands gdb is late with,     *)
(* refusals and lines in the socket.                                       *)
(***************************************************************************)
EXTENDS GdbSession, SequenceTheorems, WellFoundedInduction, TLAPS

-----------------------------------------------------------------------------
(* Iteration: there is a recursive function, and what each of its values   *)
(* keeps all of them have.                                                 *)

\* A nonempty set of natural numbers has a least element.
LEMMA LeastNatural ==
  ASSUME NEW S \in SUBSET Nat, S # {}
  PROVE  \E x \in S : \A y \in S : x <= y
<1> DEFINE R == {ss \in Nat \X Nat : ss[1] < ss[2]}
<1>1. R = OpToRel(<, Nat)
  BY Zenon DEF OpToRel
<1>2. IsWellFoundedOn(R, Nat)
  BY <1>1, NatLessThanWellFounded, Zenon
<1>3. ASSUME NEW a \in Nat, NEW b \in Nat, a < b
      PROVE  <<a, b>> \in R
  <2> DEFINE p == <<a, b>>
  <2>1. p \in Nat \X Nat /\ p[1] = a /\ p[2] = b
    OBVIOUS
  <2> HIDE DEF p
  <2>2. p \in R
    BY <2>1, <1>3
  <2>3. QED
    BY <2>2 DEF p
<1> HIDE DEF R
<1>4. PICK x \in S : \A y \in S : ~ (<<y, x>> \in R)
  BY <1>2, WFMin
<1>5. \A y \in S : ~ (y < x)
  BY <1>3, <1>4, Zenon
<1>6. QED
  BY <1>5

\* Induction up to n, over the set of the numbers at which something holds.
LEMMA Induction ==
  ASSUME NEW n \in Nat, NEW Good, 0 \in Good,
         \A k \in 1 .. n : k - 1 \in Good => k \in Good
  PROVE  \A k \in 0 .. n : k \in Good
<1> SUFFICES ASSUME \E k \in 0 .. n : k \notin Good PROVE FALSE
  OBVIOUS
<1> DEFINE Bad == {k \in 0 .. n : k \notin Good}
<1>1. Bad \in SUBSET Nat /\ Bad # {}
  OBVIOUS
<1>2. PICK k \in Bad : \A j \in Bad : k <= j
  BY <1>1, LeastNatural
<1>3. k \in 1 .. n /\ k - 1 \in 0 .. n
  BY <1>2
<1>4. k - 1 \in Good
  BY <1>2, <1>3
<1>5. QED
  BY <1>2, <1>3, <1>4

IsRun(f, start, step, n) == f[0] = start /\ \A k \in 1 .. n : f[k] = step[k][f[k - 1]]

\* Steps can be taken one after the other.
LEMMA Iterates ==
  ASSUME NEW S, NEW start \in S, NEW n \in Nat, NEW step \in [1 .. n -> [S -> S]]
  PROVE  \E f \in [0 .. n -> S] : IsRun(f, start, step, n)
<1> DEFINE Good == {m \in 0 .. n : \E f \in [0 .. m -> S] : IsRun(f, start, step, m)}
<1>1. 0 \in Good
  <2> DEFINE f == [k \in 0 .. 0 |-> start]
  <2>1. f \in [0 .. 0 -> S] /\ IsRun(f, start, step, 0)
    BY DEF IsRun
  <2>2. QED
    BY <2>1
<1>2. ASSUME NEW m \in 1 .. n, m - 1 \in Good PROVE m \in Good
  <2>1. PICK f \in [0 .. m - 1 -> S] : IsRun(f, start, step, m - 1)
    BY <1>2
  <2>2. PICK next : next = step[m][f[m - 1]]
    OBVIOUS
  <2>3. next \in S
    <3>1. f[m - 1] \in S
      BY <2>1
    <3>2. step[m] \in [S -> S]
      OBVIOUS
    <3>3. QED
      BY <2>2, <3>1, <3>2
  <2> DEFINE h == [k \in 0 .. m |-> IF k = m THEN next ELSE f[k]]
  <2>4. h \in [0 .. m -> S]
    <3>1. \A k \in 0 .. m : k # m => f[k] \in S
      BY <2>1
    <3>2. QED
      BY <2>3, <3>1
  <2>5. h[0] = start
    BY <2>1 DEF IsRun
  <2>6. ASSUME NEW k \in 1 .. m PROVE h[k] = step[k][h[k - 1]]
    <3>1. CASE k = m
      BY <2>2, <3>1
    <3>2. CASE k # m
      <4>1. k \in 1 .. m - 1 /\ k - 1 \in 0 .. m /\ k - 1 # m
        BY <3>2
      <4>2. QED
        BY <2>1, <3>2, <4>1 DEF IsRun
    <3>3. QED
      BY <3>1, <3>2
  <2> HIDE DEF h
  <2>7. IsRun(h, start, step, m)
    BY <2>5, <2>6 DEF IsRun
  <2>8. QED
    BY <2>4, <2>7
<1> HIDE DEF Good
<1>3. \A m \in 0 .. n : m \in Good
  BY <1>1, <1>2, Induction
<1>4. n \in Good
  BY <1>3
<1>5. QED
  BY <1>4 DEF Good

-----------------------------------------------------------------------------
(* The records of a read.                                                  *)

Classes == {"done", "running", "error", "none"}
Results == [token : Nat, class : Classes]
States == [next_token : Nat \ {0}, pending_token : Nat, have_result : BOOLEAN,
           result : Results, target_running : BOOLEAN, have_stopped : BOOLEAN,
           overridden : BOOLEAN]

\* What the session believes of the target because gdb said so.
Believes(s) == s.target_running /\ ~ s.overridden

\* Only the last token is awaited, and only by a call that awaits it; the
\* result it has is the one of that token.
OwnToken(s, awaits) ==
  /\ s.pending_token # 0 => s.pending_token = s.next_token - 1 /\ awaits /\ ~ s.have_result
  /\ s.have_result => s.result.token = s.next_token - 1 /\ awaits

\* What one record changes: it says how the target is believed to be, or is
\* the result awaited.
Recorded(s, line, z) ==
  /\ \A awaits \in BOOLEAN : OwnToken(s, awaits) => OwnToken(z, awaits)
  /\ z.next_token = s.next_token
  /\ line.rec = "stopped" => ~ Believes(z) /\ z.have_stopped
  /\ line.rec \notin {"stopped", "running"} => Believes(z) = Believes(s)
  /\ s.have_stopped => z.have_stopped
  /\ z.have_result =>
       \/ s.have_result /\ z.result = s.result
       \/ /\ line.rec = "result" /\ s.pending_token # 0 /\ line.token = s.pending_token
          /\ z.result.class = line.class

LEMMA RecordKeeps ==
  ASSUME NEW s \in States, NEW line \in Lines, NEW z, z = handle_mi_record(s, line)
  PROVE  z \in States /\ Recorded(s, line, z)
<1>1. /\ s.next_token \in Nat \ {0} /\ s.pending_token \in Nat /\ s.result \in Results
      /\ line.token \in Nat /\ line.class \in Classes /\ line.rec \in {"result", "stopped", "running", "none"}
  BY DEF States, Lines, Classes
<1>2. CASE line.rec = "result" /\ s.pending_token # 0 /\ line.token = s.pending_token
  <2>1. z = [s EXCEPT !.result = [token |-> line.token, class |-> line.class],
                      !.have_result = TRUE, !.pending_token = 0]
    BY <1>2 DEF handle_mi_record
  <2>2. PICK res : res = [token |-> line.token, class |-> line.class]
    OBVIOUS
  <2>3. res \in Results /\ res.token = line.token /\ res.class = line.class
    BY <1>1, <2>2 DEF Results
  <2>4. z = [s EXCEPT !.result = res, !.have_result = TRUE, !.pending_token = 0]
    BY <2>1, <2>2
  <2>5. z \in States
    <3>1. PICK w : w = [s EXCEPT !.result = res]
      OBVIOUS
    <3>2. w \in States
      BY <2>3, <3>1 DEF States
    <3>3. PICK v : v = [w EXCEPT !.pending_token = 0]
      OBVIOUS
    <3>4. v \in States
      BY <3>2, <3>3 DEF States
    <3>5. z = [v EXCEPT !.have_result = TRUE]
      BY <2>4, <3>1, <3>3 DEF States
    <3>6. QED
      BY <3>4, <3>5 DEF States
  <2>6. /\ z.result = res /\ z.have_result = TRUE /\ z.pending_token = 0
        /\ z.next_token = s.next_token /\ z.target_running = s.target_running
        /\ z.have_stopped = s.have_stopped /\ z.overridden = s.overridden
    BY <2>4 DEF States
  <2>7. ASSUME NEW awaits \in BOOLEAN, OwnToken(s, awaits) PROVE OwnToken(z, awaits)
    BY <1>2, <2>3, <2>6, <2>7 DEF OwnToken
  <2>8. QED
    BY <1>2, <2>3, <2>5, <2>6, <2>7 DEF Believes, Recorded
<1>3. CASE line.rec = "stopped"
  <2>1. z = [s EXCEPT !.target_running = FALSE, !.have_stopped = TRUE, !.overridden = FALSE]
    BY <1>3 DEF handle_mi_record
  <2>2. z \in States /\ ~ z.target_running /\ z.have_stopped
    BY <1>1, <2>1 DEF States
  <2>3. /\ z.result = s.result /\ z.have_result = s.have_result /\ z.pending_token = s.pending_token
        /\ z.next_token = s.next_token
    BY <2>1 DEF States
  <2>4. QED
    BY <1>3, <2>2, <2>3 DEF OwnToken, Believes, Recorded
<1>4. CASE line.rec = "running"
  <2>1. z = [s EXCEPT !.target_running = TRUE, !.overridden = FALSE]
    BY <1>4 DEF handle_mi_record
  <2>2. z \in States
    BY <1>1, <2>1 DEF States
  <2>3. /\ z.result = s.result /\ z.have_result = s.have_result /\ z.pending_token = s.pending_token
        /\ z.next_token = s.next_token /\ z.have_stopped = s.have_stopped
    BY <2>1 DEF States
  <2>4. QED
    BY <1>4, <2>2, <2>3 DEF OwnToken, Recorded
<1>5. CASE /\ ~ (line.rec = "result" /\ s.pending_token # 0 /\ line.token = s.pending_token)
           /\ line.rec \notin {"stopped", "running"}
  <2>1. z = s
    BY <1>5 DEF handle_mi_record
  <2>2. QED
    BY <1>5, <2>1 DEF Recorded
<1>6. QED
  BY <1>2, <1>3, <1>4, <1>5

\* gdb_on_broker_output hands its lines to handle_mi_record one by one.
LEMMA OutputIterates ==
  ASSUME NEW s \in States, NEW lines \in Seq(Lines)
  PROVE  \E f \in [0 .. Len(lines) -> States] :
           /\ f[0] = s
           /\ \A k \in 1 .. Len(lines) : f[k] = handle_mi_record(f[k - 1], lines[k])
           /\ gdb_on_broker_output(s, lines) = f[Len(lines)]
<1> DEFINE n == Len(lines)
           step == [k \in 1 .. n |-> [x \in States |-> handle_mi_record(x, lines[k])]]
           Is(f) == f = [k \in 0 .. n |-> IF k = 0 THEN s ELSE handle_mi_record(f[k - 1], lines[k])]
           pass == CHOOSE f : Is(f)
<1>1. n \in Nat /\ \A k \in 1 .. n : lines[k] \in Lines
  OBVIOUS
<1>2. \A k \in 1 .. n : \A x \in States : handle_mi_record(x, lines[k]) \in States
  BY <1>1, RecordKeeps
<1>3. gdb_on_broker_output(s, lines) = pass[n]
  BY DEF gdb_on_broker_output
<1> HIDE DEF n, pass
<1>4. step \in [1 .. n -> [States -> States]]
  BY <1>2
<1>5. \A k \in 1 .. n : \A x \in States : step[k][x] = handle_mi_record(x, lines[k])
  OBVIOUS
<1> HIDE DEF step
<1>6. PICK f \in [0 .. n -> States] : IsRun(f, s, step, n)
  BY <1>1, <1>4, Iterates
<1>7. \A k \in 1 .. n : f[k] = handle_mi_record(f[k - 1], lines[k])
  <2>1. \A k \in 1 .. n : f[k - 1] \in States
    BY <1>1, <1>6
  <2>2. QED
    BY <1>5, <1>6, <2>1 DEF IsRun
<1>8. Is(f)
  BY <1>1, <1>6, <1>7 DEF IsRun
<1>9. Is(pass)
  BY <1>8 DEF pass
<1>10. pass[0] = s /\ \A k \in 1 .. n : pass[k] = handle_mi_record(pass[k - 1], lines[k])
  BY <1>1, <1>9
<1>11. pass \in [0 .. n -> States]
  <2> DEFINE Good == {k \in 0 .. n : pass[k] \in States}
  <2>1. 0 \in Good
    BY <1>1, <1>10
  <2>2. ASSUME NEW k \in 1 .. n, k - 1 \in Good PROVE k \in Good
    BY <1>1, <1>2, <1>10, <2>2
  <2> HIDE DEF Good
  <2>3. \A k \in 0 .. n : k \in Good
    BY <1>1, <2>1, <2>2, Induction
  <2>4. \A k \in 0 .. n : pass[k] \in States
    BY <2>3 DEF Good
  <2>5. QED
    BY <1>9, <2>4
<1>12. QED
  BY <1>3, <1>10, <1>11 DEF n

\* Behind place k of the lines q a stop is on the way.
StopBehind(q, k) == \E j \in DOMAIN q : j > k /\ q[j].rec = "stopped"

\* The target runs, or its stop is yet to be read when k of the lines are.
Runs(real, q, k) == real = "running" \/ StopBehind(q, k)

\* What is believed once k of the lines are read is true, or a stop is yet to
\* be read.
TrueAt(s, real, q, k) == Believes(s) => Runs(real, q, k)

\* A result that says the target was resumed, once read, is true, or a stop
\* has been or is yet to be read.
Heard(s, real, q, k) ==
  s.have_result /\ s.result.class # "error" => s.have_stopped \/ Runs(real, q, k)

\* Every ^running and *running that is yet to be read is true, or a stop is
\* behind it.
StopsFollow(q, real) ==
  \A i \in DOMAIN q : "running" \in {q[i].rec, q[i].class} => Runs(real, q, i)

\* The result of the command with this token is the one of a command that
\* resumes the target.
RunLines(q, token) ==
  \A i \in DOMAIN q : q[i].rec = "result" /\ q[i].token = token => q[i].class \in {"running", "error"}

\* Reading the first lines of q keeps the tokens, and keeps the belief true
\* of the lines that are left.
LEMMA OutputKeeps ==
  ASSUME NEW s \in States, NEW lines \in Seq(Lines), NEW z, z = gdb_on_broker_output(s, lines),
         NEW awaits \in BOOLEAN, OwnToken(s, awaits)
  PROVE  /\ z \in States
         /\ OwnToken(z, awaits)
         /\ z.next_token = s.next_token
<1>1. PICK f \in [0 .. Len(lines) -> States] :
        /\ f[0] = s
        /\ \A k \in 1 .. Len(lines) : f[k] = handle_mi_record(f[k - 1], lines[k])
        /\ z = f[Len(lines)]
  BY OutputIterates
<1>2. PICK n : n = Len(lines) /\ n \in Nat
  OBVIOUS
<1> DEFINE Good == {k \in 0 .. n : OwnToken(f[k], awaits) /\ f[k].next_token = s.next_token}
<1>3. 0 \in Good
  BY <1>1, <1>2
<1>4. ASSUME NEW k \in 1 .. n, k - 1 \in Good PROVE k \in Good
  <2>1. f[k - 1] \in States /\ f[k] = handle_mi_record(f[k - 1], lines[k]) /\ lines[k] \in Lines
    BY <1>1, <1>2
  <2>2. OwnToken(f[k - 1], awaits) /\ f[k - 1].next_token = s.next_token
    BY <1>4
  <2>3. OwnToken(f[k], awaits) /\ f[k].next_token = f[k - 1].next_token
    <3>1. Recorded(f[k - 1], lines[k], f[k])
      BY <2>1, RecordKeeps
    <3>2. QED
      BY <2>2, <3>1 DEF Recorded
  <2>4. QED
    BY <2>2, <2>3
<1> HIDE DEF Good
<1>5. \A k \in 0 .. n : k \in Good
  BY <1>2, <1>3, <1>4, Induction
<1>6. n \in Good
  BY <1>2, <1>5
<1>7. QED
  BY <1>1, <1>2, <1>6 DEF Good

LEMMA OutputBelieves ==
  ASSUME NEW s \in States, NEW lines \in Seq(Lines), NEW z, z = gdb_on_broker_output(s, lines),
         NEW q \in Seq(Lines), Len(lines) <= Len(q), \A i \in 1 .. Len(lines) : lines[i] = q[i],
         NEW real, StopsFollow(q, real), TrueAt(s, real, q, 0)
  PROVE  TrueAt(z, real, q, Len(lines))
<1>1. PICK f \in [0 .. Len(lines) -> States] :
        /\ f[0] = s
        /\ \A k \in 1 .. Len(lines) : f[k] = handle_mi_record(f[k - 1], lines[k])
        /\ z = f[Len(lines)]
  BY OutputIterates
<1>2. PICK n : n = Len(lines) /\ n \in Nat
  OBVIOUS
<1> DEFINE Good == {k \in 0 .. n : TrueAt(f[k], real, q, k)}
<1>3. 0 \in Good
  BY <1>1, <1>2
<1>4. ASSUME NEW k \in 1 .. n, k - 1 \in Good PROVE k \in Good
  <2>1. /\ f[k - 1] \in States /\ f[k] = handle_mi_record(f[k - 1], lines[k]) /\ lines[k] \in Lines
        /\ lines[k] = q[k] /\ k \in DOMAIN q
    BY <1>1, <1>2
  <2>2. TrueAt(f[k - 1], real, q, k - 1)
    BY <1>4
  <2>3. /\ lines[k].rec = "stopped" => ~ Believes(f[k])
        /\ lines[k].rec \notin {"stopped", "running"} => Believes(f[k]) = Believes(f[k - 1])
    <3>1. Recorded(f[k - 1], lines[k], f[k])
      BY <2>1, RecordKeeps
    <3>2. QED
      BY <3>1 DEF Recorded
  <2>4. CASE lines[k].rec = "stopped"
    BY <2>3, <2>4 DEF TrueAt
  <2>5. CASE lines[k].rec = "running"
    BY <2>1, <2>5 DEF TrueAt, StopsFollow
  <2>6. CASE lines[k].rec \notin {"stopped", "running"}
    <3>1. StopBehind(q, k - 1) => StopBehind(q, k)
      BY <2>1, <2>6 DEF StopBehind
    <3>2. QED
      BY <2>2, <2>3, <2>6, <3>1 DEF TrueAt, Runs
  <2>7. QED
    BY <2>4, <2>5, <2>6
<1> HIDE DEF Good
<1>5. \A k \in 0 .. n : k \in Good
  BY <1>2, <1>3, <1>4, Induction
<1>6. n \in Good
  BY <1>2, <1>5
<1>7. QED
  BY <1>1, <1>2, <1>6 DEF Good

\* A result of a command that resumes the target is read: the target runs, or
\* its stop is read or yet to be read.
LEMMA OutputHears ==
  ASSUME NEW s \in States, NEW lines \in Seq(Lines), NEW z, z = gdb_on_broker_output(s, lines),
         NEW q \in Seq(Lines), Len(lines) <= Len(q), \A i \in 1 .. Len(lines) : lines[i] = q[i],
         NEW real, StopsFollow(q, real), OwnToken(s, TRUE), RunLines(q, s.next_token - 1),
         Heard(s, real, q, 0)
  PROVE  Heard(z, real, q, Len(lines))
<1>1. PICK f \in [0 .. Len(lines) -> States] :
        /\ f[0] = s
        /\ \A k \in 1 .. Len(lines) : f[k] = handle_mi_record(f[k - 1], lines[k])
        /\ z = f[Len(lines)]
  BY OutputIterates
<1>2. PICK n : n = Len(lines) /\ n \in Nat
  OBVIOUS
<1> DEFINE Good == {k \in 0 .. n : /\ OwnToken(f[k], TRUE) /\ f[k].next_token = s.next_token
                                   /\ Heard(f[k], real, q, k)}
<1>3. 0 \in Good
  <2>1. OwnToken(f[0], TRUE) /\ f[0].next_token = s.next_token /\ Heard(f[0], real, q, 0)
    BY <1>1
  <2>2. QED
    BY <1>2, <2>1
<1>4. ASSUME NEW k \in 1 .. n, k - 1 \in Good PROVE k \in Good
  <2>1. PICK x \in States : x = f[k - 1]
    BY <1>1, <1>2
  <2>2. PICK y \in States : y = f[k]
    BY <1>1, <1>2
  <2>3. PICK line \in Lines : line = q[k] /\ line = lines[k] /\ k \in DOMAIN q
    BY <1>2
  <2>4. y = handle_mi_record(x, line)
    BY <1>1, <1>2, <2>1, <2>2, <2>3
  <2>5. OwnToken(x, TRUE) /\ x.next_token = s.next_token /\ Heard(x, real, q, k - 1)
    BY <1>4, <2>1
  <2>6. /\ OwnToken(y, TRUE) /\ y.next_token = x.next_token
        /\ line.rec = "stopped" => y.have_stopped
        /\ x.have_stopped => y.have_stopped
        /\ y.have_result =>
             \/ x.have_result /\ y.result = x.result
             \/ /\ line.rec = "result" /\ x.pending_token # 0 /\ line.token = x.pending_token
                /\ y.result.class = line.class
    <3>1. Recorded(x, line, y)
      BY <2>4, RecordKeeps
    <3>2. QED
      BY <2>5, <3>1 DEF Recorded
  <2>7. Heard(y, real, q, k)
    <3> SUFFICES ASSUME y.have_result, y.result.class # "error", ~ y.have_stopped
                 PROVE  Runs(real, q, k)
      BY DEF Heard
    <3>1. CASE x.have_result /\ y.result = x.result
      <4>1. Runs(real, q, k - 1) /\ line.rec # "stopped"
        BY <2>5, <2>6, <3>1 DEF Heard
      <4>2. ASSUME StopBehind(q, k - 1) PROVE StopBehind(q, k)
        <5>1. PICK j \in DOMAIN q : j > k - 1 /\ q[j].rec = "stopped"
          BY <4>2 DEF StopBehind
        <5>2. j # k
          <6>1. CASE j = k
            BY <2>3, <4>1, <5>1, <6>1
          <6>2. QED
            BY <6>1
        <5>3. j > k
          BY <5>1, <5>2
        <5>4. QED
          BY <5>1, <5>3 DEF StopBehind
      <4>3. QED
        BY <4>1, <4>2 DEF Runs
    <3>2. CASE /\ line.rec = "result" /\ x.pending_token # 0 /\ line.token = x.pending_token
               /\ y.result.class = line.class
      <4>1. line.token = s.next_token - 1
        BY <2>5, <3>2 DEF OwnToken
      <4>2. line.class = "running"
        BY <2>3, <3>2, <4>1 DEF RunLines
      <4>3. QED
        BY <2>3, <4>2 DEF StopsFollow
    <3>3. QED
      BY <2>6, <3>1, <3>2
  <2>8. QED
    BY <2>2, <2>5, <2>6, <2>7
<1> HIDE DEF Good
<1>5. \A k \in 0 .. n : k \in Good
  BY <1>2, <1>3, <1>4, Induction
<1>6. n \in Good
  BY <1>2, <1>5
<1>7. QED
  BY <1>1, <1>2, <1>6 DEF Good

-----------------------------------------------------------------------------
(* The lines on their way: read_buf, then the socket.                      *)

Join(b, n) == b \o n

IsJoin(q, b, n) ==
  /\ q \in Seq(Lines) /\ Len(q) = Len(b) + Len(n)
  /\ \A i \in 1 .. Len(b) : q[i] = b[i]
  /\ \A i \in 1 .. Len(n) : q[Len(b) + i] = n[i]

LEMMA JoinProperties ==
  ASSUME NEW b \in Seq(Lines), NEW n \in Seq(Lines)
  PROVE  IsJoin(Join(b, n), b, n)
BY DEF Join, IsJoin

\* A part of a sequence.
LEMMA PartProperties ==
  ASSUME NEW q \in Seq(Lines), NEW from \in Nat, NEW to \in Nat, from <= to, to <= Len(q),
         NEW p, p = SubSeq(q, from + 1, to)
  PROVE  /\ p \in Seq(Lines) /\ Len(p) = to - from
         /\ \A i \in 1 .. (to - from) : p[i] = q[from + i]
<1>1. \A i \in (from + 1) .. to : q[i] \in Lines
  OBVIOUS
<1>2. /\ p \in Seq(Lines) /\ Len(p) = IF from + 1 <= to THEN to - (from + 1) + 1 ELSE 0
      /\ \A i \in 1 .. (to - (from + 1) + 1) : p[i] = q[from + 1 + i - 1]
  BY <1>1, SubSeqProperties
<1>3. QED
  BY <1>2

\* A least element is one.
LEMMA MinIsLeast ==
  ASSUME NEW S \in SUBSET Nat, S # {}
  PROVE  Min(S) \in S
<1>1. \E x \in S : \A y \in S : x <= y
  BY LeastNatural
<1>2. QED
  BY <1>1 DEF Min

IsSplit(r, lines, last) ==
  r.taken = SubSeq(lines, 1, last) /\ r.rest = SubSeq(lines, last + 1, Len(lines))

\* sm_broker_conn_read takes the first of the lines and keeps the others.
LEMMA ReadSplits ==
  ASSUME NEW lines \in Seq(Lines), NEW wire_id, NEW r, r = sm_broker_conn_read(lines, wire_id)
  PROVE  \E last \in 0 .. Len(lines) : IsSplit(r, lines, last)
<1> DEFINE hits == {i \in DOMAIN lines : Answers(lines[i], wire_id)}
           last == IF hits = {} THEN Len(lines) ELSE Min(hits)
<1>1. DOMAIN lines = 1 .. Len(lines) /\ Len(lines) \in Nat /\ hits \in SUBSET (1 .. Len(lines))
  OBVIOUS
<1>2. r.taken = SubSeq(lines, 1, last) /\ r.rest = SubSeq(lines, last + 1, Len(lines))
  BY DEF sm_broker_conn_read
<1> HIDE DEF hits
<1>3. last \in 0 .. Len(lines)
  <2>1. CASE hits = {}
    BY <1>1, <2>1
  <2>2. CASE hits # {}
    <3>1. Min(hits) \in hits
      BY <1>1, <2>2, MinIsLeast
    <3>2. Min(hits) \in 1 .. Len(lines)
      BY <1>1, <3>1
    <3>3. last = Min(hits)
      BY <2>2
    <3>4. QED
      BY <1>1, <3>2, <3>3
  <2>3. QED
    BY <2>1, <2>2
<1>4. QED
  BY <1>2, <1>3 DEF IsSplit

Pumped(r, n, m, q, p) ==
  /\ r.taken \in Seq(Lines) /\ r.rest \in Seq(Lines) /\ m \in Seq(Lines)
  /\ Len(m) <= Len(n) /\ Len(r.taken) <= Len(q)
  /\ \A i \in 1 .. Len(r.taken) : r.taken[i] = q[i]
  /\ Len(p) = Len(q) - Len(r.taken)
  /\ \A i \in 1 .. Len(p) : p[i] = q[Len(r.taken) + i]

\* One pump takes the first of the lines on their way, in order, and leaves
\* the others.
LEMMA PumpSplits ==
  ASSUME NEW b \in Seq(Lines), NEW n \in Seq(Lines), NEW k \in 1 .. Len(n),
         NEW r, r = sm_broker_conn_read(b \o SubSeq(n, 1, k), NoId),
         NEW m, m = SubSeq(n, k + 1, Len(n)),
         NEW q, q = Join(b, n), NEW p, p = Join(r.rest, m)
  PROVE  Pumped(r, n, m, q, p)
<1>1. PICK x : x = Len(b) /\ x \in Nat
  OBVIOUS
<1>2. PICK y : y = Len(n) /\ y \in Nat
  OBVIOUS
<1>3. x = Len(b) /\ y = Len(n) /\ x \in Nat /\ y \in Nat
  BY <1>1, <1>2
<1>4. PICK h : h = SubSeq(n, 1, k)
  OBVIOUS
<1>5. h \in Seq(Lines) /\ Len(h) = k /\ \A i \in 1 .. k : h[i] = n[i]
  <2>1. h = SubSeq(n, 0 + 1, k)
    BY <1>4
  <2>2. 0 \in Nat /\ k \in Nat /\ 0 <= k /\ k <= Len(n) /\ k - 0 = k
    BY <1>3
  <2>3. h \in Seq(Lines) /\ Len(h) = k - 0 /\ \A i \in 1 .. (k - 0) : h[i] = n[0 + i]
    BY <2>1, <2>2, PartProperties
  <2>4. QED
    BY <2>2, <2>3
<1>6. m \in Seq(Lines) /\ Len(m) = y - k /\ \A i \in 1 .. (y - k) : m[i] = n[k + i]
  <2>1. y \in Nat /\ k \in Nat /\ k <= y /\ y <= Len(n) /\ m = SubSeq(n, k + 1, y)
    BY <1>3
  <2>2. QED
    BY <2>1, PartProperties
<1>7. PICK l : l = Join(b, h)
  OBVIOUS
<1>8. /\ l \in Seq(Lines) /\ Len(l) = x + k
      /\ \A i \in 1 .. x : l[i] = b[i]
      /\ \A i \in 1 .. k : l[x + i] = n[i]
  <2>1. /\ l \in Seq(Lines) /\ Len(l) = Len(b) + Len(h)
        /\ \A i \in 1 .. Len(b) : l[i] = b[i]
        /\ \A i \in 1 .. Len(h) : l[Len(b) + i] = h[i]
    <3>1. IsJoin(l, b, h)
      BY <1>5, <1>7, JoinProperties
    <3>2. QED
      BY <3>1 DEF IsJoin
  <2>2. QED
    BY <1>3, <1>5, <2>1
<1>9. r = sm_broker_conn_read(l, NoId)
  BY <1>4, <1>7 DEF Join
<1>10. PICK last \in 0 .. Len(l) : IsSplit(r, l, last)
  BY <1>8, <1>9, ReadSplits
<1>11. r.taken = SubSeq(l, 1, last) /\ r.rest = SubSeq(l, last + 1, Len(l))
  BY <1>10 DEF IsSplit
<1>12. last \in Nat /\ last <= x + k /\ k \in Nat /\ k <= y
  BY <1>3, <1>8, <1>11
<1>13. PICK t : t = r.taken
  OBVIOUS
<1>14. t \in Seq(Lines) /\ Len(t) = last /\ \A i \in 1 .. last : t[i] = l[i]
  <2>1. t = SubSeq(l, 0 + 1, last)
    BY <1>11, <1>13
  <2>2. 0 \in Nat /\ 0 <= last /\ last <= Len(l) /\ last - 0 = last
    BY <1>8, <1>12
  <2>3. t \in Seq(Lines) /\ Len(t) = last - 0 /\ \A i \in 1 .. (last - 0) : t[i] = l[0 + i]
    BY <1>8, <1>12, <2>1, <2>2, PartProperties
  <2>4. QED
    BY <2>2, <2>3
<1>15. PICK u : u = r.rest
  OBVIOUS
<1>16. u \in Seq(Lines) /\ Len(u) = (x + k) - last /\ \A i \in 1 .. ((x + k) - last) : u[i] = l[last + i]
  <2>1. PICK e : e = x + k
    OBVIOUS
  <2>2. e \in Nat /\ last \in Nat /\ last <= e /\ e <= Len(l)
    BY <1>3, <1>8, <1>12, <2>1
  <2>3. u = SubSeq(l, last + 1, e)
    BY <1>8, <1>11, <1>15, <2>1
  <2>4. u \in Seq(Lines) /\ Len(u) = e - last /\ \A i \in 1 .. (e - last) : u[i] = l[last + i]
    BY <1>8, <2>2, <2>3, PartProperties
  <2>5. QED
    BY <2>1, <2>4
<1>17. /\ q \in Seq(Lines) /\ Len(q) = x + y
       /\ \A i \in 1 .. x : q[i] = b[i]
       /\ \A i \in 1 .. y : q[x + i] = n[i]
  <2>1. /\ q \in Seq(Lines) /\ Len(q) = Len(b) + Len(n)
        /\ \A i \in 1 .. Len(b) : q[i] = b[i]
        /\ \A i \in 1 .. Len(n) : q[Len(b) + i] = n[i]
    <3>1. IsJoin(q, b, n)
      BY JoinProperties
    <3>2. QED
      BY <3>1 DEF IsJoin
  <2>2. QED
    BY <1>3, <2>1
<1>18. /\ p \in Seq(Lines) /\ Len(p) = Len(u) + Len(m)
       /\ \A i \in 1 .. Len(u) : p[i] = u[i]
       /\ \A i \in 1 .. Len(m) : p[Len(u) + i] = m[i]
  <2>1. p = Join(u, m) /\ u \in Seq(Lines) /\ m \in Seq(Lines)
    BY <1>6, <1>15, <1>16
  <2>2. IsJoin(p, u, m)
    BY <2>1, JoinProperties
  <2>3. QED
    BY <2>2 DEF IsJoin
<1>19. Len(p) = (x + y) - last
  <2>1. x \in Nat /\ y \in Nat /\ last \in Nat /\ k \in Nat
    BY <1>3, <1>12
  <2>2. PICK v : v = (x + k) - last
    OBVIOUS
  <2>3. PICK w : w = y - k
    OBVIOUS
  <2>4. Len(p) = v + w
    BY <1>6, <1>16, <1>18, <2>2, <2>3
  <2>5. v + w = (x + y) - last
    BY <2>1, <2>2, <2>3
  <2>6. QED
    BY <2>4, <2>5
<1>20. ASSUME NEW i \in 1 .. (x + k) PROVE l[i] = q[i]
  <2>1. CASE i <= x
    BY <1>3, <1>8, <1>17, <2>1
  <2>2. CASE i > x
    <3>1. PICK j : j = i - x
      OBVIOUS
    <3>2. j \in 1 .. k /\ j \in 1 .. y /\ i = x + j
      BY <1>3, <1>12, <2>2, <3>1
    <3>3. QED
      BY <1>8, <1>17, <3>2
  <2>3. QED
    BY <1>3, <2>1, <2>2
<1>21. ASSUME NEW i \in 1 .. Len(p) PROVE p[i] = q[last + i]
  <2>1. Len(p) = (x + y) - last
    BY <1>19
  <2>2. CASE i <= (x + k) - last
    <3>1. p[i] = u[i] /\ u[i] = l[last + i] /\ last + i \in 1 .. (x + k)
      BY <1>3, <1>12, <1>16, <1>18, <2>1, <2>2
    <3>2. QED
      BY <1>20, <3>1
  <2>3. CASE i > (x + k) - last
    <3>1. PICK j : j = i - ((x + k) - last)
      OBVIOUS
    <3>2. j \in 1 .. (y - k) /\ i = ((x + k) - last) + j /\ last + i = x + (k + j) /\ k + j \in 1 .. y
      BY <1>3, <1>12, <2>1, <2>3, <3>1
    <3>3. p[i] = m[j]
      BY <1>6, <1>16, <1>18, <3>2
    <3>4. m[j] = n[k + j]
      BY <1>6, <3>2
    <3>5. q[last + i] = n[k + j]
      BY <1>17, <3>2
    <3>6. QED
      BY <3>3, <3>4, <3>5
  <2>4. QED
    BY <1>3, <1>12, <2>1, <2>2, <2>3
<1>22. Len(p) = Len(q) - last /\ last <= Len(q) /\ Len(m) <= Len(n)
  BY <1>3, <1>6, <1>12, <1>17, <1>19
<1>23. ASSUME NEW i \in 1 .. last PROVE t[i] = q[i]
  <2>1. i \in 1 .. (x + k)
    BY <1>3, <1>12
  <2>2. QED
    BY <1>14, <1>20, <2>1
<1>24. QED
  BY <1>6, <1>13, <1>14, <1>15, <1>16, <1>21, <1>22, <1>23 DEF Pumped

\* One line comes in at the end.
LEMMA JoinAppends ==
  ASSUME NEW b \in Seq(Lines), NEW n \in Seq(Lines), NEW line \in Lines,
         NEW q, q = Join(b, n), NEW p, p = Join(b, Append(n, line))
  PROVE  /\ q \in Seq(Lines) /\ p \in Seq(Lines) /\ Len(p) = Len(q) + 1
         /\ \A i \in 1 .. Len(q) : p[i] = q[i]
         /\ p[Len(q) + 1] = line
<1>1. PICK m : m = Append(n, line)
  OBVIOUS
<1>2. /\ m \in Seq(Lines) /\ Len(m) = Len(n) + 1 /\ m[Len(n) + 1] = line
      /\ \A i \in 1 .. Len(n) : m[i] = n[i]
  BY <1>1
<1>3. IsJoin(q, b, n) /\ IsJoin(p, b, m)
  BY <1>1, <1>2, JoinProperties
<1>4. PICK x : x = Len(b) /\ x \in Nat
  OBVIOUS
<1>5. PICK y : y = Len(n) /\ y \in Nat
  OBVIOUS
<1>6. /\ Len(q) = x + y /\ Len(p) = x + (y + 1)
      /\ \A i \in 1 .. x : q[i] = b[i] /\ p[i] = b[i]
      /\ \A i \in 1 .. y : q[x + i] = n[i]
      /\ \A i \in 1 .. (y + 1) : p[x + i] = m[i]
  BY <1>2, <1>3, <1>4, <1>5 DEF IsJoin
<1>7. ASSUME NEW i \in 1 .. (x + y) PROVE p[i] = q[i]
  <2>1. CASE i <= x
    BY <1>6, <2>1
  <2>2. CASE i > x
    <3>1. PICK j : j = i - x
      OBVIOUS
    <3>2. j \in 1 .. y /\ j \in 1 .. (y + 1) /\ i = x + j
      BY <1>4, <1>5, <2>2, <3>1
    <3>3. QED
      BY <1>2, <1>5, <1>6, <3>2
  <2>3. QED
    BY <1>4, <2>1, <2>2
<1>8. p[(x + y) + 1] = line
  <2>1. y + 1 \in 1 .. (y + 1) /\ (x + y) + 1 = x + (y + 1)
    BY <1>4, <1>5
  <2>2. QED
    BY <1>2, <1>5, <1>6, <2>1
<1>9. Len(p) = (x + y) + 1
  BY <1>4, <1>5, <1>6
<1>10. QED
  BY <1>3, <1>6, <1>7, <1>8, <1>9 DEF IsJoin

\* A line that says nothing of a running target leaves the promises of the
\* others; a *stopped keeps them all.
LEMMA AppendFollows ==
  ASSUME NEW b \in Seq(Lines), NEW n \in Seq(Lines), NEW line \in Lines,
         NEW q, q = Join(b, n), NEW p, p = Join(b, Append(n, line)),
         NEW real, NEW now, now = real \/ line.rec = "stopped",
         "running" \notin {line.rec, line.class}, StopsFollow(q, real)
  PROVE  /\ StopsFollow(p, now)
         /\ Runs(real, q, 0) => Runs(now, p, 0)
<1>1. /\ q \in Seq(Lines) /\ p \in Seq(Lines) /\ Len(p) = Len(q) + 1
      /\ \A i \in 1 .. Len(q) : p[i] = q[i]
      /\ p[Len(q) + 1] = line
  BY JoinAppends
<1>2. DOMAIN q = 1 .. Len(q) /\ DOMAIN p = 1 .. (Len(q) + 1) /\ Len(q) \in Nat
  BY <1>1
<1>3. ASSUME NEW k \in 0 .. Len(q), Runs(real, q, k)
      PROVE  Runs(now, p, k)
  <2>1. CASE line.rec = "stopped"
    <3>1. Len(q) + 1 \in DOMAIN p /\ Len(q) + 1 > k /\ p[Len(q) + 1].rec = "stopped"
      BY <1>1, <1>2, <2>1
    <3>2. QED
      BY <3>1 DEF StopBehind, Runs
  <2>2. CASE now = real /\ StopBehind(q, k)
    BY <1>1, <1>2, <2>2 DEF StopBehind, Runs
  <2>3. QED
    BY <1>3, <2>1, <2>2 DEF Runs
<1>4. ASSUME NEW i \in DOMAIN p, "running" \in {p[i].rec, p[i].class}
      PROVE  Runs(now, p, i)
  <2>1. i \in 1 .. Len(q)
    BY <1>1, <1>2, <1>4
  <2>2. Runs(real, q, i)
    BY <1>1, <1>2, <1>4, <2>1 DEF StopsFollow
  <2>3. i \in 0 .. Len(q)
    BY <1>2, <2>1
  <2>4. QED
    BY <1>3, <2>2, <2>3
<1>5. 0 \in 0 .. Len(q)
  BY <1>2
<1>6. QED
  BY <1>3, <1>4, <1>5 DEF StopsFollow

\* What is left of the lines keeps its promises.
LEMMA RestFollows ==
  ASSUME NEW q \in Seq(Lines), NEW p \in Seq(Lines), NEW last \in Nat, last <= Len(q),
         Len(p) = Len(q) - last, \A i \in 1 .. Len(p) : p[i] = q[last + i],
         NEW real, StopsFollow(q, real)
  PROVE  /\ StopsFollow(p, real)
         /\ Runs(real, q, last) => Runs(real, p, 0)
<1>1. PICK n : n = Len(q) /\ n \in Nat
  OBVIOUS
<1>2. DOMAIN q = 1 .. n /\ DOMAIN p = 1 .. (n - last)
  BY <1>1
<1>3. ASSUME NEW k \in Nat, StopBehind(q, last + k) PROVE StopBehind(p, k)
  <2>1. PICK j \in DOMAIN q : j > last + k /\ q[j].rec = "stopped"
    BY <1>3 DEF StopBehind
  <2>2. j - last \in DOMAIN p /\ j - last > k /\ last + (j - last) = j
    BY <1>1, <1>2, <2>1
  <2>3. p[j - last] = q[j]
    BY <1>1, <1>2, <2>2
  <2>4. QED
    BY <2>1, <2>2, <2>3 DEF StopBehind
<1>4. ASSUME NEW i \in DOMAIN p, "running" \in {p[i].rec, p[i].class}
      PROVE  Runs(real, p, i)
  <2>1. p[i] = q[last + i] /\ last + i \in DOMAIN q /\ i \in Nat
    BY <1>1, <1>2
  <2>2. Runs(real, q, last + i)
    BY <1>4, <2>1 DEF StopsFollow
  <2>3. QED
    BY <1>3, <2>1, <2>2 DEF Runs
<1>5. ASSUME StopBehind(q, last) PROVE StopBehind(p, 0)
  <2>1. last = last + 0
    OBVIOUS
  <2>2. QED
    BY <1>3, <1>5, <2>1
<1>6. QED
  BY <1>4, <1>5 DEF StopsFollow, Runs

\* No token is in the lines that was not handed out.
OldLines(q, next) == \A i \in DOMAIN q : q[i].token < next

\* A line comes in, and lines are left: what holds of all of them still does.
LEMMA AppendTokens ==
  ASSUME NEW b \in Seq(Lines), NEW n \in Seq(Lines), NEW line \in Lines,
         NEW q, q = Join(b, n), NEW p, p = Join(b, Append(n, line)),
         NEW next \in Nat, OldLines(q, next), line.token < next
  PROVE  /\ OldLines(p, next)
         /\ RunLines(q, next - 1) /\ (line.rec = "result" /\ line.token = next - 1 =>
                                        line.class \in {"running", "error"})
              => RunLines(p, next - 1)
<1>1. /\ q \in Seq(Lines) /\ p \in Seq(Lines) /\ Len(p) = Len(q) + 1
      /\ \A i \in 1 .. Len(q) : p[i] = q[i]
      /\ p[Len(q) + 1] = line
  BY JoinAppends
<1>2. DOMAIN q = 1 .. Len(q) /\ DOMAIN p = 1 .. (Len(q) + 1) /\ Len(q) \in Nat
  BY <1>1
<1>3. ASSUME NEW i \in DOMAIN p PROVE p[i] = line \/ (i \in DOMAIN q /\ p[i] = q[i])
  BY <1>1, <1>2
<1>4. OldLines(p, next)
  BY <1>3 DEF OldLines
<1>5. QED
  BY <1>3, <1>4 DEF RunLines

LEMMA RestTokens ==
  ASSUME NEW q \in Seq(Lines), NEW p \in Seq(Lines), NEW last \in Nat, last <= Len(q),
         Len(p) = Len(q) - last, \A i \in 1 .. Len(p) : p[i] = q[last + i], NEW next
  PROVE  /\ OldLines(q, next) => OldLines(p, next)
         /\ RunLines(q, next - 1) => RunLines(p, next - 1)
<1>1. ASSUME NEW i \in DOMAIN p PROVE \E j \in DOMAIN q : p[i] = q[j]
  <2>1. last + i \in DOMAIN q /\ p[i] = q[last + i]
    OBVIOUS
  <2>2. QED
    BY <2>1
<1>2. OldLines(q, next) => OldLines(p, next)
  BY <1>1 DEF OldLines
<1>3. RunLines(q, next - 1) => RunLines(p, next - 1)
  BY <1>1 DEF RunLines
<1>4. QED
  BY <1>2, <1>3

-----------------------------------------------------------------------------
(* The inductive invariant.                                                *)

Steps == [mi : Kinds, need : Needs]
Finals == {"none", "halted", "continued", "wait"}
Calls == [script : Seq(Steps), finally : Finals]
Commands == [token : Nat, mi : Kinds]

\* What the variables hold; a command is sent or awaited for a step of the
\* script.
DataOK ==
  /\ g \in States /\ call \in Calls /\ queue \in Seq(Commands)
  /\ count \in [calls : Nat, refusals : Nat]
  /\ pc \in {"send", "await"} => call.script # <<>>

\* The token in flight is the last one given out.
TokensTrue == OwnToken(g, pc = "await")

\* A *running that is on the way is true, or a *stopped is behind it.
StopsBehind == StopsFollow(Join(buf, net), target)

\* What is believed because gdb said so is true, or a stop is on the way.
Believed == TrueAt(g, target, Join(buf, net), 0)

\* What is left of a reset that lets the target run.
RunScripts == {<<Must("monitor"), Try("query"), Must("run")>>, <<Try("query"), Must("run")>>, <<Must("run")>>}

\* Only such a reset claims to have set the target running, when its last
\* command is through.
ContinuesLast == call.finally = "continued" => call.script \in RunScripts

\* gdb answers only what it was asked.
OldCommands(cmds, next) == \A i \in DOMAIN cmds : cmds[i].token < next
TokensOld == OldLines(Join(buf, net), g.next_token) /\ OldCommands(queue, g.next_token)

\* The command with this token resumes the target.
RunCommands(cmds, token) == \A i \in DOMAIN cmds : cmds[i].token = token => cmds[i].mi = "run"

\* While the command that resumes the target is awaited, its result says so
\* or is an error, and once it is read the target runs or its stop is read or
\* on the way.
RunAnswered ==
  pc = "await" /\ Head(call.script).mi = "run" =>
    /\ RunLines(Join(buf, net), g.next_token - 1)
    /\ RunCommands(queue, g.next_token - 1)
    /\ Heard(g, target, Join(buf, net), 0)

IInv ==
  /\ TypeOK /\ DataOK /\ TokensTrue /\ StopsBehind /\ Believed
  /\ ContinuesLast /\ TokensOld /\ RunAnswered

-----------------------------------------------------------------------------
(* The tools.                                                              *)

LEMMA StepTypes ==
  ASSUME NEW mi \in Kinds
  PROVE  Must(mi) \in Steps /\ Try(mi) \in Steps /\ Ends(mi) \in Steps /\ Gate(mi) \in Steps
BY DEF Steps, Needs, Must, Try, Ends, Gate

LEMMA PlainTypes ==
  ASSUME NEW script \in Seq(Steps), NEW c, c = Plain(script)
  PROVE  c \in Calls /\ c.finally = "none"
BY DEF Plain, Calls, Finals

\* What dispatch_tool offers are calls, and only a reset that lets the
\* target run claims to have set it running.
LEMMA ToolTypes ==
  ASSUME NEW c \in dispatch_tool
  PROVE  c \in Calls /\ (c.finally = "continued" => c.script \in RunScripts)
<1>1. "query" \in Kinds /\ "run" \in Kinds /\ "interrupt" \in Kinds /\ "monitor" \in Kinds
  BY DEF Kinds
<1>2. PICK mq : mq = Must("query") /\ mq \in Steps
  BY <1>1, StepTypes
<1>3. PICK tq : tq = Try("query") /\ tq \in Steps
  BY <1>1, StepTypes
<1>4. PICK gq : gq = Gate("query") /\ gq \in Steps
  BY <1>1, StepTypes
<1>5. PICK eq : eq = Ends("query") /\ eq \in Steps
  BY <1>1, StepTypes
<1>6. PICK mr : mr = Must("run") /\ mr \in Steps
  BY <1>1, StepTypes
<1>7. PICK mi : mi = Must("interrupt") /\ mi \in Steps
  BY <1>1, StepTypes
<1>8. PICK mm : mm = Must("monitor") /\ mm \in Steps
  BY <1>1, StepTypes
<1>9. /\ <<>> \in Seq(Steps) /\ <<mq>> \in Seq(Steps) /\ <<mr>> \in Seq(Steps) /\ <<mi>> \in Seq(Steps)
      /\ <<mq, tq>> \in Seq(Steps) /\ <<gq, mq>> \in Seq(Steps) /\ <<tq, mq>> \in Seq(Steps)
      /\ <<tq, tq>> \in Seq(Steps) /\ <<mm, tq>> \in Seq(Steps) /\ <<mm, tq, mr>> \in Seq(Steps)
  BY <1>2, <1>3, <1>4, <1>6, <1>7, <1>8
<1>10. <<tq, tq, eq, eq, gq, tq, tq>> \in Seq(Steps)
  BY <1>3, <1>4, <1>5
<1>11. CASE c \in tool_reset
  <2>1. PICK mode \in {"halt", "init", "run"} :
          c = [script |-> IF mode = "run" THEN <<mm, tq, mr>> ELSE <<mm, tq>>,
               finally |-> IF mode = "run" THEN "continued" ELSE "halted"]
    BY <1>3, <1>6, <1>8, <1>11 DEF tool_reset, gdb_flush_register_cache
  <2>2. PICK s : s = IF mode = "run" THEN <<mm, tq, mr>> ELSE <<mm, tq>>
    OBVIOUS
  <2>3. s \in Seq(Steps)
    BY <1>9, <2>2
  <2>4. /\ c.finally = (IF mode = "run" THEN "continued" ELSE "halted") /\ c.script = s
        /\ c \in Calls
    BY <2>1, <2>2, <2>3 DEF Calls, Finals
  <2>5. <<mm, tq, mr>> \in RunScripts
    BY <1>3, <1>6, <1>8 DEF RunScripts
  <2>6. QED
    BY <2>2, <2>4, <2>5
<1>12. CASE c \in tool_wait_stop
  <2>1. c = [script |-> <<>>, finally |-> "wait"]
    BY <1>12 DEF tool_wait_stop
  <2>2. QED
    BY <1>9, <2>1 DEF Calls, Finals
<1>13. CASE \E script \in Seq(Steps) : c = Plain(script)
  <2>1. c \in Calls /\ c.finally = "none"
    BY <1>13, PlainTypes
  <2>2. QED
    BY <2>1
<1>14. c \in tool_command => \E script \in Seq(Steps) : c = Plain(script)
  <2>1. \A k \in Kinds : <<Try(k)>> \in Seq(Steps)
    <3>1. \A s \in Steps : <<s>> \in Seq(Steps)
      OBVIOUS
    <3>2. QED
      BY <3>1, StepTypes
  <2>2. QED
    BY <1>9, <2>1 DEF tool_command
<1>15. c \in tool_identify_target \cup tool_generate_profile => \E script \in Seq(Steps) : c = Plain(script)
  BY <1>3, <1>4, <1>5, <1>10 DEF tool_identify_target, tool_generate_profile, identify_findings
<1>16. c \in UNION {tool_launch, tool_breakpoint, tool_delete_breakpoint, tool_continue, tool_interrupt,
                    tool_step, tool_backtrace, tool_read_registers}
         => \E script \in Seq(Steps) : c = Plain(script)
  BY <1>2, <1>3, <1>4, <1>6, <1>7, <1>9
     DEF tool_launch, tool_breakpoint, tool_delete_breakpoint, tool_continue, tool_interrupt,
         tool_step, tool_backtrace, tool_read_registers
<1>17. c \in UNION {tool_read_memory, tool_evaluate, tool_threads, tool_load, tool_status,
                    tool_console_output, tool_read_fault_registers, tool_read_peripheral}
         => \E script \in Seq(Steps) : c = Plain(script)
  BY <1>2, <1>3, <1>9
     DEF tool_read_memory, tool_evaluate, tool_threads, tool_load, tool_status,
         tool_console_output, tool_read_fault_registers, tool_read_peripheral
<1>18. \/ c \in tool_reset \/ c \in tool_wait_stop \/ c \in tool_command
       \/ c \in tool_identify_target \cup tool_generate_profile
       \/ c \in UNION {tool_launch, tool_breakpoint, tool_delete_breakpoint, tool_continue, tool_interrupt,
                       tool_step, tool_backtrace, tool_read_registers}
       \/ c \in UNION {tool_read_memory, tool_evaluate, tool_threads, tool_load, tool_status,
                       tool_console_output, tool_read_fault_registers, tool_read_peripheral}
  BY DEF dispatch_tool
<1>19. c \in tool_reset \/ c \in tool_wait_stop \/ \E script \in Seq(Steps) : c = Plain(script)
  BY <1>14, <1>15, <1>16, <1>17, <1>18
<1>20. QED
  BY <1>11, <1>12, <1>13, <1>19

-----------------------------------------------------------------------------
(* The steps of a call.                                                    *)

\* What a tool leaves behind.
Finished(s, finally, z) ==
  /\ z \in States /\ OwnToken(z, FALSE) /\ z.next_token = s.next_token
  /\ Believes(z) => Believes(s) \/ (finally = "continued" /\ ~ s.have_stopped)

LEMMA FinishKeeps ==
  ASSUME NEW s \in States, NEW finally, OwnToken(s, FALSE)
  PROVE  Finished(s, finally, Finish(s, finally))
<1> DEFINE z == Finish(s, finally)
<1> SUFFICES Finished(s, finally, z)
  OBVIOUS
<1>1. CASE finally = "halted"
  <2>1. z = [s EXCEPT !.target_running = FALSE, !.have_stopped = TRUE, !.overridden = FALSE]
    BY <1>1 DEF Finish
  <2> HIDE DEF z
  <2>2. z \in States /\ ~ z.target_running
    BY <2>1 DEF States
  <2>3. /\ z.result = s.result /\ z.have_result = s.have_result /\ z.pending_token = s.pending_token
        /\ z.next_token = s.next_token
    BY <2>1 DEF States
  <2>4. QED
    BY <2>2, <2>3 DEF OwnToken, Finished, Believes
<1>2. CASE finally = "continued"
  <2>1. z = [s EXCEPT !.target_running = TRUE, !.have_stopped = FALSE, !.overridden = s.have_stopped]
    BY <1>2 DEF Finish
  <2> HIDE DEF z
  <2>2. z \in States /\ z.overridden = s.have_stopped
    BY <2>1 DEF States
  <2>3. /\ z.result = s.result /\ z.have_result = s.have_result /\ z.pending_token = s.pending_token
        /\ z.next_token = s.next_token
    BY <2>1 DEF States
  <2>4. QED
    BY <1>2, <2>2, <2>3 DEF OwnToken, Finished, Believes
<1>3. CASE finally \notin {"halted", "continued"}
  BY <1>3 DEF Finish, Finished
<1>4. QED
  BY <1>1, <1>2, <1>3

\* What holds once a call has gone on with the script rest or ended: nothing
\* is in flight.
WentOn(s, rest, finally) ==
  /\ g' \in States /\ call' \in Calls /\ OwnToken(g', FALSE) /\ g'.next_token = s.next_token
  /\ pc' \in {"idle", "send", "stop"} /\ (pc' = "send" => call'.script # <<>>)
  /\ call'.finally = "continued" => finally = "continued" /\ rest # <<>> /\ call'.script = rest
  /\ Believes(g') => Believes(s) \/ (finally = "continued" /\ rest = <<>> /\ ~ s.have_stopped)

LEMMA GoOnKeeps ==
  ASSUME NEW s \in States, OwnToken(s, FALSE), NEW rest \in Seq(Steps), NEW finally \in Finals,
         GoOn(s, rest, finally)
  PROVE  WentOn(s, rest, finally)
<1>1. PICK f : f = IF rest = <<>> /\ finally # "wait" THEN "none" ELSE finally
  OBVIOUS
<1>2. f \in Finals /\ (f = "continued" => finally = "continued" /\ rest # <<>>)
  BY <1>1 DEF Finals
<1>3. call' = [script |-> rest, finally |-> f]
  BY <1>1 DEF GoOn
<1>4. call' \in Calls /\ call'.script = rest /\ call'.finally = f
  BY <1>2, <1>3 DEF Calls
<1>5. CASE rest # <<>>
  <2>1. g' = s /\ pc' = "send"
    BY <1>5 DEF GoOn
  <2>2. QED
    BY <1>2, <1>4, <1>5, <2>1 DEF WentOn
<1>6. CASE rest = <<>> /\ finally = "wait"
  <2>1. g' = s /\ pc' = "stop"
    BY <1>6 DEF GoOn
  <2>2. QED
    BY <1>2, <1>4, <2>1 DEF WentOn
<1>7. CASE rest = <<>> /\ finally # "wait"
  <2>1. g' = Finish(s, finally) /\ pc' = "idle"
    BY <1>7 DEF GoOn
  <2>2. PICK z : z = Finish(s, finally)
    OBVIOUS
  <2>3. /\ z \in States /\ OwnToken(z, FALSE) /\ z.next_token = s.next_token
        /\ Believes(z) => Believes(s) \/ (finally = "continued" /\ ~ s.have_stopped)
    <3>1. Finished(s, finally, z)
      BY <2>2, FinishKeeps
    <3>2. QED
      BY <3>1 DEF Finished
  <2>4. g' = z
    BY <2>1, <2>2
  <2>5. QED
    BY <1>2, <1>4, <1>7, <2>1, <2>3, <2>4 DEF WentOn
<1>8. QED
  BY <1>5, <1>6, <1>7

\* A step is over: the call goes on, which after a failed step that the tool
\* needs it does not, or it ends.
LEMMA StepDoneKeeps ==
  ASSUME NEW s \in States, OwnToken(s, FALSE), call \in Calls, call.script # <<>>,
         NEW ok \in BOOLEAN, StepDone(s, ok)
  PROVE  \/ WentOn(s, Tail(call.script), call.finally) /\ (Head(call.script).need = "must" => ok)
         \/ WentOn(s, <<>>, "none")
<1>1. PICK rest : rest = Tail(call.script)
  OBVIOUS
<1>2. PICK step : step = Head(call.script)
  OBVIOUS
<1>3. rest \in Seq(Steps) /\ step \in Steps /\ call.finally \in Finals /\ step.need \in Needs
  <2>1. call.script \in Seq(Steps)
    BY DEF Calls
  <2>2. rest \in Seq(Steps) /\ step \in Steps /\ call.finally \in Finals
    BY <1>1, <1>2, <2>1 DEF Calls
  <2>3. QED
    BY <2>2 DEF Steps
<1>4. CASE GoOn(s, rest, call.finally) /\ (step.need = "must" => ok)
  <2>1. WentOn(s, rest, call.finally)
    BY <1>3, <1>4, GoOnKeeps
  <2>2. QED
    BY <1>1, <1>2, <1>4, <2>1
<1>5. CASE GoOn(s, <<>>, "none")
  <2>1. <<>> \in Seq(Steps) /\ "none" \in Finals
    BY DEF Finals
  <2>2. WentOn(s, <<>>, "none")
    BY <1>5, <2>1, GoOnKeeps
  <2>3. QED
    BY <2>2
<1>6. (GoOn(s, rest, call.finally) /\ (step.need = "must" => ok)) \/ GoOn(s, <<>>, "none")
  BY <1>1, <1>2, <1>3 DEF StepDone, Needs
<1>7. QED
  BY <1>4, <1>5, <1>6

\* A reset that lets the target run goes on: its last command is the one that
\* does, and the tool needs it.
LEMMA RunTails ==
  ASSUME NEW script \in RunScripts
  PROVE  /\ Tail(script) # <<>> => Tail(script) \in RunScripts
         /\ Tail(script) = <<>> => Head(script).need = "must" /\ Head(script).mi = "run"
<1>1. PICK m : m = Must("monitor")
  OBVIOUS
<1>2. PICK f : f = Try("query")
  OBVIOUS
<1>3. PICK r : r = Must("run") /\ r.need = "must" /\ r.mi = "run"
  <2>1. PICK r : r = Must("run")
    OBVIOUS
  <2>2. r.need = "must" /\ r.mi = "run"
    BY <2>1 DEF Must
  <2>3. QED
    BY <2>1, <2>2
<1>4. RunScripts = {<<m, f, r>>, <<f, r>>, <<r>>}
  BY <1>1, <1>2, <1>3 DEF RunScripts
<1>5. CASE script = <<m, f, r>>
  <2>1. Tail(script) = <<f, r>> /\ <<f, r>> # <<>>
    BY <1>5
  <2>2. QED
    BY <1>4, <2>1
<1>6. CASE script = <<f, r>>
  <2>1. Tail(script) = <<r>> /\ <<r>> # <<>>
    BY <1>6
  <2>2. QED
    BY <1>4, <2>1
<1>7. CASE script = <<r>>
  <2>1. Tail(script) = <<>> /\ Head(script) = r
    BY <1>7
  <2>2. QED
    BY <1>3, <2>1
<1>8. QED
  BY <1>4, <1>5, <1>6, <1>7

\* When nothing more is on its way than before, a call that goes on keeps
\* the invariant.
LEMMA WentOnKeeps ==
  ASSUME IInv, NEW s \in States, NEW rest, NEW finally, WentOn(s, rest, finally),
         s.next_token >= g.next_token, Believes(s) = Believes(g), s.have_stopped = g.have_stopped,
         finally = "continued" /\ rest # <<>> => rest \in RunScripts,
         finally = "continued" /\ rest = <<>> => g.have_stopped \/ Runs(target, Join(buf, net), 0),
         count' \in [calls : Nat, refusals : Nat],
         UNCHANGED <<buf, net, queue, target>>
  PROVE  IInv'
<1>1. /\ g' \in States /\ OwnToken(g', FALSE) /\ g'.next_token \in Nat \ {0} /\ g'.pending_token = 0
      /\ g'.next_token = s.next_token
  <2>1. g' \in States /\ OwnToken(g', FALSE) /\ g'.next_token = s.next_token
    BY DEF WentOn
  <2>2. QED
    BY <2>1 DEF States, OwnToken
<1>2. pc' # "await" /\ pc' \in {"idle", "send", "stop"}
  BY DEF WentOn
<1>3. TypeOK'
  BY <1>1, <1>2 DEF IInv, TypeOK
<1>4. DataOK'
  BY <1>1, <1>2 DEF IInv, DataOK, WentOn
<1>5. TokensTrue'
  <2>1. (pc = "await")' = FALSE
    BY <1>2
  <2>2. QED
    BY <1>1, <2>1 DEF TokensTrue
<1>6. StopsBehind'
  BY DEF IInv, StopsBehind
<1>7. Believed'
  <2>1. Believes(g') => Runs(target, Join(buf, net), 0)
    BY DEF WentOn, IInv, Believed, TrueAt
  <2>2. Join(buf, net)' = Join(buf, net) /\ target' = target
    OBVIOUS
  <2>3. QED
    BY <2>1, <2>2 DEF Believed, TrueAt
<1>8. ContinuesLast'
  BY DEF WentOn, ContinuesLast
<1>9. TokensOld'
  <2>1. PICK q : q = Join(buf, net)
    OBVIOUS
  <2>2. q \in Seq(Lines) /\ queue \in Seq(Commands)
    <3>1. buf \in Seq(Lines) /\ net \in Seq(Lines) /\ queue \in Seq(Commands)
      BY DEF IInv, TypeOK, DataOK
    <3>2. QED
      BY <2>1, <3>1, JoinProperties DEF IsJoin
  <2>3. PICK old \in Nat : old = g.next_token
    BY DEF IInv, TypeOK
  <2>4. PICK next \in Nat : next = g'.next_token /\ next >= old
    BY <1>1, <2>3
  <2>5. ASSUME NEW i \in DOMAIN q PROVE q[i].token \in Nat /\ q[i].token < old
    <3>1. q[i] \in Lines
      BY <2>2
    <3>2. q[i].token \in Nat
      BY <3>1 DEF Lines
    <3>3. OldLines(q, old)
      BY <2>1, <2>3 DEF IInv, TokensOld
    <3>4. QED
      BY <3>2, <3>3 DEF OldLines
  <2>6. ASSUME NEW i \in DOMAIN queue PROVE queue[i].token \in Nat /\ queue[i].token < old
    <3>1. queue[i] \in Commands
      BY <2>2
    <3>2. queue[i].token \in Nat
      BY <3>1 DEF Commands
    <3>3. OldCommands(queue, old)
      BY <2>3 DEF IInv, TokensOld
    <3>4. QED
      BY <3>2, <3>3 DEF OldCommands
  <2>7. OldLines(q, next) /\ OldCommands(queue, next)
    BY <2>3, <2>4, <2>5, <2>6 DEF OldLines, OldCommands
  <2>8. Join(buf, net)' = q /\ queue' = queue
    BY <2>1
  <2>9. QED
    BY <2>4, <2>7, <2>8 DEF TokensOld
<1>10. RunAnswered'
  BY <1>2 DEF RunAnswered
<1>11. QED
  BY <1>3, <1>4, <1>5, <1>6, <1>7, <1>8, <1>9, <1>10 DEF IInv

-----------------------------------------------------------------------------
(* One lemma per action: it keeps the invariant.                           *)

LEMMA CallKeeps == ASSUME IInv, handle_tools_call PROVE IInv'
<1>1. PICK c \in dispatch_tool : GoOn(g, c.script, c.finally)
  BY DEF handle_tools_call
<1>2. c \in Calls /\ (c.finally = "continued" => c.script \in RunScripts)
  BY ToolTypes
<1>3. c.script \in Seq(Steps) /\ c.finally \in Finals
  BY <1>2 DEF Calls
<1>4. g \in States /\ OwnToken(g, FALSE) /\ g.next_token >= g.next_token
  <2>1. (pc = "await") = FALSE
    BY DEF handle_tools_call
  <2>2. g \in States /\ OwnToken(g, FALSE)
    BY <2>1 DEF IInv, DataOK, TokensTrue
  <2>3. PICK n : n = g.next_token /\ n \in Nat
    BY <2>2 DEF States
  <2>4. n >= n
    BY <2>3
  <2>5. QED
    BY <2>2, <2>3, <2>4
<1>5. PICK rest : rest = c.script
  OBVIOUS
<1>6. PICK finally : finally = c.finally
  OBVIOUS
<1>7. WentOn(g, rest, finally)
  BY <1>1, <1>3, <1>4, <1>5, <1>6, GoOnKeeps
<1>8. count' \in [calls : Nat, refusals : Nat]
  BY DEF handle_tools_call, IInv, DataOK
<1>9. UNCHANGED <<buf, net, queue, target>>
  BY DEF handle_tools_call
<1>10. finally = "continued" => rest # <<>>
  <2>1. \A a, b, d : <<a, b, d>> # <<>> /\ <<a, b>> # <<>> /\ <<a>> # <<>>
    OBVIOUS
  <2>2. QED
    BY <1>2, <1>5, <1>6, <2>1 DEF RunScripts
<1>11. /\ finally = "continued" /\ rest # <<>> => rest \in RunScripts
       /\ finally = "continued" /\ rest = <<>> => g.have_stopped \/ Runs(target, Join(buf, net), 0)
  BY <1>2, <1>5, <1>6, <1>10
<1>12. QED
  BY <1>4, <1>7, <1>8, <1>9, <1>11, WentOnKeeps

\* A step of the script is over.
LEMMA StepKeeps ==
  ASSUME IInv, pc \in {"send", "await"}, NEW s \in States, OwnToken(s, FALSE),
         s.next_token >= g.next_token, Believes(s) = Believes(g), s.have_stopped = g.have_stopped,
         NEW ok \in BOOLEAN, StepDone(s, ok),
         ok => pc = "await" /\ g.have_result /\ g.result.class # "error",
         UNCHANGED <<count, buf, net, queue, target>>
  PROVE  IInv'
<1>1. call \in Calls /\ call.script # <<>> /\ count' \in [calls : Nat, refusals : Nat]
  BY DEF IInv, DataOK
<1>2. PICK rest : rest = Tail(call.script)
  OBVIOUS
<1>3. PICK finally : finally = call.finally
  OBVIOUS
<1>4. \/ WentOn(s, rest, finally) /\ (Head(call.script).need = "must" => ok)
      \/ WentOn(s, <<>>, "none")
  BY <1>1, <1>2, <1>3, StepDoneKeeps
<1>5. UNCHANGED <<buf, net, queue, target>>
  OBVIOUS
<1>6. CASE WentOn(s, rest, finally) /\ (Head(call.script).need = "must" => ok)
  <2>1. finally = "continued" /\ rest # <<>> => rest \in RunScripts
    BY <1>2, <1>3, RunTails DEF IInv, ContinuesLast
  <2>2. finally = "continued" /\ rest = <<>> => g.have_stopped \/ Runs(target, Join(buf, net), 0)
    <3> SUFFICES ASSUME finally = "continued", rest = <<>>
                 PROVE  g.have_stopped \/ Runs(target, Join(buf, net), 0)
      OBVIOUS
    <3>1. Head(call.script).need = "must" /\ Head(call.script).mi = "run"
      BY <1>2, <1>3, RunTails DEF IInv, ContinuesLast
    <3>2. pc = "await" /\ g.have_result /\ g.result.class # "error"
      BY <1>6, <3>1
    <3>3. Heard(g, target, Join(buf, net), 0)
      BY <3>1, <3>2 DEF IInv, RunAnswered
    <3>4. QED
      BY <3>2, <3>3 DEF Heard
  <2>3. WentOn(s, rest, finally)
    BY <1>6
  <2>4. QED
    BY <1>1, <1>5, <2>1, <2>2, <2>3, WentOnKeeps
<1>7. CASE WentOn(s, <<>>, "none")
  <2>1. PICK none : none = "none"
    OBVIOUS
  <2>2. PICK empty : empty = <<>>
    OBVIOUS
  <2>3. WentOn(s, empty, none) /\ none # "continued"
    BY <1>7, <2>1, <2>2
  <2>4. /\ none = "continued" /\ empty # <<>> => empty \in RunScripts
        /\ none = "continued" /\ empty = <<>> => g.have_stopped \/ Runs(target, Join(buf, net), 0)
    BY <2>3
  <2>5. QED
    BY <1>1, <1>5, <2>3, <2>4, WentOnKeeps
<1>8. QED
  BY <1>4, <1>6, <1>7

LEMMA GotResultKeeps == ASSUME IInv, GotResult PROVE IInv'
<1>1. PICK s : s = [g EXCEPT !.have_result = FALSE, !.result = NoResult]
  OBVIOUS
<1>2. g \in States /\ NoResult \in Results /\ g.pending_token = 0
  <2>1. g \in States /\ g.have_result
    BY DEF IInv, DataOK, GotResult
  <2>2. g.pending_token = 0
    BY <2>1 DEF IInv, TokensTrue, OwnToken
  <2>3. QED
    BY <2>1, <2>2 DEF Results, Classes, NoResult
<1>3. /\ s \in States /\ s.pending_token = 0 /\ ~ s.have_result /\ s.next_token >= g.next_token
      /\ Believes(s) = Believes(g) /\ s.have_stopped = g.have_stopped
  <2>1. /\ s \in States /\ s.pending_token = 0 /\ ~ s.have_result /\ s.next_token = g.next_token
        /\ s.target_running = g.target_running /\ s.overridden = g.overridden
        /\ s.have_stopped = g.have_stopped
    BY <1>1, <1>2 DEF States
  <2>2. g.next_token \in Nat
    BY <1>2 DEF States
  <2>3. QED
    BY <2>1, <2>2 DEF Believes
<1>4. OwnToken(s, FALSE)
  BY <1>3 DEF OwnToken
<1>5. PICK ok : ok = (g.result.class # "error")
  OBVIOUS
<1>6. ok \in BOOLEAN /\ (ok => pc = "await" /\ g.have_result /\ g.result.class # "error")
  BY <1>5 DEF GotResult
<1>7. StepDone(s, ok) /\ UNCHANGED <<count, buf, net, queue, target>> /\ pc \in {"send", "await"}
  BY <1>1, <1>5 DEF GotResult
<1>8. QED
  BY <1>3, <1>4, <1>6, <1>7, StepKeeps

LEMMA NoResultKeeps == ASSUME IInv, NoResultInTime PROVE IInv'
<1>1. PICK s : s = [g EXCEPT !.pending_token = 0]
  OBVIOUS
<1>2. g \in States /\ ~ g.have_result
  BY DEF IInv, DataOK, NoResultInTime
<1>3. /\ s \in States /\ s.pending_token = 0 /\ ~ s.have_result /\ s.next_token >= g.next_token
      /\ Believes(s) = Believes(g) /\ s.have_stopped = g.have_stopped
  <2>1. /\ s \in States /\ s.pending_token = 0 /\ ~ s.have_result /\ s.next_token = g.next_token
        /\ s.target_running = g.target_running /\ s.overridden = g.overridden
        /\ s.have_stopped = g.have_stopped
    BY <1>1, <1>2 DEF States
  <2>2. g.next_token \in Nat
    BY <1>2 DEF States
  <2>3. QED
    BY <2>1, <2>2 DEF Believes
<1>4. OwnToken(s, FALSE)
  BY <1>3 DEF OwnToken
<1>5. StepDone(s, FALSE) /\ UNCHANGED <<count, buf, net, queue, target>> /\ pc \in {"send", "await"}
  BY <1>1 DEF NoResultInTime
<1>6. QED
  BY <1>3, <1>4, <1>5, StepKeeps

\* The lines of gdb, of its target and of the broker.
LEMMA LineTypes ==
  /\ Refusal \in Lines /\ Refusal.rec = "none" /\ Refusal.class = "none" /\ Refusal.token = 0
  /\ MI("stopped", 0, "none") \in Lines /\ MI("stopped", 0, "none").rec = "stopped"
  /\ MI("stopped", 0, "none").class = "none" /\ MI("stopped", 0, "none").token = 0
  /\ MI("running", 0, "none") \in Lines /\ MI("running", 0, "none").rec = "running"
  /\ MI("running", 0, "none").token = 0
  /\ \A token \in Nat, class \in Classes :
       /\ MI("result", token, class) \in Lines /\ MI("result", token, class).rec = "result"
       /\ MI("result", token, class).token = token /\ MI("result", token, class).class = class
BY DEF Refusal, MI, Lines, Classes, NoId

\* One line that says nothing of a running target.
LEMMA OneLineArrives ==
  ASSUME IInv, NEW line \in Lines, "running" \notin {line.rec, line.class}, net' = Append(net, line),
         target' = target \/ line.rec = "stopped", UNCHANGED buf
  PROVE  /\ StopsBehind'
         /\ Runs(target, Join(buf, net), 0) => Runs(target', Join(buf, net)', 0)
<1>1. PICK q : q = Join(buf, net)
  OBVIOUS
<1>2. PICK p : p = Join(buf, Append(net, line))
  OBVIOUS
<1>3. buf \in Seq(Lines) /\ net \in Seq(Lines) /\ StopsFollow(q, target)
  BY <1>1 DEF IInv, TypeOK, StopsBehind
<1>4. PICK now : now = target'
  OBVIOUS
<1>5. StopsFollow(p, now) /\ (Runs(target, q, 0) => Runs(now, p, 0))
  BY <1>1, <1>2, <1>3, <1>4, AppendFollows
<1>6. Join(buf, net)' = p
  BY <1>2
<1>7. StopsBehind'
  BY <1>4, <1>5, <1>6 DEF StopsBehind
<1>8. QED
  BY <1>1, <1>4, <1>5, <1>6, <1>7

\* A command is handed out a new token: what is on the way is older.
LEMMA NewToken ==
  ASSUME NEW q \in Seq(Lines), NEW cmds \in Seq(Commands), NEW token \in Nat,
         OldLines(q, token), OldCommands(cmds, token), NEW next, next = token + 1
  PROVE  /\ OldLines(q, next) /\ OldCommands(cmds, next)
         /\ RunLines(q, next - 1) /\ RunCommands(cmds, next - 1)
<1>1. ASSUME NEW i \in DOMAIN q PROVE q[i].token < next /\ q[i].token # next - 1
  <2>1. q[i] \in Lines /\ q[i].token < token
    BY DEF OldLines
  <2>2. q[i].token \in Nat
    BY <2>1 DEF Lines
  <2>3. QED
    BY <2>1, <2>2
<1>2. ASSUME NEW i \in DOMAIN cmds PROVE cmds[i].token < next /\ cmds[i].token # next - 1
  <2>1. cmds[i] \in Commands /\ cmds[i].token < token
    BY DEF OldCommands
  <2>2. cmds[i].token \in Nat
    BY <2>1 DEF Commands
  <2>3. QED
    BY <2>1, <2>2
<1>3. OldLines(q, next) /\ RunLines(q, next - 1)
  BY <1>1 DEF OldLines, RunLines
<1>4. OldCommands(cmds, next) /\ RunCommands(cmds, next - 1)
  BY <1>2 DEF OldCommands, RunCommands
<1>5. QED
  BY <1>3, <1>4

\* The commands gdb has to answer, with a new one.
LEMMA NewCommand ==
  ASSUME NEW cmds \in Seq(Commands), NEW cmd \in Commands, NEW all, all = Append(cmds, cmd),
         NEW next, OldCommands(cmds, next), cmd.token < next, RunCommands(cmds, next - 1)
  PROVE  /\ OldCommands(all, next)
         /\ cmd.mi = "run" => RunCommands(all, next - 1)
<1>1. ASSUME NEW i \in DOMAIN all PROVE all[i] = cmd \/ (i \in DOMAIN cmds /\ all[i] = cmds[i])
  OBVIOUS
<1>2. OldCommands(all, next)
  BY <1>1 DEF OldCommands
<1>3. QED
  BY <1>1, <1>2 DEF RunCommands

\* A command on its way: only its own result is awaited.
LEMMA SendKeeps ==
  ASSUME IInv, pc = "send", NEW s \in States, OwnToken(s, TRUE), Believes(s) = Believes(g),
         ~ s.have_result, NEW token \in Nat \ {0}, token = g.next_token, s.next_token = token + 1,
         g' = s, pc' = "await", NEW cmd \in Commands, cmd.token = token, cmd.mi = Head(call.script).mi,
         queue' = queue \/ (queue' = Append(queue, cmd) /\ Len(queue) < MaxLate),
         count' \in [calls : Nat, refusals : Nat],
         net' = net \/ (net' = Append(net, Refusal) /\ Len(net) < MaxNet),
         UNCHANGED <<call, buf, target>>
  PROVE  IInv'
<1>1. /\ buf \in Seq(Lines) /\ net \in Seq(Lines) /\ Len(net) <= MaxNet /\ MaxNet \in Nat
      /\ queue \in Seq(Commands) /\ Len(queue) <= MaxLate /\ MaxLate \in Nat
  BY GdbBounds DEF IInv, TypeOK, DataOK
<1>2. net' \in Seq(Lines) /\ Len(net') <= MaxNet
  <2>1. Refusal \in Lines
    BY LineTypes
  <2>2. CASE net' = Append(net, Refusal) /\ Len(net) < MaxNet
    <3>1. Append(net, Refusal) \in Seq(Lines) /\ Len(Append(net, Refusal)) = Len(net) + 1
      BY <1>1, <2>1
    <3>2. QED
      BY <1>1, <2>2, <3>1
  <2>3. QED
    BY <1>1, <2>2
<1>3. queue' \in Seq(Commands) /\ Len(queue') <= MaxLate
  <2>1. CASE queue' = Append(queue, cmd) /\ Len(queue) < MaxLate
    <3>1. Append(queue, cmd) \in Seq(Commands) /\ Len(Append(queue, cmd)) = Len(queue) + 1
      BY <1>1
    <3>2. QED
      BY <1>1, <2>1, <3>1
  <2>2. QED
    BY <1>1, <2>1
<1>4. TypeOK'
  <2>1. s.next_token \in Nat \ {0} /\ s.pending_token \in 0 .. (s.next_token - 1)
    BY DEF States, OwnToken
  <2>2. QED
    BY <1>1, <1>2, <1>3, <2>1 DEF TypeOK
<1>5. DataOK'
  BY <1>3 DEF IInv, DataOK
<1>6. TokensTrue'
  <2>1. (pc = "await")' = TRUE
    OBVIOUS
  <2>2. QED
    BY <2>1 DEF TokensTrue
<1>7. StopsBehind' /\ (Runs(target, Join(buf, net), 0) => Runs(target', Join(buf, net)', 0))
  <2>1. CASE net' = net
    BY <2>1 DEF IInv, StopsBehind
  <2>2. CASE net' = Append(net, Refusal)
    <3>1. Refusal \in Lines /\ "running" \notin {Refusal.rec, Refusal.class}
      BY LineTypes
    <3>2. target' = target /\ buf' = buf
      OBVIOUS
    <3>3. QED
      BY <2>2, <3>1, <3>2, OneLineArrives
  <2>3. QED
    BY <2>1, <2>2
<1>8. Believed'
  BY <1>7 DEF IInv, Believed, TrueAt
<1>9. ContinuesLast'
  BY DEF IInv, ContinuesLast
<1>10. PICK next : next = s.next_token
  OBVIOUS
<1>11. next = token + 1 /\ next \in Nat /\ token < next /\ token \in Nat /\ 0 < next
  BY <1>10
<1>12. PICK q : q = Join(buf, net)
  OBVIOUS
<1>13. PICK p : p = Join(buf, net)'
  OBVIOUS
<1>14. q \in Seq(Lines)
  BY <1>1, <1>12, JoinProperties DEF IsJoin
<1>15. OldLines(q, token) /\ OldCommands(queue, token)
  BY <1>12 DEF IInv, TokensOld
<1>16. /\ OldLines(q, next) /\ OldCommands(queue, next)
       /\ RunLines(q, next - 1) /\ RunCommands(queue, next - 1)
  BY <1>1, <1>11, <1>14, <1>15, NewToken
<1>17. OldLines(p, next) /\ RunLines(p, next - 1)
  <2>1. CASE net' = net
    BY <1>12, <1>13, <1>16, <2>1
  <2>2. CASE net' = Append(net, Refusal)
    <3>1. Refusal \in Lines /\ Refusal.rec = "none" /\ Refusal.token = 0
      BY LineTypes
    <3>2. p = Join(buf, Append(net, Refusal)) /\ Refusal.token < next
      BY <1>11, <1>13, <2>2, <3>1
    <3>3. Refusal.rec = "result" /\ Refusal.token = next - 1 => Refusal.class \in {"running", "error"}
      BY <3>1
    <3>4. QED
      BY <1>1, <1>11, <1>12, <1>16, <3>1, <3>2, <3>3, AppendTokens
  <2>3. QED
    BY <2>1, <2>2
<1>18. OldCommands(queue', next) /\ (Head(call.script).mi = "run" => RunCommands(queue', next - 1))
  <2>1. CASE queue' = queue
    BY <1>16, <2>1
  <2>2. CASE queue' = Append(queue, cmd)
    <3>1. cmd.token < next
      BY <1>11
    <3>2. PICK all : all = queue'
      OBVIOUS
    <3>3. OldCommands(all, next) /\ (cmd.mi = "run" => RunCommands(all, next - 1))
      BY <1>1, <1>16, <2>2, <3>1, <3>2, NewCommand
    <3>4. QED
      BY <3>2, <3>3
  <2>3. QED
    BY <2>1, <2>2
<1>19. TokensOld'
  BY <1>10, <1>13, <1>17, <1>18 DEF TokensOld
<1>20. RunAnswered'
  <2>1. Heard(g', target', Join(buf, net)', 0)
    BY DEF Heard
  <2>2. QED
    BY <1>10, <1>13, <1>17, <1>18, <2>1 DEF RunAnswered
<1>21. QED
  BY <1>4, <1>5, <1>6, <1>7, <1>8, <1>9, <1>19, <1>20 DEF IInv

\* What a command leaves alone.
Same(x, y) ==
  x.target_running = y.target_running /\ x.overridden = y.overridden /\ x.have_stopped = y.have_stopped

LEMMA CommandKeeps == ASSUME IInv, gdb_mi_command PROVE IInv'
<1>1. PICK token : token = g.next_token
  OBVIOUS
<1>2. PICK s : s = [g EXCEPT !.result = NoResult, !.have_result = FALSE,
                             !.pending_token = token, !.next_token = token + 1]
  OBVIOUS
<1>3. g \in States /\ token \in Nat \ {0} /\ NoResult \in Results
  BY <1>1 DEF IInv, DataOK, States, Results, Classes, NoResult
<1>4. PICK x : x = [g EXCEPT !.result = NoResult]
  OBVIOUS
<1>5. x \in States /\ Same(x, g)
  BY <1>3, <1>4 DEF States, Same
<1>6. PICK y : y = [x EXCEPT !.have_result = FALSE]
  OBVIOUS
<1>7. y \in States /\ Same(y, g) /\ ~ y.have_result
  BY <1>5, <1>6 DEF States, Same
<1>8. PICK z : z = [y EXCEPT !.pending_token = token, !.next_token = token + 1]
  OBVIOUS
<1>9. z \in States /\ Same(z, g) /\ ~ z.have_result
      /\ z.pending_token = token /\ z.next_token = token + 1
  <2>1. PICK next : next = token + 1
    OBVIOUS
  <2>2. next \in Nat \ {0} /\ token \in Nat
    BY <1>3, <2>1
  <2>3. z = [y EXCEPT !.pending_token = token, !.next_token = next]
    BY <1>8, <2>1
  <2>4. z \in States
    BY <1>7, <2>2, <2>3 DEF States
  <2>5. /\ Same(z, y) /\ z.have_result = y.have_result
        /\ z.pending_token = token /\ z.next_token = next
    BY <1>7, <2>3 DEF States, Same
  <2>6. QED
    BY <1>7, <2>1, <2>4, <2>5 DEF Same
<1>10. s = z
  BY <1>2, <1>4, <1>6, <1>8, <1>3 DEF States
<1>11. /\ s \in States /\ OwnToken(s, TRUE) /\ Believes(s) = Believes(g) /\ ~ s.have_result
       /\ s.next_token = token + 1
  BY <1>3, <1>9, <1>10 DEF OwnToken, Same, Believes
<1>12. /\ pc = "send" /\ UNCHANGED <<buf, target>>
       /\ queue \in Seq(Commands) /\ Len(queue) <= MaxLate /\ MaxLate \in Nat
       /\ call \in Calls /\ call.script # <<>>
       /\ count \in [calls : Nat, refusals : Nat]
  BY GdbBounds DEF gdb_mi_command, IInv, TypeOK, DataOK
<1> DEFINE asked == [token |-> token, mi |-> Head(call.script).mi]
<1>13. asked \in Commands /\ asked.token = token /\ asked.mi = Head(call.script).mi
  <2>1. call.script \in Seq(Steps)
    BY <1>12 DEF Calls
  <2>2. Head(call.script) \in Steps
    BY <1>12, <2>1
  <2>3. QED
    BY <1>3, <2>2 DEF Steps, Commands
<1>14. PICK cmd \in Commands : cmd = asked /\ cmd.token = token /\ cmd.mi = Head(call.script).mi
  BY <1>13
<1>15. CASE /\ Len(queue) < MaxLate
            /\ queue' = Append(queue, [token |-> token, mi |-> Head(call.script).mi])
            /\ g' = s /\ pc' = "await"
            /\ UNCHANGED <<call, count, net>>
  <2>1. queue' = Append(queue, cmd) /\ net' = net /\ UNCHANGED <<call, buf, target>>
    BY <1>12, <1>15, <1>14
  <2>2. count' \in [calls : Nat, refusals : Nat]
    BY <1>12, <1>15
  <2>3. QED
    BY <1>1, <1>3, <1>11, <1>12, <1>15, <1>14, <2>1, <2>2, SendKeeps
<1>16. CASE /\ count.refusals < MaxRefusals /\ Len(net) < MaxNet
            /\ count' = [count EXCEPT !.refusals = @ + 1]
            /\ net' = Append(net, Refusal)
            /\ g' = s /\ pc' = "await"
            /\ UNCHANGED <<call, queue>>
  <2>1. count' \in [calls : Nat, refusals : Nat]
    BY <1>12, <1>16
  <2>2. queue' = queue /\ UNCHANGED <<call, buf, target>>
    BY <1>12, <1>16
  <2>3. QED
    BY <1>1, <1>3, <1>11, <1>12, <1>16, <1>14, <2>1, <2>2, SendKeeps
<1>17. CASE g' = s /\ pc' = "await" /\ UNCHANGED <<call, count, net, queue>>
  <2>1. count' \in [calls : Nat, refusals : Nat]
    BY <1>12, <1>17
  <2>2. queue' = queue /\ net' = net /\ UNCHANGED <<call, buf, target>>
    BY <1>12, <1>17
  <2>3. QED
    BY <1>1, <1>3, <1>11, <1>12, <1>17, <1>14, <2>1, <2>2, SendKeeps
<1>18. CASE StepDone([s EXCEPT !.pending_token = 0], FALSE) /\ UNCHANGED <<count, net, queue>>
  <2>1. PICK w : w = [s EXCEPT !.pending_token = 0]
    OBVIOUS
  <2>2. /\ w \in States /\ w.pending_token = 0 /\ ~ w.have_result /\ Same(w, s)
        /\ w.next_token = token + 1
    BY <1>9, <1>10, <2>1 DEF States, Same
  <2>3. /\ OwnToken(w, FALSE) /\ Believes(w) = Believes(g) /\ w.have_stopped = g.have_stopped
        /\ w.next_token >= g.next_token
    BY <1>1, <1>3, <1>9, <1>10, <2>2 DEF OwnToken, Same, Believes
  <2>4. StepDone(w, FALSE) /\ UNCHANGED <<count, buf, net, queue, target>> /\ pc \in {"send", "await"}
    BY <1>12, <1>18, <2>1
  <2>5. QED
    BY <2>2, <2>3, <2>4, StepKeeps
<1>19. QED
  BY <1>1, <1>2, <1>15, <1>16, <1>17, <1>18 DEF gdb_mi_command

LEMMA PumpKeeps == ASSUME IInv, sm_broker_conn_pump PROVE IInv'
<1>1. /\ buf \in Seq(Lines) /\ net \in Seq(Lines) /\ Len(net) <= MaxNet /\ MaxNet \in Nat
      /\ g \in States /\ OwnToken(g, pc = "await") /\ (pc = "await") \in BOOLEAN
  BY GdbBounds DEF IInv, TypeOK, DataOK, TokensTrue
<1>2. PICK k \in 1 .. Len(net) :
        LET r == sm_broker_conn_read(buf \o SubSeq(net, 1, k), NoId)
        IN  /\ g' = gdb_on_broker_output(g, r.taken)
            /\ buf' = r.rest
            /\ net' = SubSeq(net, k + 1, Len(net))
  BY DEF sm_broker_conn_pump
<1>3. PICK r : r = sm_broker_conn_read(buf \o SubSeq(net, 1, k), NoId)
  OBVIOUS
<1>4. PICK m : m = SubSeq(net, k + 1, Len(net))
  OBVIOUS
<1>5. PICK q : q = Join(buf, net)
  OBVIOUS
<1>6. PICK p : p = Join(r.rest, m)
  OBVIOUS
<1>7. PICK t : t = r.taken
  OBVIOUS
<1>8. PICK z : z = gdb_on_broker_output(g, t)
  OBVIOUS
<1>9. g' = z /\ buf' = r.rest /\ net' = m
  BY <1>2, <1>3, <1>4, <1>7, <1>8
<1>10. /\ t \in Seq(Lines) /\ r.rest \in Seq(Lines) /\ m \in Seq(Lines) /\ Len(m) <= Len(net)
       /\ Len(t) <= Len(q) /\ \A i \in 1 .. Len(t) : t[i] = q[i]
       /\ Len(p) = Len(q) - Len(t) /\ \A i \in 1 .. Len(p) : p[i] = q[Len(t) + i]
  <2>1. Pumped(r, net, m, q, p)
    BY <1>1, <1>3, <1>4, <1>5, <1>6, PumpSplits
  <2>2. QED
    BY <1>7, <2>1 DEF Pumped
<1>11. z \in States /\ OwnToken(z, pc = "await") /\ z.next_token = g.next_token
  BY <1>1, <1>8, <1>10, OutputKeeps
<1>12. UNCHANGED <<call, count, pc, running, up, queue, target>>
  BY DEF sm_broker_conn_pump
<1>13. q \in Seq(Lines) /\ p \in Seq(Lines)
  <2>1. IsJoin(q, buf, net) /\ IsJoin(p, r.rest, m)
    BY <1>1, <1>5, <1>6, <1>10, JoinProperties
  <2>2. QED
    BY <2>1 DEF IsJoin
<1>14. StopsFollow(q, target)
  BY <1>5 DEF IInv, StopsBehind
<1>15. PICK last : last = Len(t) /\ last \in Nat
  BY <1>10
<1>16. last <= Len(q) /\ Len(p) = Len(q) - last /\ \A i \in 1 .. Len(p) : p[i] = q[last + i]
  BY <1>10, <1>15
<1>17. StopsFollow(p, target) /\ (Runs(target, q, last) => Runs(target, p, 0))
  BY <1>13, <1>14, <1>15, <1>16, RestFollows
<1>18. TrueAt(z, target, q, last)
  <2>1. TrueAt(g, target, q, 0)
    BY <1>5 DEF IInv, Believed
  <2>2. QED
    BY <1>1, <1>8, <1>10, <1>13, <1>14, <1>15, <2>1, OutputBelieves
<1>19. Join(buf, net)' = p
  BY <1>6, <1>9
<1>20. TypeOK'
  <2>1. z.next_token \in Nat \ {0} /\ z.pending_token \in 0 .. (z.next_token - 1)
    BY <1>11 DEF States, OwnToken
  <2>2. Len(net') <= MaxNet
    BY <1>1, <1>9, <1>10
  <2>3. QED
    BY <1>9, <1>10, <1>12, <2>1, <2>2 DEF IInv, TypeOK
<1>21. DataOK'
  BY <1>9, <1>11, <1>12 DEF IInv, DataOK
<1>22. TokensTrue'
  BY <1>9, <1>11, <1>12 DEF TokensTrue
<1>23. StopsBehind'
  BY <1>12, <1>17, <1>19 DEF StopsBehind
<1>24. Believed'
  BY <1>9, <1>12, <1>17, <1>18, <1>19 DEF Believed, TrueAt
<1>25. ContinuesLast'
  BY <1>12 DEF IInv, ContinuesLast
<1>26. PICK next : next = g.next_token
  OBVIOUS
<1>27. /\ OldLines(q, next) => OldLines(p, next)
       /\ RunLines(q, next - 1) => RunLines(p, next - 1)
  BY <1>13, <1>15, <1>16, RestTokens
<1>28. TokensOld'
  BY <1>5, <1>9, <1>11, <1>12, <1>19, <1>26, <1>27 DEF IInv, TokensOld
<1>29. RunAnswered'
  <2> SUFFICES ASSUME pc = "await", Head(call.script).mi = "run"
               PROVE  /\ RunLines(p, next - 1) /\ RunCommands(queue, next - 1)
                      /\ Heard(z, target, p, 0)
    BY <1>9, <1>11, <1>12, <1>19, <1>26 DEF RunAnswered
  <2>1. RunLines(q, next - 1) /\ RunCommands(queue, next - 1) /\ Heard(g, target, q, 0)
    BY <1>5, <1>26 DEF IInv, RunAnswered
  <2>2. OwnToken(g, TRUE) /\ RunLines(q, g.next_token - 1)
    <3>1. (pc = "await") = TRUE
      OBVIOUS
    <3>2. QED
      BY <1>1, <1>26, <2>1, <3>1
  <2>3. Heard(z, target, q, last)
    BY <1>1, <1>8, <1>10, <1>13, <1>14, <1>15, <2>1, <2>2, OutputHears
  <2>4. Heard(z, target, p, 0)
    BY <1>17, <2>3 DEF Heard
  <2>5. QED
    BY <1>27, <2>1, <2>4
<1>30. QED
  BY <1>20, <1>21, <1>22, <1>23, <1>24, <1>25, <1>28, <1>29 DEF IInv

LEMMA StopTakenKeeps == ASSUME IInv, StopTaken PROVE IInv'
<1>1. PICK z : z = [g EXCEPT !.have_stopped = FALSE]
  OBVIOUS
<1>2. g' = z /\ pc' = "idle" /\ call' = [call EXCEPT !.finally = "none"]
      /\ UNCHANGED <<count, running, buf, net, up, queue, target>>
  BY <1>1 DEF StopTaken
<1>3. g \in States /\ OwnToken(g, FALSE)
  <2>1. (pc = "await") = FALSE
    BY DEF StopTaken
  <2>2. QED
    BY <2>1 DEF IInv, DataOK, TokensTrue
<1>4. z \in States
  BY <1>1, <1>3 DEF States
<1>5. /\ z.next_token = g.next_token /\ z.pending_token = g.pending_token /\ z.result = g.result
      /\ z.have_result = g.have_result /\ z.target_running = g.target_running
      /\ z.overridden = g.overridden
  BY <1>1, <1>3 DEF States
<1>6. OwnToken(z, FALSE)
  BY <1>3, <1>5 DEF OwnToken
<1>7. TypeOK'
  BY <1>2, <1>5 DEF IInv, TypeOK
<1>8. DataOK' /\ ContinuesLast'
  <2>1. call' \in Calls /\ call'.finally = "none"
    BY <1>2 DEF IInv, DataOK, Calls, Finals
  <2>2. QED
    BY <1>2, <1>4, <2>1 DEF IInv, DataOK, ContinuesLast
<1>9. TokensTrue'
  <2>1. (pc = "await")' = FALSE
    BY <1>2
  <2>2. QED
    BY <1>2, <1>6, <2>1 DEF TokensTrue
<1>10. StopsBehind' /\ Believed'
  BY <1>2, <1>5 DEF IInv, StopsBehind, Believed, TrueAt, Believes
<1>11. TokensOld'
  BY <1>2, <1>5 DEF IInv, TokensOld
<1>12. RunAnswered'
  BY <1>2 DEF RunAnswered
<1>13. QED
  BY <1>7, <1>8, <1>9, <1>10, <1>11, <1>12 DEF IInv

\* What gdb and its target send: the lines are typed and keep the promises.
LEMMA ArrivalKeeps ==
  ASSUME IInv, net' \in Seq(Lines), Len(net') <= MaxNet,
         queue' \in Seq(Commands), Len(queue') <= MaxLate, StopsBehind', TokensOld',
         Runs(target, Join(buf, net), 0) => Runs(target', Join(buf, net)', 0),
         pc = "await" /\ Head(call.script).mi = "run" =>
           RunLines(Join(buf, net)', g.next_token - 1) /\ RunCommands(queue', g.next_token - 1),
         UNCHANGED <<g, call, count, pc, running, buf, up>>
  PROVE  IInv'
<1>1. TypeOK'
  BY DEF IInv, TypeOK
<1>2. DataOK'
  BY DEF IInv, DataOK
<1>3. TokensTrue'
  BY DEF IInv, TokensTrue
<1>4. Believed'
  BY DEF IInv, Believed, TrueAt
<1>5. ContinuesLast'
  BY DEF IInv, ContinuesLast
<1>6. RunAnswered'
  <2>1. Heard(g, target, Join(buf, net), 0) => Heard(g, target', Join(buf, net)', 0)
    BY DEF Heard
  <2>2. QED
    BY <2>1 DEF IInv, RunAnswered
<1>7. QED
  BY <1>1, <1>2, <1>3, <1>4, <1>5, <1>6 DEF IInv

\* gdb is done with its oldest command.
LEMMA CommandsLeft ==
  ASSUME NEW cmds \in Seq(Commands), cmds # <<>>, NEW left, left = Tail(cmds), NEW next
  PROVE  /\ OldCommands(cmds, next) => OldCommands(left, next)
         /\ RunCommands(cmds, next - 1) => RunCommands(left, next - 1)
<1>1. ASSUME NEW i \in DOMAIN left PROVE \E j \in DOMAIN cmds : left[i] = cmds[j]
  <2>1. i + 1 \in DOMAIN cmds /\ left[i] = cmds[i + 1]
    OBVIOUS
  <2>2. QED
    BY <2>1
<1>2. OldCommands(cmds, next) => OldCommands(left, next)
  BY <1>1 DEF OldCommands
<1>3. QED
  BY <1>1, <1>2 DEF RunCommands

LEMMA AnswerKeeps == ASSUME IInv, GdbAnswers PROVE IInv'
<1>1. /\ queue \in Seq(Commands) /\ queue # <<>> /\ Len(queue) <= MaxLate /\ net \in Seq(Lines)
      /\ buf \in Seq(Lines) /\ Len(net) + 2 <= MaxNet /\ MaxNet \in Nat /\ MaxLate \in Nat
      /\ queue' = Tail(queue) /\ UNCHANGED <<g, call, count, pc, running, buf, up>>
  BY GdbBounds DEF IInv, TypeOK, DataOK, GdbAnswers
<1>2. queue' \in Seq(Commands) /\ Len(queue') <= MaxLate
  BY <1>1
<1>3. PICK cmd \in Commands : cmd = Head(queue) /\ cmd = queue[1] /\ 1 \in DOMAIN queue
  BY <1>1
<1>4. PICK token \in Nat : token = cmd.token
  BY DEF Commands
<1>5. PICK next : next = g.next_token /\ next \in Nat \ {0}
  BY DEF IInv, TypeOK
<1>6. PICK q : q = Join(buf, net)
  OBVIOUS
<1>7. PICK p : p = Join(buf, net)'
  OBVIOUS
<1>8. token < next /\ OldLines(q, next) /\ OldCommands(queue, next)
  BY <1>3, <1>4, <1>5, <1>6 DEF IInv, TokensOld, OldCommands
<1>9. PICK left : left = queue'
  OBVIOUS
<1>10. /\ OldCommands(left, next)
       /\ RunCommands(queue, next - 1) => RunCommands(left, next - 1)
  BY <1>1, <1>8, <1>9, CommandsLeft
<1>11. PICK awaits : awaits = (pc = "await" /\ Head(call.script).mi = "run")
  OBVIOUS
<1>12. awaits => RunLines(q, next - 1) /\ RunCommands(queue, next - 1)
  BY <1>5, <1>6, <1>11 DEF IInv, RunAnswered
<1>13. awaits /\ token = next - 1 => cmd.mi = "run"
  BY <1>3, <1>4, <1>12 DEF RunCommands
<1>14. ASSUME net' \in Seq(Lines), Len(net') <= MaxNet, StopsBehind', OldLines(p, next),
              Runs(target, q, 0) => Runs(target', p, 0), awaits => RunLines(p, next - 1)
       PROVE  IInv'
  <2>1. TokensOld'
    BY <1>1, <1>5, <1>7, <1>9, <1>10, <1>14 DEF TokensOld
  <2>2. Runs(target, Join(buf, net), 0) => Runs(target', Join(buf, net)', 0)
    BY <1>6, <1>7, <1>14
  <2>3. pc = "await" /\ Head(call.script).mi = "run" =>
          RunLines(Join(buf, net)', g.next_token - 1) /\ RunCommands(queue', g.next_token - 1)
    BY <1>5, <1>7, <1>9, <1>10, <1>11, <1>12, <1>14
  <2>4. QED
    BY <1>1, <1>2, <1>14, <2>1, <2>2, <2>3, ArrivalKeeps
<1>15. ASSUME NEW class \in {"error", "done"}, class = "done" => cmd.mi # "run",
              net' = Append(net, MI("result", token, class)), target' = target
       PROVE  IInv'
  <2>1. PICK line : line = MI("result", token, class)
    OBVIOUS
  <2>2. line \in Lines /\ line.rec = "result" /\ line.token = token /\ line.class = class
    BY <2>1, LineTypes DEF Classes
  <2>3. net' = Append(net, line) /\ "running" \notin {line.rec, line.class}
    BY <1>15, <2>1, <2>2
  <2>4. net' \in Seq(Lines) /\ Len(net') <= MaxNet
    BY <1>1, <2>2, <2>3
  <2>5. StopsBehind' /\ (Runs(target, q, 0) => Runs(target', p, 0))
    BY <1>1, <1>6, <1>7, <1>15, <2>2, <2>3, OneLineArrives
  <2>6. p = Join(buf, Append(net, line)) /\ line.token < next
    BY <1>1, <1>7, <1>8, <2>2, <2>3
  <2>7. awaits => (line.rec = "result" /\ line.token = next - 1 => line.class \in {"running", "error"})
    BY <1>13, <1>15, <2>2
  <2>8. next \in Nat
    BY <1>5
  <2>9. /\ OldLines(p, next)
        /\ RunLines(q, next - 1) /\ (line.rec = "result" /\ line.token = next - 1 =>
                                       line.class \in {"running", "error"})
             => RunLines(p, next - 1)
    BY <1>1, <1>6, <1>8, <2>2, <2>6, <2>8, AppendTokens
  <2>10. QED
    BY <1>12, <1>14, <2>4, <2>5, <2>7, <2>9
<1>16. CASE /\ net' = net \o <<MI("result", token, "running"), MI("running", 0, "none")>>
            /\ target' = "running"
  <2>1. PICK a : a = MI("result", token, "running")
    OBVIOUS
  <2>2. PICK b : b = MI("running", 0, "none")
    OBVIOUS
  <2>3. /\ a \in Lines /\ a.token = token /\ a.class = "running"
        /\ b \in Lines /\ b.token = 0 /\ b.rec = "running"
    BY <2>1, <2>2, LineTypes DEF Classes
  <2>4. net' = net \o <<a, b>>
    BY <1>16, <2>1, <2>2
  <2>5. net' \in Seq(Lines) /\ Len(net') <= MaxNet
    BY <1>1, <2>3, <2>4
  <2>6. StopsBehind' /\ Runs(target', p, 0)
    BY <1>16 DEF StopsBehind, StopsFollow, Runs
  <2>7. PICK one : one = Append(net, a)
    OBVIOUS
  <2>8. one \in Seq(Lines)
    BY <1>1, <2>3, <2>7
  <2>9. net' = Append(one, b)
    BY <1>1, <2>3, <2>4, <2>7
  <2>10. PICK r : r = Join(buf, one)
    OBVIOUS
  <2>11. a.token < next /\ b.token < next /\ next \in Nat
    BY <1>5, <1>8, <2>3
  <2>12. /\ a.rec = "result" /\ a.token = next - 1 => a.class \in {"running", "error"}
         /\ b.rec = "result" /\ b.token = next - 1 => b.class \in {"running", "error"}
    BY <2>3
  <2>13. r = Join(buf, Append(net, a)) /\ p = Join(buf, Append(one, b))
    BY <1>1, <1>7, <2>7, <2>9, <2>10
  <2>14. OldLines(r, next) /\ (RunLines(q, next - 1) => RunLines(r, next - 1))
    BY <1>1, <1>6, <1>8, <2>3, <2>11, <2>12, <2>13, AppendTokens
  <2>15. OldLines(p, next) /\ (RunLines(r, next - 1) => RunLines(p, next - 1))
    BY <1>1, <2>3, <2>8, <2>10, <2>11, <2>12, <2>13, <2>14, AppendTokens
  <2>16. QED
    BY <1>12, <1>14, <2>5, <2>6, <2>14, <2>15
<1>17. \/ \E class \in {"error", "done"} :
            /\ class = "done" => cmd.mi # "run"
            /\ net' = Append(net, MI("result", token, class)) /\ target' = target
       \/ /\ net' = net \o <<MI("result", token, "running"), MI("running", 0, "none")>>
          /\ target' = "running"
  BY <1>3, <1>4 DEF GdbAnswers
<1>18. QED
  BY <1>15, <1>16, <1>17

LEMMA TargetStopsKeeps == ASSUME IInv, TargetStops PROVE IInv'
<1>1. /\ net \in Seq(Lines) /\ buf \in Seq(Lines) /\ Len(net) < MaxNet /\ MaxNet \in Nat
      /\ queue' = queue /\ queue' \in Seq(Commands) /\ Len(queue') <= MaxLate
      /\ UNCHANGED <<g, call, count, pc, running, buf, up>>
  BY GdbBounds DEF IInv, TypeOK, DataOK, TargetStops
<1>2. PICK line : line = MI("stopped", 0, "none")
  OBVIOUS
<1>3. line \in Lines /\ line.rec = "stopped" /\ line.class = "none" /\ line.token = 0
  BY <1>2, LineTypes
<1>4. net' = Append(net, line)
  BY <1>2 DEF TargetStops
<1>5. net' \in Seq(Lines) /\ Len(net') <= MaxNet
  BY <1>1, <1>3, <1>4
<1>6. StopsBehind' /\ (Runs(target, Join(buf, net), 0) => Runs(target', Join(buf, net)', 0))
  BY <1>1, <1>3, <1>4, OneLineArrives
<1>7. PICK q : q = Join(buf, net)
  OBVIOUS
<1>8. PICK p : p = Join(buf, net)' /\ p = Join(buf, Append(net, line))
  BY <1>1, <1>4
<1>9. PICK next : next = g.next_token /\ next \in Nat /\ line.token < next
  BY <1>3 DEF IInv, TypeOK
<1>10. OldLines(q, next) /\ OldCommands(queue, next)
  BY <1>7, <1>9 DEF IInv, TokensOld
<1>11. line.rec = "result" /\ line.token = next - 1 => line.class \in {"running", "error"}
  BY <1>3
<1>12. OldLines(p, next) /\ (RunLines(q, next - 1) => RunLines(p, next - 1))
  BY <1>1, <1>3, <1>7, <1>8, <1>9, <1>10, <1>11, AppendTokens
<1>13. TokensOld'
  BY <1>1, <1>8, <1>9, <1>10, <1>12 DEF TokensOld
<1>14. pc = "await" /\ Head(call.script).mi = "run" =>
         RunLines(Join(buf, net)', g.next_token - 1) /\ RunCommands(queue', g.next_token - 1)
  BY <1>1, <1>7, <1>8, <1>9, <1>12 DEF IInv, RunAnswered
<1>15. QED
  BY <1>1, <1>5, <1>6, <1>13, <1>14, ArrivalKeeps

\* The other steps touch nothing that the invariant speaks of.
LEMMA QuietKeeps ==
  ASSUME IInv, UNCHANGED <<g, call, count, buf, net, queue, target>>,
         pc' = pc \/ (pc = "idle" /\ pc' = "exited")
  PROVE  IInv'
<1>1. (pc = "await")' = (pc = "await")
  OBVIOUS
<1>2. TypeOK'
  BY DEF IInv, TypeOK
<1>3. DataOK'
  BY DEF IInv, DataOK
<1>4. TokensTrue'
  BY <1>1 DEF IInv, TokensTrue
<1>5. StopsBehind' /\ Believed' /\ ContinuesLast' /\ TokensOld'
  BY DEF IInv, StopsBehind, Believed, ContinuesLast, TokensOld
<1>6. RunAnswered'
  BY <1>1 DEF IInv, RunAnswered
<1>7. QED
  BY <1>2, <1>3, <1>4, <1>5, <1>6 DEF IInv

-----------------------------------------------------------------------------
LEMMA InitHolds == ASSUME Init PROVE IInv
<1>1. NoResult \in Results
  BY DEF NoResult, Results, Classes
<1>2. /\ g \in States /\ g.next_token = 1 /\ g.pending_token = 0 /\ ~ g.have_result
      /\ ~ g.target_running
  BY <1>1 DEF Init, States
<1>3. /\ buf = <<>> /\ net = <<>> /\ queue = <<>> /\ pc = "idle"
      /\ count = [calls |-> 0, refusals |-> 0] /\ call = Plain(<<>>)
  BY DEF Init
<1>4. <<>> \in Seq(Lines) /\ <<>> \in Seq(Commands) /\ <<>> \in Seq(Steps) /\ Len(<<>>) = 0
  OBVIOUS
<1>5. TypeOK
  BY <1>2, <1>3, <1>4, GdbBounds DEF TypeOK
<1>6. call \in Calls /\ call.finally = "none"
  BY <1>3, <1>4, PlainTypes
<1>7. DataOK
  BY <1>2, <1>3, <1>4, <1>6 DEF DataOK
<1>8. TokensTrue
  BY <1>2 DEF TokensTrue, OwnToken
<1>9. DOMAIN Join(buf, net) = {}
  BY <1>3 DEF Join
<1>10. StopsBehind
  BY <1>9 DEF StopsBehind, StopsFollow
<1>11. Believed /\ ContinuesLast
  BY <1>2, <1>6 DEF Believed, TrueAt, Believes, ContinuesLast
<1>12. TokensOld
  <2>1. DOMAIN queue = {}
    BY <1>3
  <2>2. QED
    BY <1>9, <2>1 DEF TokensOld, OldLines, OldCommands
<1>13. RunAnswered
  BY <1>3 DEF RunAnswered
<1>14. QED
  BY <1>5, <1>7, <1>8, <1>10, <1>11, <1>12, <1>13 DEF IInv

LEMMA StepKeepsAll == ASSUME IInv, [Next]_vars PROVE IInv'
<1>1. CASE handle_tools_call
  BY <1>1, CallKeeps
<1>2. CASE gdb_mi_command
  BY <1>2, CommandKeeps
<1>3. CASE GotResult
  BY <1>3, GotResultKeeps
<1>4. CASE NoResultInTime
  BY <1>4, NoResultKeeps
<1>5. CASE StopTaken
  BY <1>5, StopTakenKeeps
<1>6. CASE sm_broker_conn_pump
  BY <1>6, PumpKeeps
<1>7. CASE BrokerDisconnected
  BY <1>7, QuietKeeps DEF BrokerDisconnected
<1>8. CASE LoopEnds
  BY <1>8, QuietKeeps DEF LoopEnds
<1>9. CASE signal_handler
  BY <1>9, QuietKeeps DEF signal_handler
<1>10. CASE GdbAnswers
  BY <1>10, AnswerKeeps
<1>11. CASE TargetStops
  BY <1>11, TargetStopsKeeps
<1>12. CASE BrokerGoes
  BY <1>12, QuietKeeps DEF BrokerGoes
<1>13. CASE UNCHANGED vars
  BY <1>13, QuietKeeps DEF vars
<1>14. QED
  BY <1>1, <1>2, <1>3, <1>4, <1>5, <1>6, <1>7, <1>8, <1>9, <1>10, <1>11, <1>12, <1>13 DEF Next, Server

\* In every state of smolmux-gdb-mcp the variables have their types, the
\* token in flight is the last one handed out and awaited by the call being
\* served, a ^running or *running on its way to handle_mi_record is true or
\* has a *stopped behind it, and so is what gdb was believed to say.
THEOREM InductiveInvariant == Spec => []IInv
<1>1. Init => IInv
  BY InitHolds
<1>2. IInv /\ [Next]_vars => IInv'
  BY StepKeepsAll
<1>3. QED
  BY <1>1, <1>2, PTL DEF Spec

\* The result a tool makes its answer of is the one of its own last command,
\* however many commands were given up on and whenever gdb answers them
\* (gdb_mi_command, handle_mi_record).
THEOREM AnswersMatch == Spec => []AnswerIsOwn
<1>1. IInv => AnswerIsOwn
  BY DEF IInv, TokensTrue, OwnToken, AnswerIsOwn
<1>2. QED
  BY <1>1, InductiveInvariant, PTL

\* The session believes in a running target only while it runs or while its
\* stop is on the way to handle_mi_record, unless gdb_reset with mode "run"
\* has just thrown away a stop that was read (tool_reset): none is lost
\* between read_buf and the socket, whatever the reads of the pump and of the
\* main loop leave behind, and that reset is right about the target whenever
\* it drops no stop.
THEOREM StopsNotLost == Spec => []RunningIsTrue
<1>1. IInv => RunningIsTrue
  <2> SUFFICES ASSUME IInv, g.target_running, ~ g.overridden, target # "running"
               PROVE  \E line \in ToSet(buf \o net) : line.rec = "stopped"
    BY DEF RunningIsTrue
  <2>1. PICK j \in DOMAIN (buf \o net) : (buf \o net)[j].rec = "stopped"
    BY DEF IInv, Believed, Believes, TrueAt, Runs, StopBehind, Join
  <2>2. (buf \o net)[j] \in ToSet(buf \o net)
    BY DEF ToSet
  <2>3. QED
    BY <2>1, <2>2
<1>2. QED
  BY <1>1, InductiveInvariant, PTL
=============================================================================
