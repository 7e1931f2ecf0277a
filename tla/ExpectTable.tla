---------------------------- MODULE ExpectTable ----------------------------
(***************************************************************************)
(* The expect engine's table of pending requests: an array whose removals  *)
(* move the last entry into the freed place. A request is                  *)
(*   n        its serial number (of the model: the code has none)          *)
(*   id       the id its client chose; ids of different clients may clash  *)
(*   client   the client that asked, or the MCP sink                       *)
(*   matched, aborted                                                      *)
(*   late     the clock has passed its deadline                            *)
(*   heard    device output has been captured for it                       *)
(* Regular expressions are opaque: a chunk of device output comes with the *)
(* set of requests whose pattern it completes.                             *)
(***************************************************************************)
EXTENDS Naturals, FiniteSets, SequencesExt

CONSTANTS
  MaxPending,  \* SM_MAX_EXPECT_PENDING
  MaxPerClient \* SM_MAX_EXPECT_PER_CLIENT

ASSUME ExpectTableAssumption == MaxPending \in Nat /\ MaxPerClient \in Nat

Request(n, id, client) ==
  [n |-> n, id |-> id, client |-> client, matched |-> FALSE, aborted |-> FALSE, late |-> FALSE,
   heard |-> FALSE]

Numbers(t) == {t[i].n : i \in DOMAIN t}

\* sm_expect_add has room: neither the table nor the client's share is full.
HasRoom(t, client) ==
  /\ Len(t) < MaxPending
  /\ Cardinality({i \in DOMAIN t : t[i].client = client}) < MaxPerClient

sm_expect_add(t, n, id, client) == Append(t, Request(n, id, client))

\* A request that has matched takes no more input; an aborted one still does.
sm_expect_feed(t, hits) ==
  [i \in DOMAIN t |-> [t[i] EXCEPT !.matched = @ \/ t[i].n \in hits, !.heard = TRUE]]

sm_expect_abort_all(t) ==
  [i \in DOMAIN t |-> [t[i] EXCEPT !.aborted = @ \/ ~t[i].matched]]

\* Mutant: the array is shortened, the last entry is not moved.
SwapRemove_truncates(t, i) == SubSeq(t, 1, Len(t) - 1)

\* Remove entry i: the last entry takes its place.
SwapRemove(t, i) ==
  LET last == Len(t)
  IN  [j \in 1..(last - 1) |-> IF j = i THEN t[last] ELSE t[j]]

\* The numbers of the entries of t that satisfy P.
Those(t, P(_)) == {t[i].n : i \in {j \in DOMAIN t : P(t[j])}}

\* One iteration of a pass over the table that takes out at most limit entries
\* of those numbered in gone: s.t is what is left of the table, s.i the index,
\* s.out what has been taken out. The index stays put after a removal: the entry
\* moved there is yet to be looked at.
SweepStep(s, limit, gone) ==
  IF s.i > Len(s.t) \/ Len(s.out) = limit THEN s
  ELSE IF s.t[s.i].n \in gone
       THEN [t |-> SwapRemove(s.t, s.i), i |-> s.i, out |-> Append(s.out, s.t[s.i])]
       ELSE [s EXCEPT !.i = @ + 1]

\* The whole pass. Every iteration removes an entry or moves on, so Len(t)
\* iterations are enough.
Sweep(t, limit, gone) ==
  LET pass[k \in 0..Len(t)] ==
        IF k = 0 THEN [t |-> t, i |-> 1, out |-> <<>>] ELSE SweepStep(pass[k - 1], limit, gone)
  IN  pass[Len(t)]

\* Mutant: deadlines are not looked at.
Done_never_late(r) == r.matched \/ r.aborted

\* A request is done when it has a match, an abort or no time left.
Done(r) == r.matched \/ r.aborted \/ r.late

\* Mutant: the index moves on after a removal, past the entry moved there.
sm_expect_collect_skips(t, max_out) ==
  LET Step(s) ==
        IF s.i > Len(s.t) \/ Len(s.out) = max_out THEN s
        ELSE IF Done(s.t[s.i])
             THEN [t |-> SwapRemove(s.t, s.i), i |-> s.i + 1, out |-> Append(s.out, s.t[s.i])]
             ELSE [s EXCEPT !.i = @ + 1]
      pass[k \in 0..Len(t)] ==
        IF k = 0 THEN [t |-> t, i |-> 1, out |-> <<>>] ELSE Step(pass[k - 1])
  IN  pass[Len(t)]

\* .t is the table left, .out the results in the order they are delivered.
sm_expect_collect(t, max_out) == Sweep(t, max_out, Those(t, Done))

sm_expect_cancel_id(t, id) == LET Gone(r) == r.id = id IN Sweep(t, Len(t), Those(t, Gone)).t

sm_expect_cancel_client(t, client) ==
  LET Gone(r) == r.client = client IN Sweep(t, Len(t), Those(t, Gone)).t

sm_expect_cancel_all(t) == <<>>

=============================================================================
