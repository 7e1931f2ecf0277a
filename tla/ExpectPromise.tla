--------------------------- MODULE ExpectPromise ---------------------------
(***************************************************************************)
(* What the expect engine promises to those who ask, whatever its table    *)
(* does: requests are accepted one at a time, an accepted request waits    *)
(* until it gets one outcome, that outcome is final, and it comes.         *)
(***************************************************************************)
EXTENDS Naturals

CONSTANT MaxRequests

VARIABLE outcome

Answers == {"matched", "timeout", "aborted"}
Outcomes == {"new", "waiting", "cancelled"} \cup Answers
Waiting == {n \in 1..MaxRequests : outcome[n] = "waiting"}

Init == outcome = [n \in 1..MaxRequests |-> "new"]

\* The requests of S, and no others, change their outcome, to one of T.
Become(S, T) ==
  /\ outcome' \in [1..MaxRequests -> Outcomes]
  /\ \A n \in 1..MaxRequests :
       IF n \in S THEN outcome'[n] \in T \cup {outcome[n]} ELSE outcome'[n] = outcome[n]

\* Requests are numbered in the order they are accepted. One whose write to
\* the device fails is withdrawn at once, with others of its id.
Accept ==
  \E n \in 1..MaxRequests :
    /\ outcome[n] = "new"
    /\ \A m \in 1..(n - 1) : outcome[m] # "new"
    /\ Become(Waiting \cup {n}, {"waiting", "cancelled"})
    /\ outcome'[n] # "new"

\* Some of those who wait are answered in one go.
Answer == Become(Waiting, Answers)

\* Some of those who wait are dropped without an answer.
Cancel == Become(Waiting, {"cancelled"})

Next == Accept \/ Answer \/ Cancel

Settle(n) ==
  /\ outcome[n] = "waiting"
  /\ \E o \in Answers \cup {"cancelled"} : outcome' = [outcome EXCEPT ![n] = o]

SafeSpec == Init /\ [][Next]_outcome

Spec == SafeSpec /\ \A n \in 1..MaxRequests : WF_outcome(Settle(n))

=============================================================================
