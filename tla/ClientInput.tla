---------------------------- MODULE ClientInput ----------------------------
(***************************************************************************)
(* A client's commands on their way in: the peer writes newline-terminated *)
(* messages and may close its end at any time; the broker reads them into  *)
(* a bounded buffer (sm_client_feed) and handles them in a bounded loop    *)
(* (process_client_event), level-triggered by epoll.                       *)
(*                                                                         *)
(* The bytes of the stream are numbered from 1 and the set `newlines` says *)
(* which of them end a line; other bytes are message text. A line with     *)
(* text is a message, an empty one is skipped.                             *)
(***************************************************************************)
EXTENDS Integers, FiniteSets, FiniteSetsExt

CONSTANTS
  MaxStream,  \* bound on the bytes the peer writes
  ReadCap,    \* SM_CLIENT_READ_BUF_SIZE
  FeedMax,    \* messages one sm_client_feed hands out (16)
  MaxLoops    \* rounds of process_client_event (64)

ASSUME InputAssumption ==
  /\ MaxStream \in Nat
  /\ ReadCap \in Nat /\ ReadCap > 1
  /\ FeedMax \in Nat \ {0}
  /\ MaxLoops \in Nat \ {0}

VARIABLES
  written,   \* bytes the peer has written
  newlines,  \* positions of the line ends among them
  closed,    \* the peer has closed its end
  taken,     \* bytes the broker has read
  used,      \* bytes whose lines have been extracted (read_buf starts after them)
  handled,   \* messages handled
  event,     \* the epoll event being handled: its bits, or none
  loops,     \* rounds done for it
  gone       \* the client was removed: not yet, on a hang-up, or for an overlong line

vars == <<written, newlines, closed, taken, used, handled, event, loops, gone>>
peerVars == <<written, newlines, closed>>

TypeOK ==
  /\ written \in 0..MaxStream
  /\ newlines \subseteq 1..written
  /\ closed \in BOOLEAN
  /\ taken \in 0..written
  /\ used \in 0..taken
  /\ taken - used < ReadCap
  /\ handled \in 0..MaxStream
  /\ event \subseteq {"IN", "HUP"}
  /\ loops \in 0..(MaxLoops - 1)
  /\ gone \in {"no", "hangup", "overlong"}

Init ==
  /\ written = 0
  /\ newlines = {}
  /\ closed = FALSE
  /\ taken = 0
  /\ used = 0
  /\ handled = 0
  /\ event = {}
  /\ loops = 0
  /\ gone = "no"

\* The lines among bytes from + 1 .. to that are messages, by their ends.
IsMessage(e) == e > 1 /\ (e - 1) \notin newlines
MessagesIn(from, to) == {e \in newlines : from < e /\ e <= to /\ IsMessage(e)}

(***************************************************************************)
(* The peer.                                                               *)
(***************************************************************************)
PeerWrites(newline) ==
  /\ ~closed
  /\ gone = "no"
  /\ written < MaxStream
  /\ written' = written + 1
  /\ newlines' = IF newline THEN newlines \cup {written + 1} ELSE newlines
  /\ UNCHANGED <<closed, taken, used, handled, event, loops, gone>>

PeerCloses ==
  /\ ~closed
  /\ closed' = TRUE
  /\ UNCHANGED <<written, newlines, taken, used, handled, event, loops, gone>>

(***************************************************************************)
(* The broker.                                                             *)
(***************************************************************************)

\* epoll_wait: readable while the kernel holds bytes or the end of the stream.
Ready ==
  /\ gone = "no"
  /\ event = {}
  /\ taken < written \/ closed
  /\ event' = IF closed THEN {"IN", "HUP"} ELSE {"IN"}
  /\ loops' = 0
  /\ UNCHANGED <<peerVars, taken, used, handled, gone>>

RemovedFor(why) == gone' = why /\ event' = {} /\ loops' = 0

\* Mutant: the terminator is counted twice.
Avail_two_terminators == ReadCap - (taken - used) - 2

\* Room for what is read next, one byte kept for a terminator.
Avail == ReadCap - (taken - used) - 1

\* Mutant: an incomplete line is thrown away with the lines before it.
ExtractedTo_drops_rest(to) ==
  LET ends == {e \in newlines : used < e /\ e <= to}
      enough == {e \in ends : Cardinality(MessagesIn(used, e)) >= FeedMax}
  IN  IF ends = {} THEN used ELSE IF enough = {} THEN to ELSE Min(enough)

\* What one sm_client_feed leaves in the buffer after reading up to byte to:
\* complete lines are extracted until FeedMax of them are messages.
ExtractedTo(to) ==
  LET ends == {e \in newlines : used < e /\ e <= to}
      enough == {e \in ends : Cardinality(MessagesIn(used, e)) >= FeedMax}
  IN  IF ends = {} THEN used ELSE IF enough = {} THEN Max(ends) ELSE Min(enough)

\* Mutant: the hang-up goes first.
sm_client_feed_hup_first(to) ==
  IF "HUP" \in event
  THEN RemovedFor("hangup") /\ UNCHANGED <<taken, used, handled>>
  ELSE /\ taken' = to
       /\ used' = ExtractedTo(to)
       /\ handled' = handled + Cardinality(MessagesIn(used, ExtractedTo(to)))
       /\ event' = {} /\ loops' = 0 /\ UNCHANGED gone

\* Mutant: there is no second round.
sm_client_feed_one_round(to) ==
  /\ taken' = to
  /\ used' = ExtractedTo(to)
  /\ handled' = handled + Cardinality(MessagesIn(used, ExtractedTo(to)))
  /\ IF "HUP" \in event THEN RemovedFor("hangup") ELSE event' = {} /\ loops' = 0 /\ UNCHANGED gone

\* Read, extract, handle what was extracted; then another round, the hang-up
\* or the end of the event.
sm_client_feed(to) ==
  LET upto == ExtractedTo(to)
      count == Cardinality(MessagesIn(used, upto))
  IN  /\ taken' = to
      /\ used' = upto
      /\ handled' = handled + count
      /\ IF count = FeedMax /\ loops + 1 < MaxLoops
         THEN loops' = loops + 1 /\ UNCHANGED <<event, gone>>
         ELSE IF "HUP" \in event THEN RemovedFor("hangup")
              ELSE event' = {} /\ loops' = 0 /\ UNCHANGED gone

process_client_event ==
  /\ event # {}
  /\ \/ \* the buffer is full of one line
        /\ Avail = 0
        /\ RemovedFor("overlong")
        /\ UNCHANGED <<taken, used, handled>>
     \/ \* end of the stream: nothing is extracted any more
        /\ Avail > 0
        /\ taken = written
        /\ closed
        /\ RemovedFor("hangup")
        /\ UNCHANGED <<taken, used, handled>>
     \/ /\ Avail > 0
        /\ taken < written \/ ~closed
        /\ sm_client_feed(IF written - taken < Avail THEN written ELSE taken + Avail)
  /\ UNCHANGED peerVars

Next ==
  \/ \E newline \in BOOLEAN : PeerWrites(newline)
  \/ PeerCloses
  \/ Ready
  \/ process_client_event

Spec == Init /\ [][Next]_vars

\* The loop turns; nothing is assumed of the peer.
FairSpec == Spec /\ WF_vars(Ready) /\ WF_vars(process_client_event)

(***************************************************************************)
(* Properties.                                                             *)
(***************************************************************************)
Sent == Cardinality(MessagesIn(0, written))

\* Every message before the read buffer was handled, and none after it: the
\* buffer is cut at line ends, so no message is lost between two rounds,
\* handled twice or handled in part.
HandledUpToBuffer ==
  /\ handled = Cardinality(MessagesIn(0, used))
  /\ used = 0 \/ used \in newlines

\* A client is dropped as overlong only when one line really fills the
\* buffer, however many short commands it has pipelined.
OverlongIsOneLine ==
  gone = "overlong" => taken - used = ReadCap - 1 /\ {e \in newlines : used < e /\ e <= taken} = {}

\* The commands of a client that connects, writes no more than one round and
\* one buffer hold and closes are handled before its hang-up.
ShortFarewellHandled ==
  gone = "hangup" /\ Sent <= FeedMax /\ written < ReadCap => handled = Sent

\* Whatever the reads cut, commands are handled exactly, and a client goes for
\* no reason but its own: an overlong line, or a hang-up behind its commands.
CommandsExact == HandledUpToBuffer /\ OverlongIsOneLine /\ ShortFarewellHandled

\* Commands that fit the rounds of one event are handled without the client
\* having to write again.
BurstHandled ==
  LET round == FeedMax * MaxLoops
  IN  \A k \in 1..round : Sent = k ~> handled >= k \/ Sent > round \/ closed \/ gone # "no"

\* "handling HUP first would silently drop that command": what a client sent
\* before it closed is handled before its hang-up.
FarewellHandled == gone = "hangup" => handled = Sent

\* "still extract leftover complete lines": every command a connected client
\* has sent is handled.
EveryCommandHandled ==
  \A k \in 1..MaxStream : Sent >= k ~> handled >= k \/ closed \/ gone # "no"

=============================================================================
