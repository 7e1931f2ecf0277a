------------------------------- MODULE History -------------------------------
(***************************************************************************)
(* Output history: the ring the broker fills from the device, and readers  *)
(* that page through it with a cursor. A request copies its chunks; the    *)
(* response is encoded over several turns of the loop, while output keeps  *)
(* coming, and is sent when it is complete. The broker has one such        *)
(* request in progress at a time. An agent of the in-process MCP sink      *)
(* pages with the same cursor, gets its page at once, and sees no NUL. A   *)
(* reader may also ask for the newest output, without a cursor. A broker   *)
(* may be restarted with an empty ring; readers keep the cursor they have. *)
(***************************************************************************)
EXTENDS RingBuffer

CONSTANTS
  Readers,      \* those who page through the history
  Agents,       \* the readers among them that the MCP sink serves
  Audiences,    \* the sets of readers that may take part
  Nuls,         \* the bytes of the device that are NUL
  Tails,        \* how many of the newest bytes a reader asks for (0: all)
  ResponseMax,  \* SM_MAX_HISTORY_RESPONSE_BYTES
  PageBytes,    \* the page size they ask for
  EncodeChunks, \* SM_HISTORY_ENCODE_MAX_CHUNKS
  EncodeBytes,  \* SM_HISTORY_ENCODE_MAX_BYTES
  Sizes,        \* sizes of the device's chunks
  MaxSeq,       \* bound on the bytes a broker sees
  MaxRestarts,  \* bound on the restarts of the broker
  Nobody        \* no reader

ASSUME HistoryAssumption ==
  /\ PageBytes \in Nat \ {0}
  /\ EncodeChunks \in Nat \ {0}
  /\ EncodeBytes \in Nat \ {0}
  /\ Sizes \subseteq Nat \ {0}
  /\ MaxSeq \in Nat /\ MaxRestarts \in Nat
  /\ Nobody \notin Readers
  /\ Agents \subseteq Readers
  /\ Audiences \subseteq SUBSET Readers
  /\ Tails \subseteq Nat
  /\ ResponseMax \in Nat

VARIABLES
  history,          \* the ring
  history_pending,  \* the request in progress
  audience,         \* the readers that take part
  live,             \* those of them that are connected
  cursor,           \* what each reader will ask for next
  received,         \* bytes each reader got from this broker
  count,            \* how many bytes it got from it, repeats included
  lost,             \* bytes each reader was told are gone
  synced,           \* the reader has had a response of this broker
  fresh,            \* the reader's cursor was 0 when this broker started
  restarts

readerVars == <<cursor, received, count, lost, synced>>
vars == <<history, history_pending, audience, live, readerVars, fresh, restarts>>

Seqs == 0..MaxSeq
NonePending == [client |-> Nobody, chunks |-> <<>>, index |-> 0, skip |-> 0, encoded |-> 0,
                out |-> {}, paged |-> FALSE, since |-> 0, cursor |-> 0, dropped |-> 0, has_more |-> FALSE,
                tail |-> 0, had |-> 0..-1]

TypeOK ==
  /\ history.total_seq \in Seqs /\ history.first_seq \in Seqs /\ history.total_bytes \in 0..MaxBytes
  /\ history_pending.client \in Readers \cup {Nobody}
  /\ history_pending.index \in 0..Len(history_pending.chunks)
  /\ audience \in Audiences
  /\ live \subseteq audience
  /\ cursor \in [Readers -> Seqs]
  /\ received \in [Readers -> SUBSET Seqs]
  /\ count \in [Readers -> Nat]
  /\ lost \in [Readers -> SUBSET Seqs]
  /\ synced \in [Readers -> BOOLEAN]
  /\ fresh \in [Readers -> BOOLEAN]
  /\ restarts \in 0..MaxRestarts

Init ==
  /\ history = sm_rb_init
  /\ history_pending = NonePending
  /\ audience \in Audiences
  /\ live = audience
  /\ cursor = [r \in Readers |-> 0]
  /\ received = [r \in Readers |-> {}]
  /\ count = [r \in Readers |-> 0]
  /\ lost = [r \in Readers |-> {}]
  /\ synced = [r \in Readers |-> TRUE]
  /\ fresh = [r \in Readers |-> TRUE]
  /\ restarts = 0

\* process_link_chunk and history_fence append to the ring.
ToRing(len, sameTs) ==
  /\ history.total_seq + len <= MaxSeq
  /\ history' = sm_rb_append(history, len, sameTs)
  /\ UNCHANGED <<history_pending, audience, live, readerVars, fresh, restarts>>

\* A response reaches reader r, which asked from since on: the bytes of out,
\* the new cursor and how many bytes before them are gone.
Respond(r, since, out, size, next, dropped) ==
  /\ cursor' = [cursor EXCEPT ![r] = next]
  /\ received' = [received EXCEPT ![r] = @ \cup out]
  /\ count' = [count EXCEPT ![r] = @ + size]
  /\ lost' = [lost EXCEPT ![r] = @ \cup (since..(since + dropped - 1))]
  /\ synced' = [synced EXCEPT ![r] = TRUE]

\* A history_request with since_seq. An empty page is answered at once.
handle_history_request(r) ==
  /\ r \in live \ Agents
  /\ history_pending = NonePending
  /\ \E page \in {sm_rb_get_since_seq(history, cursor[r], PageBytes)} :
       IF page.chunks = <<>>
       THEN /\ Respond(r, cursor[r], {}, 0, page.cursor, page.dropped)
            /\ UNCHANGED history_pending
       ELSE /\ history_pending' = [client |-> r, chunks |-> page.chunks, index |-> 0,
                                   skip |-> page.first_skip, encoded |-> 0, out |-> {},
                                   paged |-> TRUE, since |-> cursor[r], cursor |-> page.cursor,
                                   dropped |-> page.dropped, has_more |-> page.has_more,
                                   tail |-> 0, had |-> 0..-1]
            /\ UNCHANGED readerVars
  /\ UNCHANGED <<history, audience, live, fresh, restarts>>

\* The newest of the chunks cs that a response may hold.
NewestWithin(cs, max) ==
  LET starts == {i \in 1..Len(cs) : Bytes(SubSeq(cs, i, Len(cs))) <= max}
  IN  IF starts = {} THEN <<>>
      ELSE SubSeq(cs, CHOOSE i \in starts : \A j \in starts : i <= j, Len(cs))

\* A history_request without since_seq, for the newest n bytes or for all.
handle_tail_request(r, n) ==
  LET found == IF n > 0 THEN sm_rb_get_last_n_bytes(history, n) ELSE sm_rb_get_all(history)
      kept == NewestWithin(found, ResponseMax)
  IN  /\ r \in live \ Agents
      /\ history_pending = NonePending
      /\ kept # <<>>
      /\ history_pending' = [NonePending EXCEPT !.client = r, !.chunks = kept, !.tail = n,
                                                !.had = history.first_seq..(history.total_seq - 1)]
      /\ UNCHANGED <<history, audience, live, readerVars, fresh, restarts>>

\* Mutant: the skip of the first chunk is applied to all of them.
EncodeChunk_skips_all(p) ==
  LET c == p.chunks[p.index + 1]
      len == IF p.paged /\ c.len - p.skip > PageBytes - p.encoded THEN PageBytes - p.encoded ELSE c.len - p.skip
      full == p.paged /\ p.encoded + len >= PageBytes
  IN  [p EXCEPT !.index = IF full THEN Len(p.chunks) ELSE @ + 1,
                !.encoded = @ + len,
                !.out = @ \cup ((c.start + p.skip)..(c.start + p.skip + len - 1))]

\* Encode the next chunk of pending request p, cut to what the page holds.
EncodeChunk(p) ==
  LET c == p.chunks[p.index + 1]
      off == IF p.index = 0 THEN p.skip ELSE 0
      len == IF p.paged /\ c.len - off > PageBytes - p.encoded THEN PageBytes - p.encoded ELSE c.len - off
      full == p.paged /\ p.encoded + len >= PageBytes
  IN  [p EXCEPT !.index = IF full THEN Len(p.chunks) ELSE @ + 1,
                !.encoded = @ + len,
                !.out = @ \cup ((c.start + off)..(c.start + off + len - 1))]

\* The loop's conditions, then a chunk.
EncodeMore(p, limit) ==
  IF p.index < Len(p.chunks) /\ p.encoded < limit THEN EncodeChunk(p) ELSE p

\* The next n chunks of pending request p, and none once limit bytes are done.
Encoded(p, n, limit) ==
  LET upTo[k \in 0..n] == IF k = 0 THEN p ELSE EncodeMore(upTo[k - 1], limit)
  IN  upTo[n]

\* Mutant: a request whose client has gone is never done.
process_history_pending_stuck ==
  LET p == history_pending
  IN  /\ p # NonePending
      /\ p.client \in live
      /\ \E done \in {Encoded(p, EncodeChunks, p.encoded + EncodeBytes)} :
           IF done.index < Len(done.chunks)
           THEN history_pending' = done /\ UNCHANGED readerVars
           ELSE /\ history_pending' = NonePending
                /\ IF p.paged
                   THEN Respond(p.client, p.since, done.out, done.encoded, p.cursor, p.dropped)
                   ELSE UNCHANGED readerVars
      /\ UNCHANGED <<history, audience, live, fresh, restarts>>

\* One turn: at most EncodeChunks chunks, and no more once EncodeBytes are
\* done; the response is sent when the last chunk is.
process_history_pending ==
  LET p == history_pending
  IN  /\ p # NonePending
      /\ \E done \in {Encoded(p, EncodeChunks, p.encoded + EncodeBytes)} :
           IF done.index < Len(done.chunks)
           THEN history_pending' = done /\ UNCHANGED readerVars
           ELSE /\ history_pending' = NonePending
                /\ IF p.client \in live /\ p.paged
                   THEN Respond(p.client, p.since, done.out, done.encoded, p.cursor, p.dropped)
                   ELSE UNCHANGED readerVars
      /\ UNCHANGED <<history, audience, live, fresh, restarts>>

\* A page of the MCP sink, encoded in one go.
history_json_page(page) ==
  Encoded([NonePending EXCEPT !.chunks = page.chunks, !.skip = page.first_skip, !.paged = TRUE],
          Len(page.chunks), PageBytes)

\* serial_output_history with since_seq. (Without it nothing changes: the text
\* of the newest chunks is returned.)
tool_serial_output_history(r) ==
  /\ r \in Agents \cap audience
  /\ \E page \in {sm_rb_get_since_seq(history, cursor[r], PageBytes)} :
       LET out == history_json_page(page).out
       IN  Respond(r, cursor[r], out \ Nuls, Cardinality(out \ Nuls), page.cursor, page.dropped)
  /\ UNCHANGED <<history, history_pending, audience, live, fresh, restarts>>

\* The reader's connection goes: its request in progress is left to run out,
\* addressed to a client id that no client has any more.
remove_client(r) ==
  /\ r \in live \ Agents
  /\ live' = live \ {r}
  /\ history_pending' = [history_pending EXCEPT !.client = IF @ = r THEN Nobody ELSE @]
  /\ UNCHANGED <<history, audience, readerVars, fresh, restarts>>

\* The reader connects again with the cursor it has, under a new client id.
Reconnect(r) ==
  /\ r \in audience \ live
  /\ live' = live \cup {r}
  /\ UNCHANGED <<history, history_pending, audience, readerVars, fresh, restarts>>

\* The broker is stopped and started again.
BrokerRestarts ==
  /\ restarts < MaxRestarts
  /\ restarts' = restarts + 1
  /\ history' = sm_rb_init
  /\ history_pending' = NonePending
  /\ received' = [r \in Readers |-> {}]
  /\ count' = [r \in Readers |-> 0]
  /\ lost' = [r \in Readers |-> {}]
  /\ synced' = [r \in Readers |-> FALSE]
  /\ fresh' = [r \in Readers |-> cursor[r] = 0]
  /\ UNCHANGED <<audience, live, cursor>>

Next ==
  \/ \E len \in Sizes, sameTs \in BOOLEAN : ToRing(len, sameTs)
  \/ \E r \in Readers : handle_history_request(r) \/ remove_client(r) \/ Reconnect(r)
  \/ \E r \in Readers, n \in Tails : handle_tail_request(r, n)
  \/ \E r \in Agents : tool_serial_output_history(r)
  \/ process_history_pending
  \/ BrokerRestarts

\* The loop turns, and a connected reader asks again and again.
Fairness ==
  /\ WF_vars(process_history_pending)
  /\ \A r \in Readers \ Agents : WF_vars(handle_history_request(r))

Spec == Init /\ [][Next]_vars
FairSpec == Spec /\ Fairness

(***************************************************************************)
(* Properties.                                                             *)
(***************************************************************************)

\* The ring keeps exactly the newest bytes, as many as it may: its chunks
\* follow one another without a gap from first_seq to total_seq, whatever
\* was merged, and whatever eviction dropped or trimmed.
RingIsNewest ==
  LET cs == history.chunks
      end(i) == cs[i].start + cs[i].len
  IN  /\ history.first_seq = Larger(0, history.total_seq - MaxBytes)
      /\ history.total_bytes = history.total_seq - history.first_seq
      /\ cs = <<>> => history.first_seq = history.total_seq
      /\ cs # <<>> => cs[1].start = history.first_seq /\ end(Len(cs)) = history.total_seq
      /\ \A i \in DOMAIN cs : cs[i].len > 0 /\ cs[i].len <= cs[i].alloc /\ (i > 1 => cs[i].start = end(i - 1))

\* A request without a cursor gets the newest bytes the ring held when it was
\* made, without a gap and as many as asked for unless the response is cut at
\* its limit, whatever the ring drops while they are encoded.
TailIsNewest ==
  LET p == history_pending
      rest == UNION {p.chunks[i].start..(p.chunks[i].start + p.chunks[i].len - 1) : i \in (p.index + 1)..Len(p.chunks)}
      sent == p.out \cup rest
      cut == Cardinality(p.had) > ResponseMax
  IN  p.client # Nobody /\ ~p.paged =>
        /\ sent # {} /\ sent \subseteq p.had
        /\ \A s \in sent, t \in p.had : t >= s => t \in sent
        /\ p.tail = 0 => sent = p.had \/ cut
        /\ Cardinality(sent) >= p.tail \/ sent = p.had \/ cut

\* Both: what is kept, and what is sent of it, is the newest output.
NewestKept == RingIsNewest /\ TailIsNewest

\* Reader r has every byte before its cursor, or was told that it is gone,
\* and never both. (An agent has not the NULs.)
Accounted(r) ==
  /\ {s \in Seqs : s < cursor[r] /\ s < history.total_seq} \ (received[r] \cup lost[r])
       \subseteq (IF r \in Agents THEN Nuls ELSE {})
  /\ received[r] \cup lost[r] \subseteq {s \in Seqs : s < cursor[r] /\ s < history.total_seq}
  /\ received[r] \cap lost[r] = {}

\* "Lossless paging": every byte before the cursor of a reader that began
\* with this broker has reached it or was reported as dropped to it, although
\* the ring moves on while a page is being encoded and the connection may go
\* (sm_rb_get_since_seq, process_history_pending), and no byte reaches it
\* twice: the cursor of a response is just past the last byte it carries, also
\* when a page was cut within a chunk.
Lossless ==
  \A r \in Readers : (fresh[r] => Accounted(r)) /\ count[r] = Cardinality(received[r])

\* The same of a reader that pages on with the cursor of an earlier broker.
LosslessAcrossRestart == \A r \in Readers : synced[r] => Accounted(r)

\* The last client to stay, which keeps asking for its next page, catches up
\* with a device that has gone quiet: every page moves its cursor. (While
\* others ask too, it may be refused for as long as they keep the one request
\* slot busy.)
CatchesUp ==
  \A r \in Readers \ Agents :
    <>[](live \ Agents = {r} /\ (history_pending = NonePending \/ history_pending.paged))
      => <>[](cursor[r] = history.total_seq)

=============================================================================
