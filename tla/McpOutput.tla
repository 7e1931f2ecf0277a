----------------------------- MODULE McpOutput -----------------------------
(***************************************************************************)
(* The two ways an agent of the in-process MCP sink reads the device: the  *)
(* sink's own buffer of unread output, which serial_read empties, and the  *)
(* history ring. The buffer grows up to a maximum and then gives up its    *)
(* oldest bytes, at least half of them at a time. Lines the broker itself  *)
(* puts into the ring, where the link goes and comes back, do not pass     *)
(* through the sink.                                                       *)
(***************************************************************************)
EXTENDS History

CONSTANTS
  OutputInit,  \* the first size of the buffer (8192)
  OutputMax,   \* SM_MCP_OUTPUT_BUFFER_MAX
  FenceSizes,  \* sizes of the broker's own lines
  MaxFenced,   \* bound on their bytes
  GrowFails    \* the buffer may fail to grow

ASSUME McpOutputAssumption ==
  /\ OutputInit \in Nat \ {0}
  /\ OutputMax \in Nat /\ OutputInit <= OutputMax
  /\ \A n \in Sizes : n <= OutputInit  \* a read of the link is at most 4096 bytes
  /\ FenceSizes \subseteq Nat \ {0} /\ MaxFenced \in Nat
  /\ GrowFails \in BOOLEAN

VARIABLES
  output_buf,  \* unread output, oldest byte first
  output_cap,  \* room in the buffer
  fenced,      \* bytes of the ring that the broker wrote
  read,        \* serial_read has returned bytes before this one
  refused      \* history: the buffer was refused the room it asked for

sinkVars == <<output_buf, output_cap, fenced, read, refused>>
allVars == <<vars, sinkVars>>

SinkInit ==
  /\ Init
  /\ output_buf = <<>>
  /\ output_cap = OutputInit
  /\ fenced = {}
  /\ read = 0
  /\ refused = FALSE

\* The broker was started with the sink.
HasSink == audience \cap Agents # {}

Smaller(a, b) == IF a < b THEN a ELSE b

\* One round of growth: a buffer too small for size bytes is doubled.
GrowMore(cap, size) ==
  IF size > cap /\ cap < OutputMax THEN Smaller(cap * 2, OutputMax) ELSE cap

\* The size of the buffer after k rounds that succeed. A round that changes
\* anything adds a byte at least.
Rounds(cap, size) ==
  LET round[k \in 0..OutputMax] == IF k = 0 THEN cap ELSE GrowMore(round[k - 1], size)
  IN  round

\* The size a buffer of cap bytes asks for in the end, to hold size bytes.
Wanted(cap, size) == Rounds(cap, size)[OutputMax]

\* The sizes it may have after growing: a doubling that fails is the last.
Grown(cap, size) ==
  IF GrowFails THEN {Rounds(cap, size)[k] : k \in 0..OutputMax} ELSE {Wanted(cap, size)}

\* Mutant: half the buffer is made free, whatever is needed.
Evicted_half_only(len, valid, cap) ==
  IF len + valid <= cap THEN 0 ELSE Smaller(cap \div 2, len)

\* How many of len bytes go when valid more come and there is room for cap.
Evicted(len, valid, cap) ==
  LET need == Smaller(len + valid - cap, len)
  IN  IF len + valid <= cap THEN 0 ELSE Smaller(Larger(need, cap \div 2), len)

\* A byte is copied unless it is NUL.
CopyByte(s, byte) == IF byte \in Nuls THEN s ELSE Append(s, byte)

\* The n bytes from first on without the NULs.
WithoutNuls(first, n) ==
  LET upTo[k \in 0..n] == IF k = 0 THEN <<>> ELSE CopyByte(upTo[k - 1], first + k - 1)
  IN  upTo[n]

\* The n bytes from first on come from the device.
mcp_buffer_output(first, n) ==
  LET new == WithoutNuls(first, n)
      size == Len(output_buf) + Len(new)
  IN  \E cap \in IF new = <<>> THEN {output_cap} ELSE Grown(output_cap, size) :
        LET gone == Evicted(Len(output_buf), Len(new), cap)
        IN  /\ output_cap' = cap
            /\ refused' = (refused \/ (new # <<>> /\ cap < Wanted(output_cap, size)))
            /\ output_buf' = SubSeq(output_buf, gone + 1, Len(output_buf)) \o new

\* process_link_chunk: the ring, then the sink.
process_link_chunk(len, sameTs) ==
  /\ ToRing(len, sameTs)
  /\ IF HasSink THEN mcp_buffer_output(history.total_seq, len)
                ELSE UNCHANGED <<output_buf, output_cap, refused>>
  /\ UNCHANGED <<fenced, read>>

\* The link went or came back: a line for the ring only.
history_fence(len) ==
  /\ Cardinality(fenced) + len <= MaxFenced
  /\ ToRing(len, FALSE)
  /\ fenced' = IF HasSink THEN fenced \cup (history.total_seq..(history.total_seq + len - 1)) ELSE fenced
  /\ UNCHANGED <<output_buf, output_cap, read, refused>>

\* serial_read returns what is there and empties the buffer.
mcp_drain_output ==
  /\ output_buf # <<>>
  /\ read' = Last(output_buf) + 1
  /\ output_buf' = <<>>
  /\ UNCHANGED <<vars, output_cap, fenced, refused>>

\* The steps of History that do not bring output.
ReaderStep ==
  \/ \E r \in Readers : handle_history_request(r) \/ remove_client(r) \/ Reconnect(r)
  \/ \E r \in Readers, n \in Tails : handle_tail_request(r, n)
  \/ \E r \in Agents : tool_serial_output_history(r)
  \/ process_history_pending

\* The sink's buffer goes with the broker.
Restart ==
  /\ BrokerRestarts
  /\ output_buf' = <<>>
  /\ output_cap' = OutputInit
  /\ fenced' = {}
  /\ read' = 0
  /\ refused' = FALSE

SinkNext ==
  \/ \E len \in Sizes, sameTs \in BOOLEAN : process_link_chunk(len, sameTs)
  \/ \E len \in FenceSizes : history_fence(len)
  \/ mcp_drain_output
  \/ ReaderStep /\ UNCHANGED sinkVars
  \/ Restart

SinkSpec == SinkInit /\ [][SinkNext]_allVars /\ Fairness

(***************************************************************************)
(* Properties.                                                             *)
(***************************************************************************)

\* What serial_read will return is the newest output, in order, without a gap
\* and without a byte it returned before, and it fits the buffer: eviction and
\* growth make room for what comes, whatever of it is NUL, and give up only the
\* oldest bytes (mcp_buffer_output).
UnreadIsNewest ==
  LET kept == Range(output_buf)
      unread == (read..(history.total_seq - 1)) \ (fenced \cup Nuls)
  IN  HasSink =>
        /\ Len(output_buf) <= output_cap
        /\ \A i \in 1..(Len(output_buf) - 1) : output_buf[i] < output_buf[i + 1]
        /\ kept \subseteq unread
        /\ \A s \in kept, t \in unread : t > s => t \in kept
        /\ ~refused /\ Cardinality(unread) <= OutputMax => kept = unread

=============================================================================
