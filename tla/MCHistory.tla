----------------------------- MODULE MCHistory -----------------------------
(***************************************************************************)
(* An instance of McpOutput for TLC: a ring and a buffer of a few bytes.   *)
(***************************************************************************)
EXTENDS McpOutput

\* The ring evicts, a page does not hold the ring, one turn of encoding does
\* not hold a page, chunks are merged, full and larger than the target, and the
\* sink's buffer does not hold the output.
ASSUME HistoryOverflows ==
  /\ MaxBytes < MaxSeq
  /\ PageBytes < MaxBytes
  /\ EncodeBytes < PageBytes
  /\ \E n \in Sizes : n < ChunkTarget
  /\ \E n \in Sizes : n > ChunkTarget
  /\ OutputMax < MaxSeq

=============================================================================
