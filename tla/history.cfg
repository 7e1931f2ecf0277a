SPECIFICATION SinkSpec
CONSTANTS
  Readers = {r1, a}
  Audiences = {{r1}, {a}}
  Agents = {a}
  Nuls = {1}
  Tails = {0, 2}
  ResponseMax = 4
  Nobody = Nobody
  PageBytes = 2
  EncodeChunks = 2
  EncodeBytes = 1
  Sizes = {1, 2, 4}
  MaxSeq = 8
  MaxRestarts = 1
  MaxBytes = 5
  ChunkTarget = 2
  OutputInit = 4
  OutputMax = 6
  FenceSizes = {1}
  MaxFenced = 1
  GrowFails = TRUE
INVARIANTS NewestKept Lossless UnreadIsNewest
PROPERTY CatchesUp
