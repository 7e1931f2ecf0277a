SPECIFICATION FairSpec
CONSTANTS
  MaxStream = 8
  ReadCap = 7
  FeedMax = 2
  MaxLoops = 2
CHECK_DEADLOCK FALSE
INVARIANT CommandsExact
PROPERTY BurstHandled
