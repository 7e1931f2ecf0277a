SPECIFICATION FairSpec
CONSTANTS
  Clients = {c1, c2}
  Observers = {}
  Mcp = mcp
  Ids = {i1}
  CollectMax = 2
  McpSlots = 2
  MaxRequests = 3
  MaxPending = 3
  MaxPerClient = 1
INVARIANTS TableHoldsWaiting AnswerFits
PROPERTY Delivers
