SPECIFICATION FairSpec
CONSTANTS
  Clients = {c1}
  Sinks = {}
  NoActor = NoActor
  Observers = {}
  PulsePins = {}
  FloodPins = {"none"}
  LastStage = 3
  MaxChunks = 2
  Async = FALSE
  Reconnect = TRUE
  Base = 2
  MaxDelay = 2
INVARIANTS ClientsKnowLink StallPushedOnce
PROPERTIES StallReported FloodEnds
