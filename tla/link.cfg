SPECIFICATION FairSpec
CONSTANTS
  Clients = {c1}
  Sinks = {mcp}
  NoActor = NoActor
  Observers = {}
  PulsePins = {"break"}
  FloodPins = {}
  LastStage = 0
  MaxChunks = 0
  Async = TRUE
  Reconnect = TRUE
  Base = 2
  MaxDelay = 5
INVARIANTS SuspendOwnsWire LinkFlagsTrue TakeoverIsLive
PROPERTIES LinkComesBack PulseEnds StopIsHonoured
