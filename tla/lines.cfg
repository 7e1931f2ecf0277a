SPECIFICATION Spec
CONSTANTS
  Clients = {c1}
  Sinks = {}
  NoActor = NoActor
  Observers = {}
  PulsePins = {"break", "rts"}
  FloodPins = {"rts"}
  LastStage = 0
  MaxChunks = 1
  Async = FALSE
  Reconnect = TRUE
  Base = 2
  MaxDelay = 2
INVARIANTS CompletedOnce BreakHeldByMachine ResetReleased
