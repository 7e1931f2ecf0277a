SPECIFICATION FairSpec
CONSTANTS
  QueueMax = 10
  MaxChunk = 3
  MaxUnits = 2
  Bauds = {9600, 115200}
  Frames = {"8N1", "7E1"}
  Kinds = {"tcp", "uart", "gdb"}
  Typed <- TypedInputs
  Params = {"baud"}
  MaxTaken = 2
  MaxOpens = 2
  MaxChildren = 2
  Refused = {"shell"}
  AllowShell = TRUE
CHECK_DEADLOCK FALSE
INVARIANTS BytesFaithful SettingsTrue HandedBack
PROPERTIES Drains
