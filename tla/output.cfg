SPECIFICATION QueueFairSpec
CONSTANTS
  Clients = {c1, c2}
  NoClient = none
  WqCap = 2
  CoalesceMax = 3
  MaxMsgs = 4
CHECK_DEADLOCK FALSE
INVARIANT RefsExact
PROPERTIES DeliversInOrder NoneLeftQueued
