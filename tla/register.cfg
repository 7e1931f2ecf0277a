SPECIFICATION WsSpec
CONSTANTS
  Peers = {"w", "x"}
  DoorsOf <- PeerDoors
  MessagesOf <- Said
  HasToken = TRUE
  AllocFailures = {"struct"}
  ClientCap = 2
  PipeCap = 1
  BridgeCap = 1
  WsClientCap = 2
  FrameCap = 3
  LineCap = 2
  SockCap = 1
  TextSize = 2
  FrameOps = {"ping", "close", "oversize"}
  MaxFrames = 2
  MaxSaid = 1
CHECK_DEADLOCK FALSE
INVARIANTS OneOwner DoorKept
PROPERTY PeersServed
