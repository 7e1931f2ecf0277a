------------------------------ MODULE MCWsSink ------------------------------
(***************************************************************************)
(* Model checking WsSink: two peers that come by the WebSocket sink, or    *)
(* one of them by TCP and the other by the Unix socket. Both may ask for   *)
(* the same name, one without the token and one with an unknown version.   *)
(***************************************************************************)
EXTENDS WsSink

Hello(name, token, version) ==
  [t |-> "hello", name |-> name, token |-> token, role |-> TRUE, version |-> version]

Said == [p \in Peers |->
  IF p = "w" THEN {Hello("n", TRUE, TRUE), Hello("", FALSE, TRUE)}
  ELSE {Hello("n", TRUE, FALSE), Hello("", TRUE, TRUE)}]

PeerDoors == [p \in Peers |-> IF p = "w" THEN {"ws", "tcp"} ELSE {"ws", "unix"}]
=============================================================================
