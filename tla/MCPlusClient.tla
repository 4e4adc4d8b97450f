---------------------------- MODULE MCPlusClient ----------------------------
(* An instance of PlusClient for TLC. *)
EXTENDS PlusClient

SecondUnrouted == <<"routed", "unrouted", "routed">>
ThreeIds == <<"req-1", "req-2", "req-3">>
ThreeBodies == <<3, 1, 2>>
=============================================================================
