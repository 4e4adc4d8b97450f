-------------------------- MODULE MCPipeliningPlus --------------------------
(* Instances of PipeliningPlus for TLC. *)
EXTENDS PipeliningPlus

RaisesAtLast == <<"routed", "unrouted", "routed", "badlength">>
FourIds == <<"a", "none", "b", "none">>
FourBodies == <<3, 1, 2, 1>>
MalformedAtLast == <<"routed", "routed", "badline">>
ThreeIds == <<"a", "b", "c">>
ThreeBodies == <<3, 1, 2>>
=============================================================================
