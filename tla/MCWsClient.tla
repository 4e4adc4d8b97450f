------------------------------ MODULE MCWsClient ------------------------------
(* An instance of WsClient for TLC: payloads on both sides of the lengths  *)
(* at which the header changes its form.                                   *)
EXTENDS WsClient

PingsAroundData == <<PING, BIN, PING, CLOSE>>
Thresholds == <<125, 65536, 126, 2>>
=============================================================================
