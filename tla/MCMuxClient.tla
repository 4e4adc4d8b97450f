----------------------------- MODULE MCMuxClient -----------------------------
(* Instances of MuxClient for TLC. *)
EXTENDS MuxClient

SecondFirst == <<"s2", "s1">>
FourKinds == <<"routed", "other", "unrouted", "undecodable">>
FourIds == <<"s1", "x", "s2", "y">>
FourData == <<2, 0, 0, 0>>
TwoStreams == <<"routed", "routed">>
TwoIds == <<"s1", "s2">>
TwoData == <<2, 1>>
=============================================================================
