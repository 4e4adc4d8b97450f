-------------------------- MODULE MCClassicClient --------------------------
(* An instance of ClassicClient for TLC: heads below and at the header     *)
(* limit, a body longer than a recv(), a request behind one that closes.   *)
EXTENDS ClassicClient

Heads == <<3, 2, 4, 2>>
Bodies == <<5, 0, 1, 0>>
Starts == <<0, 8, 10, 15, 17>>
Regular == <<"request", "request", "request", "request">>
FirstTwoCells == <<2, 1, 1, 1>>
=============================================================================
