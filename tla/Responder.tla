----------------------------- MODULE Responder -----------------------------
(***************************************************************************)
(* What every request/response server of the package promises for one      *)
(* connection, whatever threads, locks and buffers it is built from:       *)
(* requests are accepted one at a time, an accepted request is answered at *)
(* most once, nothing is answered that was not accepted, and a closed      *)
(* connection neither accepts nor answers.                                 *)
(***************************************************************************)
EXTENDS Naturals

CONSTANT N      \* the client sends requests 1..N

VARIABLES
  accepted,     \* how many requests the server has taken off the stream
  answered,     \* the requests whose complete response is on the wire
  open          \* whether the server still holds the socket

rvars == <<accepted, answered, open>>

Init ==
  /\ accepted = 0
  /\ answered = {}
  /\ open = TRUE

Accept ==
  /\ open
  /\ accepted < N
  /\ accepted' = accepted + 1
  /\ UNCHANGED <<answered, open>>

Answer(r) ==
  /\ open
  /\ r \in (1..accepted) \ answered
  /\ answered' = answered \cup {r}
  /\ UNCHANGED <<accepted, open>>

Close ==
  /\ open
  /\ open' = FALSE
  /\ UNCHANGED <<accepted, answered>>

Next ==
  \/ Accept
  \/ \E r \in 1..N : Answer(r)
  \/ Close

Spec == Init /\ [][Next]_rvars

(***************************************************************************)
(* The stronger promise of classic pipelining: responses leave in the      *)
(* order of their requests, so a response waits for every earlier one.     *)
(***************************************************************************)
AnswerInOrder(r) ==
  /\ 1..(r - 1) \subseteq answered
  /\ Answer(r)

InOrderNext ==
  \/ Accept
  \/ \E r \in 1..N : AnswerInOrder(r)
  \/ Close

InOrderSpec == Init /\ [][InOrderNext]_rvars
=============================================================================
