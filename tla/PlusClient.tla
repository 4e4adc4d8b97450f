----------------------------- MODULE PlusClient -----------------------------
(***************************************************************************)
(* PipeliningPlusClient (examples/pipelining_plus_client.py) talking to a  *)
(* connection of PipeliningPlusServer: it sends all its requests, each     *)
(* with a Request-ID of its own, then takes as many responses off the      *)
(* stream, in whatever order they come, and closes, as run_demo() and      *)
(* run_benchmark() do.                                                     *)
(***************************************************************************)
EXTENDS PipeliningPlus

CONSTANT Impatient      \* the client's recv() may time out

VARIABLES
  at,       \* "sending", then as in ResponseReader
  got,      \* cells of the wire the client has received
  ate,      \* cells it has taken out of _buf
  answers   \* what recv_one() has returned

clientState == <<at, got, ate, answers>>
allVars == <<vars, clientState>>

Incoming == INSTANCE ResponseReader WITH
  stream <- wire, over <- rpc = "closed", Expected <- N

(* f"req-{self._counter}": no two requests share an id. *)
ASSUME OwnIds ==
  /\ N > 0
  /\ \A q, r \in Requests : Id[q] = Id[r] => q = r
  /\ \A r \in Requests : Id[r] # NoId

ClientInit ==
  /\ Init
  /\ at = "sending"
  /\ got = 0
  /\ ate = 0
  /\ answers = <<>>

Send ==
  /\ at = "sending"
  /\ SendRequest
  /\ at' = IF arrived' = N THEN "head" ELSE "sending"
  /\ UNCHANGED <<got, ate, answers>>

(* sendall() to a server that has closed raises. *)
SendRaises ==
  /\ at = "sending"
  /\ rpc = "closed"
  /\ at' = "ended"
  /\ UNCHANGED <<vars, got, ate, answers>>

(* Ctrl-C, or an exception in what the program does with an answer. *)
Killed ==
  /\ at \notin {"done", "ended"}
  /\ at' = "ended"
  /\ UNCHANGED <<vars, got, ate, answers>>

(* close(), or the end of a client that raised. *)
HangUp ==
  /\ at \in {"done", "ended"}
  /\ ClientLeaves
  /\ UNCHANGED clientState

Client == Send \/ SendRaises \/ (Incoming!RecvOne /\ UNCHANGED vars)

Server == Reader \/ \E t \in Requests : Handle(t) \/ Sender(t)

ClientNext ==
  \/ Client
  \/ Killed \/ HangUp
  \/ Server /\ UNCHANGED clientState
  \/ Finished /\ UNCHANGED clientState

(* The client program runs; it need not hang up. *)
ClientSpec ==
  ClientInit /\ [][ClientNext]_allVars /\ Fairness /\ WF_allVars(Client)

-----------------------------------------------------------------------------
(* Properties *)

(* The Request-ID the client reads in an answer. *)
IdOf(answer) == echo[answer.head.t]

(* "The client identifies each response by the echoed Request-ID": what it *)
(* files under an id is the whole response to the request that it sent     *)
(* with that id, and nothing is filed twice under one id.                  *)
MatchedById ==
  /\ \A k \in DOMAIN answers : \E r \in Requests :
       /\ IdOf(answers[k]) = Id[r]
       /\ <<answers[k].head>> \o answers[k].body = Response(r)
  /\ \A j, k \in DOMAIN answers :
       IdOf(answers[j]) = IdOf(answers[k]) => j = k

(* Head-of-line blocking is gone, seen from the client: the answer to a    *)
(* request that arrives while the server reads reaches it, however long    *)
(* the handlers of Stuck requests take, unless the client ends first.      *)
FastNotHeldBack ==
  \A r \in Requests \ Stuck :
    (\A q \in 1..r : Kind[q] \in Dispatchable) =>
      (arrived >= r /\ rpc = "reading") ~>
        ((\E k \in DOMAIN answers : IdOf(answers[k]) = Id[r]) \/ at = "ended")
=============================================================================
