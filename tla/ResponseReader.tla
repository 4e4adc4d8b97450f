--------------------------- MODULE ResponseReader ---------------------------
(***************************************************************************)
(* recv_one() of the example clients, called Expected times: how a client  *)
(* takes responses off the byte stream of a server (PipeliningPlusClient   *)
(* in examples/pipelining_plus_client.py; the loops of the other HTTP      *)
(* clients there and in examples/pipelining_client.py read alike).         *)
(*                                                                         *)
(* The stream consists of cells; cell 1 of a response holds its head, and  *)
(* the Content-Length in it announces the n - 1 others.  _buf is the       *)
(* window ate + 1 .. got of the stream.  Bodies contain no blank line.     *)
(***************************************************************************)
EXTENDS Integers, Sequences

CONSTANTS
  Expected,     \* how many responses the client asks for
  RecvSize,     \* cells of one recv()
  Impatient     \* recv() may time out

VARIABLES
  stream,       \* what the server has sent
  over,         \* whether the server has closed its socket
  at,           \* "head", "body", "done", "ended"
  got,          \* cells received
  ate,          \* cells taken out of _buf
  answers       \* what recv_one() has returned

readVars == <<at, got, ate, answers>>

(* The blank lines that _buf holds; index() returns the first. *)
Heads == {k \in (ate + 1)..got : stream[k].i = 1}

(* The head being served is the last cell taken out of _buf. *)
ContentLength == stream[ate].n - 1

Wants == \/ at = "head" /\ Heads = {}
         \/ at = "body" /\ got - ate < ContentLength

Receive ==
  /\ Wants
  /\ \E n \in 1..RecvSize : got' = got + n
  /\ got' <= Len(stream)
  /\ UNCHANGED <<at, ate, answers>>

(* What stands in front of the head is taken for its status line, which    *)
(* int() may refuse.                                                       *)
ParseHead ==
  /\ at = "head"
  /\ \E k \in Heads :
       /\ \A j \in Heads : k <= j
       /\ ate' = k
       /\ at' \in IF k = ate + 1 THEN {"body"} ELSE {"body", "ended"}
  /\ UNCHANGED <<got, answers>>

(* Mutant: whatever _buf holds is the body. *)
BodyIsBuffer == got - ate

BodyLength == ContentLength

TakeBody ==
  /\ at = "body"
  /\ got - ate >= ContentLength
  /\ answers' = Append(answers, [head |-> stream[ate],
                                 body |-> SubSeq(stream, ate + 1, ate + BodyLength)])
  /\ ate' = ate + BodyLength
  /\ at' = IF Len(answers') = Expected THEN "done" ELSE "head"
  /\ UNCHANGED got

(* recv() times out, or returns b"": PipeliningPlusClient raises then, the *)
(* other clients go round their loop for ever; neither reads any further.  *)
NothingComes ==
  /\ Wants
  /\ got = Len(stream)
  /\ over \/ Impatient
  /\ at' = "ended"
  /\ UNCHANGED <<got, ate, answers>>

RecvOne == Receive \/ ParseHead \/ TakeBody \/ NothingComes
=============================================================================
