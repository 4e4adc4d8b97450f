---------------------------- MODULE ClassicClient ----------------------------
(***************************************************************************)
(* PipelinedClient (examples/pipelining_client.py) on a connection of      *)
(* HTTPServer: it sends all its requests before it reads anything, then    *)
(* takes the responses off the stream and relies on their order alone.     *)
(***************************************************************************)
EXTENDS HttpServer

CONSTANTS
  ReadSize,       \* cells of one recv() of the client
  Impatient       \* the client's recv() may time out

VARIABLES
  at,       \* as in ResponseReader
  taken,    \* cells of the wire the client has received
  ate,      \* cells it has taken out of _buf
  answers   \* what recv_one() has returned

clientState == <<at, taken, ate, answers>>
allVars == <<vars, clientState>>

Incoming == INSTANCE ResponseReader WITH
  stream <- wire, over <- srv = "closed", Expected <- N,
  RecvSize <- ReadSize, got <- taken

ASSUME ClientAssumption == ReadSize \in Nat \ {0}

ClientInit ==
  /\ Init
  /\ at = "head"
  /\ taken = 0
  /\ ate = 0
  /\ answers = <<>>

(* recv_one(), once every request is on its way. *)
Receives ==
  /\ sent = Total
  /\ peer # "gone"
  /\ Incoming!RecvOne
  /\ UNCHANGED vars

ClientNext ==
  \/ Receives
  \/ Client /\ UNCHANGED <<srvVars, clientState>>
  \/ Server /\ UNCHANGED clientState
  \/ Closed /\ UNCHANGED clientState

ClientSpec ==
  /\ ClientInit
  /\ [][ClientNext]_allVars
  /\ WF_allVars(~Silent /\ Server /\ UNCHANGED clientState)

-----------------------------------------------------------------------------
(* Properties *)

(* The order is all the client needs: what its k-th recv_one() returns is  *)
(* the whole response to the k-th request the server read, and when the    *)
(* stream ends under it, it has taken every response that came whole.      *)
RightAnswer ==
  /\ \A k \in DOMAIN answers :
       LET page == <<answers[k].head>> \o answers[k].body
       IN page = Page(k, Len(page), page[1].keep)
  /\ at = "ended" /\ srv = "closed" /\ taken = Len(wire) =>
       Answered = 1..Len(answers)
=============================================================================
