----------------------------- MODULE HttpServer -----------------------------
(***************************************************************************)
(* One connection of HTTPServer (scratchplus/http.py): _handle_conn reads  *)
(* a request with _parse_request (module RequestReader), calls the handler *)
(* on the same thread, flushes the response, and goes on or stops as the   *)
(* request's version and Connection header ask.                            *)
(***************************************************************************)
EXTENDS RequestReader

CONSTANTS
  Closes,           \* the requests that are not HTTP/1.1 or say close
  Cells,            \* [Requests -> Nat \ {0}], cells of the handler's response
  SendMayTimeout    \* the client may stop reading for conn_timeout seconds

ASSUME HttpAssumption ==
  /\ Closes \subseteq Requests
  /\ Cells \in [Requests -> Nat \ {0}]
  /\ SendMayTimeout \in BOOLEAN

VARIABLES
  srv,      \* "parsing", "handling", "flushing", "closing", "closed"
  keep,     \* keep_alive
  out,      \* cells of the response that sendall() still has to send
  wire      \* cells sent

srvVars == <<srv, keep, out, wire>>
vars == <<rrvars, srvVars>>

(* Cell i of the n cells that answer the request of one call of            *)
(* _parse_request, and what its Connection header says.                    *)
Cell == [call : Nat, i : Nat, n : Nat, keep : BOOLEAN]

Page(c, n, k) == [i \in 1..n |-> [call |-> c, i |-> i, n |-> n, keep |-> k]]

TypeOK ==
  /\ ReaderTypeOK
  /\ srv \in {"parsing", "handling", "flushing", "closing", "closed"}
  /\ keep \in BOOLEAN
  /\ out \in Seq(Cell)
  /\ wire \in Seq(Cell)

Init ==
  /\ ReaderInit
  /\ srv = "parsing"
  /\ keep = TRUE
  /\ out = <<>>
  /\ wire = <<>>

-----------------------------------------------------------------------------
Read ==
  /\ srv = "parsing"
  /\ \/ (Call \/ RecvHeader \/ HeaderEnds \/ ParseHead \/ RecvBody) /\ UNCHANGED srvVars
     \/ Deliver /\ srv' = "handling" /\ UNCHANGED <<keep, out, wire>>

(* The request whose head the last call of _parse_request parsed. *)
Served == CHOOSE r \in Requests :
  HeadEnd(r) = first + requests[Len(requests)].head

(* A garbled request line may carry any version. *)
KeepAlive == IF first = Start[Served] THEN {Served \notin Closes} ELSE BOOLEAN

(* Mutant: the head announces one cell less than there are. *)
PageUncounted(c, n, k) ==
  [i \in 1..(n + 1) |-> [call |-> c, i |-> i, n |-> n, keep |-> k]]

Encoded(c, n, k) == Page(c, n, k)

(* The handler's response, or the one-cell page of a path without handler  *)
(* (404) or of a handler that raised (500).                                *)
Handle ==
  /\ srv = "handling"
  /\ keep' \in KeepAlive
  /\ \E n \in {Cells[Served], 1} : out' = Encoded(Len(requests), n, keep')
  /\ srv' = "flushing"
  /\ UNCHANGED <<rrvars, wire>>

SendCell ==
  /\ srv = "flushing"
  /\ out # <<>>
  /\ peer # "gone"
  /\ out' = Tail(out)
  /\ wire' = Append(wire, Head(out))
  /\ UNCHANGED <<rrvars, srv, keep>>

(* Mutant: the error is swallowed, as PipeliningPlusServer does. *)
AfterFailureOn == "parsing"

AfterFailure == "closing"

(* sendall() raises OSError, which ends _handle_conn. *)
SendFails ==
  /\ srv = "flushing"
  /\ out # <<>>
  /\ peer = "gone" \/ SendMayTimeout
  /\ srv' = AfterFailure
  /\ timeouts' = timeouts \cup (IF peer = "gone" THEN {} ELSE {"send"})
  /\ UNCHANGED <<streamVars, bufVars, pc, first, want, requests, refused>>
  /\ UNCHANGED <<keep, out, wire>>

(* Mutant: keep_alive is announced and forgotten. *)
AfterFlushOn == "parsing"

AfterFlush == IF keep THEN "parsing" ELSE "closing"

FlushEnds ==
  /\ srv = "flushing"
  /\ out = <<>>
  /\ srv' = AfterFlush
  /\ UNCHANGED <<rrvars, keep, out, wire>>

(* Mutant: end of file ends the loop although rbuf is not empty. *)
NothingReadAtEof == pc \in {"ended", "raised"} \/ peer = "eof"

(* _parse_request returned None or raised. *)
NothingRead == pc \in {"ended", "raised"}

LoopEnds ==
  /\ srv = "parsing"
  /\ NothingRead
  /\ srv' = "closing"
  /\ UNCHANGED <<rrvars, keep, out, wire>>

Close ==
  /\ srv = "closing"
  /\ srv' = "closed"
  /\ UNCHANGED <<rrvars, keep, out, wire>>

Server ==
  \/ Read
  \/ Handle
  \/ SendCell \/ SendFails \/ FlushEnds
  \/ LoopEnds \/ Close

Closed == srv = "closed" /\ UNCHANGED vars

Next ==
  \/ Client /\ UNCHANGED srvVars
  \/ Server
  \/ Closed

(* The connection thread is scheduled, its handlers return, and sendall()  *)
(* progresses or times out.  That the wait for a silent client runs out is *)
(* not assumed.                                                            *)
Spec == Init /\ [][Next]_vars /\ WF_vars(~Silent /\ Server)

-----------------------------------------------------------------------------
(* Properties *)

(* The calls whose responses have been sent to the last cell. *)
Answered == {wire[k].call : k \in {j \in DOMAIN wire : wire[j].i = wire[j].n}}

(* The Connection header of a response is the truth: nothing is read or    *)
(* answered behind a response that says close, and behind one that says    *)
(* keep-alive the server closes only because the next request could not be *)
(* read or answered.                                                       *)
KeepsItsWord ==
  /\ \A k \in DOMAIN wire : ~wire[k].keep =>
       /\ pc = "idle"
       /\ \A j \in DOMAIN wire : wire[j].call <= wire[k].call
       /\ wire[k].call = Len(requests)
  /\ srv = "closed" /\ wire # <<>> =>
       \/ ~wire[Len(wire)].keep
       \/ pc \in {"ended", "raised"}
       \/ Len(requests) \notin Answered

(* Without timeouts a client that has shut down its sending side still     *)
(* gets a response to every whole request it had sent, up to the first     *)
(* that asks to close, cannot be parsed or comes near the header limit.    *)
HalfClosedStillAnswered ==
  srv = "closed" /\ peer = "eof" /\ timeouts = {} =>
    \A r \in Requests :
      /\ Start[r + 1] <= sent
      /\ \A q \in 1..r : Kind[q] = "request" /\ ShortHead(q)
      /\ \A q \in 1..(r - 1) : q \notin Closes
      => r \in Answered

(* A whole request is answered in the end, or the connection is closed,    *)
(* without a byte more from the client, as long as the parser is in step;  *)
(* and a connection whose client has left is closed in the end.            *)
Responsive ==
  /\ \A r \in Requests :
       (sent >= Start[r + 1]) ~> (r \in Answered \/ srv = "closed" \/ "body" \in timeouts)
  /\ (peer # "open") ~> (srv = "closed")

(* Classic pipelining: one response per request, in the order of requests. *)
Abstract == INSTANCE Responder WITH
  accepted <- Len(requests),
  answered <- Answered,
  open     <- srv # "closed"

AnswersInOrder == Abstract!InOrderSpec
=============================================================================
