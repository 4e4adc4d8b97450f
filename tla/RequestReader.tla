---------------------------- MODULE RequestReader ----------------------------
(***************************************************************************)
(* _parse_request (scratchplus/http.py) called again and again on one      *)
(* connection, down to the recv() calls of Connection and the contents of  *)
(* its read buffer.  HTTPServer and PipeliningPlusServer both read their   *)
(* requests this way.                                                      *)
(*                                                                         *)
(* Bytes are positions of the stream the client sends: request r has its   *)
(* head (blank line included) at Start[r] + 1 .. HeadEnd(r) and the body   *)
(* its Content-Length announces right behind it.  rbuf always holds a      *)
(* window of that stream, positions used + 1 .. got.  Bodies contain no    *)
(* blank line.                                                             *)
(***************************************************************************)
EXTENDS Integers, Sequences

CONSTANTS
  N,              \* the client sends requests 1..N
  Start,          \* [1..N + 1 -> Nat], where each request starts
  HeadLen,        \* [1..N -> Nat \ {0}], bytes of its head
  BodyLen,        \* [1..N -> Nat], its Content-Length
  Kind,           \* [1..N -> Kinds], what its head parses to
  RecvSize,       \* RECV_SIZE
  MaxHeader,      \* _MAX_HEADER_BYTES
  RecvMayTimeout  \* the client may pause for conn_timeout seconds

Requests == 1..N
(* "malformed": the request line has not three parts.  "raises": a head    *)
(* that is not UTF-8, or a Content-Length that is no number.               *)
Kinds == {"request", "malformed", "raises"}

ASSUME ReaderAssumption ==
  /\ N \in Nat
  /\ Start \in [1..(N + 1) -> Nat]
  /\ HeadLen \in [Requests -> Nat \ {0}]
  /\ BodyLen \in [Requests -> Nat]
  /\ Kind \in [Requests -> Kinds]
  /\ Start[1] = 0
  /\ \A r \in Requests : Start[r + 1] = Start[r] + HeadLen[r] + BodyLen[r]
  /\ \A q, r \in 1..(N + 1) : q <= r => Start[q] <= Start[r]   \* which follows
  /\ RecvSize \in Nat \ {0}
  /\ MaxHeader \in Nat
  /\ RecvSize <= MaxHeader
  /\ RecvMayTimeout \in BOOLEAN

VARIABLES
  sent,       \* bytes the client has sent and no reset has destroyed
  peer,       \* the client: "open", "eof" (it will send no more), "gone" (reset)
  got,        \* bytes recv() has returned
  used,       \* bytes taken out of rbuf
  pc,         \* "idle" (between two calls), "header", "body", "ended", "raised"
  first,      \* where the head being served starts
  want,       \* content_length of the request being read
  requests,   \* the requests returned so far
  refused,    \* whether a head was given up for its length
  timeouts    \* history: where a recv() or a sendall() has timed out

streamVars == <<sent, peer>>
bufVars == <<got, used>>
parseVars == <<pc, first, want, requests, refused, timeouts>>
rrvars == <<streamVars, bufVars, parseVars>>

Total == Start[N + 1]
HeadEnd(r) == Start[r] + HeadLen[r]
Buffered == got - used

Request == [first : Nat, head : Nat, want : Nat, body : Nat]

ReaderTypeOK ==
  /\ sent \in 0..Total
  /\ peer \in {"open", "eof", "gone"}
  /\ got \in 0..sent
  /\ used \in 0..got
  /\ pc \in {"idle", "header", "body", "ended", "raised"}
  /\ first \in 0..used
  /\ want \in Nat
  /\ requests \in Seq(Request)
  /\ refused \in BOOLEAN
  /\ timeouts \subseteq {"head", "body", "send"}

ReaderInit ==
  /\ sent = 0
  /\ peer = "open"
  /\ got = 0
  /\ used = 0
  /\ pc = "idle"
  /\ first = 0
  /\ want = 0
  /\ requests = <<>>
  /\ refused = FALSE
  /\ timeouts = {}

-----------------------------------------------------------------------------
(* The client *)

SendByte ==
  /\ peer = "open"
  /\ sent < Total
  /\ sent' = sent + 1
  /\ UNCHANGED <<peer, bufVars, parseVars>>

(* The client shuts down its sending side, or its connection is reset and  *)
(* bytes that were not received yet are lost.                              *)
ClientLeaves ==
  /\ \/ peer = "open" /\ peer' = "eof" /\ UNCHANGED sent
     \/ peer # "gone" /\ peer' = "gone" /\ sent' \in got..sent
  /\ UNCHANGED <<bufVars, parseVars>>

Client == SendByte \/ ClientLeaves

-----------------------------------------------------------------------------
(* _parse_request *)

Call ==
  /\ pc = "idle"
  /\ pc' = "header"
  /\ UNCHANGED <<streamVars, bufVars, first, want, requests, refused, timeouts>>

(* recv() returns n bytes and appends them to rbuf. *)
Receive(n) ==
  /\ got + n <= sent
  /\ got' = got + n

(* recv() returns b"" or raises. *)
NothingComes == got = sent /\ (peer # "open" \/ RecvMayTimeout)

TimedOut(where) == IF peer = "open" THEN {where} ELSE {}

(* The heads that rbuf holds to the end; find() returns the first. *)
HeadsFound == {r \in Requests : used < HeadEnd(r) /\ HeadEnd(r) <= got}

(* Mutant: a head as long as the limit is refused. *)
TooLongAtLimit(n) == n >= MaxHeader

TooLong(n) == n > MaxHeader

(* The length is checked after every recv(), a head that it completed      *)
(* included.                                                               *)
RecvHeader ==
  /\ pc = "header"
  /\ HeadsFound = {}
  /\ \E n \in 1..RecvSize : Receive(n)
  /\ refused' = TooLong(got' - used)
  /\ pc' = IF refused' THEN "ended" ELSE "header"
  /\ UNCHANGED <<streamVars, used, first, want, requests, timeouts>>

HeaderEnds ==
  /\ pc = "header"
  /\ HeadsFound = {}
  /\ NothingComes
  /\ pc' = "ended"
  /\ timeouts' = timeouts \cup TimedOut("head")
  /\ UNCHANGED <<streamVars, bufVars, first, want, requests, refused>>

(* A head read from its first byte is what it is; one that starts with the *)
(* rest of an earlier body can turn out as anything.                       *)
Outcomes(r) == IF used = Start[r] THEN {Kind[r]} ELSE Kinds

ParseHead ==
  /\ pc = "header"
  /\ \E r \in HeadsFound :
       /\ \A q \in HeadsFound : r <= q
       /\ first' = used
       /\ used' = HeadEnd(r)
       /\ \/ /\ "request" \in Outcomes(r)
             /\ pc' = "body"
             /\ want' = BodyLen[r]
          \/ /\ "malformed" \in Outcomes(r)
             /\ pc' = "ended"
             /\ UNCHANGED want
          \/ /\ "raises" \in Outcomes(r)
             /\ pc' = "raised"
             /\ UNCHANGED want
  /\ UNCHANGED <<streamVars, got, requests, refused, timeouts>>

(* Mutant: recv() whatever rbuf holds. *)
ShortAlways == TRUE

(* Mutant: one byte more than the body is waited for. *)
ShortByOne == want > 0 /\ Buffered <= want

Short == Buffered < want

RecvBody ==
  /\ pc = "body"
  /\ Short
  /\ \E n \in 1..RecvSize : Receive(n)
  /\ UNCHANGED <<streamVars, used, parseVars>>

(* Mutant: the whole of rbuf is taken for the body. *)
TakenAll == Buffered

(* Mutant: a short body is counted as a whole one. *)
TakenUnclipped == want

(* What read(content_length) takes. *)
Taken == IF Buffered < want THEN Buffered ELSE want

(* body = rbuf.read(content_length), once there is enough or nothing more  *)
(* comes: a short body is returned like a whole one.                       *)
Deliver ==
  /\ pc = "body"
  /\ ~Short \/ NothingComes
  /\ used' = used + Taken
  /\ requests' = Append(requests, [first |-> first, head |-> used - first,
                                   want |-> want, body |-> Taken])
  /\ pc' = "idle"
  /\ timeouts' = timeouts \cup (IF Buffered < want THEN TimedOut("body") ELSE {})
  /\ UNCHANGED <<streamVars, got, first, want, refused>>

(* recv() has nothing to return but may yet get something. *)
Silent ==
  /\ got = sent /\ peer = "open"
  /\ \/ pc = "header" /\ HeadsFound = {}
     \/ pc = "body" /\ Short

-----------------------------------------------------------------------------
(* Properties *)

(* The i-th call returns the i-th request, from its first byte and whole.  *)
(* Only the last one may be cut short, by a client that left in its body.  *)
InStep ==
  \A i \in DOMAIN requests :
    /\ i \in Requests
    /\ requests[i].first = Start[i]
    /\ requests[i].head = HeadLen[i]
    /\ requests[i].want = BodyLen[i]
    /\ requests[i].body < requests[i].want => i = Len(requests) /\ peer # "open"

(* As long as no recv() has timed out inside a body, the stream and the   *)
(* parser stay in step, however the bytes arrive and whatever the client's *)
(* end does to the last request.                                           *)
InStepUnlessCut == "body" \notin timeouts => InStep

(* rbuf never holds more than the larger of a longest head and the body    *)
(* being read, and one recv() on top.                                      *)
BoundedBuffer ==
  Buffered <= RecvSize + (IF want < MaxHeader THEN MaxHeader ELSE want)

ShortHead(r) == HeadLen[r] + RecvSize <= MaxHeader + 1

(* No head is refused that stays below the limit by one recv(), however    *)
(* the stream is cut into segments and whatever is pipelined behind it,    *)
(* while the parser is in step.                                            *)
ShortHeadsServed ==
  refused /\ "body" \notin timeouts => \E r \in Requests : Start[r] = used /\ ~ShortHead(r)
=============================================================================
