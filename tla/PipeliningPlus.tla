--------------------------- MODULE PipeliningPlus ---------------------------
(***************************************************************************)
(* One connection of PipeliningPlusServer (scratchplus/pipelining_plus.py) *)
(* from the first request to the closed socket: the reader loop, one       *)
(* dispatch thread per request, the send lock, and the write buffer of the *)
(* Connection (scratchplus/tcp.py, buffer.py) that the threads share.      *)
(*                                                                         *)
(* The unit of output is a cell, a run of response bytes that is sent or   *)
(* lost as a whole.  Thread t is the t-th thread the reader starts.        *)
(* _parse_request is seen here through its results only (a request, None,  *)
(* an exception); module RequestReader models it byte by byte.             *)
(***************************************************************************)
EXTENDS Integers, Sequences

CONSTANTS
  N,                \* the client pipelines requests 1..N
  Kind,             \* [1..N -> Kinds], what _parse_request finds in each
  Id,               \* [1..N -> ids \cup {NoId}], their Request-ID headers
  NoId,             \* a request without Request-ID, a response without echo
  Body,             \* [1..N -> Nat \ {0}], cells of the handler's response
  RecvSize,         \* cells that flush() hands to one sendall() call
  RecvMayTimeout,   \* the client may be silent for conn_timeout seconds
  SendMayTimeout,   \* the client may stop reading for conn_timeout seconds
  JoinMayExpire,    \* a dispatch thread may outlive join(timeout=30.0)
  Stuck,            \* the requests whose handler need never return
  Cached            \* the requests whose handler returns one cached object

Requests == 1..N
Kinds == {"routed", "unrouted", "badline", "badlength"}
Dispatchable == {"routed", "unrouted"}

ASSUME PPAssumption ==
  /\ N \in Nat
  /\ Kind \in [Requests -> Kinds]
  /\ DOMAIN Id = Requests
  /\ Body \in [Requests -> Nat \ {0}]
  /\ RecvSize \in Nat \ {0}
  /\ RecvMayTimeout \in BOOLEAN
  /\ SendMayTimeout \in BOOLEAN
  /\ JoinMayExpire \in BOOLEAN
  /\ Stuck \subseteq Requests
  /\ Cached \subseteq Requests

VARIABLES
  arrived,  \* how many requests have reached the server's socket
  peer,     \* the client: "open", "eof" (it will send no more), "gone" (reset)
  rpc,      \* the connection thread: "reading", "joining", "closing", "closed"
  pending,  \* the list of started threads; pending[t] is t's argument req
  joined,   \* how many threads of pending the final loop is done with
  tpc,      \* [Requests -> thread states]
  object,   \* [Requests -> the HTTPResponse the thread holds], 0 is the cached
  header,   \* [0..N -> the Request-ID header of that HTTPResponse]
  echo,     \* [Requests -> the Request-ID in the thread's encoded response]
  size,     \* [Requests -> cells of the thread's response], 0 before it exists
  lock,     \* send_lock: the thread that holds it, or 0
  wbuf,     \* conn._wbuf
  chunk,    \* [Requests -> what sendall() still has to send of flush's chunk]
  wire      \* the cells the socket has accepted, in order

clientVars == <<arrived, peer>>
readerVars == <<rpc, pending, joined>>
replyVars  == <<object, header, echo, size>>
sendVars   == <<lock, wbuf, chunk, wire>>
vars == <<clientVars, readerVars, tpc, replyVars, sendVars>>

ThreadStates ==
  {"none", "handling", "labelling", "encoding", "ready", "sending", "done"}
Cell == [t : Requests, i : Nat, n : Nat]

TypeOK ==
  /\ arrived \in 0..N
  /\ peer \in {"open", "eof", "gone"}
  /\ rpc \in {"reading", "joining", "closing", "closed"}
  /\ pending \in Seq(Requests)
  /\ Len(pending) <= arrived
  /\ joined \in 0..N
  /\ tpc \in [Requests -> ThreadStates]
  /\ object \in [Requests -> 0..N]
  /\ DOMAIN header = 0..N
  /\ DOMAIN echo = Requests
  /\ size \in [Requests -> Nat]
  /\ lock \in 0..N
  /\ wbuf \in Seq(Cell)
  /\ chunk \in [Requests -> Seq(Cell)]
  /\ wire \in Seq(Cell)

Init ==
  /\ arrived = 0
  /\ peer = "open"
  /\ rpc = "reading"
  /\ pending = <<>>
  /\ joined = 0
  /\ tpc = [t \in Requests |-> "none"]
  /\ object = [t \in Requests |-> t]
  /\ header = [o \in 0..N |-> NoId]
  /\ echo = [t \in Requests |-> NoId]
  /\ size = [t \in Requests |-> 0]
  /\ lock = 0
  /\ wbuf = <<>>
  /\ chunk = [t \in Requests |-> <<>>]
  /\ wire = <<>>

-----------------------------------------------------------------------------
(* The client *)

SendRequest ==
  /\ peer = "open"
  /\ arrived < N
  /\ arrived' = arrived + 1
  /\ UNCHANGED <<peer, readerVars, tpc, replyVars, sendVars>>

(* The client shuts down its sending side, or its connection is reset. *)
ClientLeaves ==
  /\ \/ peer = "open" /\ peer' = "eof"
     \/ peer # "gone" /\ peer' = "gone"
  /\ UNCHANGED <<arrived, readerVars, tpc, replyVars, sendVars>>

-----------------------------------------------------------------------------
(* The connection thread: the reader loop of _handle_conn, its join loop,  *)
(* and the finally clause of TCPServer._dispatch                           *)

NextRequest == Len(pending) + 1

(* Mutant: the list of threads is appended to twice. *)
ListedTwice == pending \o <<NextRequest, NextRequest>>

Listed == Append(pending, NextRequest)

(* Mutant: the reader waits for the previous thread, as HTTPServer does. *)
MayStartInTurn == \A t \in 1..Len(pending) : tpc[t] = "done"

MayStart == TRUE

ReadRequest ==
  /\ rpc = "reading"
  /\ NextRequest <= arrived
  /\ Kind[NextRequest] \in Dispatchable
  /\ MayStart
  /\ pending' = Listed
  /\ tpc' = [tpc EXCEPT ![NextRequest] = "handling"]
  /\ UNCHANGED <<clientVars, rpc, joined, replyVars, sendVars>>

(* _parse_request returns None: a request line without three parts, a     *)
(* head that is too long, end of file, a reset, or conn_timeout seconds    *)
(* without a byte.                                                         *)
ReadNone ==
  /\ rpc = "reading"
  /\ \/ NextRequest <= arrived /\ Kind[NextRequest] = "badline"
     \/ NextRequest > arrived /\ peer = "eof"
     \/ NextRequest > arrived /\ RecvMayTimeout
     \/ peer = "gone"
  /\ rpc' = "joining"
  /\ UNCHANGED <<clientVars, pending, joined, tpc, replyVars, sendVars>>

(* int() of a Content-Length that is no number raises; the exception       *)
(* leaves _handle_conn past the join loop, straight to the finally clause. *)
ReadRaises ==
  /\ rpc = "reading"
  /\ NextRequest <= arrived
  /\ Kind[NextRequest] = "badlength"
  /\ rpc' = "closing"
  /\ UNCHANGED <<clientVars, pending, joined, tpc, replyVars, sendVars>>

(* Mutant: join() returns without waiting. *)
JoinReturnsAtOnce == TRUE

JoinReturns == tpc[joined + 1] = "done" \/ JoinMayExpire

Join ==
  /\ rpc = "joining"
  /\ joined < Len(pending)
  /\ JoinReturns
  /\ joined' = joined + 1
  /\ UNCHANGED <<clientVars, rpc, pending, tpc, replyVars, sendVars>>

JoinEnds ==
  /\ rpc = "joining"
  /\ joined = Len(pending)
  /\ rpc' = "closing"
  /\ UNCHANGED <<clientVars, pending, joined, tpc, replyVars, sendVars>>

Close ==
  /\ rpc = "closing"
  /\ rpc' = "closed"
  /\ UNCHANGED <<clientVars, pending, joined, tpc, replyVars, sendVars>>

Reader == ReadRequest \/ ReadNone \/ ReadRaises \/ Join \/ JoinEnds \/ Close

-----------------------------------------------------------------------------
(* A dispatch thread *)

(* The handler's own response, or a fresh one-cell page: of a path without *)
(* handler (404), or of a handler that raised (500).                       *)
Handle(t) ==
  /\ tpc[t] = "handling"
  /\ LET req == pending[t]
     IN \/ /\ Kind[req] = "routed"
           /\ size' = [size EXCEPT ![t] = Body[req]]
           /\ object' = [object EXCEPT ![t] = IF req \in Cached THEN 0 ELSE t]
        \/ /\ size' = [size EXCEPT ![t] = 1]
           /\ UNCHANGED object
  /\ tpc' = [tpc EXCEPT ![t] = "labelling"]
  /\ UNCHANGED <<clientVars, readerVars, header, echo, sendVars>>

(* Mutant: the closure reads the loop's variable req instead of its own. *)
LatestRequest(t) == pending[Len(pending)]

BoundRequest(t) == pending[t]

(* resp.headers["Request-ID"] = request_id, if the request carried one *)
Label(t) ==
  /\ tpc[t] = "labelling"
  /\ LET id == Id[BoundRequest(t)]
     IN header' = IF id = NoId THEN header
                  ELSE [header EXCEPT ![object[t]] = id]
  /\ tpc' = [tpc EXCEPT ![t] = "encoding"]
  /\ UNCHANGED <<clientVars, readerVars, object, echo, size, sendVars>>

Encode(t) ==
  /\ tpc[t] = "encoding"
  /\ echo' = [echo EXCEPT ![t] = header[object[t]]]
  /\ tpc' = [tpc EXCEPT ![t] = "ready"]
  /\ UNCHANGED <<clientVars, readerVars, object, header, size, sendVars>>

Response(t) == [i \in 1..size[t] |-> [t |-> t, i |-> i, n |-> size[t]]]

(* Mutant: conn.send(raw) outside the lock. *)
LockNotAsked == TRUE

LockFree == lock = 0

(* Mutant: the lock is held for send(), not for flush(). *)
HeldForSendOnly(t) == lock

HeldBy(t) == t

(* with send_lock: conn.send(raw) *)
Acquire(t) ==
  /\ tpc[t] = "ready"
  /\ LockFree
  /\ lock' = HeldBy(t)
  /\ wbuf' = wbuf \o Response(t)
  /\ tpc' = [tpc EXCEPT ![t] = "sending"]
  /\ UNCHANGED <<clientVars, readerVars, replyVars, chunk, wire>>

ChunkLength == IF Len(wbuf) < RecvSize THEN Len(wbuf) ELSE RecvSize

(* One turn of flush(): the chunk leaves the buffer before it is sent. *)
TakeChunk(t) ==
  /\ tpc[t] = "sending"
  /\ chunk[t] = <<>>
  /\ wbuf # <<>>
  /\ chunk' = [chunk EXCEPT ![t] = SubSeq(wbuf, 1, ChunkLength)]
  /\ wbuf' = SubSeq(wbuf, ChunkLength + 1, Len(wbuf))
  /\ UNCHANGED <<clientVars, readerVars, tpc, replyVars, lock, wire>>

(* Mutant: close() leaves the socket usable. *)
SocketUpAfterClose == peer # "gone"

SocketUp == rpc # "closed" /\ peer # "gone"

SendCell(t) ==
  /\ tpc[t] = "sending"
  /\ chunk[t] # <<>>
  /\ SocketUp
  /\ wire' = Append(wire, Head(chunk[t]))
  /\ chunk' = [chunk EXCEPT ![t] = Tail(@)]
  /\ UNCHANGED <<clientVars, readerVars, tpc, replyVars, lock, wbuf>>

(* Mutant: the lock is not released when sendall() raises. *)
LockKept == lock

LockReleased == 0

(* sendall() raises OSError: what is left of the chunk is lost, what is    *)
(* left in the buffer stays, the lock is released and the error dropped.   *)
SendFails(t) ==
  /\ tpc[t] = "sending"
  /\ chunk[t] # <<>>
  /\ ~SocketUp \/ SendMayTimeout
  /\ chunk' = [chunk EXCEPT ![t] = <<>>]
  /\ lock' = LockReleased
  /\ tpc' = [tpc EXCEPT ![t] = "done"]
  /\ UNCHANGED <<clientVars, readerVars, replyVars, wbuf, wire>>

Release(t) ==
  /\ tpc[t] = "sending"
  /\ chunk[t] = <<>>
  /\ wbuf = <<>>
  /\ lock' = 0
  /\ tpc' = [tpc EXCEPT ![t] = "done"]
  /\ UNCHANGED <<clientVars, readerVars, replyVars, wbuf, chunk, wire>>

Sender(t) ==
  \/ Label(t) \/ Encode(t)
  \/ Acquire(t) \/ TakeChunk(t) \/ SendCell(t) \/ SendFails(t) \/ Release(t)

(* The connection is over: nothing is left to run. *)
Finished ==
  /\ rpc = "closed"
  /\ \A t \in Requests : tpc[t] \in {"none", "done"}
  /\ UNCHANGED vars

Next ==
  \/ SendRequest
  \/ ClientLeaves
  \/ Reader
  \/ \E t \in Requests : Handle(t) \/ Sender(t)
  \/ Finished

Spec == Init /\ [][Next]_vars

(* recv() has nothing to return but may yet get something. *)
Silent == rpc = "reading" /\ NextRequest > arrived /\ peer = "open"

(* Threads are scheduled; a handler that is not Stuck returns; sendall()   *)
(* progresses or times out.  Nothing is assumed of the client, nor that    *)
(* the wait for a silent one runs out.                                     *)
Fairness ==
  /\ WF_vars(~Silent /\ Reader)
  /\ \A t \in Requests : WF_vars(Sender(t))
  /\ \A t \in Requests \ Stuck : WF_vars(Handle(t))

-----------------------------------------------------------------------------
(* Properties *)

(* No two responses share a stretch of the stream, and the cells of each   *)
(* keep their order: what send_lock is there for.  It must hold even when  *)
(* sends fail half way and the connection closes under a running thread.   *)
Contiguous(s) ==
  \A i, j \in DOMAIN s :
    i < j /\ s[i].t = s[j].t =>
      /\ s[i].i < s[j].i
      /\ \A k \in i..j : s[k].t = s[i].t

NoInterleave == Contiguous(wire)

(* The stream is a sequence of COMPLETE responses; only the last one may   *)
(* still be unfinished.                                                    *)
CompleteResponses ==
  \A k \in DOMAIN wire :
    /\ wire[k].i = 1 => k = 1 \/ wire[k - 1].i = wire[k - 1].n
    /\ wire[k].i > 1 => k > 1 /\ wire[k - 1] = [wire[k] EXCEPT !.i = @ - 1]

(* A response carries the Request-ID of the request it answers, although   *)
(* it is built in a thread that runs while the reader is requests ahead.   *)
EchoesOwnId ==
  \A t \in Requests : tpc[t] \in {"ready", "sending", "done"} => echo[t] = Id[t]

Answered(t) ==
  /\ size[t] > 0
  /\ \A i \in 1..size[t] :
       \E k \in DOMAIN wire : wire[k] = [t |-> t, i |-> i, n |-> size[t]]

(* When the server closes the socket on a client that still reads, every   *)
(* request it had accepted has its complete response on the wire.          *)
ClosedMeansAnswered ==
  rpc = "closed" /\ peer # "gone" =>
    \A t \in 1..Len(pending) : Answered(t)

(* A connection whose client has left is closed in the end, unless it      *)
(* waits for the handler of a Stuck request.                               *)
LeavesNoConnection ==
  (peer # "open") ~>
    (rpc = "closed" \/ \E t \in 1..Len(pending) : pending[t] \in Stuck /\ tpc[t] = "handling")

(* The connection is a Responder: an accepted request is answered at most  *)
(* once, never after the close, and never without having been accepted.    *)
Abstract == INSTANCE Responder WITH
  accepted <- Len(pending),
  answered <- {t \in Requests : Answered(t)},
  open     <- rpc # "closed"

RefinesResponder == Abstract!Spec
=============================================================================
