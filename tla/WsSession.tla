------------------------------ MODULE WsSession ------------------------------
(***************************************************************************)
(* One connection of WSServer (scratchplus/websocket.py): the upgrade, the *)
(* route's handler with its WSConnection, the answers recv_frame() gives   *)
(* by itself to PING and CLOSE, and the CLOSE of the finally clause.       *)
(*                                                                         *)
(* Handlers are those of the repository (examples/ws_server.py and the     *)
(* tests): they let OSError through, do not call recv_frame() again after  *)
(* it returned None, and send nothing behind a CLOSE.  Otherwise they may  *)
(* do anything: send unasked, close, return or raise at any point.         *)
(*                                                                         *)
(* A frame of the client is one item, as a session whose frame stays       *)
(* unfinished ends like one that is silent.  A frame of the server is a    *)
(* run of cells, the unit that is sent or lost as a whole: one with the    *)
(* bytes of its header, and up to two that carry the payload.              *)
(***************************************************************************)
EXTENDS Framing

CONSTANTS
  N,                \* the client sends frames 1..N
  Op,               \* [1..N -> opcodes], what each frame is
  Length,           \* [1..N -> Nat], bytes of its payload
  Sends,            \* data frames the handler sends at most
  Sizes,            \* their payloads
  RecvSize          \* cells that flush() hands to one sendall() call

Frames == 1..N
CONT == 0
TEXT == 1
BIN == 2
CLOSE == 8
PING == 9
PONG == 10
Opcodes == {CONT, TEXT, BIN, CLOSE, PING, PONG}

(* The responses to the upgrade request, by their status. *)
Upgraded == 101
Refused == 400

ASSUME WsAssumption ==
  /\ N \in Nat
  /\ Op \in [Frames -> Opcodes]
  /\ Length \in [Frames -> Nat]
  /\ Sends \in Nat
  /\ Sizes \subseteq Nat
  /\ RecvSize \in Nat \ {0}

VARIABLES
  arrived,  \* how many frames have reached the server's socket
  peer,     \* the client: "open", "eof" (it will send no more), "gone" (reset)
  at,       \* where the connection thread is, see Places
  then,     \* where it goes on after the write, or after a failed one
  read,     \* how many frames read_frame() has returned
  over,     \* recv_frame() has returned None
  closed,   \* WSConnection._closed
  unasked,  \* how many data frames the handler has sent
  frames,   \* how many frames (handshake responses included) were written
  wbuf,     \* conn._wbuf
  chunk,    \* what sendall() still has to send of flush's chunk
  wire,     \* the cells the socket has accepted, in order
  broken    \* whether a sendall() has failed (history, for the properties)

clientVars == <<arrived, peer>>
sessionVars == <<read, over, closed, unasked>>
outVars == <<frames, wbuf, chunk, wire, broken>>
vars == <<clientVars, at, then, sessionVars, outVars>>

(* In _parse_request, in the handler's code, in recv_frame(), in the       *)
(* finally clause, in write_frame(), behind _handle_conn.                  *)
Places == {"upgrading", "handler", "receiving", "finally", "writing", "closing", "closed"}
Cell == [f : Nat \ {0}, op : Opcodes \cup {Upgraded, Refused}, of : 0..N,
         head : Seq(Byte), size : Nat]

TypeOK ==
  /\ arrived \in 0..N
  /\ peer \in {"open", "eof", "gone"}
  /\ at \in Places
  /\ then \in [done : Places, failed : Places]
  /\ read \in 0..arrived
  /\ over \in BOOLEAN
  /\ closed \in BOOLEAN
  /\ unasked \in 0..Sends
  /\ frames \in Nat
  /\ wbuf \in Seq(Cell)
  /\ chunk \in Seq(Cell)
  /\ wire \in Seq(Cell)
  /\ broken \in BOOLEAN
  /\ chunk # <<>> => at = "writing"

Init ==
  /\ arrived = 0
  /\ peer = "open"
  /\ at = "upgrading"
  /\ then = [done |-> "closing", failed |-> "closing"]
  /\ read = 0
  /\ over = FALSE
  /\ closed = FALSE
  /\ unasked = 0
  /\ frames = 0
  /\ wbuf = <<>>
  /\ chunk = <<>>
  /\ wire = <<>>
  /\ broken = FALSE

-----------------------------------------------------------------------------
(* The client *)

SendFrame ==
  /\ peer = "open"
  /\ arrived < N
  /\ arrived' = arrived + 1
  /\ UNCHANGED <<peer, at, then, sessionVars, outVars>>

(* The client shuts down its sending side, or its connection is reset. *)
ClientLeaves ==
  /\ \/ peer = "open" /\ peer' = "eof"
     \/ peer # "gone" /\ peer' = "gone"
  /\ UNCHANGED <<arrived, at, then, sessionVars, outVars>>

-----------------------------------------------------------------------------
(* write_frame, and the sendall() calls of flush() *)

(* Cell of the header, and the payload of n bytes in at most two pieces. *)
CellsOf(f, op, of, n) ==
  LET cell(head, size) ==
        [f |-> f, op |-> op, of |-> of, head |-> head, size |-> size]
      header == cell(IF op \in Opcodes THEN ServerHead(op, n) ELSE <<>>, 0)
  IN CASE n = 0 -> <<header>>
       [] n = 1 -> <<header, cell(<<>>, 1)>>
       [] OTHER -> <<header, cell(<<>>, n \div 2), cell(<<>>, n - (n \div 2))>>

(* The frame goes behind whatever the buffer still holds. *)
Write(op, n, of, done, failed) ==
  /\ wbuf' = wbuf \o CellsOf(frames + 1, op, of, n)
  /\ frames' = frames + 1
  /\ at' = "writing"
  /\ then' = [done |-> done, failed |-> failed]
  /\ UNCHANGED <<chunk, wire, broken>>

ChunkLength == IF Len(wbuf) < RecvSize THEN Len(wbuf) ELSE RecvSize

TakeChunk ==
  /\ at = "writing"
  /\ chunk = <<>>
  /\ wbuf # <<>>
  /\ chunk' = SubSeq(wbuf, 1, ChunkLength)
  /\ wbuf' = SubSeq(wbuf, ChunkLength + 1, Len(wbuf))
  /\ UNCHANGED <<clientVars, at, then, sessionVars, frames, wire, broken>>

SendCell ==
  /\ at = "writing"
  /\ chunk # <<>>
  /\ peer # "gone"
  /\ wire' = Append(wire, Head(chunk))
  /\ chunk' = Tail(chunk)
  /\ UNCHANGED <<clientVars, at, then, sessionVars, frames, wbuf, broken>>

(* Mutant: the chunk is put aside for a later attempt. *)
ChunkKept == chunk

ChunkLost == <<>>

(* sendall() raises OSError, as the client is gone or has not read for     *)
(* conn_timeout seconds: what is left of the chunk is lost, what is left   *)
(* in the buffer stays.                                                    *)
SendFails ==
  /\ at = "writing"
  /\ chunk # <<>>
  /\ chunk' = ChunkLost
  /\ broken' = TRUE
  /\ at' = then.failed
  /\ UNCHANGED <<clientVars, then, sessionVars, frames, wbuf, wire>>

WriteEnds ==
  /\ at = "writing"
  /\ chunk = <<>>
  /\ wbuf = <<>>
  /\ at' = then.done
  /\ UNCHANGED <<clientVars, then, sessionVars, outVars>>

Writing == TakeChunk \/ SendCell \/ SendFails \/ WriteEnds

-----------------------------------------------------------------------------
(* The upgrade *)

NoRequest ==
  /\ at = "upgrading"
  /\ at' = "closing"
  /\ UNCHANGED <<clientVars, then, sessionVars, outVars>>

RefuseUpgrade ==
  /\ at = "upgrading"
  /\ Write(Refused, 11, 0, "closing", "closing")
  /\ UNCHANGED <<clientVars, sessionVars>>

(* 101 goes out for a path without handler too; its CLOSE (code 1011) is   *)
(* sent like the one of the finally clause.                                *)
Upgrade ==
  /\ at = "upgrading"
  /\ \E place \in {"handler", "finally"} : Write(Upgraded, 0, 0, place, "closing")
  /\ UNCHANGED <<clientVars, sessionVars>>

-----------------------------------------------------------------------------
(* The handler *)

(* send_text(); send_binary() and send_ping() differ in the opcode only.   *)
HandlerSends ==
  /\ at = "handler"
  /\ ~closed
  /\ unasked < Sends
  /\ unasked' = unasked + 1
  /\ \E n \in Sizes : Write(TEXT, n, 0, "handler", "finally")
  /\ UNCHANGED <<clientVars, read, over, closed>>

(* send_close() with a code of two bytes; a second call does nothing. *)
HandlerCloses ==
  /\ at = "handler"
  /\ ~closed
  /\ closed' = TRUE
  /\ Write(CLOSE, 2, 0, "handler", "finally")
  /\ UNCHANGED <<clientVars, read, over, unasked>>

HandlerReceives ==
  /\ at = "handler"
  /\ ~over
  /\ at' = "receiving"
  /\ UNCHANGED <<clientVars, then, sessionVars, outVars>>

(* It returns or raises. *)
HandlerEnds ==
  /\ at = "handler"
  /\ at' = "finally"
  /\ UNCHANGED <<clientVars, then, sessionVars, outVars>>

Handler == HandlerSends \/ HandlerCloses \/ HandlerReceives \/ HandlerEnds

-----------------------------------------------------------------------------
(* recv_frame *)

(* What read_frame() makes of the next frame; any mask is as good. *)
SomeMask == <<1, 2, 3, 4>>
NextFrame == ServerReads(ClientHead(Op[read + 1], Length[read + 1], SomeMask))

Receiving ==
  /\ at = "receiving"
  /\ read < arrived
  /\ read' = read + 1

(* Mutant: no PONG once CLOSE was sent. *)
AnswersUnlessClosed == ~closed

AnswersAlways == TRUE

ReceivePing ==
  /\ Receiving
  /\ NextFrame.op = PING
  /\ IF AnswersAlways
     THEN Write(PONG, NextFrame.length, read + 1, "receiving", "finally")
     ELSE UNCHANGED <<at, then, outVars>>
  /\ UNCHANGED <<clientVars, over, closed, unasked>>

ReceiveData ==
  /\ Receiving
  /\ NextFrame.op \notin {PING, CLOSE}
  /\ at' = "handler"
  /\ UNCHANGED <<clientVars, then, over, closed, unasked, outVars>>

(* The CLOSE is echoed, unless it answers one of ours. *)
ReceiveClose ==
  /\ Receiving
  /\ NextFrame.op = CLOSE
  /\ over' = TRUE
  /\ closed' = TRUE
  /\ IF closed THEN at' = "handler" /\ UNCHANGED <<then, outVars>>
               ELSE Write(CLOSE, 2, 0, "handler", "finally")
  /\ UNCHANGED <<clientVars, unasked>>

NothingComes ==
  \/ read = arrived      \* end of file, or conn_timeout seconds of silence
  \/ peer = "gone"

(* Mutant: recv_frame() tries again. *)
AfterNothingAgain == "receiving"

AfterNothing == "handler"

(* read_frame() returns None, between two frames or in one. *)
ReceiveNothing ==
  /\ at = "receiving"
  /\ NothingComes
  /\ over' = TRUE
  /\ at' = AfterNothing
  /\ UNCHANGED <<clientVars, then, read, closed, unasked, outVars>>

Receive == ReceivePing \/ ReceiveData \/ ReceiveClose \/ ReceiveNothing

-----------------------------------------------------------------------------
(* The end of _handle_conn *)

(* Mutant: only a handler that was left by the client closes. *)
NeedsNoCloseUnlessOver == closed \/ ~over

NeedsNoClose == closed

Finally ==
  /\ at = "finally"
  /\ IF NeedsNoClose
       THEN at' = "closing" /\ UNCHANGED <<then, closed, outVars>>
       ELSE closed' = TRUE /\ Write(CLOSE, 2, 0, "closing", "closing")
  /\ UNCHANGED <<clientVars, read, over, unasked>>

Close ==
  /\ at = "closing"
  /\ at' = "closed"
  /\ UNCHANGED <<clientVars, then, sessionVars, outVars>>

Finished == at = "closed" /\ UNCHANGED vars

Server ==
  \/ NoRequest \/ RefuseUpgrade \/ Upgrade
  \/ Writing \/ Handler \/ Receive
  \/ Finally \/ Close

(* recv() has nothing to return but may yet get something. *)
Silent == at = "receiving" /\ read = arrived /\ peer = "open"

Next == SendFrame \/ ClientLeaves \/ Server \/ Finished

Spec == Init /\ [][Next]_vars

-----------------------------------------------------------------------------
(* Properties *)

(* The header cells of the frames of an opcode. *)
Written(op) == {k \in DOMAIN wire : wire[k].op = op /\ wire[k].head # <<>>}

(* A session that was upgraded never just breaks off: whoever starts the   *)
(* closing handshake, and wherever a write fails, no second CLOSE is sent; *)
(* and when the server closes the socket with no sendall() having failed,  *)
(* a CLOSE is on the wire, and nothing but PONGs behind it.                *)
EndsWithClose ==
  /\ \A j, k \in Written(CLOSE) : j = k
  /\ at = "closed" /\ ~broken /\ (\E k \in DOMAIN wire : wire[k].op = Upgraded) =>
       \E k \in Written(CLOSE) :
         \A j \in DOMAIN wire : j > k => wire[j].op \in {CLOSE, PONG}

Ping(r) == r \in 1..read /\ Op[r] = PING
Ponged(r) == \E k \in Written(PONG) : wire[k].of = r

(* PINGs are answered in order with as many bytes as they had, none twice, *)
(* none passed over, and all of those read before recv_frame() waits for   *)
(* another frame or returns one.                                           *)
PongsAnswerPings ==
  /\ \A k \in Written(PONG) :
       /\ Ping(wire[k].of)
       /\ ClientReads(wire[k].head).length = Length[wire[k].of]
       /\ \A j \in Written(PONG) : j < k => wire[j].of < wire[k].of
       /\ \A r \in 1..(wire[k].of - 1) : Ping(r) => Ponged(r)
  /\ at \in {"receiving", "handler"} => \A r \in 1..read : Ping(r) => Ponged(r)

(* Once the client has left or has sent a CLOSE the connection is closed   *)
(* in the end.                                                             *)
LeavesNoConnection ==
  (peer # "open" \/ \E r \in 1..arrived : Op[r] = CLOSE) ~> (at = "closed")
=============================================================================
