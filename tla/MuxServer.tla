------------------------------ MODULE MuxServer ------------------------------
(***************************************************************************)
(* One connection of MuxServer (scratchplus/multiplexing.py): the frame    *)
(* reader, one handler thread per HEADERS frame, and MuxConn's lock, which *)
(* is taken and released for every frame.                                  *)
(*                                                                         *)
(* A frame on the wire is FrameCells cells, the unit that is sent or lost  *)
(* as a whole.  Thread t is the t-th thread the reader starts; cells carry *)
(* t for the properties, the program writes only the stream id.            *)
(***************************************************************************)
EXTENDS Integers, Sequences

CONSTANTS
  N,                \* the client sends frames 1..N
  Kind,             \* [1..N -> Kinds], what each frame is
  Sid,              \* [1..N -> ids], its stream id
  Data,             \* [1..N -> Nat], DATA frames of the stream's handler
  FrameCells,       \* cells of a frame
  RecvMayTimeout,   \* the client may be silent for conn_timeout seconds
  SendMayTimeout,   \* the client may stop reading for conn_timeout seconds
  JoinMayExpire,    \* a handler thread may outlive join(timeout=10.0)
  Stuck             \* the frames whose handler need never go on

Frames == 1..N
(* "other" is a DATA or END frame, "undecodable" a path that is not UTF-8. *)
Kinds == {"routed", "unrouted", "other", "undecodable"}

ASSUME MuxAssumption ==
  /\ N \in Nat
  /\ Kind \in [Frames -> Kinds]
  /\ DOMAIN Sid = Frames
  /\ Data \in [Frames -> Nat]
  /\ FrameCells \in Nat \ {0}
  /\ RecvMayTimeout \in BOOLEAN
  /\ SendMayTimeout \in BOOLEAN
  /\ JoinMayExpire \in BOOLEAN
  /\ Stuck \subseteq Frames

VARIABLES
  arrived,  \* how many frames have reached the server's socket
  peer,     \* the client: "open", "eof" (it will send no more), "gone" (reset)
  rpc,      \* the connection thread: "reading", "joining", "closing", "closed"
  read,     \* how many frames recv_frame() has returned
  pending,  \* the threads started; pending[t] is the frame t was started for
  joined,   \* how many threads of pending the final loop is done with
  tpc,      \* [Frames -> thread states]
  sid,      \* [Frames -> the stream id bound to the thread], None before
  sent,     \* [Frames -> how many DATA frames the thread has tried to send]
  lock,     \* MuxConn._lock: the thread that holds it, or 0
  frame,    \* [Frames -> what sendall() still has to send of the frame]
  wire,     \* the cells the socket has accepted, in order
  faults    \* history: "read" if the reader raised, "join" if a join()
            \* expired, "send" if sendall() timed out on a socket in use

clientVars == <<arrived, peer>>
readerVars == <<rpc, read, pending, joined>>
streamVars == <<sid, sent>>
sendVars   == <<lock, frame, wire>>
vars == <<clientVars, readerVars, tpc, streamVars, sendVars, faults>>

None == "none"

(* "running": in the handler; "data", "end": send_frame is called for a    *)
(* DATA frame, for the END frame of the finally clause; "data!", "end!":   *)
(* the same with the lock held.                                            *)
ThreadStates == {"none", "running", "data", "data!", "end", "end!", "done"}

(* Cell i of frame f of thread t; f counts a thread's frames. *)
Cell == [t : Frames, f : Nat, i : Nat, end : BOOLEAN, sid : {Sid[r] : r \in Frames}]

TypeOK ==
  /\ arrived \in 0..N
  /\ peer \in {"open", "eof", "gone"}
  /\ rpc \in {"reading", "joining", "closing", "closed"}
  /\ read \in 0..arrived
  /\ pending \in Seq(Frames)
  /\ Len(pending) <= read
  /\ joined \in 0..Len(pending)
  /\ tpc \in [Frames -> ThreadStates]
  /\ sid \in [Frames -> {Sid[r] : r \in Frames} \cup {None}]
  /\ sent \in [Frames -> Nat]
  /\ lock \in 0..N
  /\ frame \in [Frames -> Seq(Cell)]
  /\ wire \in Seq(Cell)
  /\ faults \subseteq {"read", "join", "send"}

Init ==
  /\ arrived = 0
  /\ peer = "open"
  /\ rpc = "reading"
  /\ read = 0
  /\ pending = <<>>
  /\ joined = 0
  /\ tpc = [t \in Frames |-> "none"]
  /\ sid = [t \in Frames |-> None]
  /\ sent = [t \in Frames |-> 0]
  /\ lock = 0
  /\ frame = [t \in Frames |-> <<>>]
  /\ wire = <<>>
  /\ faults = {}

-----------------------------------------------------------------------------
(* The client *)

SendFrame ==
  /\ peer = "open"
  /\ arrived < N
  /\ arrived' = arrived + 1
  /\ UNCHANGED <<peer, readerVars, tpc, streamVars, sendVars, faults>>

(* The client shuts down its sending side, or its connection is reset. *)
ClientLeaves ==
  /\ \/ peer = "open" /\ peer' = "eof"
     \/ peer # "gone" /\ peer' = "gone"
  /\ UNCHANGED <<arrived, readerVars, tpc, streamVars, sendVars, faults>>

-----------------------------------------------------------------------------
(* The connection thread *)

NextThread == Len(pending) + 1

(* Mutant: the list of threads is appended to twice. *)
ListedTwice == <<read + 1, read + 1>>

Listed == <<read + 1>>

ReadHeaders ==
  /\ rpc = "reading"
  /\ read < arrived
  /\ Kind[read + 1] \in {"routed", "unrouted"}
  /\ read' = read + 1
  /\ pending' = pending \o Listed
  /\ sid' = [sid EXCEPT ![NextThread] = Sid[read + 1]]
  /\ tpc' = [tpc EXCEPT ![NextThread] = "running"]
  /\ UNCHANGED <<clientVars, rpc, joined, sent, sendVars, faults>>

ReadOther ==
  /\ rpc = "reading"
  /\ read < arrived
  /\ Kind[read + 1] = "other"
  /\ read' = read + 1
  /\ UNCHANGED <<clientVars, rpc, pending, joined, tpc, streamVars, sendVars, faults>>

(* recv_frame() returns None: end of file, in a frame or between two. *)
ReadNone ==
  /\ rpc = "reading"
  /\ read = arrived
  /\ peer = "eof"
  /\ rpc' = "joining"
  /\ UNCHANGED <<clientVars, read, pending, joined, tpc, streamVars, sendVars, faults>>

(* recv() times out or fails, or decode() does: no clause catches it, and  *)
(* the exception leaves _handle_conn past the join loop.                   *)
ReadRaises ==
  /\ rpc = "reading"
  /\ \/ read < arrived /\ Kind[read + 1] = "undecodable"
     \/ read = arrived /\ RecvMayTimeout
     \/ peer = "gone"
  /\ rpc' = "closing"
  /\ faults' = faults \cup {"read"}
  /\ UNCHANGED <<clientVars, read, pending, joined, tpc, streamVars, sendVars>>

Join ==
  /\ rpc = "joining"
  /\ joined < Len(pending)
  /\ tpc[joined + 1] = "done" \/ JoinMayExpire
  /\ joined' = joined + 1
  /\ faults' = faults \cup (IF tpc[joined + 1] = "done" THEN {} ELSE {"join"})
  /\ UNCHANGED <<clientVars, rpc, read, pending, tpc, streamVars, sendVars>>

(* Mutant: the last thread is forgotten. *)
AllButLastJoined == joined + 1 >= Len(pending)

AllJoined == joined = Len(pending)

JoinEnds ==
  /\ rpc = "joining"
  /\ AllJoined
  /\ rpc' = "closing"
  /\ UNCHANGED <<clientVars, read, pending, joined, tpc, streamVars, sendVars, faults>>

Close ==
  /\ rpc = "closing"
  /\ rpc' = "closed"
  /\ UNCHANGED <<clientVars, read, pending, joined, tpc, streamVars, sendVars, faults>>

Reader ==
  \/ ReadHeaders \/ ReadOther \/ ReadNone \/ ReadRaises
  \/ Join \/ JoinEnds \/ Close

-----------------------------------------------------------------------------
(* A handler thread *)

(* The page of a path without handler is one DATA frame. *)
DataFrames(t) == IF Kind[pending[t]] = "routed" THEN Data[pending[t]] ELSE 1

HandlerSends(t) ==
  /\ tpc[t] = "running"
  /\ sent[t] < DataFrames(t)
  /\ sent' = [sent EXCEPT ![t] = @ + 1]
  /\ tpc' = [tpc EXCEPT ![t] = "data"]
  /\ UNCHANGED <<clientVars, readerVars, sid, sendVars, faults>>

(* The handler returns after its last frame, or raises anywhere; the       *)
(* finally clause sends END either way.                                    *)
HandlerEnds(t) ==
  /\ tpc[t] = "running"
  /\ sent[t] < DataFrames(t) => Kind[pending[t]] = "routed"
  /\ tpc' = [tpc EXCEPT ![t] = "end"]
  /\ UNCHANGED <<clientVars, readerVars, streamVars, sendVars, faults>>

(* Frame f of thread t, its END frame if end. *)
Frame(t, f, end, id) ==
  [i \in 1..FrameCells |-> [t |-> t, f |-> f, i |-> i, end |-> end, sid |-> id]]

FrameOf(t) ==
  IF tpc[t] = "end" THEN Frame(t, sent[t] + 1, TRUE, sid[t])
                    ELSE Frame(t, sent[t], FALSE, sid[t])

(* Mutant: sendall() outside the lock. *)
LockNotAsked(t) == TRUE

(* Mutant: the lock is kept from a stream's first frame to its END, as the *)
(* send_lock of Pipelining+ is for a response.                             *)
LockForStream(t) ==
  lock = 0 /\ \A k \in DOMAIN wire : wire[k].t = t \/ tpc[wire[k].t] = "done"

LockFree(t) == lock = 0

Acquire(t) ==
  /\ tpc[t] \in {"data", "end"}
  /\ LockFree(t)
  /\ lock' = t
  /\ frame' = [frame EXCEPT ![t] = FrameOf(t)]
  /\ tpc' = [tpc EXCEPT ![t] = IF @ = "data" THEN "data!" ELSE "end!"]
  /\ UNCHANGED <<clientVars, readerVars, streamVars, wire, faults>>

Sending(t) == tpc[t] \in {"data!", "end!"}

SocketUp == rpc # "closed" /\ peer # "gone"

SendCell(t) ==
  /\ Sending(t)
  /\ frame[t] # <<>>
  /\ SocketUp
  /\ wire' = Append(wire, Head(frame[t]))
  /\ frame' = [frame EXCEPT ![t] = Tail(@)]
  /\ UNCHANGED <<clientVars, readerVars, tpc, streamVars, lock, faults>>

(* Mutant: the lock is not released when sendall() raises. *)
LockKept == lock

LockReleased == 0

(* Mutant: a failed END is sent once more. *)
RetriesEnd(t) == "end"

AfterFailure(t) == IF tpc[t] = "data!" THEN "end" ELSE "done"

(* sendall() raises: out of the handler and into the finally clause for a  *)
(* DATA frame, out of the thread for the END frame.                        *)
SendFails(t) ==
  /\ Sending(t)
  /\ frame[t] # <<>>
  /\ ~SocketUp \/ SendMayTimeout
  /\ frame' = [frame EXCEPT ![t] = <<>>]
  /\ lock' = LockReleased
  /\ tpc' = [tpc EXCEPT ![t] = AfterFailure(t)]
  /\ faults' = faults \cup (IF SocketUp THEN {"send"} ELSE {})
  /\ UNCHANGED <<clientVars, readerVars, streamVars, wire>>

Release(t) ==
  /\ Sending(t)
  /\ frame[t] = <<>>
  /\ lock' = 0
  /\ tpc' = [tpc EXCEPT ![t] = IF @ = "data!" THEN "running" ELSE "done"]
  /\ UNCHANGED <<clientVars, readerVars, streamVars, frame, wire, faults>>

Handler(t) == HandlerSends(t) \/ HandlerEnds(t)
Sender(t) == Acquire(t) \/ SendCell(t) \/ SendFails(t) \/ Release(t)

(* The connection is over: nothing is left to run. *)
Finished ==
  /\ rpc = "closed"
  /\ \A t \in Frames : tpc[t] \in {"none", "done"}
  /\ UNCHANGED vars

Next ==
  \/ SendFrame
  \/ ClientLeaves
  \/ Reader
  \/ \E t \in Frames : Handler(t) \/ Sender(t)
  \/ Finished

Spec == Init /\ [][Next]_vars

(* recv() has nothing to return but may yet get something: a client can    *)
(* always send one more frame of a kind that is skipped.                   *)
Silent == rpc = "reading" /\ read = arrived /\ peer = "open"

(* Threads are scheduled; a handler that is not Stuck goes on; sendall()   *)
(* progresses or times out.  That the wait for a silent client runs out is *)
(* not assumed.  Lock is not fair, and need not be: a handler sends        *)
(* finitely many frames.                                                   *)
Fairness ==
  /\ WF_vars(~Silent /\ Reader)
  /\ \A t \in Frames : WF_vars(Sender(t))
  /\ \A t \in Frames \ Stuck : WF_vars(Handler(t))

-----------------------------------------------------------------------------
(* Properties *)

(* Within a stream the frames leave in the order the handler sent them,    *)
(* END is the last of them and there is one END, whatever fails; and they  *)
(* carry the id of the stream the thread was started for, although the     *)
(* reader's variables have moved on when it runs.                          *)
StreamsInOrder ==
  /\ \A k \in DOMAIN wire : wire[k].sid = Sid[pending[wire[k].t]]
  /\ \A j, k \in DOMAIN wire :
       j < k /\ wire[j].t = wire[k].t =>
         /\ wire[j].f <= wire[k].f
         /\ wire[j].f = wire[k].f => wire[j].i < wire[k].i
         /\ wire[j].end => wire[j].f = wire[k].f

(* The END frame of thread t is on the wire. *)
Ended(t) == \E k \in DOMAIN wire : wire[k].t = t /\ wire[k].end /\ wire[k].i = FrameCells

(* "handlers send DATA frames and finish with an END frame" (docstring of  *)
(* MuxServer): when the server closes the socket on a client that still    *)
(* reads, every stream it started has got its END.                         *)
EveryStreamEnds ==
  rpc = "closed" /\ peer # "gone" => \A t \in DOMAIN pending : Ended(t)

(* The same of a connection on which no wait has run out.                 *)
EveryStreamEndsInTime == faults = {} => EveryStreamEnds

(* Thread t waits for nothing but its own Stuck handler. *)
AtRest(t) ==
  \/ tpc[t] \in {"none", "done"}
  \/ tpc[t] = "running" /\ pending[t] \in Stuck

(* When its client has left or its reader has ended, in whatever way, the  *)
(* connection is closed in the end and no thread of it is left, but for a  *)
(* Stuck handler and who waits for it.                                     *)
LeavesNoConnection ==
  (peer # "open" \/ rpc # "reading") ~>
    /\ rpc = "closed" \/ \E t \in DOMAIN pending : tpc[t] = "running" /\ AtRest(t)
    /\ \A t \in Frames : AtRest(t)
=============================================================================
