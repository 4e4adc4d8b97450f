--------------------------- MODULE MuxServerProofs ---------------------------
(***************************************************************************)
(* Proofs about MuxServer, for every number of streams and frames, every   *)
(* frame length and every choice of timeouts: the frames of a stream stay  *)
(* in order, and END is the last of them and there is one.                 *)
(*                                                                         *)
(* The lock plays no part in the first result: it is what keeps frames of  *)
(* different streams apart, while the order within a stream rests on the   *)
(* thread that sends them.  The invariant therefore speaks of one thread   *)
(* at a time: which of its frames can be on the wire (CellOK), given what  *)
(* it is doing and what it still has to send (FrameOK).                    *)
(*                                                                         *)
(* The second half is about the client of MuxClient, and there the lock    *)
(* does the work: it makes the wire a sequence of whole frames (RowsInv),  *)
(* so that the client always stands in front of one (PlaceInv) and what it *)
(* has filed are the frames it has passed (FiledInv).                      *)
(***************************************************************************)
EXTENDS MuxClient, SequenceTheorems, TLAPS

(* What the mutants of MuxServer change is expanded everywhere. *)
USE DEF Listed, AllJoined, LockFree, LockReleased, AfterFailure

Streams == {Sid[r] : r \in Frames}

(* Only started threads run, each with the id of the frame it was started for. *)
ThreadsInv ==
  /\ \A t \in DOMAIN pending : sid[t] = Sid[pending[t]]
  /\ \A t \in Frames : t > Len(pending) => tpc[t] = "none"

(* What is left of the frame that a thread is sending. *)
FrameOK(t) ==
  /\ ~Sending(t) => frame[t] = <<>>
  /\ \A i \in DOMAIN frame[t] :
       /\ frame[t][i].t = t
       /\ frame[t][i].sid = sid[t]
       /\ tpc[t] = "data!" => ~frame[t][i].end /\ frame[t][i].f = sent[t]
       /\ tpc[t] = "end!" => frame[t][i].end /\ frame[t][i].f = sent[t] + 1
  /\ \A i, j \in DOMAIN frame[t] : i < j => frame[t][i].i < frame[t][j].i

(* A cell on the wire, and what its thread has done and will do. *)
CellOK(c) ==
  /\ tpc[c.t] # "none"
  /\ c.sid = sid[c.t]
  /\ ~c.end => c.f <= sent[c.t]
  /\ c.end => c.f = sent[c.t] + 1 /\ tpc[c.t] \in {"end!", "done"}
  /\ tpc[c.t] = "data" => c.f < sent[c.t]
  /\ \A i \in DOMAIN frame[c.t] : c.f = frame[c.t][i].f => c.i < frame[c.t][i].i

(* Cell c may be on the wire before cell d. *)
MayPrecede(c, d) ==
  c.t = d.t =>
    /\ c.f <= d.f
    /\ c.f = d.f => c.i < d.i
    /\ c.end => c.f = d.f

FramesInv == \A t \in Frames : FrameOK(t)
WireInv ==
  /\ \A k \in DOMAIN wire : CellOK(wire[k])
  /\ \A j, k \in DOMAIN wire : j < k => MayPrecede(wire[j], wire[k])

IInv == TypeOK /\ ThreadsInv /\ FramesInv /\ WireInv

-----------------------------------------------------------------------------
LEMMA FramesArePositive ==
  /\ N \in Nat
  /\ \A t \in Frames : t \in Nat /\ t > 0 /\ t <= N
  BY MuxAssumption DEF Frames

(* A thread that does something has been started. *)
LEMMA Started ==
  ASSUME TypeOK, ThreadsInv, NEW t \in Frames, tpc[t] # "none"
  PROVE  /\ t \in DOMAIN pending /\ pending[t] \in Frames
         /\ sid[t] = Sid[pending[t]] /\ sid[t] \in Streams
<1>1. Len(pending) \in Nat /\ DOMAIN pending = 1..Len(pending) /\ pending \in Seq(Frames)
  BY LenProperties DEF TypeOK
<1>2. t \in 1..Len(pending)
  BY <1>1, FramesArePositive DEF ThreadsInv
<1>3. pending[t] \in Frames
  BY <1>1, <1>2, ElementOfSeq
<1> QED
  BY <1>1, <1>2, <1>3 DEF ThreadsInv, Streams

(* A frame is a sequence of cells. *)
LEMMA FrameType ==
  ASSUME NEW t \in Frames, NEW f \in Nat, NEW end \in BOOLEAN, NEW id \in Streams
  PROVE  /\ Frame(t, f, end, id) \in Seq(Cell)
         /\ DOMAIN Frame(t, f, end, id) = 1..FrameCells
         /\ Len(Frame(t, f, end, id)) = FrameCells
         /\ \A i \in 1..FrameCells :
              Frame(t, f, end, id)[i] = [t |-> t, f |-> f, i |-> i, end |-> end, sid |-> id]
<1>1. Frame(t, f, end, id) \in [1..FrameCells -> Cell]
  BY DEF Frame, Cell, Streams
<1>2. FrameCells \in Nat
  BY MuxAssumption
<1>3. Frame(t, f, end, id) \in Seq(Cell)
  BY <1>1, <1>2, SeqDef
<1> QED
  BY <1>1, <1>2, <1>3, LenProperties DEF Frame

(* Every variable keeps its type. *)
LEMMA TypeStep == TypeOK /\ ThreadsInv /\ [Next]_vars => TypeOK'
<1> SUFFICES ASSUME TypeOK, ThreadsInv, [Next]_vars
             PROVE  TypeOK'
  OBVIOUS
<1> USE MuxAssumption, FramesArePositive
<1>a. Len(pending) \in Nat /\ read \in Nat /\ arrived \in Nat /\ joined \in Nat
  BY LenProperties DEF TypeOK
<1>1. CASE SendFrame
  BY <1>a, <1>1 DEF TypeOK, SendFrame, readerVars, streamVars, sendVars
<1>2. CASE ClientLeaves
  BY <1>2 DEF TypeOK, ClientLeaves, readerVars, streamVars, sendVars
<1>3. CASE ReadHeaders
  <2>1. read + 1 \in Frames /\ NextThread \in Frames /\ NextThread = Len(pending) + 1
    BY <1>a, <1>3 DEF TypeOK, ReadHeaders, NextThread, Frames
  <2>2. pending' \in Seq(Frames) /\ Len(pending') = Len(pending) + 1
    <3>1. <<read + 1>> \in Seq(Frames) /\ Len(<<read + 1>>) = 1
      BY <2>1
    <3> QED
      BY <1>3, <3>1, ConcatProperties DEF TypeOK, ReadHeaders
  <2>3. sid' \in [Frames -> Streams \cup {None}]
    <3>1. Sid[read + 1] \in Streams
      BY <2>1 DEF Streams
    <3> QED
      BY <1>3, <2>1, <3>1 DEF TypeOK, ReadHeaders, Streams
  <2>4. tpc' \in [Frames -> ThreadStates]
    BY <1>3, <2>1 DEF TypeOK, ReadHeaders, ThreadStates
  <2>5. /\ read' \in 0..arrived' /\ Len(pending') <= read' /\ joined' \in 0..Len(pending')
        /\ arrived' \in 0..N
    BY <1>a, <1>3, <2>2 DEF TypeOK, ReadHeaders, clientVars
  <2> QED
    BY <1>3, <2>2, <2>3, <2>4, <2>5
    DEF TypeOK, ReadHeaders, Streams, clientVars, sendVars
<1>4. CASE ReadOther
  BY <1>a, <1>4 DEF TypeOK, ReadOther, clientVars, streamVars, sendVars
<1>5. CASE ReadNone
  BY <1>5 DEF TypeOK, ReadNone, clientVars, streamVars, sendVars
<1>6. CASE ReadRaises
  BY <1>6 DEF TypeOK, ReadRaises, clientVars, streamVars, sendVars
<1>7. CASE Join
  <2>1. joined' \in 0..Len(pending) /\ faults' \subseteq {"read", "join", "send"}
    BY <1>a, <1>7 DEF TypeOK, Join
  <2> QED
    BY <1>7, <2>1 DEF TypeOK, Join, clientVars, streamVars, sendVars
<1>8. CASE JoinEnds
  BY <1>8 DEF TypeOK, JoinEnds, clientVars, streamVars, sendVars
<1>9. CASE Close
  BY <1>9 DEF TypeOK, Close, clientVars, streamVars, sendVars
<1>10. ASSUME NEW t \in Frames, Handler(t) \/ Sender(t) PROVE TypeOK'
  <2>a. UNCHANGED <<clientVars, readerVars>>
    BY <1>10 DEF Handler, Sender, HandlerSends, HandlerEnds, Acquire, SendCell, SendFails, Release
  <2>1. CASE HandlerSends(t)
    BY <2>1 DEF TypeOK, HandlerSends, ThreadStates, clientVars, readerVars, sendVars
  <2>2. CASE HandlerEnds(t)
    BY <2>2 DEF TypeOK, HandlerEnds, ThreadStates, clientVars, readerVars, streamVars, sendVars
  <2>3. CASE Acquire(t)
    <3>1. sid[t] \in Streams /\ sent[t] \in Nat /\ sent[t] + 1 \in Nat
      <4>1. tpc[t] # "none"
        BY <2>3 DEF Acquire
      <4>2. sid[t] \in Streams
        BY <4>1, Started
      <4> QED
        BY <4>2 DEF TypeOK
    <3>2. FrameOf(t) \in Seq(Cell)
      BY <3>1, FrameType DEF FrameOf
    <3>3. frame' \in [Frames -> Seq(Cell)]
      BY <2>3, <3>2 DEF TypeOK, Acquire
    <3>4. tpc' \in [Frames -> ThreadStates]
      BY <2>3 DEF TypeOK, Acquire, ThreadStates
    <3>5. lock' \in 0..N
      BY <2>3 DEF Acquire
    <3> QED
      BY <2>3, <3>3, <3>4, <3>5 DEF TypeOK, Acquire, clientVars, readerVars, streamVars
  <2>4. CASE SendCell(t)
    <3>1. frame[t] \in Seq(Cell) /\ frame[t] # <<>>
      BY <2>4 DEF TypeOK, SendCell
    <3>2. Head(frame[t]) \in Cell /\ Tail(frame[t]) \in Seq(Cell)
      BY <3>1, HeadTailProperties
    <3>3. frame' \in [Frames -> Seq(Cell)]
      BY <2>4, <3>2 DEF TypeOK, SendCell
    <3>4. wire' \in Seq(Cell)
      BY <2>4, <3>2, AppendProperties DEF TypeOK, SendCell
    <3> QED
      BY <2>4, <3>3, <3>4 DEF TypeOK, SendCell, clientVars, readerVars, streamVars
  <2>5. CASE SendFails(t)
    <3>1. frame' \in [Frames -> Seq(Cell)]
      BY <2>5 DEF TypeOK, SendFails
    <3>2. tpc' \in [Frames -> ThreadStates]
      BY <2>5 DEF TypeOK, SendFails, ThreadStates
    <3>3. faults' \subseteq {"read", "join", "send"}
      BY <2>5 DEF TypeOK, SendFails
    <3> QED
      BY <2>5, <3>1, <3>2, <3>3 DEF TypeOK, SendFails, clientVars, readerVars, streamVars
  <2>6. CASE Release(t)
    BY <2>6 DEF TypeOK, Release, ThreadStates, clientVars, readerVars, streamVars
  <2> QED
    BY <1>10, <2>1, <2>2, <2>3, <2>4, <2>5, <2>6 DEF Handler, Sender
<1>11. CASE UNCHANGED vars
  BY <1>11 DEF TypeOK, vars, clientVars, readerVars, streamVars, sendVars
<1> QED
  BY <1>1, <1>2, <1>3, <1>4, <1>5, <1>6, <1>7, <1>8, <1>9, <1>10, <1>11
  DEF Next, Reader, Finished

(* What a thread does changes nothing of another thread. *)
LEMMA OneThread ==
  ASSUME TypeOK, NEW t \in Frames, Handler(t) \/ Sender(t)
  PROVE  /\ UNCHANGED <<pending, sid, rpc, joined, peer>>
         /\ tpc[t] # "none" /\ tpc'[t] # "none" /\ tpc[t] # "done"
         /\ \A u \in Frames \ {t} :
              tpc'[u] = tpc[u] /\ sent'[u] = sent[u] /\ frame'[u] = frame[u]
<1>1. CASE HandlerSends(t)
  BY <1>1 DEF TypeOK, HandlerSends, sendVars, readerVars, clientVars
<1>2. CASE HandlerEnds(t)
  BY <1>2 DEF TypeOK, HandlerEnds, sendVars, readerVars, streamVars, clientVars
<1>3. CASE Acquire(t)
  BY <1>3 DEF TypeOK, Acquire, readerVars, streamVars, clientVars
<1>4. CASE SendCell(t)
  BY <1>4 DEF TypeOK, SendCell, Sending, readerVars, streamVars, clientVars
<1>5. CASE SendFails(t)
  BY <1>5 DEF TypeOK, SendFails, Sending, readerVars, streamVars, clientVars
<1>6. CASE Release(t)
  BY <1>6 DEF TypeOK, Release, Sending, readerVars, streamVars, clientVars
<1> QED
  BY <1>1, <1>2, <1>3, <1>4, <1>5, <1>6 DEF Handler, Sender

(* Who is started, and with which id, is settled when the frame is read. *)
LEMMA ThreadsStep == TypeOK /\ ThreadsInv /\ [Next]_vars => ThreadsInv'
<1> SUFFICES ASSUME TypeOK, ThreadsInv, [Next]_vars
             PROVE  ThreadsInv'
  OBVIOUS
<1>1. CASE UNCHANGED <<pending, sid, tpc>>
  BY <1>1 DEF ThreadsInv
<1>2. CASE ReadHeaders
  <2>1. /\ Len(pending) \in Nat /\ read \in Nat /\ pending \in Seq(Frames)
        /\ read + 1 \in Frames /\ NextThread \in Frames /\ NextThread = Len(pending) + 1
    BY <1>2, LenProperties, FramesArePositive DEF TypeOK, ReadHeaders, NextThread, Frames
  <2>2. /\ DOMAIN pending' = 1..(Len(pending) + 1) /\ Len(pending') = Len(pending) + 1
        /\ \A t \in 1..Len(pending) : pending'[t] = pending[t]
        /\ pending'[NextThread] = read + 1
    BY <1>2, <2>1 DEF ReadHeaders
  <2>3. ASSUME NEW t \in DOMAIN pending' PROVE sid'[t] = Sid[pending'[t]]
    <3>1. CASE t = NextThread
      BY <1>2, <2>1, <2>2, <3>1 DEF TypeOK, ReadHeaders
    <3>2. CASE t \in 1..Len(pending)
      <4>1. sid[t] = Sid[pending[t]] /\ t # NextThread
        BY <2>1, <3>2 DEF ThreadsInv
      <4> QED
        BY <1>2, <2>2, <3>2, <4>1 DEF TypeOK, ReadHeaders
    <3> QED
      BY <2>1, <2>2, <3>1, <3>2
  <2>4. ASSUME NEW t \in Frames, t > Len(pending') PROVE tpc'[t] = "none"
    <3>1. t # NextThread /\ t > Len(pending)
      BY <2>1, <2>2, <2>4, FramesArePositive
    <3> QED
      BY <1>2, <3>1 DEF TypeOK, ThreadsInv, ReadHeaders
  <2> QED
    BY <2>3, <2>4 DEF ThreadsInv
<1>3. ASSUME NEW t \in Frames, Handler(t) \/ Sender(t) PROVE ThreadsInv'
  <2>1. /\ UNCHANGED <<pending, sid>> /\ tpc[t] # "none"
        /\ \A u \in Frames \ {t} : tpc'[u] = tpc[u]
    BY <1>3, OneThread
  <2> QED
    BY <2>1 DEF ThreadsInv
<1> QED
  BY <1>1, <1>2, <1>3
  DEF Next, Reader, SendFrame, ClientLeaves, ReadOther, ReadNone, ReadRaises, Join, JoinEnds,
      Close, Finished, vars, readerVars, streamVars

-----------------------------------------------------------------------------
(* FrameOK(t) speaks of nothing but thread t. *)
LEMMA FrameStays ==
  ASSUME NEW t, FrameOK(t),
         tpc'[t] = tpc[t], sid'[t] = sid[t], sent'[t] = sent[t], frame'[t] = frame[t]
  PROVE  (FrameOK(t))'
  BY DEF FrameOK, Sending

(* A thread without a frame to send is in no critical section, or has sent *)
(* the frame.                                                              *)
LEMMA FrameEmpty ==
  ASSUME NEW t, frame'[t] = <<>>
  PROVE  (FrameOK(t))'
<1>1. \A i \in DOMAIN frame'[t] : FALSE
  BY EmptySeq
<1> QED
  BY <1>1 DEF FrameOK

(* The frame that a thread takes into its critical section. *)
LEMMA FrameTaken ==
  ASSUME TypeOK, ThreadsInv, NEW t \in Frames, Acquire(t)
  PROVE  /\ (FrameOK(t))'
         /\ DOMAIN frame'[t] = 1..FrameCells /\ Len(frame'[t]) = FrameCells
         /\ tpc[t] = "data" => \A i \in 1..FrameCells :
              frame'[t][i] = [t |-> t, f |-> sent[t], i |-> i, end |-> FALSE, sid |-> sid[t]]
         /\ tpc[t] = "end" => \A i \in 1..FrameCells :
              frame'[t][i] = [t |-> t, f |-> sent[t] + 1, i |-> i, end |-> TRUE, sid |-> sid[t]]
<1>a. tpc[t] \in {"data", "end"} /\ sent[t] \in Nat /\ sent[t] + 1 \in Nat
  BY DEF Acquire, TypeOK
<1>b. sid[t] \in Streams
  BY <1>a, Started
<1>c. /\ tpc'[t] = (IF tpc[t] = "data" THEN "data!" ELSE "end!")
      /\ frame'[t] = FrameOf(t) /\ UNCHANGED <<sid, sent>>
  BY DEF Acquire, TypeOK, streamVars
<1>d. FrameCells \in Nat
  BY MuxAssumption
<1>1. CASE tpc[t] = "data"
  <2>1. /\ DOMAIN frame'[t] = 1..FrameCells /\ Len(frame'[t]) = FrameCells
        /\ \A i \in 1..FrameCells :
             frame'[t][i] = [t |-> t, f |-> sent[t], i |-> i, end |-> FALSE, sid |-> sid[t]]
    <3>1. PICK f \in Nat : f = sent[t]
      BY <1>a
    <3>2. frame'[t] = Frame(t, f, FALSE, sid[t])
      BY <1>c, <1>1, <3>1 DEF FrameOf
    <3>3. PICK e \in BOOLEAN : e = FALSE
      OBVIOUS
    <3>4. PICK id \in Streams : id = sid[t]
      BY <1>b
    <3>5. /\ DOMAIN Frame(t, f, e, id) = 1..FrameCells
          /\ Len(Frame(t, f, e, id)) = FrameCells
          /\ \A i \in 1..FrameCells : Frame(t, f, e, id)[i]
               = [t |-> t, f |-> f, i |-> i, end |-> e, sid |-> id]
      BY FrameType
    <3> QED
      BY <3>1, <3>2, <3>3, <3>4, <3>5
  <2>2. (FrameOK(t))'
    BY <1>c, <1>d, <1>1, <2>1 DEF FrameOK, Sending
  <2> QED
    BY <1>1, <2>1, <2>2
<1>2. CASE tpc[t] = "end"
  <2>1. /\ DOMAIN frame'[t] = 1..FrameCells /\ Len(frame'[t]) = FrameCells
        /\ \A i \in 1..FrameCells :
             frame'[t][i] = [t |-> t, f |-> sent[t] + 1, i |-> i, end |-> TRUE, sid |-> sid[t]]
    <3>1. PICK f \in Nat : f = sent[t] + 1
      BY <1>a
    <3>2. frame'[t] = Frame(t, f, TRUE, sid[t])
      BY <1>c, <1>2, <3>1 DEF FrameOf
    <3>3. PICK e \in BOOLEAN : e = TRUE
      OBVIOUS
    <3>4. PICK id \in Streams : id = sid[t]
      BY <1>b
    <3>5. /\ DOMAIN Frame(t, f, e, id) = 1..FrameCells
          /\ Len(Frame(t, f, e, id)) = FrameCells
          /\ \A i \in 1..FrameCells : Frame(t, f, e, id)[i]
               = [t |-> t, f |-> f, i |-> i, end |-> e, sid |-> id]
      BY FrameType
    <3> QED
      BY <3>1, <3>2, <3>3, <3>4, <3>5
  <2>2. (FrameOK(t))'
    BY <1>c, <1>d, <1>2, <2>1 DEF FrameOK, Sending
  <2> QED
    BY <1>2, <2>1, <2>2
<1> QED
  BY <1>a, <1>1, <1>2

(* The cell that leaves and the cells that stay behind it. *)
LEMMA FrameSent ==
  ASSUME TypeOK, NEW t \in Frames, SendCell(t)
  PROVE  /\ frame[t][1] \in Cell /\ 1 \in DOMAIN frame[t]
         /\ wire' = Append(wire, frame[t][1])
         /\ Len(frame[t]) \in Nat /\ Len(frame[t]) > 0 /\ DOMAIN frame[t] = 1..Len(frame[t])
         /\ DOMAIN frame'[t] = 1..(Len(frame[t]) - 1)
         /\ \A i \in DOMAIN frame'[t] : i + 1 \in DOMAIN frame[t] /\ frame'[t][i] = frame[t][i + 1]
         /\ \A i \in DOMAIN frame'[t] : i \in Nat /\ 1 < i + 1
<1>1. /\ frame[t] \in Seq(Cell) /\ frame[t] # <<>> /\ frame'[t] = Tail(frame[t])
      /\ wire' = Append(wire, Head(frame[t]))
  BY DEF TypeOK, SendCell
<1> QED
  BY <1>1

LEMMA FramesStep == TypeOK /\ ThreadsInv /\ FramesInv /\ [Next]_vars => FramesInv'
<1> SUFFICES ASSUME TypeOK, ThreadsInv, FramesInv, [Next]_vars, NEW u \in Frames
             PROVE  (FrameOK(u))'
  BY DEF FramesInv, Frames
<1>a. FrameOK(u)
  BY DEF FramesInv
<1>1. CASE UNCHANGED <<tpc, sid, sent, frame>>
  BY <1>a, <1>1, FrameStays
<1>2. CASE ReadHeaders
  <2>1. NextThread \in Frames /\ tpc[NextThread] = "none"
    BY <1>2, LenProperties, FramesArePositive
    DEF TypeOK, ThreadsInv, ReadHeaders, NextThread, Frames
  <2>2. CASE u = NextThread
    <3>1. frame'[u] = <<>>
      BY <1>a, <1>2, <2>1, <2>2 DEF FrameOK, Sending, ReadHeaders, sendVars
    <3> QED
      BY <3>1, FrameEmpty
  <2>3. CASE u # NextThread
    BY <1>a, <1>2, <2>3, FrameStays DEF TypeOK, ReadHeaders, sendVars
  <2> QED
    BY <2>2, <2>3
<1>3. ASSUME NEW t \in Frames, Handler(t) \/ Sender(t), t # u PROVE (FrameOK(u))'
  BY <1>a, <1>3, OneThread, FrameStays
<1>4. CASE HandlerSends(u) \/ HandlerEnds(u) \/ SendFails(u) \/ Release(u)
  <2>1. frame'[u] = <<>>
    BY <1>a, <1>4
    DEF FrameOK, Sending, TypeOK, HandlerSends, HandlerEnds, SendFails, Release, sendVars
  <2> QED
    BY <2>1, FrameEmpty
<1>5. CASE Acquire(u)
  BY <1>5, FrameTaken
<1>6. CASE SendCell(u)
  <2>1. UNCHANGED <<tpc, sid, sent>> /\ Sending(u)
    BY <1>6 DEF SendCell, streamVars
  <2>2. /\ DOMAIN frame'[u] = 1..(Len(frame[u]) - 1) /\ Len(frame[u]) \in Nat
        /\ \A i \in DOMAIN frame'[u] : i + 1 \in DOMAIN frame[u] /\ frame'[u][i] = frame[u][i + 1]
    BY <1>6, FrameSent
  <2>3. ASSUME NEW i \in DOMAIN frame'[u], NEW j \in DOMAIN frame'[u], i < j
        PROVE  frame'[u][i].i < frame'[u][j].i
    <3>1. i + 1 < j + 1
      BY <2>2, <2>3
    <3>2. /\ i + 1 \in DOMAIN frame[u] /\ frame'[u][i] = frame[u][i + 1]
          /\ j + 1 \in DOMAIN frame[u] /\ frame'[u][j] = frame[u][j + 1]
      BY <2>2
    <3> QED
      BY <1>a, <3>1, <3>2 DEF FrameOK
  <2>4. ASSUME NEW i \in DOMAIN frame'[u]
        PROVE  /\ frame'[u][i].t = u
               /\ frame'[u][i].sid = sid'[u]
               /\ tpc'[u] = "data!" => ~frame'[u][i].end /\ frame'[u][i].f = sent'[u]
               /\ tpc'[u] = "end!" => frame'[u][i].end /\ frame'[u][i].f = sent'[u] + 1
    BY <1>a, <2>1, <2>2 DEF FrameOK
  <2> QED
    BY <2>1, <2>3, <2>4 DEF FrameOK, Sending
<1> QED
  BY <1>1, <1>2, <1>3, <1>4, <1>5, <1>6
  DEF Next, Reader, Handler, Sender, SendFrame, ClientLeaves, ReadOther, ReadNone, ReadRaises,
      Join, JoinEnds, Close, Finished, vars, streamVars, sendVars

-----------------------------------------------------------------------------
(* CellOK(c) speaks of nothing but the thread of c. *)
LEMMA CellStays ==
  ASSUME NEW c, CellOK(c),
         tpc'[c.t] = tpc[c.t], sid'[c.t] = sid[c.t], sent'[c.t] = sent[c.t],
         frame'[c.t] = frame[c.t]
  PROVE  (CellOK(c))'
  BY DEF CellOK

(* A cell on the wire stays there whatever its thread does next. *)
LEMMA CellStep ==
  ASSUME TypeOK, ThreadsInv, FramesInv, [Next]_vars, NEW c \in Cell, CellOK(c)
  PROVE  (CellOK(c))'
<1> DEFINE t == c.t
<1>a. /\ t \in Frames /\ c.f \in Nat /\ c.i \in Nat /\ c.end \in BOOLEAN
      /\ sent[t] \in Nat /\ FrameOK(t) /\ tpc[t] # "none"
  BY DEF Cell, TypeOK, FramesInv, CellOK
<1>1. CASE UNCHANGED <<tpc, sid, sent, frame>>
  BY <1>1, CellStays
<1>2. CASE ReadHeaders
  <2>1. NextThread \in Frames /\ tpc[NextThread] = "none"
    BY <1>2, LenProperties, FramesArePositive
    DEF TypeOK, ThreadsInv, ReadHeaders, NextThread, Frames
  <2>2. t # NextThread
    BY <1>a, <2>1
  <2> QED
    BY <1>a, <1>2, <2>1, <2>2, CellStays DEF TypeOK, ReadHeaders, sendVars
<1>3. ASSUME NEW u \in Frames, Handler(u) \/ Sender(u), u # t PROVE (CellOK(c))'
  BY <1>a, <1>3, OneThread, CellStays
<1>4. CASE HandlerSends(t)
  <2>1. /\ tpc[t] = "running" /\ tpc'[t] = "data" /\ sent'[t] = sent[t] + 1
        /\ UNCHANGED <<sid, frame>>
    BY <1>a, <1>4 DEF HandlerSends, TypeOK, sendVars
  <2>2. ~c.end /\ c.f <= sent[t] /\ c.sid = sid[t]
    BY <1>a, <2>1 DEF CellOK
  <2>3. \A i \in DOMAIN frame'[t] : FALSE
    BY <1>a, <2>1, EmptySeq DEF FrameOK, Sending
  <2> QED
    BY <1>a, <2>1, <2>2, <2>3 DEF CellOK
<1>5. CASE HandlerEnds(t) \/ SendFails(t) \/ Release(t)
  <2>1. /\ UNCHANGED <<sid, sent>> /\ frame'[t] = <<>>
        /\ \/ tpc[t] # "end!" /\ tpc'[t] \in {"end", "running"}
           \/ tpc[t] = "end!" /\ tpc'[t] = "done"
    BY <1>a, <1>5
    DEF HandlerEnds, SendFails, Release, FrameOK, Sending, TypeOK, streamVars, sendVars
  <2>2. tpc[t] # "done"
    BY <1>a, <1>5, OneThread DEF Handler, Sender
  <2>3. \A i \in DOMAIN frame'[t] : FALSE
    BY <2>1, EmptySeq
  <2>4. c.end => tpc[t] = "end!" /\ c.f = sent[t] + 1
    BY <2>2 DEF CellOK
  <2> QED
    BY <1>a, <2>1, <2>3, <2>4 DEF CellOK
<1>6. CASE Acquire(t)
  <2>1. /\ UNCHANGED <<sid, sent>> /\ tpc[t] \in {"data", "end"}
        /\ tpc'[t] \in {"data!", "end!"}
    BY <1>a, <1>6 DEF Acquire, TypeOK, streamVars
  <2>2. ~c.end /\ c.f <= sent[t] /\ (tpc[t] = "data" => c.f < sent[t])
    BY <1>a, <2>1 DEF CellOK
  <2>3. ASSUME NEW i \in DOMAIN frame'[t] PROVE c.f # frame'[t][i].f
    <3>1. i \in 1..FrameCells
      BY <1>a, <1>6, FrameTaken
    <3>2. CASE tpc[t] = "data"
      <4>1. frame'[t][i] = [t |-> t, f |-> sent[t], i |-> i, end |-> FALSE, sid |-> sid[t]]
        BY <1>a, <1>6, <3>1, <3>2, FrameTaken
      <4>2. frame'[t][i].f = sent[t]
        BY <4>1
      <4> QED
        BY <1>a, <2>2, <3>2, <4>2
    <3>3. CASE tpc[t] = "end"
      <4>1. frame'[t][i] = [t |-> t, f |-> sent[t] + 1, i |-> i, end |-> TRUE, sid |-> sid[t]]
        BY <1>a, <1>6, <3>1, <3>3, FrameTaken
      <4>2. frame'[t][i].f = sent[t] + 1
        BY <4>1
      <4> QED
        BY <1>a, <2>2, <4>2
    <3> QED
      BY <2>1, <3>2, <3>3
  <2> QED
    BY <1>a, <2>1, <2>2, <2>3 DEF CellOK
<1>7. CASE SendCell(t)
  <2>1. UNCHANGED <<tpc, sid, sent>>
    BY <1>7 DEF SendCell, streamVars
  <2>2. \A i \in DOMAIN frame'[t] : i + 1 \in DOMAIN frame[t] /\ frame'[t][i] = frame[t][i + 1]
    BY <1>a, <1>7, FrameSent
  <2>3. \A i \in DOMAIN frame'[t] : c.f = frame'[t][i].f => c.i < frame'[t][i].i
    BY <2>2 DEF CellOK
  <2> QED
    BY <2>1, <2>3 DEF CellOK
<1> QED
  BY <1>a, <1>1, <1>2, <1>3, <1>4, <1>5, <1>6, <1>7
  DEF Next, Reader, Handler, Sender, SendFrame, ClientLeaves, ReadOther, ReadNone, ReadRaises,
      Join, JoinEnds, Close, Finished, vars, streamVars, sendVars

(* The wire behind an appended cell. *)
LEMMA WireAppend ==
  ASSUME TypeOK, NEW x \in Cell, wire' = Append(wire, x)
  PROVE  /\ Len(wire) \in Nat /\ DOMAIN wire = 1..Len(wire)
         /\ DOMAIN wire' = 1..(Len(wire) + 1)
         /\ \A k \in DOMAIN wire : k \in DOMAIN wire' /\ wire'[k] = wire[k] /\ wire[k] \in Cell
         /\ Len(wire) + 1 \in DOMAIN wire' /\ wire'[Len(wire) + 1] = x
         /\ \A k \in DOMAIN wire' : k \in DOMAIN wire \/ k = Len(wire) + 1
<1>1. wire \in Seq(Cell)
  BY DEF TypeOK
<1> QED
  BY <1>1

(* The cell that goes on the wire, and those of its thread that are there. *)
LEMMA NewCell ==
  ASSUME TypeOK, ThreadsInv, FramesInv, NEW t \in Frames, SendCell(t),
         NEW x, x = frame[t][1]
  PROVE  /\ (CellOK(x))'
         /\ \A c \in Cell : CellOK(c) => MayPrecede(c, x)
<1>a. /\ FrameOK(t) /\ UNCHANGED <<tpc, sid, sent>> /\ tpc[t] \in {"data!", "end!"}
      /\ sent[t] \in Nat
  BY DEF FramesInv, SendCell, Sending, streamVars, TypeOK
<1>b. /\ x \in Cell /\ x = frame[t][1] /\ 1 \in DOMAIN frame[t]
      /\ \A i \in DOMAIN frame'[t] : /\ i + 1 \in DOMAIN frame[t]
                                     /\ frame'[t][i] = frame[t][i + 1]
                                     /\ 1 < i + 1
  BY FrameSent
<1>c. /\ x.t = t /\ x.sid = sid[t] /\ x.f \in Nat /\ x.end \in BOOLEAN
      /\ tpc[t] = "data!" => ~x.end /\ x.f = sent[t]
      /\ tpc[t] = "end!" => x.end /\ x.f = sent[t] + 1
      /\ \A i \in DOMAIN frame'[t] : x.i < frame'[t][i].i
  <2>1. /\ x.t = t /\ x.sid = sid[t] /\ x.f \in Nat /\ x.end \in BOOLEAN
        /\ tpc[t] = "data!" => ~x.end /\ x.f = sent[t]
        /\ tpc[t] = "end!" => x.end /\ x.f = sent[t] + 1
    BY <1>a, <1>b DEF FrameOK, Cell
  <2>2. \A i, j \in DOMAIN frame[t] : i < j => frame[t][i].i < frame[t][j].i
    BY <1>a DEF FrameOK
  <2>3. ASSUME NEW i \in DOMAIN frame'[t] PROVE x.i < frame'[t][i].i
    BY <1>b, <2>2
  <2> QED
    BY <2>1, <2>3
<1>1. (CellOK(x))'
  BY <1>a, <1>c DEF CellOK
<1>2. ASSUME NEW c \in Cell, CellOK(c), c.t = x.t PROVE MayPrecede(c, x)
  <2>1. /\ ~c.end => c.f <= sent[t]
        /\ c.end => c.f = sent[t] + 1 /\ tpc[t] \in {"end!", "done"}
        /\ c.f = x.f => c.i < x.i
        /\ c.f \in Nat /\ c.end \in BOOLEAN
    BY <1>b, <1>c, <1>2 DEF CellOK, Cell
  <2> QED
    BY <1>a, <1>c, <2>1 DEF MayPrecede
<1>3. ASSUME NEW c \in Cell, c.t # x.t PROVE MayPrecede(c, x)
  BY <1>3 DEF MayPrecede
<1> QED
  BY <1>1, <1>2, <1>3

LEMMA WireStep ==
  ASSUME TypeOK, ThreadsInv, FramesInv, WireInv, [Next]_vars
  PROVE  WireInv'
<1>a. wire \in Seq(Cell) /\ \A k \in DOMAIN wire : wire[k] \in Cell
  BY DEF TypeOK
<1>1. CASE wire' = wire
  <2>1. ASSUME NEW k \in DOMAIN wire PROVE (CellOK(wire[k]))'
    <3>1. PICK c \in Cell : c = wire[k] /\ CellOK(c)
      BY <1>a DEF WireInv
    <3>2. (CellOK(c))'
      BY <3>1, CellStep
    <3> QED
      BY <1>1, <3>1, <3>2
  <2> QED
    BY <1>1, <2>1 DEF WireInv, MayPrecede
<1>2. ASSUME NEW t \in Frames, SendCell(t) PROVE WireInv'
  <2>1. PICK x \in Cell : x = frame[t][1] /\ wire' = Append(wire, x)
    BY <1>2, FrameSent
  <2>2. /\ (CellOK(x))'
        /\ \A c \in Cell : CellOK(c) => MayPrecede(c, x)
    BY <1>2, <2>1, NewCell
  <2>3. /\ Len(wire) \in Nat /\ DOMAIN wire = 1..Len(wire)
        /\ \A k \in DOMAIN wire : wire'[k] = wire[k] /\ wire[k] \in Cell
        /\ wire'[Len(wire) + 1] = x
        /\ \A k \in DOMAIN wire' : k \in DOMAIN wire \/ k = Len(wire) + 1
    BY <2>1, WireAppend
  <2>4. ASSUME NEW k \in DOMAIN wire' PROVE (CellOK(wire[k]))'
    <3>1. CASE k = Len(wire) + 1
      BY <2>2, <2>3, <3>1
    <3>2. CASE k \in DOMAIN wire
      <4>1. PICK c \in Cell : c = wire[k] /\ CellOK(c)
        BY <2>3, <3>2 DEF WireInv
      <4>2. (CellOK(c))'
        BY <4>1, CellStep
      <4> QED
        BY <2>3, <3>2, <4>1, <4>2
    <3> QED
      BY <2>3, <3>1, <3>2
  <2>5. ASSUME NEW j \in DOMAIN wire', NEW k \in DOMAIN wire', j < k
        PROVE  MayPrecede(wire'[j], wire'[k])
    <3>1. j \in DOMAIN wire /\ wire'[j] = wire[j] /\ wire[j] \in Cell /\ CellOK(wire[j])
      BY <2>3, <2>5 DEF WireInv
    <3>2. CASE k = Len(wire) + 1
      BY <2>2, <2>3, <3>1, <3>2
    <3>3. CASE k \in DOMAIN wire
      BY <2>3, <2>5, <3>1, <3>3 DEF WireInv
    <3> QED
      BY <2>3, <3>2, <3>3
  <2> QED
    BY <2>4, <2>5 DEF WireInv, MayPrecede
<1> QED
  BY <1>1, <1>2
  DEF Next, Reader, Handler, Sender, SendFrame, ClientLeaves, ReadHeaders, ReadOther, ReadNone,
      ReadRaises, Join, JoinEnds, Close, HandlerSends, HandlerEnds, Acquire, SendFails, Release,
      Finished, vars, sendVars

-----------------------------------------------------------------------------
LEMMA InitIInv == Init => IInv
<1> SUFFICES ASSUME Init PROVE IInv
  OBVIOUS
<1>1. TypeOK
  BY MuxAssumption DEF Init, TypeOK, ThreadStates, Frames
<1>2. ThreadsInv
  BY DEF Init, ThreadsInv
<1>3. FramesInv
  BY DEF Init, FramesInv, FrameOK, Sending
<1>4. WireInv
  BY DEF Init, WireInv
<1> QED
  BY <1>1, <1>2, <1>3, <1>4 DEF IInv

LEMMA NextIInv == IInv /\ [Next]_vars => IInv'
  BY TypeStep, ThreadsStep, FramesStep, WireStep DEF IInv

LEMMA IInvariant == Spec => []IInv
  BY InitIInv, NextIInv, PTL DEF Spec

(* The state of a connection stays well-typed. *)
THEOREM TypeCorrect == Spec => []TypeOK
<1>1. IInv => TypeOK
  BY DEF IInv
<1> QED
  BY <1>1, IInvariant, PTL

(* Within a stream the frames leave in the order the handler sent them,    *)
(* END is the last and there is one, and every frame carries the id of the *)
(* stream its thread was started for: of MuxConn.send_frame, called by any *)
(* number of handler threads, whatever fails, expires or is cut off.       *)
THEOREM FramesInOrder == Spec => []StreamsInOrder
<1>1. IInv => StreamsInOrder
  <2> SUFFICES ASSUME IInv PROVE StreamsInOrder
    OBVIOUS
  <2>a. TypeOK /\ ThreadsInv /\ WireInv
    BY DEF IInv
  <2>1. ASSUME NEW k \in DOMAIN wire PROVE wire[k].sid = Sid[pending[wire[k].t]]
    <3>1. wire[k] \in Cell /\ wire[k].t \in Frames
      <4>1. wire[k] \in Cell
        BY <2>a DEF TypeOK
      <4> QED
        BY <4>1 DEF Cell
    <3>2. wire[k].sid = sid[wire[k].t] /\ tpc[wire[k].t] # "none"
      BY <2>a DEF WireInv, CellOK
    <3> QED
      BY <2>a, <3>1, <3>2, Started
  <2>2. ASSUME NEW j \in DOMAIN wire, NEW k \in DOMAIN wire, j < k, wire[j].t = wire[k].t
        PROVE  /\ wire[j].f <= wire[k].f
               /\ wire[j].f = wire[k].f => wire[j].i < wire[k].i
               /\ wire[j].end => wire[j].f = wire[k].f
    BY <2>a, <2>2 DEF WireInv, MayPrecede
  <2> QED
    BY <2>1, <2>2 DEF StreamsInOrder
<1> QED
  BY <1>1, IInvariant, PTL

-----------------------------------------------------------------------------
(* As long as nothing has run out, the connection thread closes the socket *)
(* behind the threads it has started.                                      *)
JoinInv ==
  faults = {} =>
    /\ rpc = "reading" => joined = 0
    /\ rpc = "joining" => \A t \in 1..joined : tpc[t] = "done"
    /\ rpc \in {"closing", "closed"} => \A t \in DOMAIN pending : tpc[t] = "done"

(* The last cell of END is still to be sent. *)
EndAhead(t) == frame[t] # <<>> /\ frame[t][Len(frame[t])].i = FrameCells

EndInv ==
  faults = {} /\ peer # "gone" =>
    \A t \in Frames :
      /\ tpc[t] = "done" => Ended(t)
      /\ tpc[t] = "end!" => Ended(t) \/ EndAhead(t)

LEMMA JoinStep ==
  ASSUME TypeOK, ThreadsInv, JoinInv, [Next]_vars
  PROVE  JoinInv'
<1>a. /\ Len(pending) \in Nat /\ joined \in Nat /\ joined <= Len(pending)
      /\ DOMAIN pending = 1..Len(pending) /\ Len(pending) <= N
  BY LenProperties, FramesArePositive DEF TypeOK
<1>b. \A t \in 1..Len(pending) : t \in Frames
  BY <1>a, FramesArePositive DEF Frames
<1>1. ASSUME UNCHANGED <<rpc, joined, pending>>, faults' = {} => faults = {},
             \A t \in Frames : tpc[t] = "done" => tpc'[t] = "done"
      PROVE  JoinInv'
  <2>1. \A t \in 1..joined : t \in Frames
    BY <1>a, <1>b
  <2> QED
    BY <1>a, <1>b, <1>1, <2>1 DEF JoinInv
<1>2. CASE ReadHeaders
  BY <1>2 DEF JoinInv, ReadHeaders
<1>3. CASE ReadNone
  BY <1>3 DEF JoinInv, ReadNone
<1>4. CASE ReadRaises
  <2>1. faults' # {}
    BY <1>4 DEF ReadRaises
  <2> QED
    BY <2>1 DEF JoinInv
<1>5. CASE Join
  <2>1. CASE tpc[joined + 1] = "done"
    <3>1. /\ rpc = "joining" /\ rpc' = "joining" /\ joined' = joined + 1 /\ tpc' = tpc
          /\ faults' = faults
      BY <1>5, <2>1 DEF Join
    <3>2. \A t \in 1..(joined + 1) : t \in 1..joined \/ t = joined + 1
      BY <1>a
    <3> QED
      BY <2>1, <3>1, <3>2 DEF JoinInv
  <2>2. CASE tpc[joined + 1] # "done"
    <3>1. faults' # {}
      BY <1>5, <2>2 DEF Join
    <3> QED
      BY <3>1 DEF JoinInv
  <2> QED
    BY <2>1, <2>2
<1>6. CASE JoinEnds
  BY <1>a, <1>6 DEF JoinInv, JoinEnds
<1>7. CASE Close
  BY <1>7 DEF JoinInv, Close
<1>8. ASSUME NEW t \in Frames, Handler(t) \/ Sender(t) PROVE JoinInv'
  <2>1. faults' = {} => faults = {}
    BY <1>8 DEF Handler, Sender, HandlerSends, HandlerEnds, Acquire, SendCell, SendFails, Release
  <2>2. /\ UNCHANGED <<rpc, joined, pending>>
        /\ \A u \in Frames : tpc[u] = "done" => tpc'[u] = "done"
    BY <1>8, OneThread
  <2> QED
    BY <1>1, <2>1, <2>2
<1>9. CASE SendFrame \/ ClientLeaves \/ ReadOther \/ UNCHANGED vars
  BY <1>1, <1>9 DEF SendFrame, ClientLeaves, ReadOther, vars, readerVars
<1> QED
  BY <1>2, <1>3, <1>4, <1>5, <1>6, <1>7, <1>8, <1>9 DEF Next, Reader, Finished

(* END is on the wire, or ahead of its thread. *)
LEMMA EndStep ==
  ASSUME TypeOK, ThreadsInv, FramesInv, JoinInv, EndInv, [Next]_vars
  PROVE  EndInv'
<1> SUFFICES ASSUME faults' = {}, peer' # "gone", NEW u \in Frames
             PROVE  /\ tpc'[u] = "done" => (Ended(u))'
                    /\ tpc'[u] = "end!" => (Ended(u))' \/ (EndAhead(u))'
  BY DEF EndInv, Frames
<1>a. faults = {} /\ peer # "gone"
  BY DEF Next, Reader, Handler, Sender, SendFrame, ClientLeaves, ReadHeaders, ReadOther, ReadNone,
         ReadRaises, Join, JoinEnds, Close, HandlerSends, HandlerEnds, Acquire, SendCell, SendFails,
         Release, Finished, vars, clientVars
<1>b. /\ tpc[u] = "done" => Ended(u)
      /\ tpc[u] = "end!" => Ended(u) \/ EndAhead(u)
  BY <1>a DEF EndInv
<1>c. ASSUME wire' = wire, Ended(u) PROVE (Ended(u))'
  BY <1>c DEF Ended
<1>d. ASSUME wire' = wire, frame'[u] = frame[u], tpc'[u] = tpc[u]
      PROVE  /\ tpc'[u] = "done" => (Ended(u))'
             /\ tpc'[u] = "end!" => (Ended(u))' \/ (EndAhead(u))'
  <2>1. EndAhead(u) => (EndAhead(u))'
    BY <1>d DEF EndAhead
  <2> QED
    BY <1>b, <1>c, <1>d, <2>1
<1>e. ASSUME NEW x \in Cell, wire' = Append(wire, x), Ended(u) PROVE (Ended(u))'
  <2>1. PICK k \in DOMAIN wire : wire[k].t = u /\ wire[k].end /\ wire[k].i = FrameCells
    BY <1>e DEF Ended
  <2>2. k \in DOMAIN wire' /\ wire'[k] = wire[k]
    BY <1>e, WireAppend
  <2> QED
    BY <2>1, <2>2 DEF Ended
<1>1. CASE UNCHANGED <<tpc, wire, frame>>
  BY <1>1, <1>d
<1>2. CASE ReadHeaders
  <2>1. UNCHANGED <<wire, frame>> /\ tpc' = [tpc EXCEPT ![NextThread] = "running"]
    BY <1>2 DEF ReadHeaders, sendVars
  <2>2. CASE u = NextThread
    BY <2>1, <2>2 DEF TypeOK
  <2>3. CASE u # NextThread
    BY <1>d, <2>1, <2>3 DEF TypeOK
  <2> QED
    BY <2>2, <2>3
<1>3. ASSUME NEW t \in Frames, Handler(t) \/ Sender(t), t # u
      PROVE  /\ tpc'[u] = "done" => (Ended(u))'
             /\ tpc'[u] = "end!" => (Ended(u))' \/ (EndAhead(u))'
  <2>1. tpc'[u] = tpc[u] /\ frame'[u] = frame[u]
    BY <1>3, OneThread
  <2>2. CASE wire' = wire
    BY <1>d, <2>1, <2>2
  <2>3. CASE SendCell(t)
    <3>1. PICK x \in Cell : wire' = Append(wire, x)
      BY <2>3, FrameSent
    <3>2. EndAhead(u) => (EndAhead(u))'
      BY <2>1 DEF EndAhead
    <3> QED
      BY <1>b, <1>e, <2>1, <3>1, <3>2
  <2> QED
    BY <1>3, <2>2, <2>3
    DEF Handler, Sender, HandlerSends, HandlerEnds, Acquire, SendFails, Release, sendVars
<1>4. CASE HandlerSends(u) \/ HandlerEnds(u)
  BY <1>4 DEF TypeOK, HandlerSends, HandlerEnds
<1>5. CASE Acquire(u)
  <2>1. CASE tpc[u] = "data"
    BY <1>5, <2>1 DEF TypeOK, Acquire
  <2>2. CASE tpc[u] = "end"
    <3>1. FrameCells \in Nat /\ FrameCells \in 1..FrameCells
      BY MuxAssumption
    <3>2. /\ Len(frame'[u]) = FrameCells
          /\ frame'[u][FrameCells]
               = [t |-> u, f |-> sent[u] + 1, i |-> FrameCells, end |-> TRUE, sid |-> sid[u]]
      BY <1>5, <2>2, <3>1, FrameTaken
    <3>3. (EndAhead(u))'
      BY <3>1, <3>2 DEF EndAhead
    <3>4. tpc'[u] = "end!"
      BY <1>5, <2>2 DEF TypeOK, Acquire
    <3> QED
      BY <3>3, <3>4
  <2> QED
    BY <1>5, <2>1, <2>2 DEF Acquire
<1>6. CASE SendCell(u)
  <2>1. /\ frame[u][1] \in Cell /\ wire' = Append(wire, frame[u][1])
        /\ Len(frame[u]) \in Nat /\ Len(frame[u]) > 0 /\ DOMAIN frame[u] = 1..Len(frame[u])
    BY <1>6, FrameSent
  <2>2. tpc' = tpc
    BY <1>6 DEF SendCell
  <2>3. CASE Ended(u)
    <3>1. (Ended(u))'
      BY <1>e, <2>1, <2>3
    <3> QED
      BY <3>1
  <2>4. CASE EndAhead(u) /\ tpc[u] = "end!" /\ Len(frame[u]) = 1
    <3>1. frame[u][1].t = u /\ frame[u][1].end /\ frame[u][1].i = FrameCells
      BY <2>1, <2>4 DEF EndAhead, FramesInv, FrameOK
    <3>2. Len(wire) + 1 \in DOMAIN wire' /\ wire'[Len(wire) + 1] = frame[u][1]
      BY <2>1, WireAppend
    <3>3. (Ended(u))'
      BY <3>1, <3>2 DEF Ended
    <3> QED
      BY <3>3
  <2>5. CASE EndAhead(u) /\ tpc[u] = "end!" /\ Len(frame[u]) > 1
    <3>1. frame'[u] = Tail(frame[u]) /\ frame[u] \in Seq(Cell)
      BY <1>6 DEF SendCell, TypeOK
    <3>2. /\ Tail(frame[u]) # <<>> /\ Len(Tail(frame[u])) = Len(frame[u]) - 1
          /\ Tail(frame[u])[Len(frame[u]) - 1] = frame[u][Len(frame[u])]
      BY <2>1, <2>5, <3>1
    <3>3. (EndAhead(u))'
      BY <2>5, <3>1, <3>2 DEF EndAhead
    <3> QED
      BY <2>2, <2>5, <3>3
  <2>6. tpc[u] \in {"data!", "end!"}
    BY <1>6 DEF SendCell, Sending
  <2> QED
    <3>1. CASE tpc[u] = "data!"
      BY <2>2, <3>1
    <3>2. CASE tpc[u] = "end!"
      <4>1. Len(frame[u]) = 1 \/ Len(frame[u]) > 1
        <5>1. \A l \in Nat : l > 0 => l = 1 \/ l > 1
          OBVIOUS
        <5> QED
          BY <2>1, <5>1
      <4> QED
        BY <1>b, <2>3, <2>4, <2>5, <3>2, <4>1
    <3> QED
      BY <2>6, <3>1, <3>2
<1>7. CASE SendFails(u)
  <2>1. ~SocketUp
    BY <1>7 DEF SendFails
  <2>2. rpc = "closed"
    BY <1>a, <2>1 DEF SocketUp
  <2>3. tpc[u] # "none" /\ tpc[u] # "done"
    BY <1>7, OneThread DEF Sender
  <2>4. u \in DOMAIN pending
    BY <2>3, Started
  <2> QED
    BY <1>a, <2>2, <2>3, <2>4 DEF JoinInv
<1>8. CASE Release(u)
  <2>1. wire' = wire /\ frame[u] = <<>> /\ tpc[u] \in {"data!", "end!"}
    BY <1>8 DEF Release, Sending
  <2>2. CASE tpc[u] = "data!"
    BY <1>8, <2>2 DEF Release, TypeOK
  <2>3. CASE tpc[u] = "end!"
    <3>1. Ended(u)
      BY <1>b, <2>1, <2>3 DEF EndAhead
    <3>2. (Ended(u))'
      BY <1>c, <2>1, <3>1
    <3> QED
      BY <3>2
  <2> QED
    BY <2>1, <2>2, <2>3
<1> QED
  BY <1>1, <1>2, <1>3, <1>4, <1>5, <1>6, <1>7, <1>8
  DEF Next, Reader, Handler, Sender, SendFrame, ClientLeaves, ReadOther, ReadNone, ReadRaises,
      Join, JoinEnds, Close, Finished, vars, sendVars

(* "handlers send DATA frames and finish with an END frame" (docstring of  *)
(* MuxServer), for any number of streams and frames: on a connection on    *)
(* which the reader has not raised, no join() has expired and no sendall() *)
(* has timed out, the socket is closed on a client that still reads only   *)
(* behind the END frame of every stream.                                   *)
THEOREM EndBeforeClose == Spec => []EveryStreamEndsInTime
<1>1. Init => JoinInv /\ EndInv
  BY DEF Init, JoinInv, EndInv
<1>2. IInv /\ JoinInv /\ EndInv /\ [Next]_vars => JoinInv' /\ EndInv'
  BY JoinStep, EndStep DEF IInv
<1>3. IInv /\ JoinInv /\ EndInv => EveryStreamEndsInTime
  <2> SUFFICES ASSUME IInv, JoinInv, EndInv, faults = {}, rpc = "closed", peer # "gone",
                      NEW t \in DOMAIN pending
               PROVE  Ended(t)
    BY DEF EveryStreamEndsInTime, EveryStreamEnds
  <2>1. t \in Frames
    <3>1. Len(pending) \in Nat /\ Len(pending) <= N /\ DOMAIN pending = 1..Len(pending)
      BY LenProperties, FramesArePositive DEF IInv, TypeOK
    <3> QED
      BY <3>1, FramesArePositive DEF Frames
  <2> QED
    BY <2>1 DEF JoinInv, EndInv
<1> QED
  BY <1>1, <1>2, <1>3, IInvariant, PTL DEF Spec
-----------------------------------------------------------------------------
(* The lock is held by the one thread that is in its critical section. *)
LockInv ==
  /\ lock # 0 => lock \in Frames /\ Sending(lock)
  /\ \A t \in Frames : Sending(t) => lock = t

(* What is left of a frame is its last cells, and the handler has begun    *)
(* the frame.                                                              *)
RestOK(t) ==
  /\ Len(frame[t]) <= FrameCells
  /\ \A j \in DOMAIN frame[t] : frame[t][j].i = FrameCells - Len(frame[t]) + j
  /\ tpc[t] \in {"data", "data!"} => sent[t] > 0

RestInv == \A t \in Frames : RestOK(t)

(* No two threads are started for one frame. *)
OrderInv ==
  /\ \A t \in DOMAIN pending : pending[t] <= read
  /\ \A q, t \in DOMAIN pending : q < t => pending[q] < pending[t]

LEMMA LockStep ==
  ASSUME TypeOK, ThreadsInv, LockInv, [Next]_vars
  PROVE  LockInv'
<1> USE FramesArePositive
<1>1. CASE UNCHANGED <<tpc, lock>>
  BY <1>1 DEF LockInv, Sending
<1>2. CASE ReadHeaders
  <2>1. NextThread \in Frames /\ tpc[NextThread] = "none"
    BY <1>2, LenProperties DEF TypeOK, ThreadsInv, ReadHeaders, NextThread, Frames
  <2>2. lock' = lock /\ tpc' = [tpc EXCEPT ![NextThread] = "running"]
    BY <1>2 DEF ReadHeaders, sendVars
  <2>3. \A t \in Frames : (Sending(t))' <=> Sending(t)
    BY <2>1, <2>2 DEF TypeOK, Sending
  <2>4. lock' = lock
    BY <2>2
  <2> QED
    BY <2>3, <2>4 DEF LockInv, Sending
<1>3. ASSUME NEW t \in Frames, Handler(t) \/ Sender(t) PROVE LockInv'
  <2>1. \A u \in Frames \ {t} : (Sending(u))' <=> Sending(u)
    BY <1>3, OneThread DEF Sending
  <2>2. CASE Handler(t)
    <3>1. lock' = lock /\ ~Sending(t) /\ ~(Sending(t))'
      BY <2>2 DEF Handler, HandlerSends, HandlerEnds, TypeOK, Sending, sendVars
    <3> QED
      BY <2>1, <3>1 DEF LockInv, Sending
  <2>3. CASE Acquire(t)
    <3>1. lock = 0 /\ lock' = t /\ (Sending(t))'
      BY <2>3 DEF Acquire, TypeOK, Sending
    <3>2. \A u \in Frames : ~Sending(u)
      BY <3>1 DEF LockInv
    <3> QED
      BY <2>1, <3>1, <3>2 DEF LockInv, Sending
  <2>4. CASE SendCell(t)
    BY <2>4 DEF SendCell, LockInv, Sending
  <2>5. CASE SendFails(t) \/ Release(t)
    <3>1. lock' = 0 /\ lock = t /\ ~(Sending(t))'
      BY <2>5 DEF SendFails, Release, TypeOK, LockInv, Sending
    <3> QED
      BY <2>1, <3>1 DEF LockInv, Sending
  <2> QED
    BY <1>3, <2>2, <2>3, <2>4, <2>5 DEF Sender
<1> QED
  BY <1>1, <1>2, <1>3
  DEF Next, Reader, SendFrame, ClientLeaves, ReadOther, ReadNone, ReadRaises, Join, JoinEnds,
      Close, Finished, vars, sendVars

LEMMA RestStep ==
  ASSUME TypeOK, ThreadsInv, FramesInv, RestInv, [Next]_vars
  PROVE  RestInv'
<1> SUFFICES ASSUME NEW u \in Frames PROVE (RestOK(u))'
  BY DEF RestInv, Frames
<1>a. /\ RestOK(u) /\ FrameOK(u) /\ FrameCells \in Nat /\ FrameCells > 0
      /\ sent[u] \in Nat
  BY MuxAssumption DEF RestInv, FramesInv, TypeOK
<1>b. ASSUME frame'[u] = <<>>, tpc'[u] \in {"data", "data!"} => sent'[u] > 0
      PROVE  (RestOK(u))'
  BY <1>a, <1>b DEF RestOK
<1>1. CASE UNCHANGED <<tpc, sent, frame>>
  BY <1>a, <1>1 DEF RestOK
<1>2. CASE ReadHeaders
  <2>1. NextThread \in Frames /\ tpc[NextThread] = "none"
    BY <1>2, LenProperties, FramesArePositive
    DEF TypeOK, ThreadsInv, ReadHeaders, NextThread, Frames
  <2>2. UNCHANGED <<sent, frame>> /\ tpc' = [tpc EXCEPT ![NextThread] = "running"]
    BY <1>2 DEF ReadHeaders, sendVars
  <2> QED
    BY <1>a, <2>1, <2>2 DEF RestOK, TypeOK
<1>3. ASSUME NEW t \in Frames, Handler(t) \/ Sender(t), t # u PROVE (RestOK(u))'
  <2>1. tpc'[u] = tpc[u] /\ sent'[u] = sent[u] /\ frame'[u] = frame[u]
    BY <1>3, OneThread
  <2> QED
    BY <1>a, <2>1 DEF RestOK
<1>4. CASE Handler(u) \/ SendFails(u) \/ Release(u)
  <2>1. frame'[u] = <<>>
    BY <1>a, <1>4
    DEF Handler, FrameOK, Sending, TypeOK, HandlerSends, HandlerEnds, SendFails, Release, sendVars
  <2>2. tpc'[u] \in {"data", "data!"} => sent'[u] > 0
    BY <1>a, <1>4 DEF Handler, TypeOK, HandlerSends, HandlerEnds, SendFails, Release, streamVars
  <2> QED
    BY <1>b, <2>1, <2>2
<1>5. CASE Acquire(u)
  <2>1. tpc[u] \in {"data", "end"} /\ sent' = sent
        /\ tpc'[u] = (IF tpc[u] = "data" THEN "data!" ELSE "end!")
    BY <1>5 DEF Acquire, TypeOK, streamVars
  <2>2. /\ Len(frame'[u]) = FrameCells /\ DOMAIN frame'[u] = 1..FrameCells
        /\ \A j \in 1..FrameCells : frame'[u][j].i = j
    <3>1. /\ Len(frame'[u]) = FrameCells /\ DOMAIN frame'[u] = 1..FrameCells
          /\ tpc[u] = "data" => \A i \in 1..FrameCells :
               frame'[u][i] = [t |-> u, f |-> sent[u], i |-> i, end |-> FALSE, sid |-> sid[u]]
          /\ tpc[u] = "end" => \A i \in 1..FrameCells :
               frame'[u][i] = [t |-> u, f |-> sent[u] + 1, i |-> i, end |-> TRUE, sid |-> sid[u]]
      BY <1>5, FrameTaken
    <3>2. ASSUME NEW i \in 1..FrameCells PROVE frame'[u][i].i = i
      <4>1. CASE tpc[u] = "data"
        <5>1. frame'[u][i]
                = [t |-> u, f |-> sent[u], i |-> i, end |-> FALSE, sid |-> sid[u]]
          BY <3>1, <4>1
        <5> QED
          BY <5>1
      <4>2. CASE tpc[u] = "end"
        <5>1. frame'[u][i]
                = [t |-> u, f |-> sent[u] + 1, i |-> i, end |-> TRUE, sid |-> sid[u]]
          BY <3>1, <4>2
        <5> QED
          BY <5>1
      <4> QED
        BY <2>1, <4>1, <4>2
    <3> QED
      BY <3>1, <3>2
  <2>3. \A j \in 1..FrameCells : j = FrameCells - FrameCells + j
    BY <1>a
  <2> QED
    BY <1>a, <2>1, <2>2, <2>3 DEF RestOK
<1>6. CASE SendCell(u)
  <2>1. /\ frame[u] \in Seq(Cell) /\ frame[u] # <<>> /\ frame'[u] = Tail(frame[u])
        /\ UNCHANGED <<tpc, sent>>
    BY <1>6 DEF SendCell, TypeOK, streamVars
  <2>2. /\ Len(frame[u]) \in Nat /\ Len(frame[u]) > 0 /\ DOMAIN frame[u] = 1..Len(frame[u])
        /\ Len(frame'[u]) = Len(frame[u]) - 1
        /\ DOMAIN frame'[u] = 1..(Len(frame[u]) - 1)
        /\ \A j \in 1..(Len(frame[u]) - 1) : frame'[u][j] = frame[u][j + 1]
    BY <2>1
  <2>3. ASSUME NEW j \in 1..(Len(frame[u]) - 1)
        PROVE  frame'[u][j].i = FrameCells - (Len(frame[u]) - 1) + j
    <3>1. j + 1 \in DOMAIN frame[u] /\ frame'[u][j] = frame[u][j + 1]
      BY <2>2
    <3>2. frame[u][j + 1].i = FrameCells - Len(frame[u]) + (j + 1)
      BY <1>a, <3>1 DEF RestOK
    <3>3. \A L, c \in Nat : c - L + (j + 1) = c - (L - 1) + j
      BY <2>2
    <3> QED
      BY <1>a, <2>2, <3>1, <3>2, <3>3
  <2>4. Len(frame'[u]) <= FrameCells
    BY <1>a, <2>2 DEF RestOK
  <2> QED
    BY <1>a, <2>1, <2>2, <2>3, <2>4 DEF RestOK
<1> QED
  BY <1>1, <1>2, <1>3, <1>4, <1>5, <1>6
  DEF Next, Reader, Sender, SendFrame, ClientLeaves, ReadOther, ReadNone, ReadRaises, Join,
      JoinEnds, Close, Finished, vars, streamVars, sendVars

LEMMA OrderStep ==
  ASSUME TypeOK, OrderInv, [Next]_vars
  PROVE  OrderInv'
<1>a. pending \in Seq(Frames) /\ read \in Nat /\ \A t \in DOMAIN pending : pending[t] \in Nat
  <2>1. pending \in Seq(Frames) /\ read \in Nat
    BY FramesArePositive DEF TypeOK
  <2> QED
    BY <2>1, LenProperties, ElementOfSeq, FramesArePositive
<1>1. CASE ReadHeaders
  <2>1. read' = read + 1 /\ read + 1 \in Frames /\ pending' = pending \o <<read + 1>>
    <3>1. read < arrived /\ arrived <= N /\ arrived \in Nat /\ N \in Nat
      BY <1>1, FramesArePositive DEF ReadHeaders, TypeOK
    <3> QED
      BY <1>1, <1>a, <3>1 DEF ReadHeaders, Frames
  <2>2. /\ DOMAIN pending' = 1..(Len(pending) + 1) /\ Len(pending) \in Nat
        /\ DOMAIN pending = 1..Len(pending)
        /\ \A t \in 1..Len(pending) : pending'[t] = pending[t]
        /\ pending'[Len(pending) + 1] = read + 1
    BY <1>a, <2>1
  <2>3. \A t \in DOMAIN pending' : t \in DOMAIN pending \/ t = Len(pending) + 1
    BY <2>2
  <2>4. \A t \in DOMAIN pending : pending[t] < read + 1
    BY <1>a DEF OrderInv
  <2>5. \A q, t \in DOMAIN pending' : q < t => q \in DOMAIN pending
    BY <2>2
  <2> QED
    BY <1>a, <2>1, <2>2, <2>3, <2>4, <2>5 DEF OrderInv
<1>2. CASE ReadOther
  BY <1>a, <1>2 DEF ReadOther, OrderInv
<1>3. CASE UNCHANGED <<pending, read>>
  BY <1>3 DEF OrderInv
<1> QED
  BY <1>1, <1>2, <1>3
  DEF Next, Reader, Handler, Sender, SendFrame, ClientLeaves, ReadNone, ReadRaises, Join, JoinEnds,
      Close, HandlerSends, HandlerEnds, Acquire, SendCell, SendFails, Release, Finished, vars,
      readerVars
-----------------------------------------------------------------------------
(* What follows is about connections on which no sendall() has timed out.  *)
Untimed == "send" \notin faults

(* Two cells of one frame. *)
Alike(c, d) == c.t = d.t /\ c.f = d.f /\ c.end = d.end /\ c.sid = d.sid

(* A sequence of frames of which only the last may be unfinished. *)
Rows(s) ==
  /\ \A k \in DOMAIN s : s[k].i \in 1..FrameCells
  /\ 1 \in DOMAIN s => s[1].i = 1
  /\ \A k \in DOMAIN s : s[k].i = FrameCells /\ k + 1 \in DOMAIN s => s[k + 1].i = 1
  /\ \A p, k \in DOMAIN s :
       s[p].i = 1 /\ p <= k /\ k <= p + FrameCells - 1 =>
         Alike(s[k], s[p]) /\ s[k].i = k - p + 1

Boundary(s) == s = <<>> \/ s[Len(s)].i = FrameCells

(* Cell c is of the frame that thread t is sending. *)
Current(t, c) ==
  /\ c.t = t /\ c.sid = sid[t]
  /\ tpc[t] = "data!" => ~c.end /\ c.f = sent[t]
  /\ tpc[t] = "end!" => c.end /\ c.f = sent[t] + 1

(* Where the last cell on the wire belongs: it ends a frame, or the lock   *)
(* holder has the rest of its frame still to send.                         *)
Edge ==
  /\ lock = 0 \/ Len(frame[lock]) = FrameCells => Boundary(wire)
  /\ lock # 0 /\ Len(frame[lock]) # FrameCells =>
       /\ wire # <<>>
       /\ wire[Len(wire)].i = FrameCells - Len(frame[lock])
       /\ Current(lock, wire[Len(wire)])

EdgeInv == Untimed /\ SocketUp => Edge

RowsInv == Untimed => Rows(wire)

LEMMA RowsAppend ==
  ASSUME NEW s \in Seq(Cell), NEW x \in Cell, Rows(s), x.i \in 1..FrameCells,
         \/ x.i = 1 /\ Boundary(s)
         \/ x.i > 1 /\ s # <<>> /\ s[Len(s)].i = x.i - 1 /\ Alike(s[Len(s)], x)
  PROVE  Rows(Append(s, x))
<1> DEFINE u == Append(s, x)
           L == Len(s)
<1>1. /\ L \in Nat /\ DOMAIN s = 1..L /\ DOMAIN u = 1..(L + 1)
      /\ \A k \in 1..L : u[k] = s[k] /\ s[k] \in Cell
      /\ u[L + 1] = x
      /\ s = <<>> <=> L = 0
  BY ElementOfSeq
<1>2. FrameCells \in Nat /\ FrameCells > 0
  BY MuxAssumption
<1>3. \/ x.i = 1 /\ (L = 0 \/ s[L].i = FrameCells)
      \/ x.i > 1 /\ L # 0 /\ s[L].i = x.i - 1 /\ Alike(s[L], x)
  BY <1>1 DEF Boundary
<1> HIDE DEF u, L
<1>4. ASSUME NEW k \in 1..(L + 1) PROVE u[k].i \in 1..FrameCells
  BY <1>1, <1>4 DEF Rows
<1>5. u[1].i = 1
  <2>1. CASE L = 0
    BY <1>1, <1>3, <2>1
  <2>2. CASE L # 0
    <3>1. 1 \in 1..L
      BY <1>1, <2>2
    <3> QED
      BY <1>1, <3>1 DEF Rows
  <2> QED
    BY <2>1, <2>2
<1>6. ASSUME NEW k \in 1..(L + 1), u[k].i = FrameCells, k + 1 \in 1..(L + 1)
      PROVE  u[k + 1].i = 1
  <2>1. k \in 1..L /\ u[k] = s[k]
    BY <1>1, <1>6
  <2>2. CASE k = L
    <3>1. ~(x.i > 1 /\ s[L].i = x.i - 1)
      BY <1>2, <1>6, <2>1, <2>2
    <3> QED
      BY <1>1, <1>3, <2>2, <3>1
  <2>3. CASE k # L
    <3>1. k + 1 \in 1..L
      BY <1>1, <2>1, <2>3
    <3> QED
      BY <1>1, <1>6, <2>1, <3>1 DEF Rows
  <2> QED
    BY <2>2, <2>3
<1>7. ASSUME NEW p \in 1..(L + 1), NEW k \in 1..(L + 1),
             u[p].i = 1, p <= k, k <= p + FrameCells - 1
      PROVE  Alike(u[k], u[p]) /\ u[k].i = k - p + 1
  <2>1. CASE k <= L
    BY <1>1, <1>7, <2>1 DEF Rows
  <2>2. CASE p = L + 1
    <3>1. k = p /\ k - p + 1 = 1
      BY <1>1, <1>7, <2>2
    <3> QED
      BY <1>7, <3>1 DEF Alike
  <2>3. CASE k = L + 1 /\ p <= L
    <3>1. /\ L \in 1..L /\ p \in 1..L /\ u[p] = s[p] /\ p <= L /\ L <= p + FrameCells - 1
      BY <1>1, <1>2, <1>7, <2>3
    <3>2. Alike(s[L], s[p]) /\ s[L].i = L - p + 1
      BY <1>1, <1>7, <3>1 DEF Rows
    <3>3. s[L].i # FrameCells
      BY <1>1, <1>2, <1>7, <2>3, <3>1, <3>2
    <3>4. s[L].i = x.i - 1 /\ Alike(s[L], x) /\ x.i \in Int
      BY <1>3, <3>1, <3>3
    <3>5. u[k] = x /\ x.i = k - p + 1
      BY <1>1, <2>3, <3>1, <3>2, <3>4
    <3> QED
      BY <3>1, <3>2, <3>4, <3>5 DEF Alike
  <2> QED
    BY <1>1, <2>1, <2>2, <2>3
<1> QED
  BY <1>1, <1>4, <1>5, <1>6, <1>7 DEF Rows, u

(* The cell that goes out begins a frame behind a finished one, or goes on *)
(* where the wire ends.                                                    *)
LEMMA CellGoesOut ==
  ASSUME TypeOK, FramesInv, RestInv, LockInv, EdgeInv, Untimed,
         NEW t \in Frames, SendCell(t), NEW x, x = frame[t][1]
  PROVE  /\ x \in Cell /\ wire' = Append(wire, x)
         /\ x.i \in 1..FrameCells /\ x.i = FrameCells - Len(frame[t]) + 1
         /\ Current(t, x)
         /\ \/ x.i = 1 /\ Len(frame[t]) = FrameCells /\ Boundary(wire)
            \/ /\ x.i > 1 /\ Len(frame[t]) # FrameCells /\ wire # <<>>
               /\ wire[Len(wire)].i = x.i - 1 /\ Alike(wire[Len(wire)], x)
<1> USE FramesArePositive
<1>1. /\ x \in Cell /\ 1 \in DOMAIN frame[t] /\ wire' = Append(wire, x)
      /\ Len(frame[t]) \in Nat /\ Len(frame[t]) > 0
  BY FrameSent
<1>2. /\ SocketUp /\ lock = t /\ lock # 0 /\ tpc[t] \in {"data!", "end!"} /\ FrameOK(t) /\ RestOK(t)
      /\ FrameCells \in Nat /\ sent[t] \in Nat
  BY MuxAssumption DEF SendCell, LockInv, FramesInv, RestInv, Sending, TypeOK
<1>3. Current(t, x)
  BY <1>1, <1>2 DEF FrameOK, Current
<1>4. /\ x.i = FrameCells - Len(frame[t]) + 1 /\ Len(frame[t]) <= FrameCells
      /\ x.i \in 1..FrameCells
  BY <1>1, <1>2 DEF RestOK
<1>5. CASE Len(frame[t]) = FrameCells
  BY <1>1, <1>2, <1>3, <1>4, <1>5 DEF EdgeInv, Edge
<1>6. CASE Len(frame[t]) # FrameCells
  <2>1. /\ wire # <<>> /\ wire[Len(wire)].i = FrameCells - Len(frame[t])
        /\ Current(t, wire[Len(wire)])
    BY <1>2, <1>6 DEF EdgeInv, Edge
  <2>2. /\ wire[Len(wire)] \in Cell
    <3>1. wire \in Seq(Cell)
      BY DEF TypeOK
    <3>2. Len(wire) \in 1..Len(wire)
      BY <2>1, <3>1, EmptySeq, LenProperties
    <3> QED
      BY <3>1, <3>2, ElementOfSeq
  <2>3. Alike(wire[Len(wire)], x)
    BY <1>1, <1>2, <1>3, <2>1, <2>2 DEF Current, Alike, Cell
  <2>4. x.i > 1 /\ wire[Len(wire)].i = x.i - 1
    BY <1>1, <1>2, <1>4, <1>6, <2>1
  <2> QED
    BY <1>1, <1>3, <1>4, <1>6, <2>1, <2>3, <2>4
<1> QED
  BY <1>5, <1>6

(* A timeout is not forgotten. *)
LEMMA StaysUntimed == [Next]_vars /\ Untimed' => Untimed
  BY DEF Untimed, Next, Reader, Handler, Sender, SendFrame, ClientLeaves, ReadHeaders, ReadOther,
         ReadNone, ReadRaises, Join, JoinEnds, Close, HandlerSends, HandlerEnds, Acquire, SendCell,
         SendFails, Release, Finished, vars

LEMMA SocketStaysDown == [Next]_vars /\ ~SocketUp => ~SocketUp'
  BY DEF SocketUp, Next, Reader, Handler, Sender, SendFrame, ClientLeaves, ReadHeaders, ReadOther,
         ReadNone, ReadRaises, Join, JoinEnds, Close, HandlerSends, HandlerEnds, Acquire, SendCell,
         SendFails, Release, Finished, vars, clientVars, readerVars

LEMMA RowsStep ==
  ASSUME TypeOK, FramesInv, RestInv, LockInv, EdgeInv, RowsInv, [Next]_vars
  PROVE  RowsInv'
<1> SUFFICES ASSUME Untimed, Untimed' PROVE Rows(wire)'
  BY StaysUntimed DEF RowsInv
<1>a. Rows(wire) /\ wire \in Seq(Cell)
  BY DEF RowsInv, TypeOK
<1>1. CASE wire' = wire
  BY <1>1, <1>a DEF Rows, Alike
<1>2. ASSUME NEW t \in Frames, SendCell(t) PROVE Rows(wire)'
  <2>1. PICK x : x = frame[t][1]
    OBVIOUS
  <2>2. Rows(Append(wire, x)) /\ wire' = Append(wire, x)
    <3>1. /\ x \in Cell /\ wire' = Append(wire, x) /\ x.i \in 1..FrameCells
          /\ \/ x.i = 1 /\ Boundary(wire)
             \/ x.i > 1 /\ wire # <<>> /\ wire[Len(wire)].i = x.i - 1 /\ Alike(wire[Len(wire)], x)
      BY <1>2, <2>1, CellGoesOut
    <3> QED
      BY <1>a, <3>1, RowsAppend
  <2> QED
    BY <2>2 DEF Rows, Alike
<1> QED
  BY <1>1, <1>2
  DEF Next, Reader, Handler, Sender, SendFrame, ClientLeaves, ReadHeaders, ReadOther, ReadNone,
      ReadRaises, Join, JoinEnds, Close, HandlerSends, HandlerEnds, Acquire, SendFails, Release,
      Finished, vars, sendVars

LEMMA EdgeStep ==
  ASSUME TypeOK, ThreadsInv, FramesInv, RestInv, LockInv, EdgeInv, [Next]_vars
  PROVE  EdgeInv'
<1> SUFFICES ASSUME Untimed, SocketUp, Untimed', SocketUp'
             PROVE  Edge'
  BY StaysUntimed, SocketStaysDown DEF EdgeInv
<1> USE FramesArePositive
<1>a. Edge
  BY DEF EdgeInv
<1>b. FrameCells \in Nat /\ FrameCells > 0 /\ wire \in Seq(Cell)
  BY MuxAssumption DEF TypeOK
<1>1. ASSUME UNCHANGED <<lock, wire>>,
             lock # 0 => /\ tpc'[lock] = tpc[lock] /\ sid'[lock] = sid[lock]
                         /\ sent'[lock] = sent[lock] /\ frame'[lock] = frame[lock]
      PROVE  Edge'
  <2>1. lock # 0 /\ Current(lock, wire[Len(wire)]) => (Current(lock, wire[Len(wire)]))'
    BY <1>1 DEF Current
  <2>2. lock # 0 => frame'[lock'] = frame[lock]
    BY <1>1
  <2>3. wire' = wire /\ lock' = lock
    BY <1>1
  <2> QED
    BY <1>a, <2>1, <2>2, <2>3 DEF Edge, Boundary
<1>2. CASE ReadHeaders
  <2>1. NextThread \in Frames /\ tpc[NextThread] = "none"
    BY <1>2, LenProperties DEF TypeOK, ThreadsInv, ReadHeaders, NextThread, Frames
  <2>2. lock # NextThread
    BY <2>1 DEF LockInv, Sending
  <2>3. lock # 0 => lock \in Frames
    BY DEF LockInv
  <2> QED
    BY <1>1, <1>2, <2>1, <2>2, <2>3 DEF ReadHeaders, TypeOK, sendVars
<1>3. ASSUME NEW t \in Frames, Handler(t)
      PROVE  Edge'
  <2>1. UNCHANGED <<lock, wire>> /\ ~Sending(t)
    BY <1>3 DEF Handler, HandlerSends, HandlerEnds, Sending, sendVars
  <2>2. lock # 0 => lock \in Frames /\ lock # t
    BY <2>1 DEF LockInv
  <2>3. /\ UNCHANGED sid
        /\ \A u \in Frames \ {t} :
             tpc'[u] = tpc[u] /\ sent'[u] = sent[u] /\ frame'[u] = frame[u]
    BY <1>3, OneThread
  <2> QED
    BY <1>1, <2>1, <2>2, <2>3
<1>4. ASSUME NEW t \in Frames, Acquire(t)
      PROVE  Edge'
  <2>1. lock = 0 /\ lock' = t /\ wire' = wire
    BY <1>4 DEF Acquire
  <2>2. Len(frame'[t]) = FrameCells
    BY <1>4, FrameTaken
  <2>3. Boundary(wire)
    BY <1>a, <2>1 DEF Edge
  <2> QED
    BY <2>1, <2>2, <2>3 DEF Edge, Boundary
<1>5. ASSUME NEW t \in Frames, SendCell(t)
      PROVE  Edge'
  <2>1. PICK x : x = frame[t][1]
    OBVIOUS
  <2>2. /\ x \in Cell /\ wire' = Append(wire, x) /\ Current(t, x)
        /\ x.i = FrameCells - Len(frame[t]) + 1
    BY <1>5, <2>1, CellGoesOut
  <2>3. /\ wire' # <<>> /\ wire'[Len(wire')] = x
    BY <1>b, <2>2
  <2>4. lock' = t /\ t # 0 /\ UNCHANGED <<tpc, sid, sent>>
    BY <1>5 DEF SendCell, LockInv, streamVars
  <2>5. /\ frame[t] \in Seq(Cell) /\ frame[t] # <<>> /\ frame'[t] = Tail(frame[t])
        /\ Len(frame[t]) <= FrameCells
    BY <1>5 DEF SendCell, TypeOK, RestInv, RestOK
  <2>6. Len(frame'[t]) = Len(frame[t]) - 1 /\ Len(frame[t]) \in Nat
    BY <2>5
  <2>7. Len(frame'[t]) # FrameCells /\ x.i = FrameCells - Len(frame'[t])
    <3>1. \A L, c \in Nat : L <= c => L - 1 # c /\ c - L + 1 = c - (L - 1)
      OBVIOUS
    <3> QED
      BY <1>b, <2>2, <2>5, <2>6, <3>1
  <2>8. (Current(lock, wire[Len(wire)]))'
    BY <2>2, <2>3, <2>4 DEF Current
  <2> QED
    BY <2>3, <2>4, <2>7, <2>8 DEF Edge
<1>6. ASSUME NEW t \in Frames, SendFails(t) PROVE FALSE
  BY <1>6 DEF SendFails, Untimed
<1>7. ASSUME NEW t \in Frames, Release(t)
      PROVE  Edge'
  <2>1. lock' = 0 /\ wire' = wire /\ lock = t /\ t # 0 /\ frame[t] = <<>>
    BY <1>7 DEF Release, LockInv
  <2>2. Len(frame[t]) = 0
    BY <2>1
  <2>3. wire[Len(wire)].i = FrameCells
    BY <1>a, <1>b, <2>1, <2>2 DEF Edge
  <2> QED
    BY <2>1, <2>3 DEF Edge, Boundary
<1>8. CASE UNCHANGED <<tpc, sid, sent, sendVars>>
  BY <1>1, <1>8 DEF sendVars
<1> QED
  BY <1>2, <1>3, <1>4, <1>5, <1>6, <1>7, <1>8
  DEF Next, Reader, Sender, SendFrame, ClientLeaves, ReadOther, ReadNone, ReadRaises, Join,
      JoinEnds, Close, Finished, vars, streamVars
-----------------------------------------------------------------------------
(* The first cell of frame f of thread t is on the wire. *)
OnWire(t, f) == \E k \in DOMAIN wire : wire[k].t = t /\ wire[k].f = f /\ wire[k].i = 1

(* Frame f of thread t is the one it is about to begin. *)
Ahead(t, f) ==
  /\ f = sent[t]
  /\ \/ tpc[t] = "data"
     \/ tpc[t] = "data!" /\ Len(frame[t]) = FrameCells

(* No frame is left out: what a thread has sent is on the wire, *)
HaveInv ==
  Untimed /\ SocketUp => \A t \in Frames : \A f \in 1..sent[t] : OnWire(t, f) \/ Ahead(t, f)

(* and a frame stands behind the frame its thread sent before. *)
Follows(k) ==
  \E j \in 1..(k - 1) : /\ wire[j].t = wire[k].t
                        /\ wire[j].f = wire[k].f - 1
                        /\ wire[j].i = 1

GapInv ==
  Untimed =>
    \A k \in DOMAIN wire :
      wire[k].i = 1 => wire[k].f > 0 /\ (wire[k].f > 1 => Follows(k))

LEMMA HaveStep ==
  ASSUME TypeOK, ThreadsInv, FramesInv, RestInv, LockInv, EdgeInv, HaveInv, [Next]_vars
  PROVE  HaveInv'
<1> SUFFICES ASSUME Untimed, SocketUp, Untimed', SocketUp',
                    NEW u \in Frames, NEW f \in 1..sent'[u]
             PROVE  (OnWire(u, f))' \/ (Ahead(u, f))'
  BY StaysUntimed, SocketStaysDown DEF HaveInv, Frames
<1>a. /\ \A g \in 1..sent[u] : OnWire(u, g) \/ Ahead(u, g)
      /\ sent[u] \in Nat /\ FrameCells \in Nat /\ FrameCells > 0
  BY MuxAssumption DEF HaveInv, TypeOK
<1>b. ASSUME wire' = wire, NEW g, OnWire(u, g) PROVE (OnWire(u, g))'
  BY <1>b DEF OnWire
<1>c. ASSUME wire' = wire, sent'[u] = sent[u], \A g \in 1..sent[u] : Ahead(u, g) => (Ahead(u, g))'
      PROVE  (OnWire(u, f))' \/ (Ahead(u, f))'
  BY <1>a, <1>b, <1>c
<1>d. ASSUME wire' = wire, sent'[u] = sent[u], \A g \in 1..sent[u] : ~Ahead(u, g)
      PROVE  (OnWire(u, f))' \/ (Ahead(u, f))'
  BY <1>c, <1>d
<1>1. CASE UNCHANGED <<tpc, sent, frame, wire>>
  BY <1>1, <1>c DEF Ahead
<1>2. CASE ReadHeaders
  <2>1. NextThread \in Frames /\ tpc[NextThread] = "none"
    BY <1>2, LenProperties, FramesArePositive
    DEF TypeOK, ThreadsInv, ReadHeaders, NextThread, Frames
  <2>2. UNCHANGED <<sent, frame, wire>> /\ tpc' = [tpc EXCEPT ![NextThread] = "running"]
    BY <1>2 DEF ReadHeaders, sendVars
  <2>3. ASSUME NEW g \in 1..sent[u], Ahead(u, g) PROVE (Ahead(u, g))'
    BY <2>1, <2>2, <2>3 DEF Ahead, TypeOK
  <2> QED
    BY <1>c, <2>2, <2>3
<1>3. ASSUME NEW t \in Frames, Handler(t) \/ Sender(t), t # u
      PROVE  (OnWire(u, f))' \/ (Ahead(u, f))'
  <2>1. tpc'[u] = tpc[u] /\ sent'[u] = sent[u] /\ frame'[u] = frame[u]
    BY <1>3, OneThread
  <2>2. CASE wire' = wire
    BY <1>c, <2>1, <2>2 DEF Ahead
  <2>3. CASE SendCell(t)
    <3>1. PICK x \in Cell : wire' = Append(wire, x)
      BY <2>3, FrameSent
    <3>2. OnWire(u, f) => (OnWire(u, f))'
      BY <3>1, WireAppend DEF OnWire
    <3> QED
      BY <1>a, <2>1, <3>2 DEF Ahead
  <2> QED
    BY <1>3, <2>2, <2>3
    DEF Handler, Sender, HandlerSends, HandlerEnds, Acquire, SendFails, Release, sendVars
<1>4. CASE HandlerSends(u)
  <2>1. tpc[u] = "running" /\ tpc'[u] = "data" /\ sent'[u] = sent[u] + 1 /\ wire' = wire
    BY <1>4 DEF HandlerSends, TypeOK, sendVars
  <2>2. f \in 1..sent[u] \/ f = sent'[u]
    BY <1>a, <2>1
  <2>3. \A g \in 1..sent[u] : ~Ahead(u, g)
    BY <2>1 DEF Ahead
  <2>4. CASE f \in 1..sent[u]
    <3>1. OnWire(u, f)
      BY <1>a, <2>3, <2>4
    <3> QED
      BY <1>b, <2>1, <3>1
  <2>5. CASE f = sent'[u]
    BY <2>1, <2>5 DEF Ahead
  <2> QED
    BY <2>2, <2>4, <2>5
<1>5. CASE HandlerEnds(u) \/ Release(u)
  <2>1. /\ sent' = sent /\ wire' = wire
        /\ tpc[u] = "running" \/ (Sending(u) /\ frame[u] = <<>>)
    BY <1>5 DEF HandlerEnds, Release, streamVars, sendVars
  <2>2. \A g \in 1..sent[u] : ~Ahead(u, g)
    BY <1>a, <2>1 DEF Ahead, Sending
  <2> QED
    BY <1>d, <2>1, <2>2
<1>6. CASE Acquire(u)
  <2>1. sent' = sent /\ wire' = wire /\ (tpc[u] = "data" => tpc'[u] = "data!") /\ tpc[u] # "data!"
    BY <1>6 DEF Acquire, TypeOK, streamVars
  <2>2. Len(frame'[u]) = FrameCells
    BY <1>6, FrameTaken
  <2>3. ASSUME NEW g \in 1..sent[u], Ahead(u, g) PROVE (Ahead(u, g))'
    BY <2>1, <2>2, <2>3 DEF Ahead
  <2> QED
    BY <1>c, <2>1, <2>3
<1>7. CASE SendCell(u)
  <2>1. PICK x : x = frame[u][1]
    OBVIOUS
  <2>2. /\ x \in Cell /\ wire' = Append(wire, x) /\ Current(u, x)
        /\ x.i = FrameCells - Len(frame[u]) + 1
    BY <1>7, <2>1, CellGoesOut
  <2>3. sent' = sent
    BY <1>7 DEF SendCell, streamVars
  <2>4. CASE OnWire(u, f)
    <3>1. (OnWire(u, f))'
      BY <2>2, <2>4, WireAppend DEF OnWire
    <3> QED
      BY <3>1
  <2>5. CASE Ahead(u, f)
    <3>1. tpc[u] = "data!" /\ f = sent[u] /\ Len(frame[u]) = FrameCells
      BY <1>7, <2>5 DEF Ahead, SendCell, Sending
    <3>2. x.t = u /\ x.f = f /\ x.i = 1
      BY <1>a, <2>2, <3>1 DEF Current
    <3>3. Len(wire) + 1 \in DOMAIN wire' /\ wire'[Len(wire) + 1] = x
      BY <2>2, WireAppend
    <3>4. (OnWire(u, f))'
      BY <3>2, <3>3 DEF OnWire
    <3> QED
      BY <3>4
  <2> QED
    BY <1>a, <2>3, <2>4, <2>5
<1>8. CASE SendFails(u)
  BY <1>8 DEF SendFails, Untimed
<1> QED
  BY <1>1, <1>2, <1>3, <1>4, <1>5, <1>6, <1>7, <1>8
  DEF Next, Reader, Handler, Sender, SendFrame, ClientLeaves, ReadOther, ReadNone, ReadRaises,
      Join, JoinEnds, Close, Finished, vars, streamVars, sendVars

LEMMA GapStep ==
  ASSUME TypeOK, ThreadsInv, FramesInv, RestInv, LockInv, EdgeInv, HaveInv, GapInv, [Next]_vars
  PROVE  GapInv'
<1> SUFFICES ASSUME Untimed, Untimed', NEW k \in DOMAIN wire', wire'[k].i = 1
             PROVE  wire'[k].f > 0 /\ (wire'[k].f > 1 => (Follows(k))')
  BY StaysUntimed DEF GapInv
<1>1. CASE wire' = wire
  BY <1>1 DEF GapInv, Follows
<1>2. ASSUME NEW t \in Frames, SendCell(t)
      PROVE  wire'[k].f > 0 /\ (wire'[k].f > 1 => (Follows(k))')
  <2>1. PICK x : x = frame[t][1]
    OBVIOUS
  <2>2. /\ x \in Cell /\ wire' = Append(wire, x) /\ Current(t, x)
        /\ \/ x.i = 1 /\ Len(frame[t]) = FrameCells
           \/ x.i > 1
    BY <1>2, <2>1, CellGoesOut
  <2>3. /\ Len(wire) \in Nat /\ DOMAIN wire = 1..Len(wire)
        /\ DOMAIN wire' = 1..(Len(wire) + 1)
        /\ \A j \in DOMAIN wire : wire'[j] = wire[j]
        /\ wire'[Len(wire) + 1] = x
    BY <2>2, WireAppend
  <2>4. CASE k \in DOMAIN wire
    <3>1. wire[k].f > 0 /\ (wire[k].f > 1 => Follows(k)) /\ wire'[k] = wire[k]
      BY <2>3, <2>4 DEF GapInv
    <3>2. \A j \in 1..(k - 1) : wire'[j] = wire[j]
      BY <2>3, <2>4
    <3>3. Follows(k) => (Follows(k))'
      BY <3>1, <3>2 DEF Follows
    <3> QED
      BY <3>1, <3>3
  <2>5. CASE k = Len(wire) + 1
    <3>1. /\ wire'[k] = x /\ x.i = 1 /\ Len(frame[t]) = FrameCells /\ x.t = t
          /\ tpc[t] \in {"data!", "end!"} /\ SocketUp /\ sent[t] \in Nat
      BY <1>2, <2>2, <2>3, <2>5 DEF Current, SendCell, Sending, TypeOK
    <3>2. ASSUME NEW g \in 1..sent[t], g = x.f - 1, OnWire(t, g) PROVE (Follows(k))'
      <4>1. PICK j \in DOMAIN wire : wire[j].t = t /\ wire[j].f = g /\ wire[j].i = 1
        BY <3>2 DEF OnWire
      <4>2. j \in 1..(k - 1) /\ wire'[j] = wire[j]
        BY <2>3, <2>5
      <4> QED
        BY <3>1, <3>2, <4>1, <4>2 DEF Follows
    <3>3. CASE tpc[t] = "data!"
      <4>1. x.f = sent[t] /\ sent[t] > 0
        BY <2>2, <3>3 DEF Current, RestInv, RestOK
      <4>2. ASSUME sent[t] > 1 PROVE (Follows(k))'
        <5>1. sent[t] - 1 \in 1..sent[t] /\ sent[t] - 1 # sent[t]
          BY <3>1, <4>2
        <5>2. OnWire(t, sent[t] - 1)
          BY <3>1, <5>1 DEF HaveInv, Ahead
        <5> QED
          BY <3>2, <4>1, <5>1, <5>2
      <4> QED
        BY <3>1, <4>1, <4>2
    <3>4. CASE tpc[t] = "end!"
      <4>1. x.f = sent[t] + 1
        BY <2>2, <3>4 DEF Current
      <4>2. ASSUME sent[t] > 0 PROVE (Follows(k))'
        <5>1. sent[t] \in 1..sent[t] /\ x.f - 1 = sent[t]
          BY <3>1, <4>1, <4>2
        <5>2. OnWire(t, sent[t])
          BY <3>1, <3>4, <5>1 DEF HaveInv, Ahead
        <5> QED
          BY <3>2, <5>1, <5>2
      <4>3. x.f > 0 /\ (x.f > 1 => sent[t] > 0)
        BY <3>1, <4>1
      <4> QED
        BY <3>1, <4>2, <4>3
    <3> QED
      BY <3>1, <3>3, <3>4
  <2> QED
    BY <2>3, <2>4, <2>5
<1> QED
  BY <1>1, <1>2
  DEF Next, Reader, Handler, Sender, SendFrame, ClientLeaves, ReadHeaders, ReadOther, ReadNone,
      ReadRaises, Join, JoinEnds, Close, HandlerSends, HandlerEnds, Acquire, SendFails, Release,
      Finished, vars, sendVars
-----------------------------------------------------------------------------
(* What the client relies on. *)
ServerInv ==
  /\ IInv /\ LockInv /\ RestInv /\ OrderInv
  /\ EdgeInv /\ RowsInv /\ HaveInv /\ GapInv

LEMMA ServerInit == Init => ServerInv
<1> SUFFICES ASSUME Init PROVE ServerInv
  OBVIOUS
<1>1. IInv
  BY InitIInv
<1>2. FrameCells \in Nat /\ FrameCells > 0
  BY MuxAssumption
<1>3. LockInv /\ OrderInv
  BY DEF Init, LockInv, OrderInv, Sending
<1>4. RestInv
  BY <1>2 DEF Init, RestInv, RestOK
<1>5. EdgeInv /\ RowsInv
  BY <1>2 DEF Init, EdgeInv, Edge, Boundary, RowsInv, Rows
<1>6. HaveInv /\ GapInv
  BY DEF Init, HaveInv, GapInv
<1> QED
  BY <1>1, <1>3, <1>4, <1>5, <1>6 DEF ServerInv

LEMMA ServerStep == ServerInv /\ [Next]_vars => ServerInv'
<1> SUFFICES ASSUME ServerInv, [Next]_vars PROVE ServerInv'
  OBVIOUS
<1>1. /\ IInv /\ TypeOK /\ ThreadsInv /\ FramesInv /\ LockInv /\ RestInv /\ OrderInv /\ EdgeInv
      /\ RowsInv /\ HaveInv /\ GapInv
  BY DEF ServerInv, IInv
<1>2. IInv'
  BY <1>1, NextIInv
<1>3. LockInv' /\ RestInv' /\ OrderInv'
  BY <1>1, LockStep, RestStep, OrderStep
<1>4. EdgeInv' /\ RowsInv'
  BY <1>1, EdgeStep, RowsStep
<1>5. HaveInv' /\ GapInv'
  BY <1>1, HaveStep, GapStep
<1> QED
  BY <1>2, <1>3, <1>4, <1>5 DEF ServerInv

(* The cells of one id are of one thread, for no two frames that the       *)
(* client sends open the same stream.                                      *)
LEMMA OneThreadPerId ==
  ASSUME IInv, OrderInv, NEW j \in DOMAIN wire, NEW k \in DOMAIN wire,
         wire[j].sid = wire[k].sid
  PROVE  wire[j].t = wire[k].t
<1>1. ASSUME NEW i \in DOMAIN wire
      PROVE  /\ wire[i].t \in DOMAIN pending /\ pending[wire[i].t] \in Frames
             /\ wire[i].sid = Sid[pending[wire[i].t]]
  <2>1. TypeOK /\ ThreadsInv /\ wire[i] \in Cell /\ CellOK(wire[i])
    BY DEF IInv, TypeOK, WireInv
  <2>2. wire[i].t \in Frames /\ tpc[wire[i].t] # "none" /\ wire[i].sid = sid[wire[i].t]
    BY <2>1 DEF Cell, CellOK
  <2> QED
    BY <2>1, <2>2, Started
<1>2. pending[wire[j].t] = pending[wire[k].t]
  BY <1>1, ClientAssumption
<1>3. /\ DOMAIN pending = 1..Len(pending) /\ Len(pending) \in Nat
      /\ \A t \in DOMAIN pending : pending[t] \in Nat
  <2>1. pending \in Seq(Frames)
    BY DEF IInv, TypeOK
  <2> QED
    BY <2>1, LenProperties, ElementOfSeq, FramesArePositive
<1>4. \A q, t \in DOMAIN pending : q < t => pending[q] < pending[t]
  BY DEF OrderInv
<1>5. ~(wire[j].t < wire[k].t) /\ ~(wire[k].t < wire[j].t)
  BY <1>1, <1>2, <1>3, <1>4
<1> QED
  BY <1>1, <1>3, <1>5

(* Position p is the first cell of a frame. *)
First(p, s, f, end) ==
  wire[p].i = 1 /\ wire[p].sid = s /\ wire[p].f = f /\ wire[p].end = end

(* The client stands between two frames. *)
PlaceInv ==
  /\ taken \in 0..Len(wire)
  /\ streams \in [Ids -> Seq(Seq(Cell))]
  /\ done \subseteq Ids
  /\ Untimed => reader # "lost" /\ (taken = 0 \/ wire[taken].i = FrameCells)

(* The frames it has taken are filed, what is filed are frames it has      *)
(* taken, and behind the END of a stream there is nothing to come.         *)
FiledInv ==
  Untimed =>
    /\ \A p \in 1..taken :
         wire[p].i = 1 /\ ~wire[p].end /\ wire[p].sid \in Ids =>
           wire[p].f <= Len(streams[wire[p].sid])
    /\ \A s \in Ids : \A m \in 1..Len(streams[s]) : \E p \in 1..taken :
         First(p, s, m, FALSE) /\ streams[s][m] = Frame(wire[p].t, m, FALSE, s)
    /\ \A s \in done : \E p \in 1..taken : First(p, s, Len(streams[s]) + 1, TRUE)

(* More of the wire behind what the client has taken changes nothing. *)
LEMMA ClientKept ==
  ASSUME TypeOK, PlaceInv, FiledInv, Untimed' => Untimed,
         wire' = wire \/ \E x \in Cell : wire' = Append(wire, x),
         UNCHANGED <<taken, streams, done>>, reader' \in {reader, "ended"}
  PROVE  PlaceInv' /\ FiledInv'
<1>1. /\ Len(wire) \in Nat /\ Len(wire') \in Nat /\ Len(wire') >= Len(wire)
      /\ \A k \in 1..Len(wire) : wire'[k] = wire[k]
  <2>1. wire \in Seq(Cell)
    BY DEF TypeOK
  <2>2. CASE wire' = wire
    BY <2>1, <2>2, LenProperties
  <2>3. ASSUME NEW x \in Cell, wire' = Append(wire, x)
        PROVE  /\ Len(wire') = Len(wire) + 1
               /\ \A k \in 1..Len(wire) : wire'[k] = wire[k]
    BY <2>1, <2>3, AppendProperties
  <2> QED
    BY <2>1, <2>2, <2>3, LenProperties
<1>2. \A p \in 1..taken : p \in 1..Len(wire) /\ wire'[p] = wire[p]
  BY <1>1 DEF PlaceInv
<1>3. PlaceInv'
  <2>1. taken # 0 => taken \in 1..taken
    BY DEF PlaceInv
  <2> QED
    BY <1>1, <1>2, <2>1 DEF PlaceInv
<1>4. FiledInv'
  <2> SUFFICES ASSUME Untimed, Untimed' PROVE FiledInv'
    BY DEF FiledInv
  <2>1. ASSUME NEW p \in 1..taken, NEW s, NEW f, NEW e, First(p, s, f, e)
        PROVE  First(p, s, f, e)'
    BY <1>2, <2>1 DEF First
  <2>2. ASSUME NEW p \in 1..taken, wire'[p].i = 1, ~wire'[p].end, wire'[p].sid \in Ids
        PROVE  wire'[p].f <= Len(streams'[wire'[p].sid])
    BY <1>2, <2>2 DEF FiledInv
  <2>3. ASSUME NEW s \in Ids, NEW m \in 1..Len(streams[s])
        PROVE  \E p \in 1..taken :
                 First(p, s, m, FALSE)' /\ streams'[s][m] = Frame(wire'[p].t, m, FALSE, s)
    <3>1. PICK p \in 1..taken :
            First(p, s, m, FALSE) /\ streams[s][m] = Frame(wire[p].t, m, FALSE, s)
      BY DEF FiledInv
    <3> QED
      BY <1>2, <2>1, <3>1
  <2>4. ASSUME NEW s \in done
        PROVE  \E p \in 1..taken : First(p, s, Len(streams[s]) + 1, TRUE)'
    <3>1. PICK p \in 1..taken : First(p, s, Len(streams[s]) + 1, TRUE)
      BY DEF FiledInv
    <3> QED
      BY <2>1, <3>1
  <2>5. taken' = taken /\ streams' = streams /\ done' = done
    OBVIOUS
  <2>6. \A p \in 1..taken' :
          wire'[p].i = 1 /\ ~wire'[p].end /\ wire'[p].sid \in Ids =>
            wire'[p].f <= Len(streams'[wire'[p].sid])
    BY <2>2, <2>5
  <2>7. \A s \in Ids : \A m \in 1..Len(streams'[s]) : \E p \in 1..taken' :
          First(p, s, m, FALSE)' /\ streams'[s][m] = Frame(wire'[p].t, m, FALSE, s)
    BY <2>3, <2>5
  <2>8. \A s \in done' : \E p \in 1..taken' : First(p, s, Len(streams[s]) + 1, TRUE)'
    BY <2>4, <2>5
  <2> QED
    BY <2>6, <2>7, <2>8 DEF FiledInv
<1> QED
  BY <1>3, <1>4

(* The frame that the client finds behind what it has taken. *)
LEMMA HeadNext ==
  ASSUME Rows(wire), wire \in Seq(Cell), taken \in Nat, taken = 0 \/ wire[taken].i = FrameCells,
         Whole, NEW h, h = Header
  PROVE  /\ h \in Cell /\ h.i = 1
         /\ taken + 1 \in DOMAIN wire /\ taken + FrameCells \in DOMAIN wire
         /\ \A j \in 1..FrameCells :
              taken + j \in DOMAIN wire /\ Alike(wire[taken + j], h) /\ wire[taken + j].i = j
         /\ SubSeq(wire, taken + 1, taken + FrameCells) = Frame(h.t, h.f, h.end, h.sid)
<1>1. /\ FrameCells \in Nat /\ FrameCells > 0
      /\ Len(wire) \in Nat /\ DOMAIN wire = 1..Len(wire) /\ taken + FrameCells <= Len(wire)
  BY MuxAssumption, LenProperties DEF Whole
<1>2. taken + 1 \in DOMAIN wire /\ taken + FrameCells \in DOMAIN wire
  BY <1>1
<1>3. h = wire[taken + 1] /\ h \in Cell
  BY <1>1, <1>2, ElementOfSeq DEF Header
<1>4. h.i = 1
  <2>1. CASE taken = 0
    BY <1>2, <1>3, <2>1 DEF Rows
  <2>2. CASE taken # 0
    <3>1. taken \in DOMAIN wire /\ wire[taken].i = FrameCells
      BY <1>1, <2>2
    <3> QED
      BY <1>2, <1>3, <3>1 DEF Rows
  <2> QED
    BY <2>1, <2>2
<1>5. ASSUME NEW j \in 1..FrameCells
      PROVE  /\ taken + j \in DOMAIN wire /\ wire[taken + j] \in Cell
             /\ Alike(wire[taken + j], h) /\ wire[taken + j].i = j
  <2>1. /\ taken + j \in DOMAIN wire /\ taken + 1 <= taken + j
        /\ taken + j <= (taken + 1) + FrameCells - 1
        /\ (taken + j) - (taken + 1) + 1 = j
    BY <1>1
  <2>2. Alike(wire[taken + j], h) /\ wire[taken + j].i = (taken + j) - (taken + 1) + 1
    BY <1>2, <1>3, <1>4, <2>1 DEF Rows
  <2>3. wire[taken + j] \in Cell
    BY <1>1, <2>1, ElementOfSeq
  <2> QED
    BY <2>1, <2>2, <2>3
<1>6. SubSeq(wire, taken + 1, taken + FrameCells) = Frame(h.t, h.f, h.end, h.sid)
  <2> DEFINE row == SubSeq(wire, taken + 1, taken + FrameCells)
  <2>1. /\ row \in Seq(Cell) /\ Len(row) = FrameCells
        /\ \A j \in 1..FrameCells : row[j] = wire[taken + j]
    <3>1. /\ taken + 1 \in 1..(Len(wire) + 1) /\ taken + FrameCells \in taken..Len(wire)
          /\ (taken + FrameCells) - (taken + 1) + 1 = FrameCells
          /\ \A j \in 1..FrameCells : (taken + 1) + j - 1 = taken + j
      BY <1>1
    <3> QED
      BY <1>1, <3>1, SubSeqProperties
  <2>2. row = [j \in 1..FrameCells |-> row[j]]
    BY <2>1, LenProperties
  <2>3. ASSUME NEW j \in 1..FrameCells
        PROVE  row[j] = [t |-> h.t, f |-> h.f, i |-> j, end |-> h.end, sid |-> h.sid]
    BY <1>5, <2>1 DEF Alike, Cell
  <2> HIDE DEF row
  <2>4. row = Frame(h.t, h.f, h.end, h.sid)
    BY <2>2, <2>3 DEF Frame
  <2> QED
    BY <2>4 DEF row
<1> QED
  BY <1>2, <1>3, <1>4, <1>5, <1>6

(* It is the next frame of its stream, and the stream has not ended. *)
LEMMA NextOfStream ==
  ASSUME ServerInv, PlaceInv, FiledInv, Untimed, taken + 1 \in DOMAIN wire,
         NEW h, h = Header, h.i = 1, h.sid \in Ids
  PROVE  h.f = Len(streams[h.sid]) + 1 /\ h.sid \notin done
<1> DEFINE L == Len(streams[h.sid])
<1>1. /\ IInv /\ OrderInv /\ GapInv /\ TypeOK /\ WireInv
      /\ wire \in Seq(Cell) /\ Len(wire) \in Nat /\ DOMAIN wire = 1..Len(wire)
  BY LenProperties DEF ServerInv, IInv, TypeOK
<1>2. /\ taken \in Nat /\ \A p \in 1..taken : p \in DOMAIN wire /\ p < taken + 1
      /\ \A p \in 1..taken : wire[p] \in Cell
  BY <1>1, ElementOfSeq DEF PlaceInv
<1>3. h = wire[taken + 1] /\ h \in Cell /\ h.f \in Nat
  <2>1. h = wire[taken + 1] /\ h \in Cell
    BY <1>1, ElementOfSeq DEF Header
  <2> QED
    BY <2>1 DEF Cell
<1>4. L \in Nat
  <2>1. streams[h.sid] \in Seq(Seq(Cell))
    BY DEF PlaceInv
  <2> QED
    BY <2>1, LenProperties
<1>5. ASSUME NEW p \in 1..taken, wire[p].sid = h.sid, wire[p].i = 1
      PROVE  wire[p].f < h.f /\ ~wire[p].end
  <2>1. wire[p].t = h.t
    BY <1>1, <1>2, <1>3, <1>5, OneThreadPerId
  <2>2. MayPrecede(wire[p], h)
    BY <1>1, <1>2, <1>3 DEF WireInv
  <2>3. wire[p].f \in Nat
    BY <1>2 DEF Cell
  <2> QED
    BY <1>3, <1>5, <2>1, <2>2, <2>3 DEF MayPrecede
<1>6. h.sid \notin done
  BY <1>5 DEF FiledInv, First
<1>7. h.f > 0 /\ (h.f > 1 => h.f - 1 <= L)
  <2>1. h.f > 0 /\ (h.f > 1 => Follows(taken + 1))
    BY <1>1, <1>3 DEF GapInv
  <2>2. ASSUME h.f > 1 PROVE h.f - 1 <= L
    <3>1. PICK j \in 1..((taken + 1) - 1) :
            wire[j].t = h.t /\ wire[j].f = h.f - 1 /\ wire[j].i = 1
      BY <1>3, <2>1, <2>2 DEF Follows
    <3>2. j \in 1..taken
      BY <1>2
    <3>3. wire[j].sid = h.sid
      BY <1>1, <1>2, <1>3, <3>1, <3>2 DEF WireInv, CellOK
    <3>4. ~wire[j].end
      BY <1>5, <3>1, <3>2, <3>3
    <3>5. wire[j].f <= Len(streams[wire[j].sid])
      BY <3>1, <3>2, <3>3, <3>4 DEF FiledInv
    <3> QED
      BY <3>1, <3>3, <3>5
  <2> QED
    BY <2>1, <2>2
<1>8. L > 0 => L < h.f
  <2>1. ASSUME L > 0 PROVE L < h.f
    <3>1. L \in 1..L
      BY <1>4, <2>1
    <3>2. PICK p \in 1..taken : First(p, h.sid, L, FALSE)
      BY <3>1 DEF FiledInv
    <3> QED
      BY <1>5, <3>2 DEF First
  <2> QED
    BY <2>1
<1>9. h.f = L + 1
  <2> HIDE DEF L
  <2> QED
    BY <1>3, <1>4, <1>7, <1>8
<1> QED
  BY <1>6, <1>9

LEMMA FrameFiled ==
  ASSUME ServerInv, PlaceInv, FiledInv, TakeFrame
  PROVE  PlaceInv' /\ FiledInv'
<1> DEFINE h == Header
<1>1. /\ TypeOK /\ wire \in Seq(Cell) /\ Len(wire) \in Nat /\ DOMAIN wire = 1..Len(wire)
      /\ FrameCells \in Nat /\ FrameCells > 0 /\ taken \in Nat
  BY MuxAssumption, LenProperties DEF ServerInv, IInv, TypeOK, PlaceInv
<1>2. /\ wire' = wire /\ faults' = faults /\ reader' = reader /\ taken' = taken + FrameCells
      /\ Whole /\ taken + FrameCells <= Len(wire)
  BY DEF TakeFrame, vars, sendVars, Whole
<1>3. h = wire[taken + 1] /\ h \in Cell /\ taken + 1 \in DOMAIN wire
  <2>1. taken + 1 \in 1..Len(wire)
    BY <1>1, <1>2
  <2> QED
    BY <1>1, <2>1, ElementOfSeq DEF Header
<1>4. /\ SubSeq(wire, taken + 1, taken + FrameCells) \in Seq(Cell)
      /\ h.end \in BOOLEAN /\ h.f \in Nat
  <2>1. taken + 1 \in 1..(Len(wire) + 1) /\ taken + FrameCells \in taken..Len(wire)
    BY <1>1, <1>2
  <2>2. SubSeq(wire, taken + 1, taken + FrameCells) \in Seq(Cell)
    BY <1>1, <2>1, SubSeqProperties
  <2>3. h.end \in BOOLEAN /\ h.f \in Nat
    BY <1>3 DEF Cell
  <2> QED
    BY <2>2, <2>3
<1>5. \A s \in Ids : streams[s] \in Seq(Seq(Cell)) /\ Len(streams[s]) \in Nat
  <2>1. \A s \in Ids : streams[s] \in Seq(Seq(Cell))
    BY DEF PlaceInv
  <2> QED
    BY <2>1, LenProperties
<1> DEFINE payload == SubSeq(wire, taken + 1, taken + FrameCells)
<1>6. \/ h.end /\ done' = done \cup ({h.sid} \cap Ids) /\ streams' = streams
      \/ /\ ~h.end /\ done' = done
         /\ streams' = [s \in Ids |-> IF s = h.sid THEN Append(streams[s], payload) ELSE streams[s]]
  BY DEF TakeFrame
<1> HIDE DEF h, payload
<1>p. payload \in Seq(Cell)
  BY <1>4 DEF payload
<1>7. PlaceInv'
  <2>1. taken' \in 0..Len(wire')
    BY <1>1, <1>2
  <2>2. streams' \in [Ids -> Seq(Seq(Cell))] /\ done' \subseteq Ids
    <3>1. \A s \in Ids : Append(streams[s], payload) \in Seq(Seq(Cell))
      BY <1>5, <1>p, AppendProperties
    <3> QED
      BY <1>5, <1>6, <3>1 DEF PlaceInv
  <2>3. Untimed' => reader' # "lost" /\ wire'[taken'].i = FrameCells
    <3> SUFFICES ASSUME Untimed' PROVE reader' # "lost" /\ wire'[taken'].i = FrameCells
      OBVIOUS
    <3>1. Untimed
      BY <1>2 DEF Untimed
    <3>2. Rows(wire) /\ reader # "lost" /\ (taken = 0 \/ wire[taken].i = FrameCells)
      BY <3>1 DEF ServerInv, RowsInv, PlaceInv
    <3>3. \A j \in 1..FrameCells : wire[taken + j].i = j
      BY <1>1, <1>2, <3>2, HeadNext
    <3>4. FrameCells \in 1..FrameCells
      BY <1>1
    <3> QED
      BY <1>2, <3>2, <3>3, <3>4
  <2> QED
    BY <2>1, <2>2, <2>3 DEF PlaceInv
<1>8. FiledInv'
  <2> SUFFICES ASSUME Untimed' PROVE FiledInv'
    BY DEF FiledInv
  <2>1. Untimed
    BY <1>2 DEF Untimed
  <2>2. Rows(wire) /\ (taken = 0 \/ wire[taken].i = FrameCells)
    BY <2>1 DEF ServerInv, RowsInv, PlaceInv
  <2>3. /\ h.i = 1
        /\ \A j \in 1..FrameCells :
             taken + j \in DOMAIN wire /\ Alike(wire[taken + j], h) /\ wire[taken + j].i = j
        /\ payload = Frame(h.t, h.f, h.end, h.sid)
    BY <1>1, <1>2, <2>2, HeadNext DEF h, payload
  <2>4. h.sid \in Ids => h.f = Len(streams[h.sid]) + 1 /\ h.sid \notin done
    BY <1>3, <2>1, <2>3, NextOfStream DEF h
  <2>5. \A p \in 1..taken' : p \in 1..taken \/ \E j \in 1..FrameCells : p = taken + j
    <3>1. ASSUME NEW p \in 1..taken', p \notin 1..taken
          PROVE  \E j \in 1..FrameCells : p = taken + j
      <4>1. p - taken \in 1..FrameCells /\ p = taken + (p - taken)
        BY <1>1, <1>2, <3>1
      <4> QED
        BY <4>1
    <3> QED
      BY <3>1
  <2>6. ASSUME NEW p \in 1..taken', p \notin 1..taken, wire[p].i = 1
        PROVE  p = taken + 1 /\ wire[p] = h
    BY <1>1, <1>3, <2>3, <2>5, <2>6
  <2>7. taken + 1 \in 1..taken' /\ 1..taken \subseteq 1..taken'
    BY <1>1, <1>2
  <2>8. ASSUME NEW p, NEW s, NEW f, NEW e
        PROVE  First(p, s, f, e)' <=> First(p, s, f, e)
    BY <1>2 DEF First
  <2>9. \A s \in Ids : s # h.sid \/ h.end => streams'[s] = streams[s]
    BY <1>6
  <2>10. h.sid \in Ids /\ ~h.end =>
           /\ streams'[h.sid] = Append(streams[h.sid], payload)
           /\ Len(streams'[h.sid]) = Len(streams[h.sid]) + 1
           /\ \A m \in 1..Len(streams[h.sid]) : streams'[h.sid][m] = streams[h.sid][m]
           /\ streams'[h.sid][Len(streams[h.sid]) + 1] = payload
    <3> SUFFICES ASSUME h.sid \in Ids, ~h.end
                 PROVE  /\ streams'[h.sid] = Append(streams[h.sid], payload)
                        /\ Len(streams'[h.sid]) = Len(streams[h.sid]) + 1
                        /\ \A m \in 1..Len(streams[h.sid]) : streams'[h.sid][m] = streams[h.sid][m]
                        /\ streams'[h.sid][Len(streams[h.sid]) + 1] = payload
      OBVIOUS
    <3>1. streams'[h.sid] = Append(streams[h.sid], payload)
      BY <1>6
    <3> QED
      BY <1>5, <1>p, <3>1, AppendProperties
  <2>11. ASSUME NEW p \in 1..taken', wire[p].i = 1, ~wire[p].end, wire[p].sid \in Ids
         PROVE  wire[p].f <= Len(streams'[wire[p].sid])
    <3>1. CASE p \in 1..taken
      <4>1. wire[p].f <= Len(streams[wire[p].sid])
        BY <2>1, <2>11, <3>1 DEF FiledInv
      <4>2. wire[p].f \in Nat
        <5>1. p \in DOMAIN wire
          BY <1>1, <1>2
        <5>2. wire[p] \in Cell
          BY <1>1, <5>1, ElementOfSeq
        <5> QED
          BY <5>2 DEF Cell
      <4>3. CASE wire[p].sid # h.sid \/ h.end
        BY <2>9, <2>11, <4>1, <4>3
      <4>4. CASE wire[p].sid = h.sid /\ ~h.end
        <5>1. Len(streams'[wire[p].sid]) = Len(streams[wire[p].sid]) + 1
          BY <2>10, <2>11, <4>4
        <5> QED
          BY <1>5, <2>11, <4>1, <4>2, <5>1
      <4> QED
        BY <4>3, <4>4
    <3>2. CASE p \notin 1..taken
      <4>1. wire[p] = h
        BY <2>6, <2>11, <3>2
      <4>2. Len(streams'[h.sid]) = h.f
        BY <2>4, <2>10, <2>11, <4>1
      <4> QED
        BY <1>4, <4>1, <4>2 DEF h
    <3> QED
      BY <3>1, <3>2
  <2>12. ASSUME NEW s \in Ids, NEW m \in 1..Len(streams'[s])
         PROVE  \E p \in 1..taken' :
                  First(p, s, m, FALSE) /\ streams'[s][m] = Frame(wire[p].t, m, FALSE, s)
    <3>1. ASSUME m \in 1..Len(streams[s]), streams'[s][m] = streams[s][m]
          PROVE  \E p \in 1..taken' :
                   First(p, s, m, FALSE) /\ streams'[s][m] = Frame(wire[p].t, m, FALSE, s)
      <4>1. PICK p \in 1..taken :
              First(p, s, m, FALSE) /\ streams[s][m] = Frame(wire[p].t, m, FALSE, s)
        BY <2>1, <3>1 DEF FiledInv
      <4> QED
        BY <2>7, <3>1, <4>1
    <3>2. CASE s # h.sid \/ h.end
      BY <2>9, <3>1, <3>2
    <3>3. CASE s = h.sid /\ ~h.end /\ m \in 1..Len(streams[s])
      BY <2>10, <3>1, <3>3
    <3>4. CASE s = h.sid /\ ~h.end /\ m \notin 1..Len(streams[s])
      <4>1. m = Len(streams[s]) + 1
        BY <1>5, <2>10, <3>4
      <4>2. streams'[s][m] = payload /\ h.f = m
        BY <2>4, <2>10, <3>4, <4>1
      <4>3. payload = Frame(h.t, m, FALSE, s)
        <5>1. h.end = FALSE /\ h.sid = s
          BY <1>4, <3>4 DEF h
        <5> QED
          BY <2>3, <4>2, <5>1
      <4>4. First(taken + 1, s, m, FALSE)
        BY <1>3, <2>3, <3>4, <4>2 DEF First
      <4>5. streams'[s][m] = Frame(wire[taken + 1].t, m, FALSE, s)
        BY <1>3, <4>2, <4>3
      <4> QED
        BY <2>7, <4>4, <4>5
    <3> QED
      BY <3>2, <3>3, <3>4
  <2>13. ASSUME NEW s \in done'
         PROVE  \E p \in 1..taken' : First(p, s, Len(streams'[s]) + 1, TRUE)
    <3>1. CASE s \in done
      <4>1. PICK p \in 1..taken : First(p, s, Len(streams[s]) + 1, TRUE)
        BY <2>1, <3>1 DEF FiledInv
      <4>2. s \in Ids /\ s # h.sid
        BY <2>4, <3>1 DEF PlaceInv
      <4>3. streams'[s] = streams[s]
        BY <2>9, <4>2
      <4> QED
        BY <2>7, <4>1, <4>3
    <3>2. CASE s \notin done
      <4>1. h.end /\ s = h.sid /\ s \in Ids /\ streams'[s] = streams[s]
        BY <1>6, <3>2
      <4>2. First(taken + 1, s, Len(streams'[s]) + 1, TRUE)
        BY <1>3, <1>4, <2>3, <2>4, <4>1 DEF First, h
      <4> QED
        BY <2>7, <4>2
    <3> QED
      BY <3>1, <3>2
  <2>14. \A p \in 1..taken' :
           wire'[p].i = 1 /\ ~wire'[p].end /\ wire'[p].sid \in Ids =>
             wire'[p].f <= Len(streams'[wire'[p].sid])
    BY <1>2, <2>11
  <2>15. \A s \in Ids : \A m \in 1..Len(streams'[s]) : \E p \in 1..taken' :
           First(p, s, m, FALSE)' /\ streams'[s][m] = Frame(wire'[p].t, m, FALSE, s)
    BY <1>2, <2>8, <2>12
  <2>16. \A s \in done' : \E p \in 1..taken' : First(p, s, Len(streams[s]) + 1, TRUE)'
    BY <1>2, <2>13 DEF First
  <2> QED
    BY <2>14, <2>15, <2>16 DEF FiledInv
<1> QED
  BY <1>7, <1>8

(* No other step of the client's goes on in the wire, and it is never out  *)
(* of step.                                                                *)
LEMMA ClientStep ==
  ServerInv /\ PlaceInv /\ FiledInv /\ [ClientNext]_allVars => (ServerInv /\ PlaceInv /\ FiledInv)'
<1> SUFFICES ASSUME ServerInv, PlaceInv, FiledInv, [ClientNext]_allVars
             PROVE  (ServerInv /\ PlaceInv /\ FiledInv)'
  OBVIOUS
<1>a. TypeOK
  BY DEF ServerInv, IInv
<1>1. [Next]_vars
  BY DEF ClientNext, ClientReader, Wait, ClientCloses, TakeFrame, LoseStep, ReaderEnds, Next, allVars
<1>2. ServerInv'
  BY <1>1, ServerStep
<1>3. Untimed' => Untimed
  BY <1>1, StaysUntimed
<1>4. wire' = wire \/ \E x \in Cell : wire' = Append(wire, x)
  <2>1. ASSUME NEW t \in Frames, SendCell(t) PROVE \E x \in Cell : wire' = Append(wire, x)
    BY <1>a, <2>1, FrameSent
  <2> QED
    BY <1>1, <2>1
    DEF Next, Reader, Handler, Sender, SendFrame, ClientLeaves, ReadHeaders, ReadOther, ReadNone,
        ReadRaises, Join, JoinEnds, Close, HandlerSends, HandlerEnds, Acquire, SendFails, Release,
        Finished, vars, sendVars
<1>5. CASE UNCHANGED <<taken, streams, done>> /\ reader' \in {reader, "ended"}
  BY <1>a, <1>2, <1>3, <1>4, <1>5, ClientKept
<1>6. CASE TakeFrame
  BY <1>2, <1>6, FrameFiled
<1>7. CASE LoseStep
  <2>1. ~Untimed
    <3> SUFFICES ASSUME Untimed PROVE FALSE
      OBVIOUS
    <3>1. Rows(wire) /\ wire \in Seq(Cell) /\ taken \in Nat /\ (taken = 0 \/ wire[taken].i = FrameCells)
      BY <1>a, LenProperties DEF ServerInv, RowsInv, PlaceInv, TypeOK
    <3>2. Whole /\ Header.i # 1
      BY <1>7 DEF LoseStep
    <3> QED
      BY <3>1, <3>2, HeadNext
  <2>2. ~Untimed' /\ UNCHANGED <<wire, taken, streams, done>>
    BY <1>3, <1>7, <2>1 DEF LoseStep, vars, sendVars, Untimed
  <2> QED
    BY <1>2, <2>2 DEF PlaceInv, FiledInv
<1> QED
  BY <1>5, <1>6, <1>7
  DEF ClientNext, ClientReader, Wait, ClientCloses, ReaderEnds, clientState, allVars

(* What is filed under an id are the frames of its one thread. *)
LEMMA FiledIsReassembled == ServerInv /\ PlaceInv /\ FiledInv => Reassembled
<1> SUFFICES ASSUME ServerInv, PlaceInv, FiledInv, Untimed
             PROVE  /\ reader # "lost"
                    /\ \A s \in Ids : s \in done \/ streams[s] # <<>> =>
                         \E t \in DOMAIN pending :
                           /\ sid[t] = s
                           /\ Len(streams[s]) \in IF s \in done THEN {sent[t]} ELSE 0..sent[t]
                           /\ streams[s] = [f \in DOMAIN streams[s] |-> Frame(t, f, FALSE, s)]
  BY DEF Reassembled, Untimed
<1>1. /\ IInv /\ OrderInv /\ TypeOK /\ ThreadsInv /\ WireInv
      /\ wire \in Seq(Cell) /\ Len(wire) \in Nat /\ DOMAIN wire = 1..Len(wire)
  BY LenProperties DEF ServerInv, IInv, TypeOK
<1>2. \A p \in 1..taken : p \in DOMAIN wire
  BY <1>1 DEF PlaceInv
<1>3. ASSUME NEW s \in Ids, s \in done \/ streams[s] # <<>>
      PROVE  \E t \in DOMAIN pending :
               /\ sid[t] = s
               /\ Len(streams[s]) \in IF s \in done THEN {sent[t]} ELSE 0..sent[t]
               /\ streams[s] = [f \in DOMAIN streams[s] |-> Frame(t, f, FALSE, s)]
  <2> DEFINE L == Len(streams[s])
  <2>1. /\ L \in Nat /\ DOMAIN streams[s] = 1..L
        /\ streams[s] = [f \in 1..L |-> streams[s][f]]
        /\ streams[s] # <<>> => L > 0
    <3>1. streams[s] \in Seq(Seq(Cell))
      BY DEF PlaceInv
    <3> QED
      BY <3>1, LenProperties, EmptySeq
  <2>2. \E p \in 1..taken :
          \/ s \in done /\ First(p, s, L + 1, TRUE)
          \/ s \notin done /\ First(p, s, L, FALSE)
    <3>1. CASE s \in done
      BY <3>1 DEF FiledInv
    <3>2. CASE s \notin done
      <4>1. L \in 1..L
        BY <1>3, <2>1, <3>2
      <4> QED
        BY <3>2, <4>1 DEF FiledInv
    <3> QED
      BY <3>1, <3>2
  <2>3. PICK p \in 1..taken :
          \/ s \in done /\ First(p, s, L + 1, TRUE)
          \/ s \notin done /\ First(p, s, L, FALSE)
    BY <2>2
  <2>4. PICK t : t = wire[p].t
    OBVIOUS
  <2>5. /\ p \in DOMAIN wire /\ wire[p] \in Cell /\ t \in Frames /\ wire[p].sid = s
        /\ CellOK(wire[p])
    <3>1. p \in DOMAIN wire /\ wire[p] \in Cell
      BY <1>1, <1>2, ElementOfSeq
    <3> QED
      BY <1>1, <2>3, <2>4, <3>1 DEF First, WireInv, Cell
  <2>6. sid[t] = s /\ t \in DOMAIN pending /\ sent[t] \in Nat
    BY <1>1, <2>4, <2>5, Started DEF CellOK, TypeOK
  <2>7. L \in IF s \in done THEN {sent[t]} ELSE 0..sent[t]
    <3>1. CASE s \in done
      <4>1. L + 1 = sent[t] + 1
        BY <2>3, <2>4, <2>5, <3>1 DEF First, CellOK
      <4> QED
        BY <2>1, <2>6, <3>1, <4>1
    <3>2. CASE s \notin done
      <4>1. L <= sent[t]
        BY <2>3, <2>4, <2>5, <3>2 DEF First, CellOK
      <4> QED
        BY <2>1, <2>6, <3>2, <4>1
    <3> QED
      BY <3>1, <3>2
  <2>8. ASSUME NEW f \in 1..L PROVE streams[s][f] = Frame(t, f, FALSE, s)
    <3>1. PICK q \in 1..taken :
            First(q, s, f, FALSE) /\ streams[s][f] = Frame(wire[q].t, f, FALSE, s)
      BY DEF FiledInv
    <3>2. q \in DOMAIN wire /\ wire[q].sid = wire[p].sid
      BY <1>2, <2>5, <3>1 DEF First
    <3>3. wire[q].t = t
      BY <1>1, <2>4, <2>5, <3>2, OneThreadPerId
    <3> QED
      BY <3>1, <3>3
  <2>9. streams[s] = [f \in DOMAIN streams[s] |-> Frame(t, f, FALSE, s)]
    BY <2>1, <2>8
  <2> QED
    BY <2>6, <2>7, <2>9
<1>4. reader # "lost"
  BY DEF PlaceInv
<1> QED
  BY <1>3, <1>4

(* The client of mux_client.py reassembles each stream independently: what *)
(* streams[sid].append() has filed under an id is, whole and in order,     *)
(* what the one handler of that id has sent, and all of it when the event  *)
(* is set, however many streams there are, however their frames interleave *)
(* and whatever the client waits for; unless a sendall() of the server has *)
(* timed out in the middle of a frame.                                     *)
THEOREM StreamsReassembled == ClientSpec => []Reassembled
<1>1. ClientInit => ServerInv /\ PlaceInv /\ FiledInv
  <2> SUFFICES ASSUME ClientInit PROVE ServerInv /\ PlaceInv /\ FiledInv
    OBVIOUS
  <2>1. ServerInv
    BY ServerInit DEF ClientInit
  <2>2. /\ taken = 0 /\ done = {} /\ reader = "reading" /\ wire = <<>> /\ Len(wire) = 0
        /\ streams = [s \in Ids |-> <<>>]
    BY DEF ClientInit, Init
  <2>3. PlaceInv
    BY <2>2 DEF PlaceInv
  <2>4. FiledInv
    BY <2>2 DEF FiledInv
  <2> QED
    BY <2>1, <2>3, <2>4
<1>2. ServerInv /\ PlaceInv /\ FiledInv /\ [ClientNext]_allVars => (ServerInv /\ PlaceInv /\ FiledInv)'
  BY ClientStep
<1>3. ServerInv /\ PlaceInv /\ FiledInv => Reassembled
  BY FiledIsReassembled
<1> QED
  BY <1>1, <1>2, <1>3, PTL DEF ClientSpec
=============================================================================
