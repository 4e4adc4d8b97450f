-------------------------- MODULE PlusClientProofs --------------------------
(***************************************************************************)
(* What a PipeliningPlusClient files under a Request-ID, for every number  *)
(* of requests, every response, every size of recv() and every order the   *)
(* threads of the server finish in.                                        *)
(*                                                                         *)
(* The stream of the server consists of whole responses.  The client stands *)
(* at the end of one of them, or behind the first cell of one; so the      *)
(* blank line it finds next is the one of the next response, and the       *)
(* Content-Length in front of it ends where that response ends.            *)
(***************************************************************************)
EXTENDS PlusClient, PipeliningPlusProofs

(* What the mutants of PipeliningPlus and ResponseReader change is         *)
(* expanded everywhere.                                                    *)
USE DEF Listed, MayStart, JoinReturns, BoundRequest, LockFree, HeldBy, LockReleased,
        Incoming!BodyLength

-----------------------------------------------------------------------------
(* Cells know how many they are. *)
Numbered(s) == \A k \in DOMAIN s : s[k].i \in 1..s[k].n

(* Behind the first cell of a response come the others, as far as they     *)
(* have been sent.                                                         *)
Pages(s) ==
  \A p, k \in DOMAIN s :
    s[p].i = 1 /\ p <= k /\ k <= p + s[p].n - 1 =>
      s[k].t = s[p].t /\ s[k].n = s[p].n /\ s[k].i = k - p + 1

(* The number of cells a response announces is the number it has. *)
CellsInv ==
  \A k \in DOMAIN Stream :
    Stream[k].n = size[Stream[k].t] /\ Stream[k].i \in 1..Stream[k].n

LEMMA PagesAppend ==
  ASSUME NEW s \in Seq(Cell), NEW x \in Cell, Pages(s), Complete(Append(s, x)), x.i > 0
  PROVE  Pages(Append(s, x))
<1> DEFINE u == Append(s, x)
           L == Len(s)
<1>1. /\ L \in Nat /\ DOMAIN s = 1..L /\ DOMAIN u = 1..(L + 1)
      /\ \A k \in 1..L : u[k] = s[k] /\ s[k] \in Cell
      /\ u[L + 1] = x
  BY ElementOfSeq
<1>2. Complete(u)
  OBVIOUS
<1> HIDE DEF u, L
<1> SUFFICES ASSUME NEW p \in 1..(L + 1), NEW k \in 1..(L + 1),
                    u[p].i = 1, p <= k, k <= p + u[p].n - 1
             PROVE  u[k].t = u[p].t /\ u[k].n = u[p].n /\ u[k].i = k - p + 1
  BY <1>1 DEF Pages, u
<1>3. CASE k <= L
  BY <1>1, <1>3 DEF Pages
<1>4. CASE p = L + 1
  BY <1>1, <1>4
<1>5. CASE k = L + 1 /\ p <= L
  <2>1. /\ L \in 1..L /\ p \in 1..L /\ u[p] = s[p] /\ u[L] = s[L] /\ s[p] \in Cell /\ s[L] \in Cell
        /\ p <= L /\ L <= p + s[p].n - 1
    BY <1>1, <1>5 DEF Cell
  <2>2. s[L].t = s[p].t /\ s[L].n = s[p].n /\ s[L].i = L - p + 1
    BY <1>1, <2>1 DEF Pages
  <2>3. k - 1 = L /\ k # 1 /\ k \in DOMAIN u /\ u[k] = x
    BY <1>1, <1>5, <2>1
  <2>4. /\ x.i = 1 => s[L].i = s[L].n
        /\ x.i > 1 => s[L] = [x EXCEPT !.i = @ - 1]
    BY <1>2, <2>1, <2>3 DEF Complete
  <2>5. x.i \in Nat /\ x.i # 1
    <3>1. s[L].i # s[L].n
      BY <1>1, <1>5, <2>1, <2>2 DEF Cell
    <3> QED
      BY <2>4, <3>1 DEF Cell
  <2>6. s[L] = [x EXCEPT !.i = @ - 1]
    BY <2>4, <2>5
  <2>7. s[L].t = x.t /\ s[L].n = x.n /\ s[L].i = x.i - 1
    BY <2>6 DEF Cell
  <2> QED
    BY <1>1, <1>5, <2>1, <2>2, <2>3, <2>5, <2>7
<1> QED
  BY <1>1, <1>3, <1>4, <1>5

(* Behind a whole response comes the first cell of another. *)
LEMMA EdgeHead ==
  ASSUME NEW s \in Seq(Cell), Complete(s), Numbered(s), NEW e \in Nat, e < Len(s),
         e = 0 \/ s[e].i = s[e].n
  PROVE  s[e + 1].i = 1
<1>1. /\ DOMAIN s = 1..Len(s) /\ Len(s) \in Nat /\ e + 1 \in 1..Len(s) /\ (e + 1) - 1 = e
      /\ e # 0 => e \in 1..Len(s)
  BY LenProperties
<1>2. s[e + 1] \in Cell /\ s[e + 1].i \in Nat /\ s[e + 1].i >= 1
  <2>1. s[e + 1] \in Cell
    BY <1>1, ElementOfSeq
  <2>2. s[e + 1].i \in 1..s[e + 1].n
    BY <1>1 DEF Numbered
  <2> QED
    BY <2>1, <2>2 DEF Cell
<1>3. ASSUME s[e + 1].i > 1 PROVE FALSE
  <2>1. e # 0 /\ s[e] = [s[e + 1] EXCEPT !.i = @ - 1]
    BY <1>1, <1>3 DEF Complete
  <2>2. s[e].i = s[e + 1].i - 1 /\ s[e].n = s[e + 1].n
    BY <1>2, <2>1 DEF Cell
  <2>3. s[e + 1].i <= s[e + 1].n /\ s[e].i = s[e].n /\ s[e + 1].n \in Nat
    BY <1>1, <1>2, <2>1 DEF Numbered, Cell
  <2> QED
    BY <1>2, <2>2, <2>3
<1> QED
  BY <1>2, <1>3
-----------------------------------------------------------------------------
(* A step that brings no new cell into the stream, and changes the size of *)
(* no response that is in it, keeps the count.                             *)
LEMMA CellsKept ==
  ASSUME TypeOK, StreamInv, CellsInv,
         \A k \in DOMAIN Stream' : \E m \in DOMAIN Stream : Stream'[k] = Stream[m],
         \A t \in Requests : tpc[t] \in {"sending", "done"} => size'[t] = size[t]
  PROVE  CellsInv'
<1> SUFFICES ASSUME NEW k \in DOMAIN Stream'
             PROVE  /\ Stream'[k].n = size'[Stream'[k].t]
                    /\ Stream'[k].i \in 1..Stream'[k].n
  BY DEF CellsInv
<1>1. PICK m \in DOMAIN Stream : Stream'[k] = Stream[m]
  OBVIOUS
<1>2. Stream[m] \in Cell
  BY StreamType, LenProperties, ElementOfSeq
<1>3. Stream[m].t \in Requests /\ tpc[Stream[m].t] \in {"sending", "done"}
  BY <1>2 DEF StreamInv, Cell
<1> QED
  BY <1>1, <1>3 DEF CellsInv

LEMMA CellsStep ==
  ASSUME IInv, CellsInv, [Next]_vars
  PROVE  CellsInv'
<1> USE RequestsArePositive
<1>a. TypeOK /\ StreamInv /\ LockInv
  BY DEF IInv
<1>b. ASSUME Stream' = Stream,
             \A t \in Requests : tpc[t] \in {"sending", "done"} => size'[t] = size[t]
      PROVE  CellsInv'
  BY <1>a, <1>b, CellsKept
<1>1. CASE UNCHANGED <<size, sendVars>>
  <2>1. Stream' = Stream
    BY <1>1 DEF Stream, Held, sendVars
  <2> QED
    BY <1>1, <1>b, <2>1
<1>2. ASSUME NEW t \in Requests, Handle(t) PROVE CellsInv'
  <2>1. Stream' = Stream /\ tpc[t] = "handling"
    BY <1>2 DEF Handle, Stream, Held, sendVars
  <2>2. \A u \in Requests \ {t} : size'[u] = size[u]
    BY <1>a, <1>2, HandleEffect DEF TypeOK
  <2> QED
    BY <1>b, <2>1, <2>2
<1>3. ASSUME NEW t \in Requests, Acquire(t) PROVE CellsInv'
  <2>1. Stream' = Stream \o Response(t) /\ size' = size /\ size[t] \in Nat
    BY <1>a, <1>3, AcquireStream DEF Acquire, replyVars, TypeOK
  <2>2. /\ Response(t) \in Seq(Cell) /\ Len(Response(t)) = size[t]
        /\ \A i \in 1..size[t] : Response(t)[i] = [t |-> t, i |-> i, n |-> size[t]]
    BY <2>1, ResponseType
  <2>3. /\ DOMAIN Stream' = 1..Len(Stream) + size[t] /\ DOMAIN Stream = 1..Len(Stream)
        /\ \A j \in 1..Len(Stream) : Stream'[j] = Stream[j]
        /\ \A j \in 1..Len(Stream) + size[t] : j > Len(Stream) =>
             /\ j - Len(Stream) \in 1..size[t]
             /\ Stream'[j] = Response(t)[j - Len(Stream)]
        /\ Len(Stream) \in Nat
    BY <1>a, <2>1, <2>2, StreamType, ConcatTwo, LenProperties
  <2>4. ASSUME NEW k \in DOMAIN Stream'
        PROVE  /\ Stream'[k].n = size[Stream'[k].t]
               /\ Stream'[k].i \in 1..Stream'[k].n
    <3>1. CASE k <= Len(Stream)
      BY <2>3, <3>1 DEF CellsInv
    <3>2. CASE k > Len(Stream)
      <4>1. /\ k - Len(Stream) \in 1..size[t]
            /\ Stream'[k] = [t |-> t, i |-> k - Len(Stream), n |-> size[t]]
        BY <2>2, <2>3, <3>2
      <4> QED
        BY <4>1
    <3> QED
      BY <2>3, <3>1, <3>2
  <2> QED
    BY <2>1, <2>4 DEF CellsInv
<1>4. ASSUME NEW t \in Requests, TakeChunk(t) \/ SendCell(t) PROVE CellsInv'
  <2>1. Stream' = Stream
    BY <1>4, TakeChunkStream, SendCellStream
  <2> QED
    BY <1>4, <1>b, <2>1 DEF TakeChunk, SendCell, replyVars
<1>5. ASSUME NEW t \in Requests, SendFails(t) \/ Release(t) PROVE CellsInv'
  <2>1. lock' = 0 /\ UNCHANGED <<size, wbuf, wire>>
    BY <1>5 DEF SendFails, Release, replyVars
  <2>2. Held' = <<>> /\ wire \o <<>> = wire
    BY <1>a, <2>1, StreamType, ConcatEmptySeq DEF Held
  <2>3. Stream' = wire \o wbuf
    BY <2>1, <2>2 DEF Stream
  <2>4. \A k \in DOMAIN Stream' : \E m \in DOMAIN Stream : Stream'[k] = Stream[m]
    <3>1. wire \in Seq(Cell) /\ Held \in Seq(Cell) /\ wbuf \in Seq(Cell)
      BY <1>a, StreamType
    <3>2. Contiguous((wire \o Held) \o wbuf)
      BY <1>a DEF StreamInv, Stream
    <3>3. \A k \in DOMAIN (wire \o wbuf) : \E m \in DOMAIN ((wire \o Held) \o wbuf) :
            (wire \o wbuf)[k] = ((wire \o Held) \o wbuf)[m]
      BY <3>1, <3>2, ContiguousWithoutMiddle
    <3> QED
      BY <2>3, <3>3 DEF Stream
  <2> QED
    BY <1>a, <2>1, <2>4, CellsKept
<1> QED
  BY <1>1, <1>2, <1>3, <1>4, <1>5
  DEF Next, Reader, Sender, SendRequest, ClientLeaves, ReadRequest, ReadNone, ReadRaises, Join,
      JoinEnds, Close, Label, Encode, Finished, vars, replyVars

(* The wire only grows, by a cell at a time. *)
LEMMA WireStep ==
  ASSUME IInv, [Next]_vars
  PROVE  wire' = wire \/ \E x \in Cell : wire' = Append(wire, x)
<1>1. ASSUME NEW t \in Requests, SendCell(t)
      PROVE  \E x \in Cell : wire' = Append(wire, x)
  BY <1>1, HeadTailProperties DEF SendCell, IInv, TypeOK
<1> QED
  BY <1>1
  DEF Next, Reader, Sender, SendRequest, ClientLeaves, ReadRequest, ReadNone, ReadRaises, Join,
      JoinEnds, Close, Handle, Label, Encode, Acquire, TakeChunk, SendFails, Release, Finished,
      vars, sendVars

(* What the client relies on: a stream of responses, each in one piece, of *)
(* as many cells as announced, and with the Request-ID of its own request. *)
ServerInv ==
  /\ IInv /\ SizeInv /\ CompleteInv /\ LabelInv
  /\ CellsInv
  /\ Pages(wire)

LEMMA WireNumbered ==
  ASSUME TypeOK, CellsInv
  PROVE  /\ Numbered(wire)
         /\ \A k \in DOMAIN wire : wire[k].n = size[wire[k].t]
  BY WireInStream DEF CellsInv, Numbered

LEMMA ServerInit == Init => ServerInv
<1> SUFFICES ASSUME Init PROVE ServerInv
  OBVIOUS
<1>1. IInv
  BY InitInv
<1>2. Stream = <<>> /\ wire = <<>>
  BY EmptySeq, ConcatEmptySeq DEF Init, Stream, Held
<1>3. SizeInv
  BY DEF Init, SizeInv
<1>4. CompleteInv
  BY <1>2, EmptySeq DEF CompleteInv, Complete, AtBoundary
<1>5. LabelInv
  BY RequestsArePositive DEF Init, LabelInv, Labelled, Requests
<1>6. CellsInv /\ Pages(wire)
  BY <1>2, EmptySeq DEF CellsInv, Pages
<1> QED
  BY <1>1, <1>3, <1>4, <1>5, <1>6 DEF ServerInv

LEMMA ServerStep ==
  ASSUME SendMayTimeout = FALSE, Cached = {}, ServerInv, [Next]_vars
  PROVE  ServerInv'
<1>1. /\ IInv' /\ SizeInv' /\ CompleteInv' /\ LabelInv' /\ CellsInv'
      /\ IInv /\ Pages(wire)
  BY StepInv, SizeStep, CompleteStep, LabelStep, CellsStep DEF ServerInv
<1>2. TypeOK /\ TypeOK' /\ Complete(wire)'
  BY <1>1 DEF IInv, CompleteInv
<1>3. Pages(wire)'
  <2>1. CASE wire' = wire
    BY <1>1, <2>1 DEF Pages
  <2>2. ASSUME NEW x \in Cell, wire' = Append(wire, x)
        PROVE  Pages(wire)'
    <3>1. wire \in Seq(Cell)
      BY <1>2 DEF TypeOK
    <3>2. Complete(Append(wire, x))
      BY <1>2, <2>2 DEF Complete
    <3>3. x.i > 0
      <4>1. /\ Len(wire) + 1 \in DOMAIN wire' /\ wire'[Len(wire) + 1] = x
        BY <1>2, <2>2, WireAppend
      <4>2. TypeOK' /\ CellsInv' => Numbered(wire)'
        BY WireNumbered, PTL
      <4>3. x.i \in 1..x.n
        BY <1>1, <1>2, <4>1, <4>2 DEF Numbered
      <4> QED
        BY <4>3 DEF Cell
    <3>4. Pages(Append(wire, x))
      BY <1>1, <3>1, <3>2, <3>3, PagesAppend
    <3> QED
      BY <2>2, <3>4 DEF Pages
  <2> QED
    BY <1>1, <2>1, <2>2, WireStep
<1> QED
  BY <1>1, <1>3 DEF ServerInv
-----------------------------------------------------------------------------
(* The end of a whole response. *)
Edge == ate = 0 \/ wire[ate].i = wire[ate].n

(* Where the client stands in the stream. *)
PlaceInv ==
  /\ got \in 0..Len(wire)
  /\ ate \in 0..got
  /\ at \in {"sending", "head"} => Edge
  /\ at = "body" => ate > 0 /\ wire[ate].i = 1

(* What recv_one() returns. *)
Answers == [head : Cell, body : Seq(Cell)]

(* An answer is all of the response that its head is the head of, and has  *)
(* been taken out of the stream before the place where the client stands.  *)
Filed(a) ==
  /\ a.head.i = 1
  /\ Len(a.body) = a.head.n - 1
  /\ \A d \in 1..(a.head.n - 1) :
       a.body[d] = [t |-> a.head.t, i |-> d + 1, n |-> a.head.n]
  /\ \E p \in 1..ate : wire[p] = a.head /\ (at = "body" => p < ate)

FiledInv ==
  /\ answers \in Seq(Answers)
  /\ \A k \in DOMAIN answers : Filed(answers[k])
  /\ \A j, k \in DOMAIN answers :
       answers[j].head.t = answers[k].head.t => j = k

(* More of the stream behind what the client has read, and no more of it   *)
(* read, changes nothing.                                                  *)
LEMMA ClientKept ==
  ASSUME TypeOK, PlaceInv, FiledInv,
         wire' = wire \/ \E x \in Cell : wire' = Append(wire, x),
         UNCHANGED <<ate, answers>>, got' \in got..Len(wire'),
         at' = at \/ at' = "ended" \/ (at = "sending" /\ at' = "head")
  PROVE  PlaceInv' /\ FiledInv'
<1>1. /\ Len(wire) \in Nat /\ DOMAIN wire = 1..Len(wire)
      /\ Len(wire') \in Nat /\ Len(wire') >= Len(wire)
      /\ \A k \in 1..Len(wire) : wire'[k] = wire[k]
  <2>1. wire \in Seq(Cell)
    BY DEF TypeOK
  <2>2. CASE wire' = wire
    BY <2>1, <2>2, LenProperties
  <2>3. ASSUME NEW x \in Cell, wire' = Append(wire, x)
        PROVE  /\ Len(wire') = Len(wire) + 1
               /\ \A k \in 1..Len(wire) : wire'[k] = wire[k]
    BY <2>1, <2>3, AppendProperties
  <2> QED
    BY <2>1, <2>2, <2>3, LenProperties
<1>2. /\ got \in Nat /\ ate \in Nat /\ ate <= got /\ got <= Len(wire) /\ ate <= got'
      /\ got' <= Len(wire') /\ got' \in Nat /\ (ate > 0 => wire'[ate] = wire[ate])
  BY <1>1 DEF PlaceInv
<1>3. Edge => Edge'
  BY <1>2 DEF Edge
<1>4. PlaceInv'
  BY <1>2, <1>3 DEF PlaceInv
<1>5. ASSUME NEW k \in DOMAIN answers PROVE Filed(answers[k])'
  <2>1. Filed(answers[k])
    BY DEF FiledInv
  <2>2. PICK p \in 1..ate : wire[p] = answers[k].head /\ (at = "body" => p < ate)
    BY <2>1 DEF Filed
  <2>3. wire'[p] = wire[p] /\ (at' = "body" => at = "body")
    BY <1>1, <1>2
  <2> QED
    BY <2>1, <2>2, <2>3 DEF Filed
<1>6. FiledInv'
  BY <1>5 DEF FiledInv
<1> QED
  BY <1>4, <1>6

(* recv_one() finds the head of the next response first, for it stands at  *)
(* the end of the last.                                                    *)
LEMMA HeadFound ==
  ASSUME ServerInv, PlaceInv, FiledInv, Incoming!ParseHead, UNCHANGED vars
  PROVE  PlaceInv' /\ FiledInv'
<1>1. TypeOK /\ Complete(wire) /\ Numbered(wire) /\ wire \in Seq(Cell) /\ Len(wire) \in Nat
  BY WireNumbered, LenProperties DEF ServerInv, IInv, TypeOK, CompleteInv
<1>2. PICK k \in Incoming!Heads :
        /\ \A j \in Incoming!Heads : k <= j
        /\ ate' = k /\ at = "head"
        /\ at' \in IF k = ate + 1 THEN {"body"} ELSE {"body", "ended"}
        /\ UNCHANGED <<got, answers>>
  BY DEF Incoming!ParseHead
<1>3. k \in (ate + 1)..got /\ ate \in Nat /\ got \in Nat /\ got <= Len(wire) /\ Edge
  BY <1>1, <1>2 DEF Incoming!Heads, PlaceInv
<1>4. wire[ate + 1].i = 1
  BY <1>1, <1>3, EdgeHead DEF Edge
<1>5. k = ate + 1
  <2>1. ate + 1 \in Incoming!Heads
    BY <1>3, <1>4 DEF Incoming!Heads
  <2> QED
    BY <1>2, <1>3, <2>1
<1>6. ate' = ate + 1 /\ at' = "body" /\ wire' = wire /\ UNCHANGED <<got, answers>>
  BY <1>2, <1>5 DEF vars, sendVars
<1>7. PlaceInv'
  BY <1>3, <1>4, <1>5, <1>6 DEF PlaceInv
<1>8. ASSUME NEW j \in DOMAIN answers PROVE Filed(answers[j])'
  <2>1. Filed(answers[j])
    BY DEF FiledInv
  <2>2. PICK p \in 1..ate : wire[p] = answers[j].head
    BY <2>1 DEF Filed
  <2>3. p \in 1..ate' /\ p < ate'
    BY <1>3, <1>6
  <2> QED
    BY <1>6, <2>1, <2>2, <2>3 DEF Filed
<1> QED
  BY <1>6, <1>7, <1>8 DEF FiledInv

(* Content-Length takes it to the end of the response, and no response has *)
(* been filed before.                                                      *)
LEMMA BodyTaken ==
  ASSUME ServerInv, PlaceInv, FiledInv, Incoming!TakeBody, UNCHANGED vars
  PROVE  PlaceInv' /\ FiledInv'
<1> DEFINE c == wire[ate]
           b == SubSeq(wire, ate + 1, ate + (c.n - 1))
           a == [head |-> c, body |-> b]
<1>1. /\ TypeOK /\ wire \in Seq(Cell) /\ Len(wire) \in Nat /\ DOMAIN wire = 1..Len(wire)
      /\ Pages(wire) /\ Numbered(wire) /\ Contiguous(wire)
  <2>1. TypeOK /\ NoInterleave /\ CellsInv /\ Pages(wire)
    BY InvImpliesNoInterleave DEF ServerInv, IInv
  <2>2. Numbered(wire)
    BY <2>1, WireNumbered
  <2> QED
    BY <2>1, <2>2, LenProperties DEF TypeOK, NoInterleave
<1>2. /\ at = "body" /\ got - ate >= c.n - 1 /\ wire' = wire /\ got' = got
      /\ answers' = Append(answers, a) /\ ate' = ate + (c.n - 1)
      /\ at' \in {"done", "head"}
  BY DEF Incoming!TakeBody, Incoming!ContentLength, vars, sendVars
<1>3. /\ got \in Nat /\ ate \in Nat /\ ate >= 1 /\ ate \in 1..Len(wire) /\ ate <= got
      /\ got <= Len(wire) /\ c.i = 1
  BY <1>1, <1>2 DEF PlaceInv
<1>4. c \in Cell /\ c.t \in Requests /\ c.n \in Nat /\ c.n >= 1
  <2>1. c \in Cell
    BY <1>1, <1>3, ElementOfSeq
  <2>2. c.i \in 1..c.n
    BY <1>1, <1>3 DEF Numbered
  <2> QED
    BY <1>3, <2>1, <2>2 DEF Cell
<1> HIDE DEF c, b, a
<1>5. /\ ate' \in 1..got /\ ate' >= ate /\ ate' \in 1..Len(wire)
  BY <1>1, <1>2, <1>3, <1>4
<1>6. ASSUME NEW d \in 0..(c.n - 1)
      PROVE  /\ ate + d \in 1..Len(wire)
             /\ wire[ate + d] = [t |-> c.t, i |-> d + 1, n |-> c.n]
  <2>1. /\ ate + d \in 1..Len(wire) /\ ate <= ate + d /\ ate + d <= ate + c.n - 1
        /\ (ate + d) - ate + 1 = d + 1
    BY <1>1, <1>2, <1>3, <1>4
  <2>2. wire[ate + d].t = c.t /\ wire[ate + d].n = c.n /\ wire[ate + d].i = d + 1
    BY <1>1, <1>3, <2>1 DEF Pages, c
  <2>3. wire[ate + d] \in Cell
    BY <1>1, <2>1, ElementOfSeq
  <2> QED
    BY <2>1, <2>2, <2>3 DEF Cell
<1>7. PlaceInv'
  <2>1. wire[ate'].i = wire[ate'].n
    <3>1. c.n - 1 \in 0..(c.n - 1) /\ (c.n - 1) + 1 = c.n
      BY <1>4
    <3>2. wire[ate + (c.n - 1)] = [t |-> c.t, i |-> c.n, n |-> c.n]
      BY <1>6, <3>1
    <3> QED
      BY <1>2, <3>2
  <2>2. Edge'
    BY <1>2, <2>1 DEF Edge
  <2> QED
    BY <1>2, <1>3, <1>5, <2>2 DEF PlaceInv
<1>8. /\ b \in Seq(Cell) /\ Len(b) = c.n - 1
      /\ \A d \in 1..(c.n - 1) : b[d] = [t |-> c.t, i |-> d + 1, n |-> c.n]
  <2>1. \A m \in (ate + 1)..(ate + (c.n - 1)) : wire[m] \in Cell
    <3>1. \A m \in (ate + 1)..(ate + (c.n - 1)) : m \in 1..Len(wire)
      BY <1>1, <1>2, <1>3, <1>4
    <3> QED
      BY <1>1, <3>1, ElementOfSeq
  <2>2. /\ b \in Seq(Cell)
        /\ Len(b) = IF ate + 1 <= ate + (c.n - 1) THEN (ate + (c.n - 1)) - (ate + 1) + 1 ELSE 0
        /\ \A d \in 1..((ate + (c.n - 1)) - (ate + 1) + 1) : b[d] = wire[(ate + 1) + d - 1]
    <3>1. ate + 1 \in Int /\ ate + (c.n - 1) \in Int
      BY <1>3, <1>4
    <3> QED
      BY <2>1, <3>1, SubSeqProperties DEF b
  <2>3. Len(b) = c.n - 1
    BY <1>3, <1>4, <2>2
  <2>4. ASSUME NEW d \in 1..(c.n - 1) PROVE b[d] = [t |-> c.t, i |-> d + 1, n |-> c.n]
    <3>1. /\ d \in 1..((ate + (c.n - 1)) - (ate + 1) + 1) /\ (ate + 1) + d - 1 = ate + d
          /\ d \in 0..(c.n - 1)
      BY <1>3, <1>4
    <3> QED
      BY <1>6, <2>2, <3>1
  <2> QED
    BY <2>2, <2>3, <2>4
<1>9. a \in Answers /\ a.head = c /\ a.body = b
  BY <1>4, <1>8 DEF Answers, a
<1>10. /\ Len(answers) \in Nat /\ DOMAIN answers = 1..Len(answers)
       /\ answers' \in Seq(Answers) /\ DOMAIN answers' = 1..(Len(answers) + 1)
       /\ \A k \in 1..Len(answers) : answers'[k] = answers[k]
       /\ answers'[Len(answers) + 1] = a
  BY <1>2, <1>9, AppendProperties, LenProperties DEF FiledInv
<1>11. ASSUME NEW k \in 1..Len(answers)
       PROVE  (Filed(answers[k]))' /\ answers[k].head.t # c.t
  <2>1. Filed(answers[k])
    BY <1>10 DEF FiledInv
  <2>2. PICK p \in 1..ate : wire[p] = answers[k].head /\ p < ate
    BY <1>2, <2>1 DEF Filed
  <2>3. answers[k].head.t # c.t
    <3> SUFFICES ASSUME wire[p].t = wire[ate].t PROVE FALSE
      BY <2>2 DEF c
    <3>1. p \in DOMAIN wire /\ ate \in DOMAIN wire /\ p < ate
      BY <1>1, <1>3, <2>2
    <3>2. wire[p].i < wire[ate].i
      BY <1>1, <3>1 DEF Contiguous
    <3> QED
      BY <1>3, <2>1, <2>2, <3>2 DEF Filed, c
  <2>4. p \in 1..ate' /\ at' # "body" /\ wire'[p] = answers[k].head /\ answers'[k] = answers[k]
    BY <1>2, <1>3, <1>5, <1>10, <2>2
  <2>5. (Filed(answers[k]))'
    BY <2>1, <2>4 DEF Filed
  <2> QED
    BY <2>3, <2>5
<1>12. (Filed(answers[Len(answers)]))'
  <2>1. answers'[Len(answers')] = a
    BY <1>2, <1>9, <1>10, AppendProperties DEF FiledInv
  <2>2. ate \in 1..ate' /\ wire'[ate] = a.head /\ at' # "body"
    BY <1>2, <1>3, <1>5, <1>9 DEF c
  <2> QED
    BY <1>3, <1>8, <1>9, <2>1, <2>2 DEF Filed
<1>13. FiledInv'
  <2>1. Len(answers') = Len(answers) + 1
    BY <1>2, <1>9, AppendProperties DEF FiledInv
  <2>2. ASSUME NEW k \in DOMAIN answers' PROVE (Filed(answers[k]))'
    <3>1. k \in 1..Len(answers) \/ k = Len(answers')
      BY <1>10, <2>1
    <3> QED
      BY <1>11, <1>12, <3>1
  <2>3. ASSUME NEW j \in DOMAIN answers', NEW k \in DOMAIN answers',
               answers'[j].head.t = answers'[k].head.t
        PROVE  j = k
    <3>1. /\ j \in 1..Len(answers) \/ j = Len(answers) + 1
          /\ k \in 1..Len(answers) \/ k = Len(answers) + 1
      BY <1>10
    <3>2. CASE j \in 1..Len(answers) /\ k \in 1..Len(answers)
      BY <1>10, <2>3, <3>2 DEF FiledInv
    <3> QED
      BY <1>9, <1>10, <1>11, <2>3, <3>1, <3>2
  <2> QED
    BY <1>10, <2>2, <2>3 DEF FiledInv
<1> QED
  BY <1>7, <1>13
-----------------------------------------------------------------------------
LEMMA ClientStep ==
  ASSUME SendMayTimeout = FALSE, Cached = {},
         ServerInv, PlaceInv, FiledInv, [ClientNext]_allVars
  PROVE  ServerInv' /\ PlaceInv' /\ FiledInv'
<1>1. TypeOK /\ IInv /\ Len(wire) \in Nat
  BY LenProperties DEF ServerInv, IInv, TypeOK
<1>2. [Next]_vars
  BY DEF ClientNext, allVars, Client, Send, SendRaises, Killed, HangUp, Server, Next, Finished
<1>3. ServerInv'
  BY <1>2, ServerStep
<1>4. wire' = wire \/ \E x \in Cell : wire' = Append(wire, x)
  BY <1>1, <1>2, WireStep
<1>5. Len(wire') \in Nat /\ Len(wire') >= Len(wire)
  BY <1>1, <1>4, AppendProperties DEF TypeOK
<1>6. ASSUME UNCHANGED <<got, ate, answers>>,
             at' = at \/ at' = "ended" \/ (at = "sending" /\ at' = "head")
      PROVE  PlaceInv' /\ FiledInv'
  <2>1. got' \in got..Len(wire')
    BY <1>1, <1>5, <1>6 DEF PlaceInv
  <2> QED
    BY <1>1, <1>4, <1>6, <2>1, ClientKept
<1>7. CASE Send \/ SendRaises \/ Killed \/ UNCHANGED clientState
  BY <1>3, <1>6, <1>7 DEF Send, SendRaises, Killed, clientState
<1>8. CASE Incoming!Receive /\ UNCHANGED vars
  <2>1. PICK n \in 1..RecvSize : got' = got + n
    BY <1>8 DEF Incoming!Receive
  <2>2. got' <= Len(wire) /\ UNCHANGED <<at, ate, answers>> /\ wire' = wire
    BY <1>8 DEF Incoming!Receive, vars, sendVars
  <2>3. got' \in got..Len(wire')
    BY <1>1, <2>1, <2>2, PPAssumption DEF PlaceInv
  <2> QED
    BY <1>1, <1>3, <1>4, <2>2, <2>3, ClientKept
<1>9. CASE Incoming!ParseHead /\ UNCHANGED vars
  BY <1>3, <1>9, HeadFound
<1>10. CASE Incoming!TakeBody /\ UNCHANGED vars
  BY <1>3, <1>10, BodyTaken
<1>11. CASE Incoming!NothingComes
  BY <1>3, <1>6, <1>11 DEF Incoming!NothingComes
<1> QED
  BY <1>3, <1>7, <1>8, <1>9, <1>10, <1>11
  DEF ClientNext, Client, Incoming!RecvOne, HangUp, allVars

LEMMA FiledIsMatched ==
  ASSUME ServerInv, PlaceInv, FiledInv
  PROVE  MatchedById
<1>1. ASSUME NEW k \in DOMAIN answers
      PROVE  /\ answers[k].head.t \in Requests
             /\ IdOf(answers[k]) = Id[answers[k].head.t]
             /\ <<answers[k].head>> \o answers[k].body = Response(answers[k].head.t)
  <2> DEFINE c == answers[k].head
             b == answers[k].body
  <2>1. /\ c.i = 1 /\ Len(b) = c.n - 1 /\ b \in Seq(Cell) /\ c \in Cell
        /\ \A d \in 1..(c.n - 1) : b[d] = [t |-> c.t, i |-> d + 1, n |-> c.n]
        /\ \E p \in 1..ate : wire[p] = c
    <3>1. answers[k] \in Answers
      BY ElementOfSeq, LenProperties DEF FiledInv
    <3> QED
      BY <3>1 DEF FiledInv, Filed, Answers
  <2> HIDE DEF c, b
  <2>2. PICK p \in DOMAIN wire : wire[p] = c
    <3>1. TypeOK
      BY DEF ServerInv, IInv
    <3>2. DOMAIN wire = 1..Len(wire) /\ Len(wire) \in Nat
      BY <3>1, LenProperties DEF TypeOK
    <3>3. \A p \in 1..ate : p \in 1..Len(wire)
      BY <3>2 DEF PlaceInv
    <3> QED
      BY <2>1, <3>2, <3>3
  <2>3. /\ c.t \in Requests /\ c.n = size[c.t] /\ size[c.t] \in Nat /\ size[c.t] >= 1
        /\ tpc[c.t] \in {"sending", "done"}
    <3>1. TypeOK /\ CellsInv /\ StreamInv
      BY DEF ServerInv, IInv
    <3>2. p \in DOMAIN Stream /\ Stream[p] = c /\ c.t \in Requests
      BY <2>2, <3>1, WireInStream
    <3>3. c.n = size[c.t] /\ c.i \in 1..c.n /\ size[c.t] \in Nat
      BY <3>1, <3>2 DEF CellsInv, TypeOK
    <3>4. tpc[c.t] \in {"sending", "done"}
      BY <3>1, <3>2 DEF StreamInv
    <3> QED
      BY <2>1, <3>2, <3>3, <3>4
  <2>4. echo[c.t] = Id[c.t]
    BY <2>3 DEF ServerInv, LabelInv, Labelled
  <2>5. <<c>> \o b = Response(c.t)
    <3>1. /\ Response(c.t) \in Seq(Cell) /\ Len(Response(c.t)) = size[c.t]
          /\ \A i \in 1..size[c.t] : Response(c.t)[i] = [t |-> c.t, i |-> i, n |-> size[c.t]]
      BY <2>3, ResponseType
    <3>2. <<c>> \in Seq(Cell) /\ Len(<<c>>) = 1 /\ <<c>>[1] = c
      BY <2>1
    <3>3. /\ <<c>> \o b \in Seq(Cell) /\ Len(<<c>> \o b) = 1 + Len(b)
          /\ \A i \in 1..1 + Len(b) : (<<c>> \o b)[i] = IF i <= 1 THEN <<c>>[i] ELSE b[i - 1]
      BY <2>1, <3>2, ConcatProperties
    <3>4. ASSUME NEW i \in 1..size[c.t] PROVE (<<c>> \o b)[i] = Response(c.t)[i]
      <4>1. Response(c.t)[i] = [t |-> c.t, i |-> i, n |-> c.n]
        BY <2>3, <3>1
      <4>2. i \in 1..1 + Len(b)
        BY <2>1, <2>3
      <4>3. CASE i = 1
        <5>1. (<<c>> \o b)[i] = c
          BY <3>2, <3>3, <4>2, <4>3
        <5>2. c = [t |-> c.t, i |-> 1, n |-> c.n]
          BY <2>1 DEF Cell
        <5> QED
          BY <4>1, <4>3, <5>1, <5>2
      <4>4. CASE i > 1
        <5>1. i - 1 \in 1..(c.n - 1) /\ (i - 1) + 1 = i /\ ~(i <= 1)
          BY <2>3, <4>4
        <5>2. b[i - 1] = [t |-> c.t, i |-> i, n |-> c.n]
          BY <2>1, <5>1
        <5> QED
          BY <3>3, <4>1, <4>2, <5>1, <5>2
      <4>5. i = 1 \/ i > 1
        BY <2>3
      <4> QED
        BY <4>3, <4>4, <4>5
    <3>5. Len(<<c>> \o b) = size[c.t] /\ Len(<<c>> \o b) = Len(Response(c.t))
      BY <2>1, <2>3, <3>1, <3>3
    <3> HIDE DEF Response
    <3> QED
      BY <3>1, <3>3, <3>4, <3>5, SeqEqual
  <2> QED
    BY <2>3, <2>4, <2>5 DEF c, b, IdOf
<1>2. ASSUME NEW j \in DOMAIN answers, NEW k \in DOMAIN answers,
             IdOf(answers[j]) = IdOf(answers[k])
      PROVE  j = k
  <2>1. Id[answers[j].head.t] = Id[answers[k].head.t]
    BY <1>1, <1>2
  <2>2. answers[j].head.t = answers[k].head.t
    BY <1>1, <2>1, OwnIds
  <2> QED
    BY <2>2 DEF FiledInv
<1> QED
  BY <1>1, <1>2 DEF MatchedById

(* "The client identifies each response by the echoed Request-ID": as long *)
(* as no sendall() of the server times out and no two handlers return the  *)
(* same response object, what a PipeliningPlusClient files under an id is  *)
(* the whole response to the request it sent with that id, and nothing is  *)
(* filed twice, in whatever order the threads finish, however the stream   *)
(* is cut into recv()s, and whichever side ends the connection when.       *)
THEOREM AnswersMatched ==
  ASSUME SendMayTimeout = FALSE, Cached = {}
  PROVE  ClientSpec => []MatchedById
<1>1. ClientInit => ServerInv /\ PlaceInv /\ FiledInv
  <2> SUFFICES ASSUME ClientInit PROVE ServerInv /\ PlaceInv /\ FiledInv
    OBVIOUS
  <2>1. ServerInv
    BY ServerInit DEF ClientInit
  <2>2. PlaceInv
    BY EmptySeq DEF ClientInit, Init, PlaceInv, Edge
  <2>3. FiledInv
    BY EmptySeq DEF ClientInit, FiledInv
  <2> QED
    BY <2>1, <2>2, <2>3
<1>2. ServerInv /\ PlaceInv /\ FiledInv /\ [ClientNext]_allVars
      => ServerInv' /\ PlaceInv' /\ FiledInv'
  BY ClientStep
<1>3. ServerInv /\ PlaceInv /\ FiledInv => MatchedById
  BY FiledIsMatched
<1> QED
  BY <1>1, <1>2, <1>3, PTL DEF ClientSpec
=============================================================================
