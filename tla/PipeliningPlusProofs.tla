------------------------ MODULE PipeliningPlusProofs ------------------------
(***************************************************************************)
(* Proofs about PipeliningPlus, for every number of requests, every kind   *)
(* of request and response, every chunk size and every choice of timeouts. *)
(*                                                                         *)
(* The argument for NoInterleave follows the bytes.  What the socket has   *)
(* accepted, what the lock holder still has to send of its chunk, and what *)
(* waits in the write buffer form one stream; every action either leaves   *)
(* the stream alone, drops a stretch of it, or (Acquire) appends the whole *)
(* response of a thread that has no cell in it yet.                        *)
(*                                                                         *)
(* The second half is what the server answers: it is a Responder; a        *)
(* response carries the Request-ID of its own request; and as long as no   *)
(* send times out, the stream consists of complete responses, and a close  *)
(* leaves no accepted request without one.                                 *)
(***************************************************************************)
EXTENDS PipeliningPlus, SequenceTheorems, TLAPS

(* What the mutants of PipeliningPlus change is expanded everywhere. *)
USE DEF Listed, MayStart, JoinReturns, BoundRequest, LockFree, HeldBy, LockReleased

Held == IF lock = 0 THEN <<>> ELSE chunk[lock]
Stream == (wire \o Held) \o wbuf

(* Thread t is started with request t, and only started threads run. *)
ThreadsInv ==
  /\ Len(pending) <= arrived
  /\ joined <= Len(pending)
  /\ \A t \in DOMAIN pending : pending[t] = t
  /\ \A t \in Requests : t > Len(pending) => tpc[t] = "none"

(* The lock is held by the one thread that is in its critical section, and *)
(* only that thread has a chunk.                                           *)
LockInv ==
  /\ lock # 0 => tpc[lock] = "sending"
  /\ \A t \in Requests : tpc[t] = "sending" => lock = t
  /\ \A t \in Requests : chunk[t] # <<>> => lock = t

StreamInv ==
  /\ Contiguous(Stream)
  /\ \A k \in DOMAIN Stream : tpc[Stream[k].t] \in {"sending", "done"}

IInv == TypeOK /\ ThreadsInv /\ LockInv /\ StreamInv

-----------------------------------------------------------------------------
(* The encoded response of a thread is a sequence of cells. *)
LEMMA ResponseType ==
  ASSUME NEW t \in Requests, size[t] \in Nat
  PROVE  /\ Response(t) \in Seq(Cell)
         /\ Len(Response(t)) = size[t]
         /\ \A i \in 1..size[t] :
              Response(t)[i] = [t |-> t, i |-> i, n |-> size[t]]
<1>1. Response(t) \in [1..size[t] -> Cell]
  BY DEF Response, Cell
<1>2. Response(t) \in Seq(Cell)
  BY <1>1, SeqDef
<1> QED
  BY <1>1, <1>2, LenProperties DEF Response

(* Requests are positive, so a lock that is not 0 names its holder. *)
LEMMA RequestsArePositive ==
  /\ N \in Nat
  /\ \A t \in Requests : t \in Nat /\ t > 0 /\ t <= N
  /\ \A l \in 0..N : l # 0 => l \in Requests
  BY PPAssumption DEF Requests

(* The response of a thread is its handler's or a fresh page. *)
LEMMA HandleEffect ==
  ASSUME NEW t, Handle(t)
  PROVE  /\ \/ size' = [size EXCEPT ![t] = Body[pending[t]]]
            \/ size' = [size EXCEPT ![t] = 1]
         /\ \/ object' = [object EXCEPT ![t] = 0]
            \/ object' = [object EXCEPT ![t] = t]
            \/ object' = object
<1>1. CASE pending[t] \in Cached
  BY <1>1 DEF Handle
<1>2. CASE pending[t] \notin Cached
  BY <1>2 DEF Handle
<1> QED
  BY <1>1, <1>2

(* Every variable keeps its type. *)
LEMMA TypeStep == TypeOK /\ ThreadsInv /\ [Next]_vars => TypeOK'
<1> SUFFICES ASSUME TypeOK, ThreadsInv, [Next]_vars
             PROVE  TypeOK'
  OBVIOUS
<1> USE PPAssumption, RequestsArePositive
<1>1. CASE SendRequest
  BY <1>1 DEF TypeOK, SendRequest, readerVars, replyVars, sendVars
<1>2. CASE ClientLeaves
  BY <1>2 DEF TypeOK, ClientLeaves, readerVars, replyVars, sendVars
<1>3. CASE Reader
  <2>1. CASE ReadRequest
    <3>1. NextRequest \in Requests
      BY <2>1 DEF TypeOK, ReadRequest, NextRequest, Requests
    <3>2. pending' \in Seq(Requests) /\ Len(pending') = Len(pending) + 1
      BY <2>1, <3>1 DEF TypeOK, ReadRequest
    <3>3. tpc' \in [Requests -> ThreadStates]
      BY <2>1, <3>1 DEF TypeOK, ReadRequest, ThreadStates
    <3> QED
      BY <2>1, <3>1, <3>2, <3>3
      DEF TypeOK, ReadRequest, NextRequest, Requests, clientVars, replyVars, sendVars
  <2>2. CASE ReadNone
    BY <2>2 DEF TypeOK, ReadNone, clientVars, replyVars, sendVars
  <2>3. CASE ReadRaises
    BY <2>3 DEF TypeOK, ReadRaises, clientVars, replyVars, sendVars
  <2>4. CASE Join
    <3>1. joined' \in 0..N
      <4>1. Len(pending) \in Nat
        BY LenProperties DEF TypeOK
      <4> QED
        BY <2>4, <4>1 DEF TypeOK, Join
    <3> QED
      BY <2>4, <3>1 DEF TypeOK, Join, clientVars, replyVars, sendVars
  <2>5. CASE JoinEnds
    BY <2>5 DEF TypeOK, JoinEnds, clientVars, replyVars, sendVars
  <2>6. CASE Close
    BY <2>6 DEF TypeOK, Close, clientVars, replyVars, sendVars
  <2> QED
    BY <1>3, <2>1, <2>2, <2>3, <2>4, <2>5, <2>6 DEF Reader
<1>4. ASSUME NEW t \in Requests, Handle(t) \/ Sender(t)
      PROVE  TypeOK'
  <2>1. CASE Handle(t)
    <3>1. pending[t] \in Requests
      <4>1. ~(t > Len(pending))
        BY <2>1 DEF Handle, ThreadsInv
      <4>2. t \in 1..Len(pending)
        BY <4>1, LenProperties DEF TypeOK, Requests
      <4> QED
        BY <4>2, ElementOfSeq DEF TypeOK
    <3>2. size' \in [Requests -> Nat]
      <4>1. Body[pending[t]] \in Nat /\ size \in [Requests -> Nat]
        BY <3>1 DEF TypeOK
      <4>2. CASE size' = [size EXCEPT ![t] = Body[pending[t]]]
        BY <4>1, <4>2
      <4>3. CASE size' = [size EXCEPT ![t] = 1]
        BY <4>1, <4>3
      <4> QED
        BY <2>1, <4>2, <4>3, HandleEffect
    <3>3. object' \in [Requests -> 0..N]
      <4>1. t \in 0..N /\ 0 \in 0..N /\ object \in [Requests -> 0..N]
        BY DEF TypeOK
      <4>2. CASE object' = [object EXCEPT ![t] = 0]
        BY <4>1, <4>2
      <4>3. CASE object' = [object EXCEPT ![t] = t]
        BY <4>1, <4>3
      <4>4. CASE object' = object
        BY <4>1, <4>4
      <4> QED
        BY <2>1, <4>2, <4>3, <4>4, HandleEffect
    <3>4. tpc' \in [Requests -> ThreadStates]
      BY <2>1 DEF TypeOK, Handle, ThreadStates
    <3> QED
      BY <2>1, <3>2, <3>3, <3>4 DEF TypeOK, Handle, clientVars, readerVars, sendVars
  <2>2. CASE Label(t)
    BY <2>2 DEF TypeOK, Label, ThreadStates, clientVars, readerVars, sendVars
  <2>3. CASE Encode(t)
    BY <2>3 DEF TypeOK, Encode, ThreadStates, clientVars, readerVars, sendVars
  <2>4. CASE Acquire(t)
    <3>1. wbuf' \in Seq(Cell)
      BY <2>4, ResponseType DEF TypeOK, Acquire
    <3>2. tpc' \in [Requests -> ThreadStates]
      BY <2>4 DEF TypeOK, Acquire, ThreadStates
    <3> QED
      BY <2>4, <3>1, <3>2 DEF TypeOK, Acquire, Requests, clientVars, readerVars, replyVars
  <2>5. CASE TakeChunk(t)
    <3>1. wbuf \in Seq(Cell)
      BY DEF TypeOK
    <3>2. /\ Len(wbuf) \in Nat /\ ChunkLength \in Nat /\ ChunkLength <= Len(wbuf)
          /\ \A i \in 1..Len(wbuf) : wbuf[i] \in Cell
      BY <3>1, LenProperties, PPAssumption DEF ChunkLength
    <3>3. /\ \A i \in 1..ChunkLength : wbuf[i] \in Cell
          /\ \A i \in (ChunkLength + 1)..Len(wbuf) : wbuf[i] \in Cell
      BY <3>2
    <3>4. SubSeq(wbuf, 1, ChunkLength) \in Seq(Cell)
      BY <3>2, <3>3, SubSeqProperties
    <3>5. SubSeq(wbuf, ChunkLength + 1, Len(wbuf)) \in Seq(Cell)
      BY <3>2, <3>3, SubSeqProperties
    <3>6. chunk' \in [Requests -> Seq(Cell)]
      BY <2>5, <3>4 DEF TypeOK, TakeChunk
    <3>7. wbuf' \in Seq(Cell)
      BY <2>5, <3>5 DEF TakeChunk
    <3> QED
      BY <2>5, <3>6, <3>7 DEF TypeOK, TakeChunk, clientVars, readerVars, replyVars
  <2>6. CASE SendCell(t)
    <3>1. chunk[t] \in Seq(Cell) /\ chunk[t] # <<>>
      BY <2>6 DEF TypeOK, SendCell
    <3>2. Head(chunk[t]) \in Cell /\ Tail(chunk[t]) \in Seq(Cell)
      BY <3>1, HeadTailProperties
    <3>3. chunk' \in [Requests -> Seq(Cell)]
      BY <2>6, <3>2 DEF TypeOK, SendCell
    <3>4. wire' \in Seq(Cell)
      BY <2>6, <3>2, AppendProperties DEF TypeOK, SendCell
    <3> QED
      BY <2>6, <3>3, <3>4 DEF TypeOK, SendCell, clientVars, readerVars, replyVars
  <2>7. CASE SendFails(t)
    <3>1. chunk' \in [Requests -> Seq(Cell)]
      BY <2>7 DEF TypeOK, SendFails
    <3> QED
      BY <2>7, <3>1 DEF TypeOK, SendFails, ThreadStates, clientVars, readerVars, replyVars
  <2>8. CASE Release(t)
    BY <2>8 DEF TypeOK, Release, ThreadStates, clientVars, readerVars, replyVars
  <2> QED
    BY <1>4, <2>1, <2>2, <2>3, <2>4, <2>5, <2>6, <2>7, <2>8 DEF Sender
<1>5. CASE UNCHANGED vars
  BY <1>5 DEF TypeOK, vars, clientVars, readerVars, replyVars, sendVars
<1> QED
  BY <1>1, <1>2, <1>3, <1>4, <1>5 DEF Next, Finished

(* Who is started, and who holds the lock, keeps its shape. *)
LEMMA ThreadsStep == TypeOK /\ ThreadsInv /\ [Next]_vars => ThreadsInv'
<1> SUFFICES ASSUME TypeOK, ThreadsInv, [Next]_vars
             PROVE  ThreadsInv'
  OBVIOUS
<1> USE RequestsArePositive
<1>1. CASE SendRequest
  BY <1>1, LenProperties DEF TypeOK, ThreadsInv, SendRequest, readerVars
<1>2. CASE UNCHANGED <<arrived, pending, joined, tpc>>
  BY <1>2 DEF ThreadsInv
<1>3. CASE ReadRequest
  <2>1. /\ NextRequest \in Requests /\ NextRequest = Len(pending) + 1
        /\ NextRequest <= arrived /\ Len(pending) \in Nat
    BY <1>3, LenProperties DEF TypeOK, ReadRequest, NextRequest, Requests
  <2>2. /\ pending' = Append(pending, NextRequest)
        /\ pending' \in Seq(Requests)
        /\ Len(pending') = NextRequest
        /\ DOMAIN pending' = 1..NextRequest
        /\ \A t \in 1..Len(pending) : pending'[t] = pending[t]
        /\ pending'[NextRequest] = NextRequest
    BY <1>3, <2>1 DEF TypeOK, ReadRequest
  <2>3. \A t \in DOMAIN pending' : pending'[t] = t
    <3>1. \A t \in 1..Len(pending) : pending[t] = t
      BY LenProperties DEF TypeOK, ThreadsInv
    <3> QED
      BY <2>1, <2>2, <3>1
  <2>4. \A t \in Requests : t > Len(pending') => tpc'[t] = "none"
    <3>1. SUFFICES ASSUME NEW t \in Requests, t > Len(pending')
                   PROVE  tpc'[t] = "none"
      OBVIOUS
    <3>2. t # NextRequest /\ t > Len(pending)
      BY <2>1, <2>2, <3>1
    <3> QED
      BY <1>3, <3>2 DEF TypeOK, ThreadsInv, ReadRequest
  <2>5. joined' <= Len(pending') /\ Len(pending') <= arrived'
    BY <1>3, <2>1, <2>2 DEF TypeOK, ThreadsInv, ReadRequest, clientVars
  <2> QED
    BY <2>3, <2>4, <2>5 DEF ThreadsInv
<1>4. CASE Join
  <2>1. joined' <= Len(pending)
    BY <1>4, LenProperties DEF TypeOK, Join
  <2> QED
    BY <1>4, <2>1 DEF ThreadsInv, Join, clientVars
<1>5. ASSUME NEW t \in Requests, Handle(t) \/ Sender(t)
      PROVE  ThreadsInv'
  <2>1. UNCHANGED <<arrived, readerVars>> /\ tpc[t] # "none"
    BY <1>5 DEF Handle, Sender, Label, Encode, Acquire, TakeChunk, SendCell,
                SendFails, Release, clientVars
  <2>2. \A u \in Requests \ {t} : tpc'[u] = tpc[u]
    BY <1>5 DEF TypeOK, Handle, Sender, Label, Encode, Acquire, TakeChunk, SendCell,
                SendFails, Release
  <2> QED
    BY <2>1, <2>2 DEF ThreadsInv, readerVars
<1> QED
  BY <1>1, <1>2, <1>3, <1>4, <1>5
  DEF Next, Reader, ClientLeaves, ReadNone, ReadRaises, JoinEnds, Close, Finished,
      vars, clientVars, readerVars

(* The lock has one holder, and a chunk belongs to the holder. *)
LEMMA LockStep == TypeOK /\ ThreadsInv /\ LockInv /\ [Next]_vars => LockInv'
<1> SUFFICES ASSUME TypeOK, ThreadsInv, LockInv, [Next]_vars
             PROVE  LockInv'
  OBVIOUS
<1> USE RequestsArePositive
<1>1. CASE UNCHANGED <<tpc, lock, chunk>>
  BY <1>1 DEF LockInv
<1>2. CASE ReadRequest
  <2>1. NextRequest \in Requests /\ tpc[NextRequest] = "none"
    BY <1>2, LenProperties DEF TypeOK, ThreadsInv, ReadRequest, NextRequest, Requests
  <2> QED
    BY <1>2, <2>1 DEF TypeOK, LockInv, ReadRequest, sendVars
<1>3. ASSUME NEW t \in Requests, Handle(t) \/ Label(t) \/ Encode(t)
      PROVE  LockInv'
  <2>1. /\ UNCHANGED <<lock, chunk>> /\ tpc[t] # "sending" /\ tpc'[t] # "sending"
        /\ \A u \in Requests \ {t} : tpc'[u] = tpc[u]
    BY <1>3 DEF TypeOK, Handle, Label, Encode, sendVars
  <2> QED
    BY <2>1 DEF TypeOK, LockInv
<1>4. ASSUME NEW t \in Requests, Acquire(t)
      PROVE  LockInv'
  BY <1>4 DEF TypeOK, LockInv, Acquire
<1>5. ASSUME NEW t \in Requests, TakeChunk(t) \/ SendCell(t)
      PROVE  LockInv'
  <2>1. /\ UNCHANGED <<lock, tpc>> /\ lock = t
        /\ \A u \in Requests \ {t} : chunk'[u] = chunk[u]
    BY <1>5 DEF TypeOK, LockInv, TakeChunk, SendCell
  <2> QED
    BY <2>1 DEF LockInv
<1>6. ASSUME NEW t \in Requests, SendFails(t) \/ Release(t)
      PROVE  LockInv'
  <2>1. /\ lock' = 0 /\ lock = t /\ tpc'[t] = "done" /\ chunk'[t] = <<>>
        /\ \A u \in Requests \ {t} : tpc'[u] = tpc[u] /\ chunk'[u] = chunk[u]
    BY <1>6 DEF TypeOK, LockInv, SendFails, Release
  <2> QED
    BY <2>1 DEF LockInv
<1> QED
  BY <1>1, <1>2, <1>3, <1>4, <1>5, <1>6
  DEF Next, Reader, Sender, SendRequest, ClientLeaves, ReadNone, ReadRaises, Join,
      JoinEnds, Close, Finished, vars, sendVars

-----------------------------------------------------------------------------
(* The elements of two sequences strung together. *)
LEMMA ConcatTwo ==
  ASSUME NEW S, NEW a \in Seq(S), NEW b \in Seq(S)
  PROVE  /\ a \o b \in Seq(S)
         /\ Len(a) \in Nat /\ Len(b) \in Nat
         /\ Len(a \o b) = Len(a) + Len(b)
         /\ DOMAIN (a \o b) = 1..Len(a) + Len(b)
         /\ \A k \in 1..Len(a) : (a \o b)[k] = a[k]
         /\ \A k \in 1..Len(b) : (a \o b)[Len(a) + k] = b[k]
         /\ \A k \in 1..Len(a) + Len(b) : k > Len(a) =>
              k - Len(a) \in 1..Len(b) /\ (a \o b)[k] = b[k - Len(a)]
<1>1. Len(a) \in Nat /\ Len(b) \in Nat
  BY LenProperties
<1>2. a \o b \in Seq(S) /\ Len(a \o b) = Len(a) + Len(b)
  BY ConcatProperties
<1>3. \A i \in 1..Len(a) + Len(b) :
        (a \o b)[i] = IF i <= Len(a) THEN a[i] ELSE b[i - Len(a)]
  BY ConcatProperties
<1>4. ASSUME NEW k \in 1..Len(b) PROVE (a \o b)[Len(a) + k] = b[k]
  <2>1. /\ Len(a) + k \in 1..Len(a) + Len(b) /\ ~(Len(a) + k <= Len(a))
        /\ Len(a) + k - Len(a) = k
    BY <1>1
  <2> QED
    BY <1>3, <2>1
<1>5. DOMAIN (a \o b) = 1..Len(a) + Len(b)
  BY <1>2, LenProperties
<1>6. \A k \in 1..Len(a) : (a \o b)[k] = a[k]
  BY <1>1, <1>3
<1>7. \A k \in 1..Len(a) + Len(b) : k > Len(a) =>
        k - Len(a) \in 1..Len(b) /\ (a \o b)[k] = b[k - Len(a)]
  BY <1>1, <1>3
<1> QED
  BY <1>1, <1>2, <1>4, <1>5, <1>6, <1>7

(* What is left of a stream when cells are dropped is still contiguous. *)
LEMMA ContiguousEmbed ==
  ASSUME NEW s \in Seq(Cell), NEW r \in Seq(Cell), Contiguous(s),
         NEW f \in [1..Len(r) -> 1..Len(s)],
         \A i, j \in 1..Len(r) : i < j => f[i] < f[j],
         \A i \in 1..Len(r) : r[i] = s[f[i]]
  PROVE  Contiguous(r)
<1>1. /\ DOMAIN r = 1..Len(r) /\ Len(r) \in Nat
      /\ DOMAIN s = 1..Len(s) /\ Len(s) \in Nat
  BY LenProperties
<1>2. SUFFICES ASSUME NEW i \in 1..Len(r), NEW j \in 1..Len(r), i < j,
                      r[i].t = r[j].t
               PROVE  /\ r[i].i < r[j].i
                      /\ \A k \in i..j : r[k].t = r[i].t
  BY <1>1 DEF Contiguous
<1>3. /\ f[i] \in 1..Len(s) /\ f[j] \in 1..Len(s) /\ f[i] < f[j]
      /\ s[f[i]].t = s[f[j]].t
  BY <1>2
<1>4. /\ s[f[i]].i < s[f[j]].i
      /\ \A k \in f[i]..f[j] : s[k].t = s[f[i]].t
  BY <1>1, <1>3 DEF Contiguous
<1>5. ASSUME NEW k \in i..j PROVE r[k].t = r[i].t
  <2>1. k \in 1..Len(r) /\ (k = i \/ i < k) /\ (k = j \/ k < j)
    BY <1>1
  <2>2. f[k] \in f[i]..f[j]
    BY <1>1, <1>3, <2>1
  <2> QED
    BY <1>4, <2>1, <2>2
<1> QED
  BY <1>2, <1>4, <1>5

(* So is a stream that a whole response of a new thread is appended to. *)
LEMMA ContiguousExtend ==
  ASSUME NEW s \in Seq(Cell), Contiguous(s),
         NEW t \in Requests, size[t] \in Nat,
         \A k \in DOMAIN s : s[k].t # t
  PROVE  Contiguous(s \o Response(t))
<1> DEFINE u == s \o Response(t)
<1>1. /\ Response(t) \in Seq(Cell)
      /\ Len(Response(t)) = size[t]
      /\ \A i \in 1..size[t] : Response(t)[i].t = t /\ Response(t)[i].i = i
  <2>1. /\ Response(t) \in Seq(Cell)
        /\ Len(Response(t)) = size[t]
        /\ \A i \in 1..size[t] :
             Response(t)[i] = [t |-> t, i |-> i, n |-> size[t]]
    BY ResponseType
  <2>2. ASSUME NEW i \in 1..size[t]
        PROVE  Response(t)[i].t = t /\ Response(t)[i].i = i
    <3>1. Response(t)[i] = [t |-> t, i |-> i, n |-> size[t]]
      BY <2>1
    <3> QED
      BY <3>1
  <2> QED
    BY <2>1, <2>2
<1>2. /\ Len(s) \in Nat /\ DOMAIN s = 1..Len(s)
  BY LenProperties
<1>3. /\ u \in Seq(Cell) /\ Len(u) = Len(s) + size[t]
      /\ \A i \in 1..Len(s) : u[i] = s[i]
      /\ \A k \in 1..Len(s) + size[t] : k > Len(s) =>
           /\ k - Len(s) \in 1..size[t]
           /\ u[k] = Response(t)[k - Len(s)]
  BY <1>1, ConcatTwo
<1>4. DOMAIN u = 1..Len(u) /\ Len(u) \in Nat
  BY <1>3, LenProperties
<1> HIDE DEF u
<1>5. /\ \A i \in 1..Len(s) : u[i] = s[i]
      /\ \A i \in (Len(s) + 1)..Len(u) : u[i].t = t /\ u[i].i = i - Len(s)
  <2>1. ASSUME NEW i \in (Len(s) + 1)..Len(u)
        PROVE  u[i].t = t /\ u[i].i = i - Len(s)
    <3>1. i \in 1..Len(s) + size[t] /\ i > Len(s)
      BY <1>2, <1>3
    <3>2. i - Len(s) \in 1..size[t] /\ u[i] = Response(t)[i - Len(s)]
      BY <1>3, <3>1
    <3>3. /\ Response(t)[i - Len(s)].t = t
          /\ Response(t)[i - Len(s)].i = i - Len(s)
      BY <1>1, <3>2
    <3> QED
      BY <3>2, <3>3
  <2> QED
    BY <1>3, <2>1
<1>6. SUFFICES ASSUME NEW i \in 1..Len(u), NEW j \in 1..Len(u), i < j,
                      u[i].t = u[j].t
               PROVE  /\ u[i].i < u[j].i
                      /\ \A k \in i..j : u[k].t = u[i].t
  BY <1>4 DEF Contiguous, u
<1>7. CASE j <= Len(s)
  <2>1. /\ i \in 1..Len(s) /\ j \in 1..Len(s) /\ s[i].t = s[j].t
    BY <1>2, <1>5, <1>6, <1>7
  <2>2. /\ s[i].i < s[j].i
        /\ \A k \in i..j : s[k].t = s[i].t
    BY <1>2, <1>6, <2>1 DEF Contiguous
  <2>3. \A k \in i..j : k \in 1..Len(s)
    BY <1>2, <2>1
  <2> QED
    BY <1>5, <2>1, <2>2, <2>3
<1>8. CASE j > Len(s)
  <2>1. j \in (Len(s) + 1)..Len(u)
    BY <1>2, <1>4, <1>8
  <2>2. i > Len(s)
    <3>1. u[i].t = t
      BY <1>5, <1>6, <2>1
    <3>2. CASE i <= Len(s)
      BY <1>2, <1>5, <3>1, <3>2
    <3> QED
      BY <1>2, <3>2
  <2>3. \A k \in i..j : k \in (Len(s) + 1)..Len(u)
    BY <1>2, <1>4, <2>1, <2>2
  <2> QED
    BY <1>2, <1>5, <1>6, <2>1, <2>2, <2>3
<1> QED
  BY <1>2, <1>7, <1>8

(* Moving the head of a chunk to the end of the wire keeps their union. *)
LEMMA AppendHead ==
  ASSUME NEW S, NEW a \in Seq(S), NEW b \in Seq(S), b # <<>>
  PROVE  Append(a, Head(b)) \o Tail(b) = a \o b
<1>1. /\ Head(b) \in S /\ Tail(b) \in Seq(S) /\ Len(Tail(b)) = Len(b) - 1
      /\ Head(b) = b[1]
      /\ \A i \in 1..Len(b) - 1 : Tail(b)[i] = b[i + 1]
  BY HeadTailProperties
<1>2. /\ Len(a) \in Nat /\ Len(b) \in Nat /\ Len(b) > 0
  BY LenProperties, EmptySeq
<1> DEFINE h == Append(a, Head(b))
<1>3. /\ h \in Seq(S) /\ Len(h) = Len(a) + 1 /\ h[Len(a) + 1] = b[1]
      /\ \A i \in 1..Len(a) : h[i] = a[i]
  BY <1>1, <1>2, AppendProperties
<1> HIDE DEF h
<1>4. /\ h \o Tail(b) \in Seq(S) /\ a \o b \in Seq(S)
      /\ Len(h \o Tail(b)) = Len(a) + Len(b) /\ Len(a \o b) = Len(a) + Len(b)
  <2>1. /\ h \o Tail(b) \in Seq(S)
        /\ Len(h \o Tail(b)) = Len(h) + Len(Tail(b))
    BY <1>1, <1>3, ConcatTwo
  <2>2. a \o b \in Seq(S) /\ Len(a \o b) = Len(a) + Len(b)
    BY ConcatTwo
  <2>3. Len(h) + Len(Tail(b)) = Len(a) + Len(b)
    BY <1>1, <1>2, <1>3
  <2> QED
    BY <2>1, <2>2, <2>3
<1>5. ASSUME NEW k \in 1..Len(a) + Len(b)
      PROVE  (h \o Tail(b))[k] = (a \o b)[k]
  <2>1. (a \o b)[k] = IF k <= Len(a) THEN a[k] ELSE b[k - Len(a)]
    BY ConcatProperties
  <2>2. (h \o Tail(b))[k] = IF k <= Len(h) THEN h[k] ELSE Tail(b)[k - Len(h)]
    <3>1. h \in Seq(S) /\ Tail(b) \in Seq(S)
      BY <1>1, <1>3
    <3>2. \A i \in 1..Len(h) + Len(Tail(b)) : (h \o Tail(b))[i] =
            IF i <= Len(h) THEN h[i] ELSE Tail(b)[i - Len(h)]
      BY <3>1, ConcatProperties
    <3>3. k \in 1..Len(h) + Len(Tail(b))
      BY <1>1, <1>2, <1>3
    <3> QED
      BY <3>2, <3>3
  <2>3. CASE k <= Len(a)
    BY <1>2, <1>3, <2>1, <2>2, <2>3
  <2>4. CASE k = Len(a) + 1
    BY <1>2, <1>3, <2>1, <2>2, <2>4
  <2>5. CASE k > Len(a) + 1
    <3>1. /\ k - Len(h) \in 1..Len(b) - 1
          /\ k - Len(h) + 1 = k - Len(a)
      BY <1>2, <1>3, <2>5
    <3> QED
      BY <1>1, <1>2, <1>3, <2>1, <2>2, <2>5, <3>1
  <2>6. k <= Len(a) \/ k = Len(a) + 1 \/ k > Len(a) + 1
    BY <1>2
  <2> QED
    BY <2>3, <2>4, <2>5, <2>6
<1> QED
  BY <1>4, <1>5, SeqEqual DEF h

(* Dropping the middle of three sequences drops no order. *)
LEMMA ContiguousWithoutMiddle ==
  ASSUME NEW a \in Seq(Cell), NEW b \in Seq(Cell), NEW c \in Seq(Cell),
         Contiguous((a \o b) \o c)
  PROVE  /\ Contiguous(a \o c)
         /\ \A k \in DOMAIN (a \o c) : \E m \in DOMAIN ((a \o b) \o c) :
              (a \o c)[k] = ((a \o b) \o c)[m]
<1> DEFINE s == (a \o b) \o c
           r == a \o c
           f == [k \in 1..Len(r) |-> IF k <= Len(a) THEN k ELSE k + Len(b)]
<1>1. Len(a) \in Nat /\ Len(b) \in Nat /\ Len(c) \in Nat
  BY LenProperties
<1>2. /\ r \in Seq(Cell) /\ Len(r) = Len(a) + Len(c) /\ DOMAIN r = 1..Len(r)
      /\ \A k \in 1..Len(r) : r[k] = IF k <= Len(a) THEN a[k] ELSE c[k - Len(a)]
  BY <1>1, ConcatTwo, ConcatProperties
<1>3. /\ a \o b \in Seq(Cell) /\ Len(a \o b) = Len(a) + Len(b)
      /\ \A k \in 1..Len(a) : (a \o b)[k] = a[k]
  BY <1>1, ConcatTwo
<1>4. /\ s \in Seq(Cell) /\ Len(s) = Len(a) + Len(b) + Len(c)
      /\ DOMAIN s = 1..Len(s)
      /\ \A k \in 1..Len(a) + Len(b) : s[k] = (a \o b)[k]
      /\ \A k \in 1..Len(c) : s[Len(a) + Len(b) + k] = c[k]
  BY <1>1, <1>3, ConcatTwo
<1> HIDE DEF s, r
<1>5. f \in [1..Len(r) -> 1..Len(s)]
  BY <1>1, <1>2, <1>4
<1>6. \A i, j \in 1..Len(r) : i < j => f[i] < f[j]
  BY <1>1, <1>2
<1>7. ASSUME NEW i \in 1..Len(r) PROVE r[i] = s[f[i]]
  <2>1. CASE i <= Len(a)
    <3>1. f[i] = i /\ i \in 1..Len(a) /\ i \in 1..Len(a) + Len(b)
      BY <1>1, <2>1
    <3>2. s[i] = a[i]
      BY <1>3, <1>4, <3>1
    <3> QED
      BY <1>2, <2>1, <3>1, <3>2
  <2>2. CASE i > Len(a)
    <3>1. /\ f[i] = Len(a) + Len(b) + (i - Len(a)) /\ i - Len(a) \in 1..Len(c)
          /\ ~(i <= Len(a))
      BY <1>1, <1>2, <2>2
    <3>2. s[f[i]] = c[i - Len(a)]
      BY <1>4, <3>1
    <3> QED
      BY <1>2, <3>1, <3>2
  <2> QED
    BY <1>1, <2>1, <2>2
<1>8. Contiguous(s)
  BY DEF s
<1> HIDE DEF f
<1>9. Contiguous(r)
  BY <1>2, <1>4, <1>5, <1>6, <1>7, <1>8, ContiguousEmbed
<1>10. \A k \in DOMAIN r : \E m \in DOMAIN s : r[k] = s[m]
  BY <1>2, <1>4, <1>5, <1>7
<1> QED
  BY <1>9, <1>10 DEF r, s

-----------------------------------------------------------------------------
LEMMA StreamType ==
  ASSUME TypeOK
  PROVE  /\ wire \in Seq(Cell) /\ Held \in Seq(Cell) /\ wbuf \in Seq(Cell)
         /\ Stream \in Seq(Cell)
<1>1. Held \in Seq(Cell)
  BY RequestsArePositive, EmptySeq DEF TypeOK, Held
<1>2. wire \in Seq(Cell) /\ wbuf \in Seq(Cell)
  BY DEF TypeOK
<1> QED
  BY <1>1, <1>2, ConcatTwo DEF Stream

(* A step that leaves the stream alone, and takes no thread back from its  *)
(* critical section, keeps the stream's invariant.                         *)
LEMMA StreamKept ==
  ASSUME TypeOK, StreamInv, Stream' = Stream,
         \A t \in Requests :
           tpc[t] \in {"sending", "done"} => tpc'[t] \in {"sending", "done"}
  PROVE  StreamInv'
<1>1. ASSUME NEW k \in DOMAIN Stream PROVE Stream[k].t \in Requests
  <2>1. Stream[k] \in Cell
    BY StreamType, LenProperties, ElementOfSeq
  <2> QED
    BY <2>1 DEF Cell
<1> QED
  BY <1>1 DEF StreamInv

(* The encoded response joins the stream at its end. *)
LEMMA AcquireStream ==
  ASSUME IInv, NEW t \in Requests, Acquire(t)
  PROVE  Stream' = Stream \o Response(t)
<1>0. TypeOK /\ LockInv
  BY DEF IInv
<1>1. /\ tpc[t] = "ready" /\ tpc'[t] = "sending" /\ size[t] \in Nat
      /\ \A u \in Requests \ {t} : tpc'[u] = tpc[u]
      /\ lock = 0 /\ lock' = t /\ chunk[t] = <<>> /\ UNCHANGED <<chunk, wire>>
      /\ wbuf' = wbuf \o Response(t)
  BY <1>0, RequestsArePositive DEF TypeOK, LockInv, Acquire
<1>2. Held = <<>> /\ Held' = <<>>
  BY <1>1 DEF Held
<1>3. /\ Response(t) \in Seq(Cell) /\ Len(Response(t)) = size[t]
      /\ \A i \in 1..size[t] :
           Response(t)[i] = [t |-> t, i |-> i, n |-> size[t]]
  BY <1>1, ResponseType
<1>4. Stream' = Stream \o Response(t)
  <2>1. wire \o <<>> \in Seq(Cell) /\ wbuf \in Seq(Cell)
    BY <1>0, StreamType, EmptySeq, ConcatTwo
  <2> DEFINE w == wire \o <<>>
  <2> HIDE DEF w
  <2>2. w \in Seq(Cell) /\ Response(t) \in Seq(Cell)
    BY <1>3, <2>1 DEF w
  <2>3. w \o (wbuf \o Response(t)) = (w \o wbuf) \o Response(t)
    BY <2>1, <2>2, ConcatAssociative
  <2> QED
    BY <1>1, <1>2, <2>3 DEF Stream, w
<1> QED
  BY <1>4

(* Taking a chunk out of the buffer moves it in front of the rest. *)
LEMMA TakeChunkStream ==
  ASSUME IInv, NEW t \in Requests, TakeChunk(t)
  PROVE  Stream' = Stream
<1>0. TypeOK /\ LockInv
  BY DEF IInv
<1> DEFINE a == SubSeq(wbuf, 1, ChunkLength)
           b == SubSeq(wbuf, ChunkLength + 1, Len(wbuf))
<1>1. /\ lock = t /\ chunk[t] = <<>> /\ chunk'[t] = a /\ wbuf' = b
      /\ UNCHANGED <<tpc, lock, wire>> /\ t # 0
  <2>1. lock = t /\ t # 0
    BY <1>0, RequestsArePositive DEF LockInv, TakeChunk
  <2>2. chunk[t] = <<>> /\ chunk'[t] = a
    BY <1>0 DEF TypeOK, TakeChunk
  <2>3. wbuf' = b /\ UNCHANGED <<tpc, lock, wire>>
    BY DEF TakeChunk
  <2> QED
    BY <2>1, <2>2, <2>3
<1>2. ChunkLength \in 0..Len(wbuf) /\ Len(wbuf) \in Nat /\ wbuf \in Seq(Cell)
  BY <1>0, PPAssumption, LenProperties DEF TypeOK, ChunkLength
<1>3. a \in Seq(Cell) /\ b \in Seq(Cell) /\ a \o b = wbuf
  <2>1. a \o b = SubSeq(wbuf, 1, Len(wbuf))
    <3>1. /\ 1 \in 1..Len(wbuf) + 1 /\ ChunkLength \in 1 - 1..Len(wbuf)
          /\ Len(wbuf) \in ChunkLength..Len(wbuf)
      BY <1>2
    <3> QED
      BY <1>2, <3>1, ConcatAdjacentSubSeq
  <2>2. SubSeq(wbuf, 1, Len(wbuf)) = wbuf
    BY <1>2, SubSeqFull
  <2>3. a \in Seq(Cell) /\ b \in Seq(Cell)
    BY <1>2
  <2> QED
    BY <2>1, <2>2, <2>3
<1> HIDE DEF a, b
<1>4. Held = <<>> /\ Held' = a
  BY <1>1 DEF Held
<1>5. (wire \o a) \o b = wire \o wbuf
  <2>1. wire \in Seq(Cell) /\ a \in Seq(Cell) /\ b \in Seq(Cell)
    BY <1>3, <1>0, StreamType
  <2>2. (wire \o a) \o b = wire \o (a \o b)
    BY <2>1, ConcatAssociative
  <2> QED
    BY <1>3, <2>2
<1>6. wire \o <<>> = wire
  BY <1>0, StreamType, ConcatEmptySeq
<1>7. Stream' = Stream
  BY <1>1, <1>4, <1>5, <1>6 DEF Stream
<1> QED
  BY <1>7

(* A cell sent moves from the chunk to the wire. *)
LEMMA SendCellStream ==
  ASSUME IInv, NEW t \in Requests, SendCell(t)
  PROVE  Stream' = Stream
<1>0. TypeOK /\ LockInv
  BY DEF IInv
<1>1. /\ lock = t /\ chunk[t] # <<>> /\ chunk'[t] = Tail(chunk[t])
      /\ wire' = Append(wire, Head(chunk[t]))
      /\ UNCHANGED <<tpc, lock, wbuf>> /\ t # 0
  BY <1>0, RequestsArePositive DEF TypeOK, LockInv, SendCell
<1>2. Held = chunk[t] /\ Held' = Tail(chunk[t])
  BY <1>1 DEF Held
<1>3. wire' \o Held' = wire \o Held
  BY <1>1, <1>2, <1>0, StreamType, AppendHead
<1>4. Stream' = Stream
  BY <1>1, <1>3 DEF Stream
<1> QED
  BY <1>4

LEMMA StreamStep == IInv /\ [Next]_vars => StreamInv'
<1> SUFFICES ASSUME IInv, [Next]_vars
             PROVE  StreamInv'
  OBVIOUS
<1> USE RequestsArePositive DEF IInv
<1>1. ASSUME UNCHANGED sendVars,
             \A t \in Requests :
               tpc[t] \in {"sending", "done"} => tpc'[t] \in {"sending", "done"}
      PROVE  StreamInv'
  <2>1. Stream' = Stream
    BY <1>1 DEF Stream, Held, sendVars
  <2> QED
    BY <1>1, <2>1, StreamKept
<1>2. CASE ReadRequest
  <2>1. NextRequest \in Requests /\ tpc[NextRequest] = "none"
    BY <1>2, LenProperties DEF TypeOK, ThreadsInv, ReadRequest, NextRequest, Requests
  <2>2. \A t \in Requests :
          tpc[t] \in {"sending", "done"} => tpc'[t] \in {"sending", "done"}
    BY <1>2, <2>1 DEF TypeOK, ReadRequest
  <2> QED
    BY <1>1, <1>2, <2>2 DEF ReadRequest
<1>3. ASSUME NEW t \in Requests, Handle(t) \/ Label(t) \/ Encode(t)
      PROVE  StreamInv'
  <2>1. UNCHANGED sendVars /\ tpc[t] \notin {"sending", "done"}
    BY <1>3 DEF Handle, Label, Encode
  <2>2. \A u \in Requests \ {t} : tpc'[u] = tpc[u]
    BY <1>3 DEF TypeOK, Handle, Label, Encode
  <2> QED
    BY <1>1, <2>1, <2>2
<1>4. ASSUME NEW t \in Requests, Acquire(t)
      PROVE  StreamInv'
  <2>1. /\ tpc[t] = "ready" /\ tpc'[t] = "sending" /\ size[t] \in Nat
        /\ \A u \in Requests \ {t} : tpc'[u] = tpc[u]
    BY <1>4 DEF TypeOK, Acquire
  <2>3. /\ Response(t) \in Seq(Cell) /\ Len(Response(t)) = size[t]
        /\ \A i \in 1..size[t] :
             Response(t)[i] = [t |-> t, i |-> i, n |-> size[t]]
    BY <2>1, ResponseType
  <2>4. Stream' = Stream \o Response(t)
    BY <1>4, AcquireStream
  <2>5. \A k \in DOMAIN Stream : Stream[k].t # t
    BY <2>1 DEF StreamInv
  <2>6. Contiguous(Stream')
    BY <2>1, <2>4, <2>5, StreamType, ContiguousExtend DEF StreamInv
  <2>7. ASSUME NEW k \in DOMAIN Stream'
        PROVE  tpc'[Stream'[k].t] \in {"sending", "done"}
    <3>1. /\ DOMAIN Stream' = 1..Len(Stream) + size[t]
          /\ \A j \in 1..Len(Stream) : Stream'[j] = Stream[j]
          /\ \A j \in 1..Len(Stream) + size[t] : j > Len(Stream) =>
               /\ j - Len(Stream) \in 1..size[t]
               /\ Stream'[j] = Response(t)[j - Len(Stream)]
          /\ Len(Stream) \in Nat
      BY <2>3, <2>4, StreamType, ConcatTwo
    <3>2. CASE k <= Len(Stream)
      <4>1. k \in DOMAIN Stream /\ Stream'[k] = Stream[k]
        BY <3>1, <3>2, StreamType, LenProperties
      <4>2. Stream[k] \in Cell
        BY <4>1, StreamType, LenProperties, ElementOfSeq
      <4>3. tpc[Stream[k].t] \in {"sending", "done"} /\ Stream[k].t \in Requests
        BY <4>1, <4>2 DEF StreamInv, Cell
      <4> QED
        BY <2>1, <4>1, <4>3
    <3>3. CASE k > Len(Stream)
      <4>1. /\ k - Len(Stream) \in 1..size[t]
            /\ Stream'[k] = Response(t)[k - Len(Stream)]
        BY <3>1, <3>3
      <4>2. Stream'[k] = [t |-> t, i |-> k - Len(Stream), n |-> size[t]]
        BY <2>3, <4>1
      <4>3. Stream'[k].t = t
        BY <4>2
      <4> QED
        BY <2>1, <4>3
    <3> QED
      BY <3>1, <3>2, <3>3
  <2> QED
    BY <2>6, <2>7 DEF StreamInv
<1>5. ASSUME NEW t \in Requests, TakeChunk(t) \/ SendCell(t)
      PROVE  StreamInv'
  <2>1. tpc' = tpc
    BY <1>5 DEF TakeChunk, SendCell
  <2>2. Stream' = Stream
    BY <1>5, TakeChunkStream, SendCellStream
  <2> QED
    BY <2>1, <2>2, StreamKept
<1>7. ASSUME NEW t \in Requests, SendFails(t) \/ Release(t)
      PROVE  StreamInv'
  <2>1. /\ tpc[t] = "sending" /\ tpc'[t] = "done" /\ lock' = 0
        /\ \A u \in Requests \ {t} : tpc'[u] = tpc[u]
        /\ UNCHANGED <<wbuf, wire>>
    BY <1>7 DEF TypeOK, SendFails, Release
  <2>2. Held' = <<>> /\ wire \o <<>> = wire
    BY <2>1, StreamType, ConcatEmptySeq DEF Held
  <2>3. Stream' = wire \o wbuf
    BY <2>1, <2>2 DEF Stream
  <2>4. /\ Contiguous(Stream')
        /\ \A k \in DOMAIN Stream' : \E m \in DOMAIN Stream : Stream'[k] = Stream[m]
    BY <2>3, StreamType, ContiguousWithoutMiddle DEF StreamInv, Stream
  <2>5. ASSUME NEW k \in DOMAIN Stream'
        PROVE  tpc'[Stream'[k].t] \in {"sending", "done"}
    <3>1. PICK m \in DOMAIN Stream : Stream'[k] = Stream[m]
      BY <2>4
    <3>2. Stream[m] \in Cell
      BY StreamType, LenProperties, ElementOfSeq
    <3>3. tpc[Stream[m].t] \in {"sending", "done"} /\ Stream[m].t \in Requests
      BY <3>2 DEF StreamInv, Cell
    <3> QED
      BY <2>1, <3>1, <3>3
  <2> QED
    BY <2>4, <2>5 DEF StreamInv
<1>8. CASE UNCHANGED <<tpc, sendVars>>
  BY <1>1, <1>8
<1> QED
  BY <1>2, <1>3, <1>4, <1>5, <1>7, <1>8
  DEF Next, Reader, Sender, SendRequest, ClientLeaves, ReadNone, ReadRaises, Join,
      JoinEnds, Close, Finished, vars

-----------------------------------------------------------------------------
LEMMA InitInv == Init => IInv
<1> SUFFICES ASSUME Init
             PROVE  IInv
  OBVIOUS
<1>1. TypeOK
  BY PPAssumption, RequestsArePositive, EmptySeq DEF Init, TypeOK, ThreadStates
<1>2. ThreadsInv /\ LockInv
  BY EmptySeq, RequestsArePositive DEF Init, ThreadsInv, LockInv
<1>3. Stream = <<>>
  BY EmptySeq, ConcatEmptySeq DEF Init, Stream, Held
<1>4. StreamInv
  BY <1>3, EmptySeq DEF StreamInv, Contiguous
<1> QED
  BY <1>1, <1>2, <1>4 DEF IInv

LEMMA StepInv == IInv /\ [Next]_vars => IInv'
  BY TypeStep, ThreadsStep, LockStep, StreamStep DEF IInv

(* The wire is the front of the stream. *)
LEMMA InvImpliesNoInterleave == IInv => NoInterleave
<1> SUFFICES ASSUME IInv
             PROVE  NoInterleave
  OBVIOUS
<1> DEFINE f == [k \in 1..Len(wire) |-> k]
<1>1. /\ wire \in Seq(Cell) /\ Held \in Seq(Cell) /\ wbuf \in Seq(Cell)
      /\ Stream \in Seq(Cell) /\ wire \o Held \in Seq(Cell)
      /\ Len(wire) \in Nat /\ Len(Stream) \in Nat
  BY StreamType, ConcatTwo, LenProperties DEF IInv
<1>2. /\ Len(wire) <= Len(Stream)
      /\ \A k \in 1..Len(wire) : Stream[k] = wire[k]
  <2>1. /\ Len(wire \o Held) = Len(wire) + Len(Held)
        /\ Len(Held) \in Nat /\ Len(wbuf) \in Nat
        /\ \A k \in 1..Len(wire) : (wire \o Held)[k] = wire[k]
    BY <1>1, ConcatTwo
  <2>2. /\ Len(Stream) = Len(wire \o Held) + Len(wbuf)
        /\ \A k \in 1..Len(wire \o Held) : Stream[k] = (wire \o Held)[k]
    BY <1>1, ConcatTwo DEF Stream
  <2> QED
    BY <1>1, <2>1, <2>2
<1>3. /\ f \in [1..Len(wire) -> 1..Len(Stream)]
      /\ \A i, j \in 1..Len(wire) : i < j => f[i] < f[j]
      /\ \A i \in 1..Len(wire) : wire[i] = Stream[f[i]]
  BY <1>1, <1>2
<1> HIDE DEF f
<1> QED
  BY <1>1, <1>3, ContiguousEmbed DEF IInv, StreamInv, NoInterleave

(* Every variable of a connection keeps its type: no request is started    *)
(* twice, the lock never names a stranger, the buffers hold only cells.    *)
THEOREM TypeCorrect == Spec => []TypeOK
<1>1. Init => IInv
  BY InitInv
<1>2. IInv /\ [Next]_vars => IInv'
  BY StepInv
<1>3. IInv => TypeOK
  BY DEF IInv
<1> QED
  BY <1>1, <1>2, <1>3, PTL DEF Spec

(* send_lock does what _handle_conn's comment says of it: two responses    *)
(* never interleave on the wire, whatever fails and whatever times out.    *)
THEOREM ResponsesNeverInterleave == Spec => []NoInterleave
<1>1. Init => IInv
  BY InitInv
<1>2. IInv /\ [Next]_vars => IInv'
  BY StepInv
<1>3. IInv => NoInterleave
  BY InvImpliesNoInterleave
<1> QED
  BY <1>1, <1>2, <1>3, PTL DEF Spec

-----------------------------------------------------------------------------
(* The requests whose complete response is on the wire. *)
AnsweredSet == {t \in Requests : Answered(t)}

(* A thread that has not begun to send has no cell on the wire. *)
NothingYet ==
  \A t \in Requests :
    tpc[t] \notin {"sending", "done"} => \A k \in DOMAIN wire : wire[k].t # t

LEMMA IInvariant == Spec => []IInv
<1>1. Init => IInv
  BY InitInv
<1>2. IInv /\ [Next]_vars => IInv'
  BY StepInv
<1> QED
  BY <1>1, <1>2, PTL DEF Spec

(* What is on the wire is in the stream, and both are cells. *)
LEMMA WireInStream ==
  ASSUME TypeOK, NEW k \in DOMAIN wire
  PROVE  /\ k \in DOMAIN Stream /\ Stream[k] = wire[k]
         /\ wire[k] \in Cell /\ wire[k].t \in Requests
<1>1. /\ wire \in Seq(Cell) /\ Held \in Seq(Cell) /\ wbuf \in Seq(Cell)
      /\ wire \o Held \in Seq(Cell)
  BY StreamType, ConcatTwo
<1>2. /\ Len(wire) \in Nat /\ Len(Held) \in Nat /\ Len(wbuf) \in Nat
      /\ Len(wire \o Held) = Len(wire) + Len(Held)
      /\ DOMAIN wire = 1..Len(wire)
      /\ (wire \o Held)[k] = wire[k]
  BY <1>1, ConcatTwo, LenProperties
<1>3. /\ DOMAIN Stream = 1..Len(wire \o Held) + Len(wbuf)
      /\ \A j \in 1..Len(wire \o Held) : Stream[j] = (wire \o Held)[j]
  BY <1>1, ConcatTwo DEF Stream
<1>4. k \in 1..Len(wire \o Held) /\ k \in DOMAIN Stream
  BY <1>2, <1>3
<1>5. wire[k] \in Cell
  BY <1>1, <1>2, ElementOfSeq
<1> QED
  BY <1>2, <1>3, <1>4, <1>5 DEF Cell

LEMMA InvImpliesNothingYet == IInv => NothingYet
<1> SUFFICES ASSUME IInv, NEW k \in DOMAIN wire
             PROVE  wire[k].t \in Requests /\ tpc[wire[k].t] \in {"sending", "done"}
  BY DEF NothingYet
<1> QED
  BY WireInStream DEF IInv, StreamInv

(* One more cell on the wire. *)
LEMMA WireAppend ==
  ASSUME TypeOK, NEW x \in Cell, wire' = Append(wire, x)
  PROVE  /\ Len(wire) \in Nat /\ DOMAIN wire = 1..Len(wire)
         /\ DOMAIN wire' = 1..(Len(wire) + 1)
         /\ \A k \in DOMAIN wire : k \in DOMAIN wire' /\ wire'[k] = wire[k]
         /\ Len(wire) + 1 \in DOMAIN wire' /\ wire'[Len(wire) + 1] = x
         /\ \A k \in DOMAIN wire' : k \in DOMAIN wire \/ k = Len(wire) + 1
<1>1. wire \in Seq(Cell)
  BY DEF TypeOK
<1> QED
  BY <1>1

-----------------------------------------------------------------------------
(* A connection of PipeliningPlusServer is a Responder: a request counts   *)
(* as accepted when its thread is started, as answered when the last cell  *)
(* of its response is on the wire, and nothing is answered twice, before   *)
(* it was accepted or after the close.                                     *)
THEOREM ConnectionIsResponder == Spec => RefinesResponder
<1> USE RequestsArePositive DEF Abstract!rvars
<1>1. Init => Abstract!Init
  <2> SUFFICES ASSUME Init PROVE Abstract!Init
    OBVIOUS
  <2>1. pending = <<>> /\ rpc = "reading" /\ \A t \in Requests : size[t] = 0
    BY DEF Init
  <2>2. AnsweredSet = {}
    BY <2>1 DEF AnsweredSet, Answered
  <2> QED
    BY <2>1, <2>2 DEF AnsweredSet, Abstract!Init
<1>2. ASSUME IInv, [Next]_vars
      PROVE  [Abstract!Next]_(Abstract!rvars)
  <2> USE DEF Abstract!Next
  <2>a. TypeOK /\ ThreadsInv /\ Len(pending) \in Nat
    BY <1>2, LenProperties DEF IInv, TypeOK
  <2>0. ASSUME UNCHANGED <<size, wire>>
        PROVE  AnsweredSet' = AnsweredSet
    BY <2>0 DEF AnsweredSet, Answered, Requests
  <2>1. ASSUME UNCHANGED <<size, wire, pending>>, rpc' = rpc
        PROVE  UNCHANGED Abstract!rvars
    BY <2>0, <2>1 DEF AnsweredSet
  <2>2. CASE ReadRequest
    <3>1. /\ rpc = "reading" /\ rpc' = "reading" /\ UNCHANGED <<size, wire>>
          /\ pending' = Append(pending, Len(pending) + 1) /\ Len(pending) + 1 <= arrived
      BY <2>2 DEF ReadRequest, NextRequest, replyVars, sendVars
    <3>2. Len(pending') = Len(pending) + 1 /\ Len(pending) < N
      <4>1. pending \in Seq(Requests) /\ arrived <= N /\ arrived \in Nat
        BY <2>a DEF TypeOK
      <4>2. Len(Append(pending, Len(pending) + 1)) = Len(pending) + 1
        BY <4>1
      <4> QED
        BY <2>a, <3>1, <4>1, <4>2
    <3> QED
      BY <2>0, <3>1, <3>2 DEF AnsweredSet, Abstract!Accept
  <2>3. CASE ReadNone \/ ReadRaises \/ Join \/ JoinEnds
    <3>1. rpc # "closed" /\ rpc' # "closed" /\ UNCHANGED <<size, wire, pending>>
      BY <2>3 DEF ReadNone, ReadRaises, Join, JoinEnds, replyVars, sendVars
    <3> QED
      BY <2>0, <3>1 DEF AnsweredSet
  <2>4. CASE Close
    <3>1. rpc # "closed" /\ rpc' = "closed" /\ UNCHANGED <<size, wire, pending>>
      BY <2>4 DEF Close, replyVars, sendVars
    <3> QED
      BY <2>0, <3>1 DEF AnsweredSet, Abstract!Close
  <2>5. ASSUME NEW t \in Requests, Handle(t) PROVE UNCHANGED Abstract!rvars
    <3>1. UNCHANGED <<pending, rpc, wire>> /\ tpc[t] = "handling"
      BY <2>5 DEF Handle, readerVars, sendVars
    <3>2. \A u \in Requests : u # t => size'[u] = size[u]
      <4>1. size \in [Requests -> Nat]
        BY <2>a DEF TypeOK
      <4> QED
        BY <2>5, <4>1, HandleEffect
    <3>3. \A k \in DOMAIN wire : wire[k].t # t
      BY <1>2, <3>1, InvImpliesNothingYet DEF NothingYet
    <3>4. ~Answered(t)
      <4> SUFFICES ASSUME Answered(t) PROVE FALSE
        OBVIOUS
      <4>1. size[t] \in Nat /\ 1 \in 1..size[t]
        BY <2>a DEF Answered, TypeOK
      <4>2. PICK k \in DOMAIN wire : wire[k] = [t |-> t, i |-> 1, n |-> size[t]]
        BY <4>1 DEF Answered
      <4> QED
        BY <3>3, <4>2
    <3>5. ~(Answered(t))'
      <4> SUFFICES ASSUME (Answered(t))' PROVE FALSE
        OBVIOUS
      <4>1. size'[t] \in Nat /\ size'[t] > 0
        <5>1. pending[t] \in Requests
          <6>1. t \in 1..Len(pending)
            BY <2>a, <3>1 DEF ThreadsInv
          <6> QED
            BY <2>a, <6>1, ElementOfSeq DEF TypeOK
        <5>2. size'[t] \in {Body[pending[t]], 1}
          <6>1. size \in [Requests -> Nat]
            BY <2>a DEF TypeOK
          <6> QED
            BY <2>5, <6>1, HandleEffect
        <5> QED
          BY <5>1, <5>2, PPAssumption
      <4>2. 1 \in 1..size'[t]
        BY <4>1
      <4>3. PICK k \in DOMAIN wire' : wire'[k] = [t |-> t, i |-> 1, n |-> size'[t]]
        BY <4>2 DEF Answered
      <4> QED
        BY <3>1, <3>3, <4>3
    <3>6. ASSUME NEW u \in Requests, u # t PROVE (Answered(u))' <=> Answered(u)
      BY <3>1, <3>2, <3>6 DEF Answered
    <3>7. ASSUME NEW u \in Requests PROVE u \in AnsweredSet' <=> u \in AnsweredSet
      <4>1. u \in AnsweredSet <=> Answered(u)
        BY DEF AnsweredSet
      <4>2. u \in AnsweredSet' <=> (Answered(u))'
        BY DEF AnsweredSet, Requests
      <4> QED
        BY <3>4, <3>5, <3>6, <4>1, <4>2
    <3>8. AnsweredSet' = AnsweredSet
      BY <3>7 DEF AnsweredSet, Requests
    <3> QED
      BY <3>1, <3>8 DEF AnsweredSet
  <2>6. ASSUME NEW t \in Requests, SendCell(t)
        PROVE  [Abstract!Next]_(Abstract!rvars)
    <3> DEFINE x == Head(chunk[t])
    <3>1. /\ UNCHANGED <<pending, rpc, size, tpc>> /\ rpc # "closed"
          /\ wire' = Append(wire, x) /\ chunk[t] # <<>> /\ chunk[t] \in Seq(Cell)
      BY <2>6, <2>a DEF SendCell, SocketUp, readerVars, replyVars, TypeOK
    <3>2. x \in Cell
      BY <3>1, HeadTailProperties
    <3> DEFINE u == x.t
    <3>3. u \in Requests
      BY <3>2 DEF Cell
    <3> HIDE DEF x
    <3>4. ASSUME NEW v \in Requests, Answered(v) PROVE (Answered(v))'
      <4> SUFFICES ASSUME NEW i \in 1..size[v]
                   PROVE  \E k \in DOMAIN wire' : wire'[k] = [t |-> v, i |-> i, n |-> size[v]]
        BY <3>1, <3>4 DEF Answered
      <4>1. PICK k \in DOMAIN wire : wire[k] = [t |-> v, i |-> i, n |-> size[v]]
        BY <3>4 DEF Answered
      <4> QED
        BY <2>a, <3>1, <3>2, <4>1, WireAppend
    <3>5. ASSUME NEW v \in Requests, v # u, (Answered(v))' PROVE Answered(v)
      <4> SUFFICES ASSUME NEW i \in 1..size[v]
                   PROVE  \E k \in DOMAIN wire : wire[k] = [t |-> v, i |-> i, n |-> size[v]]
        BY <3>1, <3>5 DEF Answered
      <4>1. PICK k \in DOMAIN wire' : wire'[k] = [t |-> v, i |-> i, n |-> size[v]]
        BY <3>1, <3>5 DEF Answered
      <4>2. wire'[k] # x
        BY <3>5, <4>1
      <4> QED
        BY <2>a, <3>1, <3>2, <4>1, <4>2, WireAppend
    <3>6. u \in 1..Len(pending)
      <4>1. /\ wire' = Append(wire, x) /\ wire'[Len(wire) + 1] = x
            /\ Len(wire) + 1 \in DOMAIN wire'
        BY <2>a, <3>1, <3>2, WireAppend
      <4>2. NothingYet'
        BY <1>2, StepInv, InvImpliesNothingYet, PTL
      <4>3. tpc'[u] \in {"sending", "done"}
        BY <3>3, <4>1, <4>2 DEF NothingYet
      <4>4. ~(u > Len(pending))
        BY <2>a, <3>1, <3>3, <4>3 DEF ThreadsInv
      <4> QED
        BY <2>a, <3>3, <4>4
    <3> HIDE DEF u
    <3>7. AnsweredSet \subseteq AnsweredSet'
      <4> SUFFICES ASSUME NEW v \in Requests, Answered(v) PROVE v \in AnsweredSet'
        BY DEF AnsweredSet
      <4>1. (Answered(v))'
        BY <3>4
      <4> QED
        BY <4>1 DEF AnsweredSet, Requests
    <3>8. AnsweredSet' \subseteq AnsweredSet \cup {u}
      <4> SUFFICES ASSUME NEW v \in Requests, (Answered(v))', v # u PROVE v \in AnsweredSet
        BY DEF AnsweredSet, Requests
      <4>1. Answered(v)
        BY <3>5
      <4> QED
        BY <4>1 DEF AnsweredSet
    <3>9. CASE AnsweredSet' = AnsweredSet
      BY <3>1, <3>9 DEF AnsweredSet
    <3>10. CASE AnsweredSet' # AnsweredSet
      <4>1. AnsweredSet' = AnsweredSet \cup {u} /\ u \notin AnsweredSet
        BY <3>7, <3>8, <3>10
      <4>2. Abstract!Answer(u)
        BY <3>1, <3>6, <4>1 DEF AnsweredSet, Abstract!Answer
      <4>3. u \in 1..N
        BY <3>3 DEF Requests
      <4> QED
        BY <4>2, <4>3
    <3> QED
      BY <3>9, <3>10
  <2>7. ASSUME NEW t \in Requests,
               Label(t) \/ Encode(t) \/ Acquire(t) \/ TakeChunk(t) \/ SendFails(t) \/ Release(t)
        PROVE  UNCHANGED Abstract!rvars
    <3>1. UNCHANGED <<size, wire, pending, rpc>>
      BY <2>7 DEF Label, Encode, Acquire, TakeChunk, SendFails, Release, readerVars, replyVars,
                  sendVars
    <3> QED
      BY <2>1, <3>1
  <2>8. CASE SendRequest \/ ClientLeaves \/ UNCHANGED vars
    BY <2>1, <2>8 DEF SendRequest, ClientLeaves, readerVars, replyVars, sendVars, vars
  <2> QED
    BY <1>2, <2>2, <2>3, <2>4, <2>5, <2>6, <2>7, <2>8 DEF Next, Reader, Sender, Finished
<1> QED
  BY <1>1, <1>2, IInvariant, PTL DEF Spec, RefinesResponder, Abstract!Spec

-----------------------------------------------------------------------------
(* Where the Request-ID of thread t is: not yet anywhere, in the headers   *)
(* of its own response object, in its encoded response.                    *)
Labelled(t) ==
  /\ object[t] = t
  /\ tpc[t] \in {"none", "handling", "labelling"} => header[t] = NoId
  /\ tpc[t] \in {"encoding", "ready", "sending", "done"} => header[t] = Id[t]
  /\ tpc[t] \in {"ready", "sending", "done"} => echo[t] = Id[t]

LabelInv == \A t \in Requests : Labelled(t)

LEMMA LabelStep ==
  ASSUME Cached = {}, IInv, LabelInv, [Next]_vars
  PROVE  LabelInv'
<1> USE RequestsArePositive
<1>a. TypeOK /\ ThreadsInv
  BY DEF IInv
<1>1. ASSUME UNCHANGED <<tpc, object, header, echo>> PROVE LabelInv'
  BY <1>1 DEF LabelInv, Labelled, Requests
<1>2. CASE ReadRequest
  <2>1. NextRequest \in Requests /\ tpc[NextRequest] = "none"
    BY <1>a, <1>2, LenProperties DEF TypeOK, ThreadsInv, ReadRequest, NextRequest, Requests
  <2>2. /\ UNCHANGED <<object, header, echo>>
        /\ tpc' = [tpc EXCEPT ![NextRequest] = "handling"]
    BY <1>2 DEF ReadRequest, replyVars
  <2>3. ASSUME NEW t \in Requests PROVE Labelled(t)'
    BY <1>a, <2>1, <2>2 DEF TypeOK, LabelInv, Labelled
  <2> QED
    BY <2>3 DEF LabelInv, Requests
<1>3. ASSUME NEW t \in Requests,
             Handle(t) \/ Label(t) \/ Encode(t) \/ Acquire(t) \/ SendFails(t) \/ Release(t)
      PROVE  LabelInv'
  <2>1. t \in 1..Len(pending) /\ pending[t] = t
    <3>1. tpc[t] # "none"
      BY <1>3 DEF Handle, Label, Encode, Acquire, SendFails, Release
    <3>2. Len(pending) \in Nat /\ DOMAIN pending = 1..Len(pending)
      BY <1>a, LenProperties DEF TypeOK
    <3> QED
      BY <1>a, <3>1, <3>2 DEF ThreadsInv
  <2>2. /\ tpc \in [Requests -> ThreadStates] /\ object \in [Requests -> 0..N]
        /\ DOMAIN header = 0..N /\ DOMAIN echo = Requests /\ t \in 0..N
        /\ Labelled(t) /\ object[t] = t
    BY <1>a DEF TypeOK, LabelInv, Labelled
  <2>3. /\ \A u \in Requests \ {t} : tpc'[u] = tpc[u] /\ object'[u] = object[u]
        /\ \A u \in Requests \ {t} : header'[u] = header[u] /\ echo'[u] = echo[u]
        /\ Labelled(t)'
    <3>1. CASE Handle(t)
      <4>1. object' = [object EXCEPT ![t] = t] \/ object' = object
        BY <3>1 DEF Handle
      <4>2. object'[t] = t /\ \A u \in Requests \ {t} : object'[u] = object[u]
        BY <2>2, <4>1
      <4> QED
        BY <2>2, <3>1, <4>2 DEF Handle, Labelled
    <3>2. CASE Label(t)
      <4>1. /\ UNCHANGED <<object, echo>> /\ tpc' = [tpc EXCEPT ![t] = "encoding"]
            /\ header[t] = NoId
            /\ header' = IF Id[t] = NoId THEN header ELSE [header EXCEPT ![t] = Id[t]]
        BY <2>1, <2>2, <3>2 DEF Label, Labelled
      <4>2. header'[t] = Id[t] /\ \A u \in Requests \ {t} : header'[u] = header[u]
        BY <2>2, <4>1
      <4> QED
        BY <2>2, <4>1, <4>2 DEF Labelled
    <3>3. CASE Encode(t)
      BY <2>2, <3>3 DEF Encode, Labelled
    <3>4. CASE Acquire(t) \/ SendFails(t) \/ Release(t)
      BY <2>2, <3>4 DEF Acquire, SendFails, Release, replyVars, Labelled
    <3> QED
      BY <1>3, <3>1, <3>2, <3>3, <3>4
  <2>4. ASSUME NEW u \in Requests PROVE Labelled(u)'
    BY <2>3 DEF LabelInv, Labelled
  <2> QED
    BY <2>4 DEF LabelInv, Requests
<1> QED
  BY <1>1, <1>2, <1>3
  DEF Next, Reader, Sender, SendRequest, ClientLeaves, ReadNone, ReadRaises, Join, JoinEnds,
      Close, TakeChunk, SendCell, Finished, vars, replyVars

(* When no two handlers return the same response object, every response    *)
(* carries the Request-ID of the request it answers, however the threads   *)
(* interleave with the reader and with each other.                         *)
THEOREM OwnIdEchoed ==
  ASSUME Cached = {}
  PROVE  Spec => []EchoesOwnId
<1>1. Init => LabelInv
  BY RequestsArePositive DEF Init, LabelInv, Labelled, Requests
<1>2. IInv /\ LabelInv /\ [Next]_vars => LabelInv'
  BY LabelStep
<1>3. LabelInv => EchoesOwnId
  BY DEF LabelInv, Labelled, EchoesOwnId
<1> QED
  BY <1>1, <1>2, <1>3, IInvariant, PTL DEF Spec

-----------------------------------------------------------------------------
(* A sequence of responses of which only the last may be unfinished, and   *)
(* one whose last response is finished too.                                *)
Complete(s) ==
  \A k \in DOMAIN s :
    /\ s[k].i = 1 => k = 1 \/ s[k - 1].i = s[k - 1].n
    /\ s[k].i > 1 => k > 1 /\ s[k - 1] = [s[k] EXCEPT !.i = @ - 1]

AtBoundary(s) == s = <<>> \/ s[Len(s)].i = s[Len(s)].n

(* A thread that has a response has one of at least one cell. *)
SizeInv ==
  \A t \in Requests :
    tpc[t] \in {"labelling", "encoding", "ready", "sending", "done"} => size[t] > 0

(* While the socket is up nothing has failed, and the stream is complete.  *)
CompleteInv ==
  /\ Complete(wire)
  /\ SocketUp => Complete(Stream) /\ AtBoundary(Stream)

(* A whole response behind a finished one. *)
LEMMA CompleteExtend ==
  ASSUME NEW s \in Seq(Cell), Complete(s), AtBoundary(s),
         NEW t \in Requests, size[t] \in Nat, size[t] > 0
  PROVE  Complete(s \o Response(t)) /\ AtBoundary(s \o Response(t))
<1> DEFINE r == Response(t)
           u == s \o r
<1>1. /\ r \in Seq(Cell) /\ Len(r) = size[t]
      /\ \A i \in 1..size[t] : r[i] = [t |-> t, i |-> i, n |-> size[t]]
  BY ResponseType
<1> HIDE DEF r
<1>2. /\ Len(s) \in Nat /\ DOMAIN s = 1..Len(s)
      /\ u \in Seq(Cell) /\ Len(u) = Len(s) + size[t]
      /\ DOMAIN u = 1..(Len(s) + size[t])
      /\ \A k \in 1..Len(s) : u[k] = s[k]
      /\ \A k \in 1..(Len(s) + size[t]) : k > Len(s) =>
           k - Len(s) \in 1..size[t] /\ u[k] = r[k - Len(s)]
  BY <1>1, ConcatTwo, LenProperties
<1> HIDE DEF u
<1>3. \A k \in 1..(Len(s) + size[t]) : k > Len(s) =>
        u[k] = [t |-> t, i |-> k - Len(s), n |-> size[t]]
  BY <1>1, <1>2
<1>4. ASSUME NEW k \in DOMAIN u
      PROVE  /\ u[k].i = 1 => k = 1 \/ u[k - 1].i = u[k - 1].n
             /\ u[k].i > 1 => k > 1 /\ u[k - 1] = [u[k] EXCEPT !.i = @ - 1]
  <2>1. CASE k <= Len(s)
    <3>1. k \in 1..Len(s) /\ u[k] = s[k] /\ (k > 1 => k - 1 \in 1..Len(s) /\ u[k - 1] = s[k - 1])
      BY <1>2, <2>1
    <3>2. /\ s[k].i = 1 => k = 1 \/ s[k - 1].i = s[k - 1].n
          /\ s[k].i > 1 => k > 1 /\ s[k - 1] = [s[k] EXCEPT !.i = @ - 1]
      BY <1>2, <3>1 DEF Complete
    <3>3. k = 1 \/ k > 1
      BY <3>1
    <3> QED
      BY <3>1, <3>2, <3>3
  <2>2. CASE k = Len(s) + 1
    <3>1. u[k].i = 1
      <4>1. k > Len(s) /\ k - Len(s) = 1 /\ k \in 1..(Len(s) + size[t])
        BY <1>2, <2>2
      <4>2. u[k] = [t |-> t, i |-> 1, n |-> size[t]]
        BY <1>3, <4>1
      <4> QED
        BY <4>2
    <3>2. CASE Len(s) = 0
      BY <2>2, <3>1, <3>2
    <3>3. CASE Len(s) > 0
      <4>1. s # <<>> /\ k - 1 = Len(s) /\ u[k - 1] = s[Len(s)]
        BY <1>2, <2>2, <3>3
      <4> QED
        BY <3>1, <4>1 DEF AtBoundary
    <3> QED
      BY <1>2, <3>2, <3>3
  <2>3. CASE k > Len(s) + 1
    <3>1. /\ k \in 1..(Len(s) + size[t]) /\ k > Len(s) /\ k - 1 > Len(s)
          /\ k - 1 \in 1..(Len(s) + size[t]) /\ k > 1
          /\ (k - Len(s)) - 1 = (k - 1) - Len(s) /\ k - Len(s) # 1
      BY <1>2, <2>3
    <3>2. /\ u[k] = [t |-> t, i |-> k - Len(s), n |-> size[t]]
          /\ u[k - 1] = [t |-> t, i |-> (k - 1) - Len(s), n |-> size[t]]
      BY <1>3, <3>1
    <3> QED
      BY <3>1, <3>2
  <2> QED
    BY <1>2, <2>1, <2>2, <2>3
<1>5. AtBoundary(u)
  <2>1. Len(u) \in 1..(Len(s) + size[t]) /\ Len(u) > Len(s) /\ Len(u) - Len(s) = size[t]
    BY <1>2
  <2>2. u[Len(u)] = [t |-> t, i |-> size[t], n |-> size[t]]
    BY <1>3, <2>1
  <2> QED
    BY <2>2 DEF AtBoundary
<1> QED
  BY <1>4, <1>5 DEF Complete, u, r

(* The front of a complete sequence is complete. *)
LEMMA WireComplete ==
  ASSUME TypeOK, Complete(Stream)
  PROVE  Complete(wire)
<1> SUFFICES ASSUME NEW k \in DOMAIN wire
             PROVE  /\ wire[k].i = 1 => k = 1 \/ wire[k - 1].i = wire[k - 1].n
                    /\ wire[k].i > 1 => k > 1 /\ wire[k - 1] = [wire[k] EXCEPT !.i = @ - 1]
  BY DEF Complete
<1>1. DOMAIN wire = 1..Len(wire) /\ Len(wire) \in Nat
  BY LenProperties DEF TypeOK
<1>2. k \in DOMAIN Stream /\ Stream[k] = wire[k]
  BY WireInStream
<1>3. k > 1 => Stream[k - 1] = wire[k - 1]
  <2>1. k > 1 => k - 1 \in DOMAIN wire
    BY <1>1
  <2> QED
    BY <2>1, WireInStream
<1>4. k = 1 \/ k > 1
  BY <1>1
<1> QED
  BY <1>2, <1>3, <1>4 DEF Complete

(* When a thread leaves its critical section in peace, nothing is left to  *)
(* send.                                                                   *)
LEMMA ReleaseStream ==
  ASSUME IInv, NEW t \in Requests, Release(t)
  PROVE  Stream = wire /\ Stream' = wire
<1>1. TypeOK /\ LockInv
  BY DEF IInv
<1>2. /\ lock = t /\ lock' = 0 /\ t # 0 /\ chunk[t] = <<>> /\ wbuf = <<>>
      /\ wbuf' = <<>> /\ wire' = wire
  BY <1>1, RequestsArePositive DEF LockInv, Release
<1>3. Held = <<>> /\ Held' = <<>>
  BY <1>2 DEF Held
<1>4. wire \o <<>> = wire
  BY <1>1, StreamType, ConcatEmptySeq
<1> QED
  BY <1>2, <1>3, <1>4 DEF Stream

LEMMA SizeStep ==
  ASSUME IInv, SizeInv, [Next]_vars
  PROVE  SizeInv'
<1> USE RequestsArePositive
<1>a. TypeOK /\ ThreadsInv
  BY DEF IInv
<1>1. CASE UNCHANGED <<tpc, size>>
  BY <1>1 DEF SizeInv
<1>2. CASE ReadRequest
  <2>1. NextRequest \in Requests
    BY <1>a, <1>2, LenProperties DEF TypeOK, ThreadsInv, ReadRequest, NextRequest, Requests
  <2>2. UNCHANGED size /\ tpc' = [tpc EXCEPT ![NextRequest] = "handling"]
    BY <1>2 DEF ReadRequest, replyVars
  <2> QED
    BY <1>a, <2>1, <2>2 DEF TypeOK, SizeInv
<1>3. ASSUME NEW t \in Requests, Handle(t) PROVE SizeInv'
  <2>1. t \in 1..Len(pending)
    BY <1>a, <1>3, LenProperties DEF TypeOK, ThreadsInv, Handle
  <2>2. pending[t] \in Requests
    BY <1>a, <2>1, ElementOfSeq DEF TypeOK
  <2>3. size'[t] \in {Body[pending[t]], 1} /\ \A u \in Requests \ {t} : size'[u] = size[u]
    BY <1>a, <1>3, HandleEffect DEF TypeOK
  <2>4. size'[t] > 0
    BY <2>2, <2>3, PPAssumption
  <2>5. \A u \in Requests \ {t} : tpc'[u] = tpc[u]
    BY <1>a, <1>3 DEF TypeOK, Handle
  <2> QED
    BY <2>3, <2>4, <2>5 DEF SizeInv
<1>4. ASSUME NEW t \in Requests,
             Label(t) \/ Encode(t) \/ Acquire(t) \/ SendFails(t) \/ Release(t)
      PROVE  SizeInv'
  <2>1. UNCHANGED size /\ tpc[t] \in {"labelling", "encoding", "ready", "sending"}
    BY <1>4 DEF Label, Encode, Acquire, SendFails, Release, replyVars
  <2>2. \A u \in Requests \ {t} : tpc'[u] = tpc[u]
    BY <1>a, <1>4 DEF TypeOK, Label, Encode, Acquire, SendFails, Release
  <2> QED
    BY <2>1, <2>2 DEF SizeInv
<1> QED
  BY <1>1, <1>2, <1>3, <1>4
  DEF Next, Reader, Sender, SendRequest, ClientLeaves, ReadNone, ReadRaises, Join, JoinEnds,
      Close, TakeChunk, SendCell, Finished, vars, replyVars

(* Once the socket is down it stays down. *)
LEMMA SocketStaysDown == [Next]_vars /\ ~SocketUp => ~SocketUp'
  BY DEF SocketUp, Next, SendRequest, ClientLeaves, Reader, ReadRequest, ReadNone, ReadRaises,
         Join, JoinEnds, Close, Handle, Sender, Label, Encode, Acquire, TakeChunk, SendCell,
         SendFails, Release, Finished, vars, clientVars, readerVars

LEMMA CompleteStep ==
  ASSUME SendMayTimeout = FALSE, IInv, SizeInv, CompleteInv, [Next]_vars
  PROVE  CompleteInv'
<1> USE RequestsArePositive
<1>a. TypeOK /\ LockInv /\ TypeOK'
  BY StepInv DEF IInv
<1>b. ASSUME UNCHANGED wire, Stream' = Stream PROVE CompleteInv'
  BY <1>b, SocketStaysDown DEF CompleteInv
<1>1. CASE UNCHANGED sendVars
  <2>1. Stream' = Stream /\ UNCHANGED wire
    BY <1>1 DEF Stream, Held, sendVars
  <2> QED
    BY <1>b, <2>1
<1>2. ASSUME NEW t \in Requests, Acquire(t) PROVE CompleteInv'
  <2>1. Stream' = Stream \o Response(t) /\ UNCHANGED wire
    BY <1>2, AcquireStream DEF Acquire
  <2>2. size[t] \in Nat /\ size[t] > 0 /\ Stream \in Seq(Cell)
    BY <1>a, <1>2, StreamType DEF Acquire, SizeInv, TypeOK
  <2>3. SocketUp => Complete(Stream') /\ AtBoundary(Stream')
    BY <2>1, <2>2, CompleteExtend DEF CompleteInv
  <2> QED
    BY <2>1, <2>3, SocketStaysDown DEF CompleteInv
<1>3. ASSUME NEW t \in Requests, TakeChunk(t) PROVE CompleteInv'
  BY <1>b, <1>3, TakeChunkStream DEF TakeChunk
<1>4. ASSUME NEW t \in Requests, SendCell(t) PROVE CompleteInv'
  <2>1. Stream' = Stream /\ SocketUp
    BY <1>4, SendCellStream DEF SendCell
  <2>2. Complete(Stream) /\ AtBoundary(Stream)
    BY <2>1 DEF CompleteInv
  <2>3. TypeOK /\ Complete(Stream) => Complete(wire)
    BY WireComplete
  <2>4. TypeOK' /\ Complete(Stream)' => Complete(wire)'
    BY WireComplete, PTL
  <2>5. Complete(Stream)' /\ AtBoundary(Stream)'
    BY <2>1, <2>2 DEF Complete, AtBoundary
  <2> QED
    BY <1>a, <2>4, <2>5 DEF CompleteInv
<1>5. ASSUME NEW t \in Requests, SendFails(t) PROVE CompleteInv'
  <2>1. ~SocketUp /\ UNCHANGED wire
    BY <1>5 DEF SendFails
  <2> QED
    BY <2>1, SocketStaysDown DEF CompleteInv, Complete
<1>6. ASSUME NEW t \in Requests, Release(t) PROVE CompleteInv'
  BY <1>b, <1>6, ReleaseStream DEF Release
<1> QED
  BY <1>1, <1>2, <1>3, <1>4, <1>5, <1>6
  DEF Next, Reader, Sender, SendRequest, ClientLeaves, ReadRequest, ReadNone, ReadRaises, Join,
      JoinEnds, Close, Handle, Label, Encode, Finished, vars

(* As long as no sendall() times out, the stream is a sequence of complete *)
(* responses and at most one unfinished one at its end: whatever else goes *)
(* wrong, the thread that loses the socket is the last that wrote to it.   *)
THEOREM StreamOfResponses ==
  ASSUME SendMayTimeout = FALSE
  PROVE  Spec => []CompleteResponses
<1>1. Init => SizeInv /\ CompleteInv
  <2> SUFFICES ASSUME Init PROVE SizeInv /\ CompleteInv
    OBVIOUS
  <2>1. SizeInv
    BY DEF Init, SizeInv
  <2>2. Stream = <<>> /\ wire = <<>>
    BY EmptySeq, ConcatEmptySeq DEF Init, Stream, Held
  <2> QED
    BY <2>1, <2>2, EmptySeq DEF CompleteInv, Complete, AtBoundary
<1>2. IInv /\ SizeInv /\ CompleteInv /\ [Next]_vars => SizeInv' /\ CompleteInv'
  BY SizeStep, CompleteStep
<1>3. CompleteInv => CompleteResponses
  BY DEF CompleteInv, Complete, CompleteResponses
<1> QED
  BY <1>1, <1>2, <1>3, IInvariant, PTL DEF Spec

-----------------------------------------------------------------------------
(* The whole response of thread t is in the stream. *)
Covered(t) ==
  \A i \in 1..size[t] :
    \E k \in DOMAIN Stream : Stream[k] = [t |-> t, i |-> i, n |-> size[t]]

(* While the socket is up, a thread in its critical section has not lost a *)
(* cell and one that is done has sent them all.                            *)
SentInv ==
  SocketUp =>
    \A t \in Requests :
      /\ tpc[t] = "sending" => Covered(t)
      /\ tpc[t] = "done" => Answered(t)

(* The reader closes the socket behind the threads it has started. *)
JoinInv ==
  /\ rpc = "reading" => joined = 0
  /\ rpc = "joining" => \A t \in 1..joined : tpc[t] = "done"
  /\ rpc \in {"closing", "closed"} => \A t \in 1..Len(pending) : tpc[t] = "done"

(* No wait of the server runs out and no head makes _parse_request raise.  *)
Patient ==
  /\ SendMayTimeout = FALSE
  /\ JoinMayExpire = FALSE
  /\ \A r \in Requests : Kind[r] # "badlength"

LEMMA SentStep ==
  ASSUME Patient, IInv, SizeInv, SentInv, [Next]_vars
  PROVE  SentInv'
<1> SUFFICES ASSUME SocketUp, SocketUp'
             PROVE  SentInv'
  BY SocketStaysDown DEF SentInv
<1> USE RequestsArePositive
<1>a. TypeOK /\ ThreadsInv /\ LockInv
  BY DEF IInv
<1>b. \A t \in Requests : /\ tpc[t] = "sending" => Covered(t)
                          /\ tpc[t] = "done" => Answered(t)
  BY DEF SentInv
<1>c. ASSUME NEW u \in Requests, size'[u] = size[u], Stream' = Stream, Covered(u)
      PROVE  (Covered(u))'
  BY <1>c DEF Covered
<1>d. ASSUME NEW u \in Requests, size'[u] = size[u], wire' = wire, Answered(u)
      PROVE  (Answered(u))'
  BY <1>d DEF Answered
<1>e. ASSUME UNCHANGED sendVars,
             \A u \in Requests : tpc'[u] \in {"sending", "done"} =>
               tpc'[u] = tpc[u] /\ size'[u] = size[u]
      PROVE  SentInv'
  <2>1. Stream' = Stream /\ wire' = wire
    BY <1>e DEF Stream, Held, sendVars
  <2>2. ASSUME NEW u \in Requests
        PROVE  /\ tpc'[u] = "sending" => (Covered(u))'
               /\ tpc'[u] = "done" => (Answered(u))'
    <3>1. CASE tpc'[u] = "sending"
      <4>1. size'[u] = size[u] /\ Covered(u)
        BY <1>b, <1>e, <3>1
      <4> QED
        BY <1>c, <2>1, <3>1, <4>1
    <3>2. CASE tpc'[u] = "done"
      <4>1. size'[u] = size[u] /\ Answered(u)
        BY <1>b, <1>e, <3>2
      <4> QED
        BY <1>d, <2>1, <3>2, <4>1
    <3> QED
      BY <3>1, <3>2
  <2> QED
    BY <2>2 DEF SentInv, Requests
<1>1. CASE UNCHANGED <<tpc, size, sendVars>>
  BY <1>1, <1>e
<1>2. CASE ReadRequest
  <2>1. NextRequest \in Requests
    BY <1>a, <1>2, LenProperties DEF TypeOK, ThreadsInv, ReadRequest, NextRequest, Requests
  <2>2. UNCHANGED <<size, sendVars>> /\ tpc' = [tpc EXCEPT ![NextRequest] = "handling"]
    BY <1>2 DEF ReadRequest, replyVars
  <2> QED
    BY <1>a, <1>e, <2>1, <2>2 DEF TypeOK
<1>3. ASSUME NEW t \in Requests, Handle(t) \/ Label(t) \/ Encode(t) PROVE SentInv'
  <2>1. /\ UNCHANGED sendVars /\ tpc'[t] \in {"labelling", "encoding", "ready"}
        /\ \A u \in Requests \ {t} : tpc'[u] = tpc[u]
    BY <1>a, <1>3 DEF TypeOK, Handle, Label, Encode
  <2>2. \A u \in Requests \ {t} : size'[u] = size[u]
    BY <1>a, <1>3, HandleEffect DEF TypeOK, Label, Encode
  <2> QED
    BY <1>e, <2>1, <2>2
<1>4. ASSUME NEW t \in Requests, Acquire(t) PROVE SentInv'
  <2>1. /\ Stream' = Stream \o Response(t) /\ UNCHANGED <<size, wire>> /\ lock = 0
        /\ tpc' = [tpc EXCEPT ![t] = "sending"]
    BY <1>4, AcquireStream DEF Acquire, replyVars
  <2>2. (Covered(t))'
    <3> SUFFICES ASSUME NEW i \in 1..size[t]
                 PROVE  \E k \in DOMAIN Stream' : Stream'[k] = [t |-> t, i |-> i, n |-> size[t]]
      BY <2>1 DEF Covered
    <3>1. /\ Response(t) \in Seq(Cell) /\ Len(Response(t)) = size[t]
          /\ Response(t)[i] = [t |-> t, i |-> i, n |-> size[t]]
          /\ Stream \in Seq(Cell) /\ size[t] \in Nat
      BY <1>a, ResponseType, StreamType DEF TypeOK
    <3>2. /\ Len(Stream) + i \in DOMAIN Stream'
          /\ Stream'[Len(Stream) + i] = Response(t)[i]
      <4>1. /\ DOMAIN (Stream \o Response(t)) = 1..Len(Stream) + size[t]
            /\ (Stream \o Response(t))[Len(Stream) + i] = Response(t)[i]
            /\ Len(Stream) \in Nat
        BY <3>1, ConcatTwo
      <4>2. Len(Stream) + i \in 1..Len(Stream) + size[t]
        BY <3>1, <4>1
      <4> QED
        BY <2>1, <4>1, <4>2
    <3> QED
      BY <3>1, <3>2
  <2>3. ASSUME NEW u \in Requests, u # t
        PROVE  /\ tpc'[u] # "sending"
               /\ tpc'[u] = "done" => (Answered(u))'
    BY <1>a, <1>b, <1>d, <2>1, <2>3 DEF TypeOK, LockInv
  <2>4. tpc'[t] = "sending"
    BY <1>a, <2>1 DEF TypeOK
  <2> QED
    BY <2>2, <2>3, <2>4 DEF SentInv, Requests
<1>5. ASSUME NEW t \in Requests, TakeChunk(t) PROVE SentInv'
  <2>1. Stream' = Stream /\ UNCHANGED <<size, wire, tpc>>
    BY <1>5, TakeChunkStream DEF TakeChunk, replyVars
  <2>2. ASSUME NEW u \in Requests
        PROVE  /\ tpc'[u] = "sending" => (Covered(u))'
               /\ tpc'[u] = "done" => (Answered(u))'
    <3>1. CASE tpc[u] = "sending"
      BY <1>b, <1>c, <2>1, <3>1
    <3>2. CASE tpc[u] = "done"
      BY <1>b, <1>d, <2>1, <3>2
    <3> QED
      BY <2>1, <3>1, <3>2
  <2> QED
    BY <2>2 DEF SentInv, Requests
<1>6. ASSUME NEW t \in Requests, SendCell(t) PROVE SentInv'
  <2>1. Stream' = Stream /\ UNCHANGED <<size, tpc>>
    BY <1>6, SendCellStream DEF SendCell, replyVars
  <2>2. PICK x \in Cell : wire' = Append(wire, x)
    BY <1>a, <1>6, HeadTailProperties DEF SendCell, TypeOK
  <2>3. ASSUME NEW u \in Requests, Answered(u) PROVE (Answered(u))'
    <3> SUFFICES ASSUME NEW i \in 1..size[u]
                 PROVE  \E k \in DOMAIN wire' : wire'[k] = [t |-> u, i |-> i, n |-> size[u]]
      BY <2>1, <2>3 DEF Answered
    <3>1. PICK k \in DOMAIN wire : wire[k] = [t |-> u, i |-> i, n |-> size[u]]
      BY <2>3 DEF Answered
    <3> QED
      BY <1>a, <2>2, <3>1, WireAppend
  <2>4. ASSUME NEW u \in Requests
        PROVE  /\ tpc'[u] = "sending" => (Covered(u))'
               /\ tpc'[u] = "done" => (Answered(u))'
    <3>1. CASE tpc[u] = "sending"
      BY <1>b, <1>c, <2>1, <3>1
    <3>2. CASE tpc[u] = "done"
      BY <1>b, <2>1, <2>3, <3>2
    <3> QED
      BY <2>1, <3>1, <3>2
  <2> QED
    BY <2>4 DEF SentInv, Requests
<1>7. ASSUME NEW t \in Requests, SendFails(t) PROVE FALSE
  BY <1>7 DEF SendFails, Patient
<1>8. ASSUME NEW t \in Requests, Release(t) PROVE SentInv'
  <2>1. /\ Stream = wire /\ UNCHANGED <<size, wire>> /\ lock = t
        /\ tpc' = [tpc EXCEPT ![t] = "done"] /\ tpc[t] = "sending"
    BY <1>a, <1>8, ReleaseStream DEF Release, LockInv, replyVars
  <2>2. (Answered(t))'
    <3>1. Covered(t)
      BY <1>b, <2>1
    <3>2. size[t] > 0
      BY <2>1 DEF SizeInv
    <3> QED
      BY <2>1, <3>1, <3>2 DEF Covered, Answered
  <2>3. ASSUME NEW u \in Requests, u # t
        PROVE  /\ tpc'[u] # "sending"
               /\ tpc'[u] = "done" => (Answered(u))'
    BY <1>a, <1>b, <1>d, <2>1, <2>3 DEF TypeOK, LockInv
  <2>4. tpc'[t] = "done"
    BY <1>a, <2>1 DEF TypeOK
  <2> QED
    BY <2>2, <2>3, <2>4 DEF SentInv, Requests
<1> QED
  BY <1>1, <1>2, <1>3, <1>4, <1>5, <1>6, <1>7, <1>8
  DEF Next, Reader, Sender, SendRequest, ClientLeaves, ReadNone, ReadRaises, Join, JoinEnds,
      Close, Finished, vars, replyVars

LEMMA JoinStep ==
  ASSUME Patient, IInv, JoinInv, [Next]_vars
  PROVE  JoinInv'
<1>a. /\ TypeOK /\ ThreadsInv /\ Len(pending) \in Nat /\ joined \in Nat
      /\ N \in Nat /\ Len(pending) <= N
  <2>1. TypeOK /\ ThreadsInv
    BY DEF IInv
  <2> QED
    BY <2>1, PPAssumption, LenProperties DEF TypeOK
<1>1. ASSUME UNCHANGED readerVars,
             \A t \in Requests : tpc[t] = "done" => tpc'[t] = "done"
      PROVE  JoinInv'
  <2>1. /\ \A t \in 1..Len(pending) : t \in Requests
        /\ \A t \in 1..joined : t \in Requests
    BY <1>a DEF Requests, ThreadsInv
  <2> QED
    BY <1>1, <2>1 DEF JoinInv, readerVars
<1>2. CASE ReadRequest
  BY <1>2 DEF JoinInv, ReadRequest
<1>3. CASE ReadNone
  BY <1>3 DEF JoinInv, ReadNone
<1>4. CASE ReadRaises
  <2>1. NextRequest \in Requests
    BY <1>a, <1>4 DEF ReadRaises, NextRequest, TypeOK, Requests
  <2> QED
    BY <1>4, <2>1 DEF ReadRaises, Patient
<1>5. CASE Join
  <2>1. /\ rpc = "joining" /\ rpc' = "joining" /\ joined' = joined + 1 /\ tpc' = tpc
        /\ tpc[joined + 1] = "done"
    BY <1>5 DEF Join, Patient
  <2>2. \A t \in 1..(joined + 1) : t \in 1..joined \/ t = joined + 1
    BY <1>a
  <2> QED
    BY <2>1, <2>2 DEF JoinInv
<1>6. CASE JoinEnds
  BY <1>6 DEF JoinInv, JoinEnds
<1>7. CASE Close
  BY <1>7 DEF JoinInv, Close
<1>8. ASSUME NEW t \in Requests, Handle(t) \/ Sender(t) PROVE JoinInv'
  <2>1. UNCHANGED readerVars /\ tpc[t] # "done"
    BY <1>8 DEF Handle, Sender, Label, Encode, Acquire, TakeChunk, SendCell, SendFails, Release
  <2>2. \A u \in Requests \ {t} : tpc'[u] = tpc[u]
    BY <1>a, <1>8 DEF TypeOK, Handle, Sender, Label, Encode, Acquire, TakeChunk, SendCell,
                      SendFails, Release
  <2> QED
    BY <1>1, <2>1, <2>2
<1>9. CASE SendRequest \/ ClientLeaves \/ UNCHANGED vars
  BY <1>1, <1>9 DEF SendRequest, ClientLeaves, vars
<1> QED
  BY <1>2, <1>3, <1>4, <1>5, <1>6, <1>7, <1>8, <1>9 DEF Next, Reader, Finished

LEMMA ClosedStep ==
  ASSUME Patient, IInv, SentInv, JoinInv, ClosedMeansAnswered, [Next]_vars
  PROVE  ClosedMeansAnswered'
<1> SUFFICES ASSUME rpc' = "closed", peer' # "gone"
             PROVE  \A t \in 1..Len(pending') : (Answered(t))'
  BY DEF ClosedMeansAnswered
<1>a. TypeOK /\ ThreadsInv /\ Len(pending) \in Nat /\ Len(pending) <= N
  <2>1. TypeOK /\ ThreadsInv
    BY DEF IInv
  <2> QED
    BY <2>1, PPAssumption, LenProperties DEF TypeOK
<1>1. peer # "gone"
  BY DEF Next, SendRequest, ClientLeaves, Reader, ReadRequest, ReadNone, ReadRaises, Join, JoinEnds,
         Close, Handle, Sender, Label, Encode, Acquire, TakeChunk, SendCell, SendFails, Release,
         Finished, vars, clientVars
<1>2. ASSUME UNCHANGED <<size, wire, pending>>, \A t \in 1..Len(pending) : Answered(t)
      PROVE  \A t \in 1..Len(pending') : (Answered(t))'
  BY <1>2 DEF Answered
<1>3. CASE Close
  <2>1. SocketUp /\ rpc = "closing" /\ UNCHANGED <<size, wire, pending>>
    BY <1>1, <1>3 DEF Close, SocketUp, replyVars, sendVars
  <2>2. ASSUME NEW t \in 1..Len(pending) PROVE Answered(t)
    <3>1. t \in Requests /\ tpc[t] = "done"
      BY <1>a, <2>1, PPAssumption DEF JoinInv, Requests
    <3> QED
      BY <2>1, <3>1 DEF SentInv
  <2> QED
    BY <1>2, <2>1, <2>2
<1>4. CASE rpc = "closed"
  <2>1. ASSUME NEW t \in Requests PROVE tpc[t] \in {"none", "done"}
    <3>1. t \in 1..Len(pending) \/ t > Len(pending)
      BY <1>a, PPAssumption DEF Requests
    <3> QED
      BY <1>4, <3>1, <1>a DEF JoinInv, ThreadsInv
  <2>2. ASSUME NEW t \in Requests PROVE ~Handle(t) /\ ~Sender(t)
    BY <2>1 DEF Handle, Sender, Label, Encode, Acquire, TakeChunk, SendCell, SendFails, Release
  <2>3. UNCHANGED <<size, wire, pending>>
    BY <1>4, <2>2
    DEF Next, SendRequest, ClientLeaves, Reader, ReadRequest, ReadNone, ReadRaises, Join,
        JoinEnds, Close, Finished, vars, readerVars, replyVars, sendVars
  <2> QED
    BY <1>1, <1>2, <1>4, <2>3 DEF ClosedMeansAnswered
<1>5. CASE rpc # "closed" /\ ~Close
  BY <1>5 DEF Next, SendRequest, ClientLeaves, Reader, ReadRequest, ReadNone, ReadRaises, Join,
              JoinEnds, Handle, Sender, Label, Encode, Acquire, TakeChunk, SendCell, SendFails,
              Release, Finished, vars, readerVars
<1> QED
  BY <1>3, <1>4, <1>5

(* When no wait of the server runs out and no head makes _parse_request    *)
(* raise, the join loop of _handle_conn does its work: the socket is not   *)
(* closed on a client that still reads before every accepted request has   *)
(* its complete response on the wire.                                      *)
THEOREM ClosedBehindAnswers ==
  ASSUME Patient
  PROVE  Spec => []ClosedMeansAnswered
<1>1. Init => SizeInv /\ SentInv /\ JoinInv /\ ClosedMeansAnswered
  BY DEF Init, SizeInv, SentInv, JoinInv, ClosedMeansAnswered
<1>2. /\ IInv /\ SizeInv /\ SentInv /\ JoinInv /\ ClosedMeansAnswered /\ [Next]_vars
      => SizeInv' /\ SentInv' /\ JoinInv' /\ ClosedMeansAnswered'
  BY SizeStep, SentStep, JoinStep, ClosedStep
<1> QED
  BY <1>1, <1>2, IInvariant, PTL DEF Spec
=============================================================================
