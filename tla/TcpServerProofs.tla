--------------------------- MODULE TcpServerProofs ---------------------------
(***************************************************************************)
(* For any number of clients and any listen queue: the state of TCPServer  *)
(* stays well-typed, the listen queue holds each waiting client once, and  *)
(* at most one connection is accepted after stop() has set its flag.       *)
(***************************************************************************)
EXTENDS TcpServer, TLAPS

(* A client waits at one place of the queue, and the connection the loop   *)
(* holds is no longer in it.                                               *)
QueuedOnce ==
  /\ \A i, j \in DOMAIN queue : queue[i] = queue[j] => i = j
  /\ accepted # NoConn => conn[accepted] = "accepted"

(* Only the accept() that was under way when the flag was set can still    *)
(* return a connection: the loop checks the flag before the next one.      *)
LateOnce == late = 0 \/ (late = 1 /\ stop /\ loop # "accept")

IInv == TypeOK /\ QueuedOnce /\ LateOnce

(* What the rest of a queue without repetitions holds. *)
LEMMA TailOfQueue ==
  ASSUME NEW q \in Seq(Conns), q # <<>>,
         \A i, j \in DOMAIN q : q[i] = q[j] => i = j
  PROVE  /\ Head(q) \in Conns
         /\ Tail(q) \in Seq(Conns)
         /\ \A i, j \in DOMAIN Tail(q) : Tail(q)[i] = Tail(q)[j] => i = j
         /\ {Tail(q)[i] : i \in DOMAIN Tail(q)} = {q[i] : i \in DOMAIN q} \ {Head(q)}
<1>1. Len(q) \in Nat /\ Len(q) > 0 /\ Head(q) = q[1] /\ DOMAIN q = 1..Len(q)
  OBVIOUS
<1>2. /\ Tail(q) \in Seq(Conns)
      /\ DOMAIN Tail(q) = 1..(Len(q) - 1)
      /\ \A i \in 1..(Len(q) - 1) : Tail(q)[i] = q[i + 1]
  BY <1>1
<1>3. \A i, j \in DOMAIN Tail(q) : Tail(q)[i] = Tail(q)[j] => i = j
  BY <1>1, <1>2
<1>4. ASSUME NEW x \in {q[i] : i \in DOMAIN q} \ {Head(q)}
      PROVE  x \in {Tail(q)[i] : i \in DOMAIN Tail(q)}
  <2>1. PICK i \in 1..Len(q) : x = q[i] /\ i # 1
    BY <1>1
  <2>2. i - 1 \in 1..(Len(q) - 1) /\ Tail(q)[i - 1] = x
    BY <1>1, <1>2, <2>1
  <2> QED
    BY <1>2, <2>2
<1>5. ASSUME NEW x \in {Tail(q)[i] : i \in DOMAIN Tail(q)}
      PROVE  x \in {q[i] : i \in DOMAIN q} \ {Head(q)}
  <2>1. PICK i \in 1..(Len(q) - 1) : x = q[i + 1]
    BY <1>2
  <2>2. i + 1 \in 1..Len(q) /\ 1 \in 1..Len(q) /\ i + 1 # 1
    BY <1>1
  <2> QED
    BY <1>1, <2>1, <2>2
<1> QED
  BY <1>1, <1>2, <1>3, <1>4, <1>5

(* What a queue holds behind an appended client. *)
LEMMA AppendToQueue ==
  ASSUME NEW q \in Seq(Conns), NEW c \in Conns,
         \A i, j \in DOMAIN q : q[i] = q[j] => i = j,
         \A i \in DOMAIN q : q[i] # c
  PROVE  /\ Append(q, c) \in Seq(Conns)
         /\ \A i, j \in DOMAIN Append(q, c) : Append(q, c)[i] = Append(q, c)[j] => i = j
         /\ {Append(q, c)[i] : i \in DOMAIN Append(q, c)} = {q[i] : i \in DOMAIN q} \cup {c}
<1>1. /\ Len(q) \in Nat /\ DOMAIN q = 1..Len(q)
      /\ Append(q, c) \in Seq(Conns)
      /\ DOMAIN Append(q, c) = 1..(Len(q) + 1)
      /\ \A i \in 1..Len(q) : Append(q, c)[i] = q[i]
      /\ Append(q, c)[Len(q) + 1] = c
  OBVIOUS
<1>2. \A i \in 1..(Len(q) + 1) : i \in 1..Len(q) \/ i = Len(q) + 1
  BY <1>1
<1>3. \A i \in 1..Len(q) : i \in 1..(Len(q) + 1)
  BY <1>1
<1>4. Len(q) + 1 \in 1..(Len(q) + 1)
  BY <1>1
<1>5. ASSUME NEW i \in DOMAIN Append(q, c), NEW j \in DOMAIN Append(q, c),
             Append(q, c)[i] = Append(q, c)[j]
      PROVE  i = j
  BY <1>1, <1>2, <1>5
<1>6. {Append(q, c)[i] : i \in DOMAIN Append(q, c)} \subseteq {q[i] : i \in DOMAIN q} \cup {c}
  BY <1>1, <1>2
<1>7. {q[i] : i \in DOMAIN q} \subseteq {Append(q, c)[i] : i \in DOMAIN Append(q, c)}
  BY <1>1, <1>3
<1>8. c \in {Append(q, c)[i] : i \in DOMAIN Append(q, c)}
  BY <1>1, <1>4
<1> QED
  BY <1>1, <1>5, <1>6, <1>7, <1>8

(* At the start nobody waits and nothing is accepted. *)
LEMMA InitIInv == Init => IInv
<1> SUFFICES ASSUME Init PROVE IInv
  OBVIOUS
<1>0. queue = <<>>
  BY DEF Init
<1>1. queue \in Seq(Conns) /\ DOMAIN queue = {} /\ Queued = {}
  BY <1>0 DEF Queued
<1>2. conn \in [Conns -> ConnStates] /\ In({"queued"}) = {}
  BY DEF Init, In, ConnStates
<1>3. TypeOK
  BY <1>1, <1>2 DEF Init, TypeOK
<1>4. QueuedOnce /\ LateOnce
  BY <1>1 DEF Init, QueuedOnce, LateOnce
<1> QED
  BY <1>3, <1>4 DEF IInv

(* Every step keeps the invariant. *)
LEMMA NextIInv ==
  ASSUME IInv, [Next]_vars
  PROVE  IInv'
<1> USE TcpAssumption, NoConnAssumption
<1>a. TypeOK /\ QueuedOnce /\ LateOnce
  BY DEF IInv
<1>b. ASSUME UNCHANGED <<queue, conn>>
      PROVE  Queued' = Queued /\ In({"queued"})' = In({"queued"})
  BY <1>b DEF Queued, In
<1>c. ASSUME UNCHANGED <<queue, accepted, conn>>
      PROVE  QueuedOnce'
  BY <1>a, <1>c DEF QueuedOnce
<1>1. CASE Start
  BY <1>a, <1>b, <1>c, <1>1 DEF Start, IInv, TypeOK, LateOnce, stopVars, loopVars
<1>2. CASE Serve
  BY <1>a, <1>b, <1>c, <1>2 DEF Serve, IInv, TypeOK, LateOnce, stopVars
<1>3. CASE SetStop
  BY <1>a, <1>b, <1>c, <1>3 DEF SetStop, IInv, TypeOK, LateOnce, loopVars
<1>4. CASE CloseListener
  <2>1. /\ conn' = [c \in Conns |-> IF c \in Queued THEN "reset" ELSE conn[c]]
        /\ queue' = <<>> /\ sock' = "closed" /\ stopper' = "done"
        /\ UNCHANGED <<stop, loop, accepted, late>>
    BY <1>4 DEF CloseListener, loopVars
  <2>2. conn' \in [Conns -> ConnStates]
    BY <1>a, <2>1 DEF TypeOK, ConnStates
  <2>3. queue' \in Seq(Conns) /\ DOMAIN queue' = {} /\ Queued' = {}
    BY <2>1 DEF Queued
  <2>4. In({"queued"})' = {}
    <3>1. \A c \in Conns : conn[c] = "queued" => c \in Queued
      BY <1>a DEF TypeOK, In
    <3> QED
      BY <2>1, <3>1 DEF In
  <2>5. accepted # NoConn => conn'[accepted] = "accepted"
    <3>1. accepted # NoConn => accepted \in Conns /\ accepted \notin Queued
      BY <1>a DEF TypeOK, QueuedOnce, In
    <3> QED
      BY <1>a, <2>1, <3>1 DEF QueuedOnce
  <2> QED
    BY <1>a, <2>1, <2>2, <2>3, <2>4, <2>5 DEF IInv, TypeOK, QueuedOnce, LateOnce
<1>5. CASE Check
  BY <1>a, <1>b, <1>c, <1>5 DEF Check, StopSeen, IInv, TypeOK, LateOnce, stopVars
<1>6. CASE Accept
  <2>1. /\ queue # <<>> /\ loop = "accept" /\ accepted' = Head(queue)
        /\ conn' = [conn EXCEPT ![Head(queue)] = "accepted"]
        /\ queue' = Tail(queue) /\ loop' = "spawn"
        /\ late' = IF stop THEN late + 1 ELSE late
        /\ UNCHANGED <<sock, stop, stopper>>
    BY <1>6 DEF Accept, stopVars
  <2>2. /\ Head(queue) \in Conns /\ queue' \in Seq(Conns)
        /\ \A i, j \in DOMAIN queue' : queue'[i] = queue'[j] => i = j
        /\ Queued' = Queued \ {Head(queue)}
    <3>1. /\ queue \in Seq(Conns)
          /\ \A i, j \in DOMAIN queue : queue[i] = queue[j] => i = j
      BY <1>a DEF TypeOK, QueuedOnce
    <3>2. /\ Head(queue) \in Conns
          /\ Tail(queue) \in Seq(Conns)
          /\ \A i, j \in DOMAIN Tail(queue) : Tail(queue)[i] = Tail(queue)[j] => i = j
          /\ {Tail(queue)[i] : i \in DOMAIN Tail(queue)}
               = {queue[i] : i \in DOMAIN queue} \ {Head(queue)}
      BY <2>1, <3>1, TailOfQueue
    <3> QED
      BY <2>1, <3>2 DEF Queued
  <2>3. conn' \in [Conns -> ConnStates] /\ conn'[accepted'] = "accepted"
    BY <1>a, <2>1, <2>2 DEF TypeOK, ConnStates
  <2>4. In({"queued"})' = In({"queued"}) \ {Head(queue)}
    BY <1>a, <2>1, <2>2 DEF TypeOK, In
  <2>5. LateOnce' /\ late' \in Nat
    BY <1>a, <2>1 DEF LateOnce, TypeOK
  <2>6. Head(queue) # NoConn
    BY <2>2
  <2> QED
    BY <1>a, <2>1, <2>2, <2>3, <2>4, <2>5, <2>6 DEF IInv, TypeOK, QueuedOnce
<1>7. CASE AcceptTimesOut
  BY <1>a, <1>b, <1>c, <1>7 DEF AcceptTimesOut, IInv, TypeOK, LateOnce, stopVars
<1>8. CASE AcceptFails
  BY <1>a, <1>b, <1>c, <1>8 DEF AcceptFails, IInv, TypeOK, LateOnce, stopVars
<1>9. CASE Spawn
  <2>1. accepted \in Conns /\ conn[accepted] = "accepted"
    BY <1>a, <1>9 DEF Spawn, TypeOK, QueuedOnce
  <2>2. In({"queued"})' = In({"queued"}) /\ conn' \in [Conns -> ConnStates]
    BY <1>a, <1>9, <2>1 DEF Spawn, TypeOK, In, ConnStates
  <2>3. Queued' = Queued
    BY <1>9 DEF Spawn, Queued
  <2> QED
    BY <1>a, <1>9, <2>2, <2>3
       DEF Spawn, Released, IInv, TypeOK, QueuedOnce, LateOnce, stopVars
<1>10. ASSUME NEW c \in Conns, Connect(c) PROVE IInv'
  <2>1. /\ queue' = Append(queue, c) /\ conn[c] = "new"
        /\ conn' = [conn EXCEPT ![c] = "queued"]
        /\ UNCHANGED <<sock, stop, stopper, loop, accepted, late>>
    BY <1>10 DEF Connect, stopVars, loopVars
  <2>2. c \notin Queued
    BY <1>a, <2>1 DEF TypeOK, In
  <2>3. /\ queue' \in Seq(Conns)
        /\ \A i, j \in DOMAIN queue' : queue'[i] = queue'[j] => i = j
        /\ Queued' = Queued \cup {c}
    <3>1. /\ queue \in Seq(Conns)
          /\ \A i, j \in DOMAIN queue : queue[i] = queue[j] => i = j
          /\ \A i \in DOMAIN queue : queue[i] # c
      BY <1>a, <2>2 DEF TypeOK, QueuedOnce, Queued
    <3>2. /\ Append(queue, c) \in Seq(Conns)
          /\ \A i, j \in DOMAIN Append(queue, c) :
               Append(queue, c)[i] = Append(queue, c)[j] => i = j
          /\ {Append(queue, c)[i] : i \in DOMAIN Append(queue, c)}
               = {queue[i] : i \in DOMAIN queue} \cup {c}
      BY <3>1, AppendToQueue
    <3> QED
      BY <2>1, <3>2 DEF Queued
  <2>4. In({"queued"})' = In({"queued"}) \cup {c} /\ conn' \in [Conns -> ConnStates]
    BY <1>a, <2>1 DEF TypeOK, In, ConnStates
  <2>5. accepted # NoConn => conn'[accepted] = "accepted"
    BY <1>a, <2>1 DEF TypeOK, QueuedOnce
  <2> QED
    BY <1>a, <2>1, <2>3, <2>4, <2>5 DEF IInv, TypeOK, QueuedOnce, LateOnce
<1>11. ASSUME NEW c \in Conns, HandlerEnds(c) \/ CloseConn(c) PROVE IInv'
  <2>1. /\ conn[c] \in {"handled", "ending"}
        /\ conn' \in [Conns -> ConnStates]
        /\ In({"queued"})' = In({"queued"})
        /\ accepted # NoConn => conn'[accepted] = "accepted"
        /\ UNCHANGED <<sock, queue, stop, stopper, loop, accepted, late>>
    BY <1>a, <1>11
       DEF HandlerEnds, CloseConn, TypeOK, QueuedOnce, In, ConnStates, stopVars, loopVars
  <2>2. Queued' = Queued
    BY <2>1 DEF Queued
  <2> QED
    BY <1>a, <2>1, <2>2 DEF IInv, TypeOK, QueuedOnce, LateOnce
<1>12. CASE UNCHANGED vars
  BY <1>a, <1>b, <1>c, <1>12 DEF vars, stopVars, loopVars, IInv, TypeOK, LateOnce
<1> QED
  BY <1>1, <1>2, <1>3, <1>4, <1>5, <1>6, <1>7, <1>8, <1>9, <1>10, <1>11, <1>12
     DEF Next, Loop, Finished

(* The state of the server stays well-typed; the listen queue holds        *)
(* exactly the clients that wait in it.                                    *)
THEOREM TypeCorrect == Spec => []TypeOK
<1>1. IInv => TypeOK
  BY DEF IInv
<1> QED
  BY <1>1, InitIInv, NextIInv, PTL DEF Spec

(* However stop() falls into the accept loop of serve_forever(), at most   *)
(* one connection is accepted after the flag is set.                       *)
THEOREM AtMostOneLate == Spec => []OneLateAtMost
<1>1. IInv => OneLateAtMost
  BY DEF IInv, LateOnce, OneLateAtMost
<1> QED
  BY <1>1, InitIInv, NextIInv, PTL DEF Spec
=============================================================================
