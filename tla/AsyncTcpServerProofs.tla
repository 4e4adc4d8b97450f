------------------------ MODULE AsyncTcpServerProofs ------------------------
(***************************************************************************)
(* For any number of clients and messages, any high-water mark and any     *)
(* way of calling stop(): the state of AsyncTCPServer stays well-typed,    *)
(* and a client that shuts down its sending side gets everything back.     *)
(***************************************************************************)
EXTENDS AsyncTcpServer, TLAPS

(* What the mutants of AsyncTcpServer change is expanded everywhere. *)
USE DEF Assigned, CancelsServing, Anything, MayRead

(* Why a connection is closing: its client is gone, has paused, or has     *)
(* shut down with nothing left to read; and it is closed with nothing left *)
(* to send.                                                                *)
EchoInv ==
  \A c \in Conns :
    /\ conn[c] \in {"closing", "closed"} /\ ~paused[c] =>
         /\ peer[c] # "open"
         /\ peer[c] = "eof" => got[c] = came[c]
    /\ conn[c] = "closed" /\ peer[c] = "eof" => out[c] = got[c]

IInv == TypeOK /\ EchoInv

(* What stop() and Ctrl-C do to the connections. *)
LEMMA Reset ==
  ASSUME TypeOK, CloseServer
  PROVE  /\ server' = "closed"
         /\ conn' \in [Conns -> ConnStates]
         /\ \A c \in Conns : conn'[c] \in {conn[c], "reset"}
  BY DEF CloseServer, TypeOK, ConnStates

(* The counters of a connection stay in order. *)
LEMMA CountStep ==
  ASSUME TypeOK, [Next]_vars
  PROVE  /\ came' \in [Conns -> 0..Messages]
         /\ got' \in [Conns -> 0..Messages]
         /\ out' \in [Conns -> 0..Messages]
         /\ \A c \in Conns : out'[c] <= got'[c] /\ got'[c] <= came'[c]
<1> USE AsyncAssumption
<1>a. /\ came \in [Conns -> 0..Messages]
      /\ got \in [Conns -> 0..Messages]
      /\ out \in [Conns -> 0..Messages]
      /\ \A c \in Conns : out[c] <= got[c] /\ got[c] <= came[c]
  BY DEF TypeOK
<1>1. CASE UNCHANGED <<came, got, out>>
  BY <1>a, <1>1
<1>2. ASSUME NEW c \in Conns, SendMessage(c)
      PROVE  /\ came' \in [Conns -> 0..Messages] /\ UNCHANGED <<got, out>>
             /\ \A d \in Conns : came[d] <= came'[d]
  BY <1>a, <1>2 DEF SendMessage, echoVars
<1>3. ASSUME NEW c \in Conns, ReadMessages(c)
      PROVE  /\ got' \in [Conns -> 0..Messages] /\ UNCHANGED <<came, out>>
             /\ \A d \in Conns : got[d] <= got'[d] /\ got'[d] <= came[d]
  <2>1. PICK n \in (got[c] + 1)..came[c] : got' = [got EXCEPT ![c] = n]
    BY <1>3 DEF ReadMessages
  <2>2. n \in 0..Messages /\ got[c] <= n /\ n <= came[c]
    BY <1>a, <2>1
  <2>3. UNCHANGED <<came, out>>
    BY <1>3 DEF ReadMessages, clientVars
  <2> QED
    BY <1>a, <2>1, <2>2, <2>3
<1>4. ASSUME NEW c \in Conns, Transmit(c)
      PROVE  /\ out' \in [Conns -> 0..Messages] /\ UNCHANGED <<came, got>>
             /\ \A d \in Conns : out'[d] <= got[d]
  BY <1>a, <1>4 DEF Transmit, clientVars
<1>5. CASE \E c \in Conns : SendMessage(c)
  BY <1>a, <1>2, <1>5
<1>6. CASE \E c \in Conns : ReadMessages(c)
  BY <1>a, <1>3, <1>6
<1>7. CASE \E c \in Conns : Transmit(c)
  BY <1>a, <1>4, <1>7
<1> QED
  BY <1>1, <1>5, <1>6, <1>7
  DEF Next, Main, Bind, Announce, ServeForever, Cancelled, Interrupt, Exit, Stop, Connect, Leave,
      Handler, AcceptConn, ReadNothing, Drained, CloseConn, Over, vars, clientVars, echoVars

(* Every variable keeps its type. *)
LEMMA TypeStep == TypeOK /\ [Next]_vars => TypeOK'
<1> SUFFICES ASSUME TypeOK, [Next]_vars
             PROVE  TypeOK'
  OBVIOUS
<1>1. /\ came' \in [Conns -> 0..Messages]
      /\ got' \in [Conns -> 0..Messages]
      /\ out' \in [Conns -> 0..Messages]
      /\ \A c \in Conns : out'[c] <= got'[c] /\ got'[c] <= came'[c]
  BY CountStep
<1>2. /\ peer' \in [Conns -> {"open", "eof", "gone"}]
      /\ paused' \in [Conns -> BOOLEAN]
  <2>1. ASSUME NEW c \in Conns, Leave(c) PROVE peer' \in [Conns -> {"open", "eof", "gone"}]
    BY <2>1 DEF TypeOK, Leave
  <2>2. ASSUME NEW c \in Conns, ReadNothing(c) PROVE paused' \in [Conns -> BOOLEAN]
    <3>1. (peer[c] = "open") \in BOOLEAN
      OBVIOUS
    <3>2. paused' = [paused EXCEPT ![c] = (peer[c] = "open")]
      BY <2>2 DEF ReadNothing
    <3> QED
      BY <3>1, <3>2 DEF TypeOK
  <2>3. UNCHANGED peer \/ \E c \in Conns : Leave(c)
    BY DEF Next, Main, Bind, Announce, ServeForever, Cancelled, Interrupt, Exit, Stop, Connect,
           SendMessage, Handler, AcceptConn, ReadMessages, ReadNothing, Drained, CloseConn,
           Transmit, Over, vars, clientVars
  <2>4. UNCHANGED paused \/ \E c \in Conns : ReadNothing(c)
    BY DEF Next, Main, Bind, Announce, ServeForever, Cancelled, Interrupt, Exit, Stop, Connect,
           SendMessage, Leave, Handler, AcceptConn, ReadMessages, Drained, CloseConn,
           Transmit, Over, vars, echoVars
  <2> QED
    BY <2>1, <2>2, <2>3, <2>4 DEF TypeOK
<1>3. /\ server' \in {"none", "listening", "closed"}
      /\ main' \in MainStates
      /\ stopper' \in {"idle", "missed", "done"}
      /\ cancel' \in BOOLEAN
      /\ awake' \in BOOLEAN
      /\ conn' \in [Conns -> ConnStates]
      /\ server' = "none" => main' = "starting"
  <2>1. CASE Main
    BY <2>1 DEF TypeOK, MainStates, Main, Bind, Announce, ServeForever, Cancelled, Exit
  <2>2. CASE Interrupt
    BY <2>2, Reset DEF TypeOK, MainStates, Interrupt
  <2>3. CASE Stop
    <3>1. CASE server = "none"
      BY <2>3, <3>1 DEF TypeOK, Stop
    <3>2. CASE server # "none"
      <4>1. /\ stopper' = "done" /\ CloseServer /\ main' = main
            /\ cancel' = (main = "serving")
            /\ awake' \in {OnLoop /\ StopOnLoop, OnLoop}
        BY <2>3, <3>2 DEF Stop
      <4>2. awake' \in BOOLEAN
        BY <4>1 DEF OnLoop
      <4> QED
        BY <4>1, <4>2, Reset DEF TypeOK
    <3> QED
      BY <3>1, <3>2
  <2>4. ASSUME NEW c \in Conns, Connect(c)
        PROVE  conn' \in [Conns -> ConnStates] /\ UNCHANGED <<loopVars, awake>>
    BY <2>4 DEF TypeOK, ConnStates, Connect
  <2>5. ASSUME NEW c \in Conns, Handler(c) \/ Transmit(c)
        PROVE  conn' \in [Conns -> ConnStates] /\ awake' \in BOOLEAN /\ UNCHANGED loopVars
    BY <2>5 DEF TypeOK, ConnStates, Handler, AcceptConn, ReadMessages, ReadNothing, Drained,
                CloseConn, Transmit, Wakes
  <2>6. ASSUME NEW c \in Conns, SendMessage(c) \/ Leave(c)
        PROVE  UNCHANGED <<loopVars, awake, conn>>
    BY <2>6 DEF SendMessage, Leave
  <2>7. CASE UNCHANGED vars
    BY <2>7 DEF TypeOK, vars, loopVars
  <2> QED
    BY <2>1, <2>2, <2>3, <2>4, <2>5, <2>6, <2>7 DEF Next, Over, TypeOK, loopVars
<1> QED
  BY <1>1, <1>2, <1>3 DEF TypeOK

LEMMA EchoStep == TypeOK /\ EchoInv /\ [Next]_vars => EchoInv'
<1> SUFFICES ASSUME TypeOK, EchoInv, [Next]_vars, NEW c \in Conns
             PROVE  /\ conn'[c] \in {"closing", "closed"} /\ ~paused'[c] =>
                         /\ peer'[c] # "open"
                         /\ peer'[c] = "eof" => got'[c] = came'[c]
                    /\ conn'[c] = "closed" /\ peer'[c] = "eof" => out'[c] = got'[c]
  BY DEF EchoInv
<1> USE AsyncAssumption
<1>a. /\ conn[c] \in {"closing", "closed"} /\ ~paused[c] =>
           /\ peer[c] # "open"
           /\ peer[c] = "eof" => got[c] = came[c]
      /\ conn[c] = "closed" /\ peer[c] = "eof" => out[c] = got[c]
      /\ got[c] \in Nat /\ came[c] \in Nat /\ out[c] \in Nat
      /\ out[c] <= got[c] /\ got[c] <= came[c]
  BY DEF EchoInv, TypeOK
<1>1. CASE /\ peer'[c] = peer[c] /\ came'[c] = came[c] /\ got'[c] = got[c]
           /\ out'[c] = out[c] /\ paused'[c] = paused[c]
           /\ conn'[c] = conn[c] \/ conn'[c] \notin {"closing", "closed"}
  BY <1>a, <1>1
<1>2. CASE Interrupt \/ Stop
  <2>1. UNCHANGED <<peer, came, got, out, paused>>
    BY <1>2 DEF Interrupt, Stop, clientVars, echoVars
  <2>2. conn' = conn \/ CloseServer
    BY <1>2 DEF Interrupt, Stop
  <2> QED
    BY <1>1, <2>1, <2>2, Reset
<1>3. ASSUME NEW d \in Conns, d # c,
             Connect(d) \/ SendMessage(d) \/ Leave(d) \/ Handler(d) \/ Transmit(d)
      PROVE  /\ peer'[c] = peer[c] /\ came'[c] = came[c] /\ got'[c] = got[c]
             /\ out'[c] = out[c] /\ paused'[c] = paused[c] /\ conn'[c] = conn[c]
  BY <1>3 DEF TypeOK, Connect, SendMessage, Leave, Handler, AcceptConn, ReadMessages, ReadNothing,
              Drained, CloseConn, Transmit, clientVars, echoVars
<1>4. CASE Connect(c) \/ AcceptConn(c) \/ ReadMessages(c)
  BY <1>4 DEF TypeOK, Connect, AcceptConn, ReadMessages
<1>5. CASE SendMessage(c)
  BY <1>a, <1>5 DEF TypeOK, SendMessage, echoVars
<1>6. CASE Leave(c)
  <2>1. UNCHANGED <<came, got, out, paused, conn>> /\ conn[c] # "closed"
    BY <1>6 DEF Leave, echoVars
  <2>2. peer'[c] = "eof" => peer[c] = "open"
    BY <1>6 DEF Leave, TypeOK
  <2>3. peer'[c] # "open"
    BY <1>6 DEF Leave, TypeOK
  <2> QED
    BY <1>a, <2>1, <2>2, <2>3
<1>7. CASE ReadNothing(c)
  <2>1. /\ UNCHANGED <<peer, came, got, out>> /\ conn'[c] = "closing"
        /\ ~(came[c] > got[c] /\ peer[c] # "gone")
        /\ paused' = [paused EXCEPT ![c] = (peer[c] = "open")]
    BY <1>7 DEF ReadNothing, TypeOK, clientVars
  <2>2. ~paused'[c] => peer[c] # "open"
    BY <2>1 DEF TypeOK
  <2>3. peer[c] = "eof" => got[c] = came[c]
    BY <1>a, <2>1
  <2> QED
    BY <2>1, <2>2, <2>3
<1>8. CASE Drained(c)
  <2>1. /\ UNCHANGED <<peer, came, got, out, paused>>
        /\ conn'[c] = IF peer[c] = "gone" THEN "closing" ELSE "reading"
    BY <1>8 DEF Drained, TypeOK, clientVars, echoVars
  <2> QED
    BY <2>1
<1>9. CASE CloseConn(c)
  <2>1. /\ UNCHANGED <<peer, came, got, out, paused>>
        /\ conn[c] = "closing" /\ conn'[c] = "closed"
        /\ peer[c] = "gone" \/ out[c] = got[c]
    BY <1>9 DEF CloseConn, Flushed, TypeOK, clientVars, echoVars
  <2> QED
    BY <1>a, <2>1
<1>10. CASE Transmit(c)
  <2>1. UNCHANGED <<peer, came, got, paused, conn>> /\ conn[c] # "closed"
    BY <1>10 DEF Transmit, Busy, clientVars
  <2> QED
    BY <1>a, <2>1
<1>11. CASE Main \/ UNCHANGED vars
  BY <1>1, <1>11 DEF Main, Bind, Announce, ServeForever, Cancelled, Exit, vars, clientVars, echoVars
<1> QED
  BY <1>1, <1>2, <1>3, <1>4, <1>5, <1>6, <1>7, <1>8, <1>9, <1>10, <1>11 DEF Next, Handler, Over

LEMMA IInvariant == Spec => []IInv
<1>1. ASSUME Init PROVE IInv
  <2>1. 0 \in 0..Messages
    BY AsyncAssumption
  <2>2. /\ came = [c \in Conns |-> 0] /\ got = [c \in Conns |-> 0] /\ out = [c \in Conns |-> 0]
        /\ conn = [c \in Conns |-> "new"] /\ peer = [c \in Conns |-> "open"]
        /\ paused = [c \in Conns |-> FALSE]
    BY <1>1 DEF Init
  <2>3. /\ came \in [Conns -> 0..Messages] /\ got \in [Conns -> 0..Messages]
        /\ out \in [Conns -> 0..Messages]
    BY <2>1, <2>2
  <2>4. \A c \in Conns : out[c] <= got[c] /\ got[c] <= came[c]
    <3>1. \A c \in Conns : came[c] = 0 /\ got[c] = 0 /\ out[c] = 0
      BY <2>2, Zenon
    <3>2. 0 <= 0
      OBVIOUS
    <3> QED
      BY <3>1, <3>2, Zenon
  <2>5. conn \in [Conns -> ConnStates]
    BY <2>2 DEF ConnStates
  <2>6. peer \in [Conns -> {"open", "eof", "gone"}] /\ paused \in [Conns -> BOOLEAN]
    BY <2>2
  <2>7. /\ server = "none" /\ main = "starting" /\ stopper = "idle"
        /\ cancel = FALSE /\ awake = FALSE
    BY <1>1 DEF Init
  <2>8. TypeOK
    BY <2>3, <2>4, <2>5, <2>6, <2>7 DEF TypeOK, MainStates
  <2>9. EchoInv
    BY <2>2 DEF EchoInv
  <2> QED
    BY <2>8, <2>9 DEF IInv
<1>2. IInv /\ [Next]_vars => IInv'
  BY TypeStep, EchoStep DEF IInv
<1> QED
  BY <1>1, <1>2, PTL DEF Spec

(* The state of AsyncTCPServer stays well-typed; in particular a client is *)
(* never sent more than was read from it.                                  *)
THEOREM TypeCorrect == Spec => []TypeOK
<1>1. IInv => TypeOK
  BY DEF IInv
<1> QED
  BY <1>1, IInvariant, PTL

(* async_echo_handler and _wrap's close() lose nothing: a client that      *)
(* shuts down its sending side, without a pause of conn_timeout before,    *)
(* gets back all it has sent, whenever stop() is called and however many   *)
(* other clients there are.                                                *)
THEOREM EverythingEchoed == Spec => []EchoComplete
<1>1. IInv => EchoComplete
  BY DEF IInv, EchoInv, EchoComplete
<1> QED
  BY <1>1, IInvariant, PTL
=============================================================================
