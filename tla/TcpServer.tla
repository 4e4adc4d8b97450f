------------------------------ MODULE TcpServer ------------------------------
(***************************************************************************)
(* TCPServer (scratchplus/tcp.py): the accept loop on one thread, stop()   *)
(* on another, and a thread per accepted connection.  Every server of the  *)
(* package is a TCPServer with its _handle_conn as handler.                *)
(*                                                                         *)
(* The program calls start() once and stop() after it, at any moment of    *)
(* the accept loop.                                                        *)
(***************************************************************************)
EXTENDS Integers, Sequences, FiniteSets

CONSTANTS
  Conns,            \* the clients that connect
  Backlog,          \* the length of the listen queue
  Stuck             \* the connections whose handler need never return

ASSUME TcpAssumption ==
  /\ IsFiniteSet(Conns)
  /\ Backlog \in Nat
  /\ Stuck \subseteq Conns

NoConn == "no connection"
ASSUME NoConnAssumption == NoConn \notin Conns

VARIABLES
  sock,     \* the listening socket: "none", "listening", "closed"
  stop,     \* the event _stop
  stopper,  \* the thread that calls stop(): "idle", "closing", "done"
  loop,     \* serve_forever(): "not called", "check", "accept", "spawn", "returned"
  queue,    \* the listen queue
  accepted, \* the connection the loop has accepted and not yet handed over
  conn,     \* [Conns -> connection states]
  late      \* how many connections were accepted when _stop was set

stopVars == <<stop, stopper>>
loopVars == <<loop, accepted, late>>
vars == <<sock, queue, stopVars, loopVars, conn>>

(* "queued" in the listen queue, "accepted" by the loop, "handled" by a    *)
(* thread of its own, "ending" when the handler has returned or raised,    *)
(* "closed", or "reset" with the listening socket it was queued on.        *)
ConnStates == {"new", "queued", "accepted", "handled", "ending", "closed", "reset"}

In(states) == {c \in Conns : conn[c] \in states}
Queued == {queue[i] : i \in DOMAIN queue}

TypeOK ==
  /\ sock \in {"none", "listening", "closed"}
  /\ stop \in BOOLEAN
  /\ stopper \in {"idle", "closing", "done"}
  /\ loop \in {"not called", "check", "accept", "spawn", "returned"}
  /\ accepted \in Conns \cup {NoConn}
  /\ conn \in [Conns -> ConnStates]
  /\ late \in Nat
  /\ queue \in Seq(Conns)
  /\ Queued = In({"queued"})
  /\ loop = "spawn" <=> accepted # NoConn

Init ==
  /\ sock = "none"
  /\ stop = FALSE
  /\ stopper = "idle"
  /\ loop = "not called"
  /\ accepted = NoConn
  /\ conn = [c \in Conns |-> "new"]
  /\ late = 0
  /\ queue = <<>>

-----------------------------------------------------------------------------
Start ==
  /\ sock = "none"
  /\ sock' = "listening"
  /\ UNCHANGED <<queue, stopVars, loopVars, conn>>

(* A client connects; with a full queue the kernel makes it wait. *)
Connect(c) ==
  /\ sock = "listening"
  /\ conn[c] = "new"
  /\ Len(queue) <= Backlog
  /\ queue' = Append(queue, c)
  /\ conn' = [conn EXCEPT ![c] = "queued"]
  /\ UNCHANGED <<sock, stopVars, loopVars>>

(* stop(): the flag first, ... *)
SetStop ==
  /\ stopper = "idle"
  /\ sock # "none"
  /\ stop' = TRUE
  /\ stopper' = "closing"
  /\ UNCHANGED <<sock, queue, loopVars, conn>>

(* ... then the listening socket, and with it what is queued. *)
CloseListener ==
  /\ stopper = "closing"
  /\ sock' = "closed"
  /\ stopper' = "done"
  /\ queue' = <<>>
  /\ conn' = [c \in Conns |-> IF c \in Queued THEN "reset" ELSE conn[c]]
  /\ UNCHANGED <<stop, loopVars>>

-----------------------------------------------------------------------------
(* serve_forever *)

Serve ==
  /\ loop = "not called"
  /\ sock # "none"
  /\ loop' = "check"
  /\ UNCHANGED <<sock, queue, stopVars, accepted, late, conn>>

(* Mutant: while True. *)
StopNotAsked == FALSE

StopSeen == stop

Check ==
  /\ loop = "check"
  /\ loop' = IF StopSeen THEN "returned" ELSE "accept"
  /\ UNCHANGED <<sock, queue, stopVars, accepted, late, conn>>

Accept ==
  /\ loop = "accept"
  /\ sock = "listening"
  /\ queue # <<>>
  /\ accepted' = Head(queue)
  /\ conn' = [conn EXCEPT ![Head(queue)] = "accepted"]
  /\ queue' = Tail(queue)
  /\ late' = IF stop THEN late + 1 ELSE late
  /\ loop' = "spawn"
  /\ UNCHANGED <<sock, stopVars>>

(* socket.timeout: a second without a client. *)
AcceptTimesOut ==
  /\ loop = "accept"
  /\ queue = <<>>
  /\ loop' = "check"
  /\ UNCHANGED <<sock, queue, stopVars, accepted, late, conn>>

(* Another OSError: the socket was closed, the client is gone again, or    *)
(* the process has no file descriptor left.                                *)
AcceptFails ==
  /\ loop = "accept"
  /\ loop' = "returned"
  /\ UNCHANGED <<sock, queue, stopVars, accepted, late, conn>>

(* Mutant: one handler at a time. *)
MaySpawnWhenIdle == In({"handled", "ending"}) = {}

MaySpawn == TRUE

(* Mutant: the loop keeps hold of the connection it has handed over. *)
StillHeld == accepted

Released == NoConn

Spawn ==
  /\ loop = "spawn"
  /\ MaySpawn
  /\ conn' = [conn EXCEPT ![accepted] = "handled"]
  /\ accepted' = Released
  /\ loop' = "check"
  /\ UNCHANGED <<sock, queue, stopVars, late>>

Loop == Check \/ Accept \/ AcceptTimesOut \/ AcceptFails \/ Spawn

-----------------------------------------------------------------------------
(* _dispatch, on the connection's thread *)

HandlerEnds(c) ==
  /\ conn[c] = "handled"
  /\ conn' = [conn EXCEPT ![c] = "ending"]
  /\ UNCHANGED <<sock, queue, stopVars, loopVars>>

CloseConn(c) ==
  /\ conn[c] = "ending"
  /\ conn' = [conn EXCEPT ![c] = "closed"]
  /\ UNCHANGED <<sock, queue, stopVars, loopVars>>

(* The server was stopped and no connection is left. *)
Finished ==
  /\ loop = "returned"
  /\ stopper = "done"
  /\ In({"new", "closed", "reset"}) = Conns
  /\ UNCHANGED vars

Next ==
  \/ Start \/ Serve
  \/ SetStop \/ CloseListener
  \/ Loop
  \/ \E c \in Conns : Connect(c) \/ HandlerEnds(c) \/ CloseConn(c)
  \/ Finished

Spec == Init /\ [][Next]_vars

(* serve_forever() is called and scheduled; stop() completes once called;  *)
(* a handler that is not Stuck ends.  Nobody has to connect, or to call    *)
(* stop().                                                                 *)
Fairness ==
  /\ WF_vars(Serve) /\ WF_vars(Loop) /\ WF_vars(CloseListener)
  /\ \A c \in Conns \ Stuck : WF_vars(HandlerEnds(c))
  /\ \A c \in Conns : WF_vars(CloseConn(c))

FairSpec == Spec /\ Fairness

-----------------------------------------------------------------------------
(* Properties *)

(* However stop() falls into the accept loop, at most one connection is    *)
(* accepted after it has set the flag.                                     *)
OneLateAtMost == late <= 1

(* Once stop() has been called, serve_forever() returns. *)
StopEndsLoop == stop ~> (loop = "returned")

(* One connection does not wait for another's handler: every client that   *)
(* got into the queue is served and closed, or reset by stop(), unless an  *)
(* OSError of accept() has ended the loop while it waited.                 *)
EveryClientServed ==
  \A c \in Conns \ Stuck :
    (conn[c] = "queued") ~>
      \/ conn[c] \in {"closed", "reset"}
      \/ conn[c] = "queued" /\ loop = "returned"
=============================================================================
