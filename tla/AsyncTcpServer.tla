--------------------------- MODULE AsyncTcpServer ---------------------------
(***************************************************************************)
(* AsyncTCPServer (scratchplus/tcp.py) with the async handler of           *)
(* examples/echo_server.py: the coroutine start_and_serve(), a coroutine   *)
(* per connection, all on one event loop, and stop(), which is called on   *)
(* the loop (call_soon_threadsafe) or straight from another thread.        *)
(*                                                                         *)
(* The loop itself, the listening socket and the stream buffers belong to  *)
(* asyncio; they are modelled as far as the program can tell.              *)
(***************************************************************************)
EXTENDS Integers

CONSTANTS
  Conns,            \* the clients that connect
  Messages,         \* how many messages each of them sends at most
  HighWater,        \* messages the transport buffers before drain() waits
  Deaf,             \* the clients that need not read what they are sent
  StopOnLoop,       \* stop() is only called on the event loop
  WaitsForHandlers  \* Server.wait_closed() waits for the connections (3.12)

ASSUME AsyncAssumption ==
  /\ Messages \in Nat
  /\ HighWater \in Nat
  /\ Deaf \subseteq Conns
  /\ StopOnLoop \in BOOLEAN
  /\ WaitsForHandlers \in BOOLEAN

VARIABLES
  server,   \* _server: "none", "listening", "closed"
  main,     \* start_and_serve(), see MainStates
  stopper,  \* stop(): "idle", "missed" (it found no _server), "done"
  cancel,   \* the future of serve_forever() has been cancelled
  awake,    \* the loop has noticed it
  conn,     \* [Conns -> connection states]
  peer,     \* [Conns -> "open", "eof" (it will send no more), "gone"]
  came,     \* [Conns -> messages that have arrived]
  got,      \* [Conns -> messages that read() has returned]
  out,      \* [Conns -> messages the client has been sent]
  paused    \* [Conns -> whether a read() has timed out] (history)

loopVars == <<server, main, stopper, cancel>>
clientVars == <<peer, came>>
echoVars == <<got, out, paused>>
vars == <<loopVars, awake, conn, clientVars, echoVars>>

(* "starting": in start_server(); "bound": _server is assigned; "started": *)
(* _started is set; "serving": in serve_forever(); "exiting": in the exit  *)
(* of the async with.                                                      *)
MainStates == {"starting", "bound", "started", "serving", "exiting", "returned", "raised"}

(* "reading" and "draining": at an await of the handler; "closing": in     *)
(* writer.wait_closed(); "reset": closed with the listening socket.        *)
ConnStates == {"new", "queued", "reading", "draining", "closing", "closed", "reset"}

TypeOK ==
  /\ server \in {"none", "listening", "closed"}
  /\ main \in MainStates
  /\ stopper \in {"idle", "missed", "done"}
  /\ cancel \in BOOLEAN
  /\ awake \in BOOLEAN
  /\ conn \in [Conns -> ConnStates]
  /\ peer \in [Conns -> {"open", "eof", "gone"}]
  /\ came \in [Conns -> 0..Messages]
  /\ got \in [Conns -> 0..Messages]
  /\ out \in [Conns -> 0..Messages]
  /\ paused \in [Conns -> BOOLEAN]
  /\ \A c \in Conns : out[c] <= got[c] /\ got[c] <= came[c]
  /\ server = "none" => main = "starting"

Init ==
  /\ server = "none"
  /\ main = "starting"
  /\ stopper = "idle"
  /\ cancel = FALSE
  /\ awake = FALSE
  /\ conn = [c \in Conns |-> "new"]
  /\ peer = [c \in Conns |-> "open"]
  /\ came = [c \in Conns |-> 0]
  /\ got = [c \in Conns |-> 0]
  /\ out = [c \in Conns |-> 0]
  /\ paused = [c \in Conns |-> FALSE]

-----------------------------------------------------------------------------
(* The clients *)

Connect(c) ==
  /\ conn[c] = "new"
  /\ server = "listening"
  /\ conn' = [conn EXCEPT ![c] = "queued"]
  /\ UNCHANGED <<loopVars, awake, clientVars, echoVars>>

SendMessage(c) ==
  /\ conn[c] \notin {"new", "closed", "reset"}
  /\ peer[c] = "open"
  /\ came[c] < Messages
  /\ came' = [came EXCEPT ![c] = @ + 1]
  /\ UNCHANGED <<loopVars, awake, conn, peer, echoVars>>

Leave(c) ==
  /\ conn[c] \notin {"new", "closed", "reset"}
  /\ \/ peer[c] = "open" /\ peer' = [peer EXCEPT ![c] = "eof"]
     \/ peer[c] # "gone" /\ peer' = [peer EXCEPT ![c] = "gone"]
  /\ UNCHANGED <<loopVars, awake, conn, came, echoVars>>

-----------------------------------------------------------------------------
(* start_and_serve *)

(* Mutant: the server is kept in a local variable. *)
AssignedLocally == "none"

Assigned == "listening"

Bind ==
  /\ main = "starting"
  /\ server' = Assigned
  /\ main' = "bound"
  /\ UNCHANGED <<stopper, cancel, awake, conn, clientVars, echoVars>>

(* A closed server has no sockets: sockets[0] raises.                      *)
Announce ==
  /\ main = "bound"
  /\ main' = IF server = "closed" THEN "raised" ELSE "started"
  /\ UNCHANGED <<server, stopper, cancel, awake, conn, clientVars, echoVars>>

(* serve_forever() of a closed server raises. *)
ServeForever ==
  /\ main = "started"
  /\ main' = IF server = "closed" THEN "raised" ELSE "serving"
  /\ UNCHANGED <<server, stopper, cancel, awake, conn, clientVars, echoVars>>

(* Closing the listening socket resets whoever is queued on it. *)
CloseServer ==
  /\ server' = "closed"
  /\ conn' = [c \in Conns |-> IF conn[c] = "queued" THEN "reset" ELSE conn[c]]

(* The cancelled future, or Ctrl-C, raises CancelledError. *)
Cancelled ==
  /\ main = "serving"
  /\ cancel /\ awake
  /\ main' = "exiting"
  /\ UNCHANGED <<server, stopper, cancel, awake, conn, clientVars, echoVars>>

Interrupt ==
  /\ main = "serving"
  /\ CloseServer
  /\ main' = "exiting"
  /\ UNCHANGED <<stopper, cancel, awake, clientVars, echoVars>>

Busy(c) == conn[c] \in {"reading", "draining", "closing"}

Exit ==
  /\ main = "exiting"
  /\ WaitsForHandlers => \A c \in Conns : ~Busy(c)
  /\ main' = "returned"
  /\ UNCHANGED <<server, stopper, cancel, awake, conn, clientVars, echoVars>>

Main == Bind \/ Announce \/ ServeForever \/ Cancelled \/ Exit

Running == main \notin {"returned", "raised"}

-----------------------------------------------------------------------------
(* stop() *)

(* The coroutine does not let go of the loop between "bound" and "serving". *)
OnLoop == main \notin {"bound", "started"} /\ Running

(* Mutant: the listening socket is closed, serve_forever() waits on. *)
CancelsNothing == FALSE

CancelsServing == main = "serving"

(* A call from another thread does not wake the loop up. *)
Stop ==
  /\ stopper = "idle"
  /\ StopOnLoop => OnLoop
  /\ IF server = "none"
     THEN stopper' = "missed" /\ UNCHANGED <<server, conn, cancel, awake>>
     ELSE /\ stopper' = "done"
          /\ CloseServer
          /\ cancel' = CancelsServing
          /\ awake' \in {OnLoop /\ StopOnLoop, OnLoop}
  /\ UNCHANGED <<main, clientVars, echoVars>>

-----------------------------------------------------------------------------
(* _wrap() around async_echo_handler().  Whatever happens on a connection  *)
(* wakes the loop up.                                                      *)

Wakes == Running /\ awake' = TRUE

AcceptConn(c) ==
  /\ conn[c] = "queued"
  /\ main = "serving"
  /\ Wakes
  /\ conn' = [conn EXCEPT ![c] = "reading"]
  /\ UNCHANGED <<loopVars, clientVars, echoVars>>

(* Mutant: end of file is looked at before the data. *)
AnythingUnlessEof(c) == came[c] > got[c] /\ peer[c] = "open"

Anything(c) == came[c] > got[c] /\ peer[c] # "gone"

(* Mutant: a connection is read when no other waits in drain(). *)
MayReadAlone(c) == \A d \in Conns : conn[d] # "draining"

MayRead(c) == TRUE

(* read() returns some of the messages; they are written back at once. *)
ReadMessages(c) ==
  /\ conn[c] = "reading"
  /\ MayRead(c)
  /\ Anything(c)
  /\ Wakes
  /\ \E n \in (got[c] + 1)..came[c] : got' = [got EXCEPT ![c] = n]
  /\ conn' = [conn EXCEPT ![c] = "draining"]
  /\ UNCHANGED <<loopVars, clientVars, out, paused>>

(* read() returns b"" or raises, or wait_for() gives up after conn_timeout *)
(* seconds without a message.                                              *)
ReadNothing(c) ==
  /\ conn[c] = "reading"
  /\ ~Anything(c)
  /\ Wakes
  /\ paused' = [paused EXCEPT ![c] = (peer[c] = "open")]
  /\ conn' = [conn EXCEPT ![c] = "closing"]
  /\ UNCHANGED <<loopVars, clientVars, got, out>>

(* The transport sends what it buffers, to a client that reads. *)
Transmit(c) ==
  /\ Busy(c)
  /\ out[c] < got[c]
  /\ peer[c] # "gone"
  /\ Wakes
  /\ out' = [out EXCEPT ![c] = @ + 1]
  /\ UNCHANGED <<loopVars, conn, clientVars, got, paused>>

(* drain() has no timeout. *)
Drained(c) ==
  /\ conn[c] = "draining"
  /\ peer[c] = "gone" \/ got[c] - out[c] <= HighWater
  /\ Wakes
  /\ conn' = [conn EXCEPT ![c] = IF peer[c] = "gone" THEN "closing" ELSE "reading"]
  /\ UNCHANGED <<loopVars, clientVars, echoVars>>

Flushed(c) == out[c] = got[c]

(* wait_closed() returns when the buffer is empty or the client gone; it   *)
(* has no timeout either.                                                  *)
CloseConn(c) ==
  /\ conn[c] = "closing"
  /\ peer[c] = "gone" \/ Flushed(c)
  /\ Wakes
  /\ conn' = [conn EXCEPT ![c] = "closed"]
  /\ UNCHANGED <<loopVars, clientVars, echoVars>>

Handler(c) ==
  AcceptConn(c) \/ ReadMessages(c) \/ ReadNothing(c) \/ Drained(c) \/ CloseConn(c)

(* Nothing more is going to happen. *)
Over == ~Running /\ UNCHANGED vars

Next ==
  \/ Main \/ Interrupt \/ Stop
  \/ \E c \in Conns : \/ Connect(c) \/ SendMessage(c) \/ Leave(c)
                      \/ Handler(c) \/ Transmit(c)
  \/ Over

(* The loop runs every coroutine that can go on; wait_for() gives up in    *)
(* the end; a client that is not Deaf reads.                               *)
Spec ==
  /\ Init /\ [][Next]_vars
  /\ WF_vars(Main)
  /\ \A c \in Conns : WF_vars(Handler(c))
  /\ \A c \in Conns \ Deaf : WF_vars(Transmit(c))

-----------------------------------------------------------------------------
(* Properties *)

(* A client that shuts down its sending side gets everything back that it  *)
(* has sent before its connection is closed, unless it paused for too long *)
(* first.                                                                  *)
EchoComplete ==
  \A c \in Conns :
    conn[c] = "closed" /\ peer[c] = "eof" /\ ~paused[c] => out[c] = came[c]

(* One loop serves them all, but nobody waits for a Deaf client: any other *)
(* connection that is queued is closed in the end, idle clients included,  *)
(* while the loop runs.                                                    *)
ClientsIndependent ==
  \A c \in Conns \ Deaf :
    (conn[c] = "queued" /\ main = "serving") ~> (conn[c] \in {"closed", "reset"} \/ ~Running)

(* stop(), once it has found the server and the loop has woken up, makes   *)
(* start_and_serve() return or raise, unless a Deaf client keeps a         *)
(* coroutine in drain() or wait_closed().                                  *)
StopWhenServingReturns ==
  (stopper = "done" /\ awake) ~>
    (~Running \/ \E c \in Deaf : conn[c] \in {"draining", "closing"} /\ out[c] < got[c])

(* "Thread-safe: close the server (serve_forever will return)" (docstring  *)
(* of stop()).                                                             *)
StopReturns == (stopper # "idle") ~> ~Running
=============================================================================
