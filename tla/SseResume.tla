------------------------------ MODULE SseResume ------------------------------
(***************************************************************************)
(* The event stream of SSEServer (scratchplus/sse.py) with the counter     *)
(* handler of examples/sse_server.py and the client of                     *)
(* examples/sse_client.py, which reconnects with Last-Event-ID.            *)
(*                                                                         *)
(* The unit is a line.  The server may be cut off by an OSError between    *)
(* two lines, the client gives a silent server up between two lines; what  *)
(* it had not read of the stream is lost.  A handler whose client is gone  *)
(* shares nothing with the next connection's and is left out.              *)
(***************************************************************************)
EXTENDS Integers, Sequences

CONSTANTS
  Ticks,            \* events of one connection
  Connections       \* how often the client connects

ASSUME SseAssumption ==
  /\ Ticks \in Nat \ {0}
  /\ Connections \in Nat

VARIABLES
  cli,          \* the client: "off", "headers", "stream", "died"
  conn,         \* how often it has connected
  last,         \* current_id: the last id line it read, 0 is ""
  fields,       \* pending_fields
  printed,      \* the events it has printed
  cut,          \* ids whose event was unfinished when a connection ended
  lines,        \* the lines the handler will send
  put,          \* how many of them it has sent
  open,         \* whether the server still holds the socket
  taken         \* how many of them the client has read

clientVars == <<cli, conn, last, fields, printed, cut, taken>>
serverVars == <<lines, put, open>>
vars == <<clientVars, serverVars>>

Done == 0      \* stands for the data of the closing "done" event
Ids == 1..(Ticks * Connections)
LineKinds == {"200", "retry", "comment", "id", "event", "data", "blank"}
Line == [kind : LineKinds, i : Nat]
FieldLines == [kind : {"id", "event", "data"}, i : Nat]

TypeOK ==
  /\ cli \in {"off", "headers", "stream", "died"}
  /\ conn \in 0..Connections
  /\ last \in {0} \cup Ids
  /\ fields \in Seq(FieldLines)
  /\ printed \in Seq(Seq(FieldLines))
  /\ cut \subseteq Ids
  /\ lines \in Seq(Line)
  /\ put \in 0..Len(lines)
  /\ open \in BOOLEAN
  /\ taken \in 0..put

Init ==
  /\ cli = "off"
  /\ conn = 0
  /\ last = 0
  /\ fields = <<>>
  /\ printed = <<>>
  /\ cut = {}
  /\ lines = <<>>
  /\ put = 0
  /\ open = FALSE
  /\ taken = 0

-----------------------------------------------------------------------------
(* The server: _handle_conn, and the handler with its SSEWriter *)

L(kind, i) == [kind |-> kind, i |-> i]

(* send_comment("heartbeat"), then send_event(..., event="tick", id=i) *)
Tick(i) == <<L("comment", i), L("id", i), L("event", i), L("data", i), L("blank", i)>>

(* Mutant: range(start + 1, ...). *)
FirstLate(start) == start + 1

First(start) == start

(* The response head, send_retry(3000), the ticks from start on, "done". *)
Stream(start) ==
  <<L("200", 0), L("retry", 0), L("blank", 0)>>
    \o [k \in 1..(5 * Ticks) |-> Tick(First(start) + ((k - 1) \div 5))[((k - 1) % 5) + 1]]
    \o <<L("event", Done), L("data", Done), L("blank", Done)>>

(* Mutant: the event with the last id is sent again. *)
ResumeAtLast == IF last = 0 THEN 1 ELSE last

(* int(last_id) + 1 if last_id.isdigit() else 1 *)
Resume == last + 1

(* Mutant: the handler sends one line too many. *)
OneMoreLine == put <= Len(lines)

MoreLines == put < Len(lines)

ServerSends ==
  /\ open
  /\ MoreLines
  /\ put' = put + 1
  /\ UNCHANGED <<clientVars, lines, open>>

(* The handler returns, or an OSError ends it; _dispatch closes the socket. *)
(* The head alone always fits into the socket's empty buffer.              *)
ServerEnds ==
  /\ open
  /\ put > 0
  /\ open' = FALSE
  /\ UNCHANGED <<clientVars, lines, put>>

-----------------------------------------------------------------------------
(* The client *)

(* connect_and_read(port, last_id) *)
Connect ==
  /\ cli = "off"
  /\ conn < Connections
  /\ cli' = "headers"
  /\ conn' = conn + 1
  /\ fields' = <<>>
  /\ taken' = 0
  /\ lines' = Stream(Resume)
  /\ put' = 0
  /\ open' = TRUE
  /\ UNCHANGED <<last, printed, cut>>

ReadHeaders ==
  /\ cli = "headers"
  /\ put > 0
  /\ taken' = 1
  /\ cli' = "stream"
  /\ UNCHANGED <<conn, last, fields, printed, cut, serverVars>>

(* Only the loop behind the head catches a timeout: here it ends the       *)
(* program.                                                                *)
HeadersTimeOut ==
  /\ cli = "headers"
  /\ put = 0
  /\ cli' = "died"
  /\ UNCHANGED <<conn, last, fields, printed, cut, taken, serverVars>>

(* Mutant: pending_fields is not reset. *)
FieldsKept(line) ==
  IF line.kind \in {"id", "event", "data"} THEN Append(fields, line) ELSE fields

FieldsAfter(line) ==
  CASE line.kind = "blank"                  -> <<>>
    [] line.kind \in {"id", "event", "data"} -> Append(fields, line)
    [] OTHER                                -> fields

(* The id counts from its own line on, not from the end of its event. *)
ReadLine ==
  /\ cli = "stream"
  /\ taken < put
  /\ taken' = taken + 1
  /\ LET line == lines[taken + 1]
     IN /\ last' = IF line.kind = "id" THEN line.i ELSE last
        /\ fields' = FieldsAfter(line)
        /\ printed' = IF line.kind = "blank" /\ fields # <<>>
                        THEN Append(printed, fields) ELSE printed
  /\ UNCHANGED <<cli, conn, cut, serverVars>>

(* End of file, or 5 seconds without a byte.  Lines that came in one       *)
(* recv() with the head are looked at after the next recv() only: when     *)
(* that one brings nothing, they are dropped unread.                       *)
StreamEnds ==
  /\ cli = "stream"
  /\ taken \in {1, put}
  /\ cli' = "off"
  /\ cut' = IF \E j \in DOMAIN fields : fields[j].kind = "id" THEN cut \cup {last} ELSE cut
  /\ UNCHANGED <<conn, last, fields, printed, taken, serverVars>>

Finished ==
  /\ (cli = "off" /\ conn = Connections) \/ cli = "died"
  /\ ~open
  /\ UNCHANGED vars

Server == ServerSends \/ ServerEnds
Client == Connect \/ ReadHeaders \/ HeadersTimeOut \/ ReadLine \/ StreamEnds

Next == Server \/ Client \/ Finished

Spec == Init /\ [][Next]_vars

-----------------------------------------------------------------------------
(* Properties *)

HasId(event) == event[1].kind = "id"

(* An event is printed as it was sent: id, name and data of one tick, or   *)
(* the closing event, even when the connection before broke off in one.    *)
EventsWhole ==
  \A k \in DOMAIN printed :
    LET event == printed[k]
    IN \/ \E i \in Ids : event = <<L("id", i), L("event", i), L("data", i)>>
       \/ event = <<L("event", Done), L("data", Done)>>

(* Over all connections the ticks come in order and none comes twice; and  *)
(* a tick is lost only to a connection that ended in the middle of it,     *)
(* after its id line: nothing else is skipped by a reconnect.              *)
TicksResumed ==
  /\ \A j, k \in DOMAIN printed :
       j < k /\ HasId(printed[j]) /\ HasId(printed[k]) =>
         printed[j][1].i < printed[k][1].i
  /\ \A i \in 1..last :
       \/ \E k \in DOMAIN printed : HasId(printed[k]) /\ printed[k][1].i = i
       \/ i \in cut
       \/ i = last /\ cli = "stream"
=============================================================================
