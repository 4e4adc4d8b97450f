------------------------------- MODULE WsClient -------------------------------
(***************************************************************************)
(* The example client of a WebSocket session (examples/ws_client.py): it   *)
(* reads the 101 response and then frames with its own recv_frame().       *)
(***************************************************************************)
EXTENDS WsSession

VARIABLES
  reader,     \* "shaking" (before the blank line), "frames", "lost", "ended"
  taken,      \* cells the client has taken off the wire
  dropped,    \* cells received with the 101 response, which nobody looks at
  received,   \* the frames whose header recv_frame() has read
  left        \* what recv_exact() still wants of the last one's payload

clientState == <<reader, taken, dropped, received, left>>
allVars == <<vars, clientState>>

ClientInit ==
  /\ Init
  /\ reader = "shaking"
  /\ taken = 0
  /\ dropped = 0
  /\ received = <<>>
  /\ left = 0

(* buf is not used any more after the header: what a recv() returned       *)
(* behind the blank line is gone.  Any other status ends the client.       *)
Shake ==
  /\ reader = "shaking"
  /\ wire # <<>>
  /\ taken' \in 1..Len(wire)
  /\ dropped' = taken' - 1
  /\ reader' = IF wire[1].op = Upgraded THEN "frames" ELSE "ended"
  /\ UNCHANGED <<vars, received, left>>

Waiting == reader = "frames" /\ taken < Len(wire)
NextCell == wire[taken + 1]

(* The two to ten bytes of a header are there, and the last read of them   *)
(* ends with a cell.                                                       *)
HeadFits == NextCell.head # <<>> /\ Len(NextCell.head) = 2 + Extended(NextCell.head)

(* What is left of the payload reaches to the end of the cell at least.    *)
PayloadFits == NextCell.head = <<>> /\ NextCell.size <= left

RecvHead ==
  /\ Waiting
  /\ left = 0
  /\ HeadFits
  /\ taken' = taken + 1
  /\ LET frame == ClientReads(NextCell.head)
     IN /\ received' = Append(received, [op |-> frame.op, length |-> frame.length,
                                         f |-> NextCell.f])
        /\ left' = frame.length
  /\ UNCHANGED <<vars, reader, dropped>>

(* One recv() of recv_exact(payload_len). *)
RecvPayload ==
  /\ Waiting
  /\ left > 0
  /\ PayloadFits
  /\ taken' = taken + 1
  /\ left' = left - NextCell.size
  /\ UNCHANGED <<vars, reader, dropped, received>>

(* The bytes in front of the client are not what it takes them for:        *)
(* whatever it reads from now on is not followed up.                       *)
LoseStep ==
  /\ Waiting
  /\ IF left = 0 THEN ~HeadFits ELSE ~PayloadFits
  /\ reader' = "lost"
  /\ UNCHANGED <<vars, taken, dropped, received, left>>

ClientNext ==
  \/ Shake \/ RecvHead \/ RecvPayload \/ LoseStep
  \/ Next /\ UNCHANGED clientState

(* The connection thread is scheduled, its handler goes on, and sendall()  *)
(* progresses or times out.  Nothing is assumed of the client, nor that    *)
(* the wait for a silent one runs out.                                     *)
ClientSpec == ClientInit /\ [][ClientNext]_allVars /\ WF_vars(~Silent /\ Server)

-----------------------------------------------------------------------------
(* Properties *)

(* How many frames recv_frame() has returned. *)
Returned == IF left = 0 THEN Len(received) ELSE Len(received) - 1

(* The frames the client reads are the frames the server wrote, one after  *)
(* the other and each with the opcode and the payload it was written with, *)
(* on both sides of every change of the length field's form, as long as no *)
(* sendall() failed and nothing came together with the 101 response.       *)
ClientInSync ==
  ~broken /\ dropped = 0 =>
    /\ reader # "lost"
    /\ \A k \in 1..Returned : \E p \in DOMAIN wire :
         LET cells == CellsOf(k + 1, received[k].op, wire[p].of, received[k].length)
             last == p + Len(cells) - 1
         IN /\ received[k].f = k + 1
            /\ last <= taken
            /\ SubSeq(wire, p, last) = cells
            /\ \A i \in DOMAIN wire : wire[i].f = k + 1 => i \in p..last
=============================================================================
