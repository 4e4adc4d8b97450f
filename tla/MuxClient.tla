------------------------------ MODULE MuxClient ------------------------------
(***************************************************************************)
(* The client of examples/mux_client.py on a connection of MuxServer: the  *)
(* main thread opens streams and waits for them one after the other, and a *)
(* reader thread sorts the frames that arrive into streams.                *)
(***************************************************************************)
EXTENDS MuxServer, SequencesExt

CONSTANTS
  Awaited,        \* the ids of the streams, in the order main waits for them
  WaitMayExpire,  \* a wait() of the client may time out
  Impatient       \* its recv() may

ASSUME ClientAssumption ==
  /\ Awaited \in Seq({Sid[r] : r \in Frames})
  /\ WaitMayExpire \in BOOLEAN
  /\ Impatient \in BOOLEAN
  /\ \A q, r \in Frames : Sid[q] = Sid[r] => q = r

VARIABLES
  waited,   \* how many of Awaited main is done with
  reader,   \* the reader thread: "reading", "ended", "lost" (out of step)
  taken,    \* cells that recv_frame() has consumed
  streams,  \* [ids -> the payloads filed under the id]
  done      \* the ids whose event is set

clientState == <<waited, reader, taken, streams, done>>
allVars == <<vars, clientState>>

Ids == ToSet(Awaited)

ClientInit ==
  /\ Init
  /\ waited = 0
  /\ reader = "reading"
  /\ taken = 0
  /\ streams = [s \in Ids |-> <<>>]
  /\ done = {}

(* done[s].wait(timeout=5.0), after the frames have been sent. *)
Wait ==
  /\ arrived = N
  /\ waited < Len(Awaited)
  /\ Awaited[waited + 1] \in done \/ WaitMayExpire
  /\ waited' = waited + 1
  /\ UNCHANGED <<vars, reader, taken, streams, done>>

(* mux.close() after the last wait. *)
ClientCloses ==
  /\ waited = Len(Awaited)
  /\ ClientLeaves
  /\ UNCHANGED clientState

Whole == taken + FrameCells <= Len(wire)
Header == wire[taken + 1]

(* recv_frame() returns the frame that starts with Header; what it takes   *)
(* for the payload is whatever follows.                                    *)
TakeFrame ==
  /\ reader = "reading"
  /\ peer # "gone"
  /\ Whole
  /\ Header.i = 1
  /\ taken' = taken + FrameCells
  /\ IF Header.end
     THEN done' = done \cup ({Header.sid} \cap Ids) /\ UNCHANGED streams
     ELSE /\ streams' = [s \in Ids |->
               IF s = Header.sid
               THEN Append(streams[s], SubSeq(wire, taken + 1, taken + FrameCells))
               ELSE streams[s]]
          /\ UNCHANGED done
  /\ UNCHANGED <<vars, waited, reader>>

(* Nine bytes that are no header: what they announce is not followed up.   *)
LoseStep ==
  /\ reader = "reading"
  /\ Whole
  /\ Header.i # 1
  /\ reader' = "lost"
  /\ UNCHANGED <<vars, waited, taken, streams, done>>

(* recv() returns b"", is reset, or times out. *)
ReaderEnds ==
  /\ reader = "reading"
  /\ ~Whole
  /\ rpc = "closed" \/ peer # "open" \/ Impatient
  /\ reader' = "ended"
  /\ UNCHANGED <<vars, waited, taken, streams, done>>

ClientReader == TakeFrame \/ LoseStep \/ ReaderEnds

ClientNext ==
  \/ Wait \/ ClientCloses \/ ClientReader
  \/ Next /\ UNCHANGED clientState

ClientSpec ==
  ClientInit /\ [][ClientNext]_allVars /\ Fairness /\ WF_allVars(ClientReader)

-----------------------------------------------------------------------------
(* Properties *)

(* "the client reassembles each stream independently": at every moment the *)
(* payloads filed under an id are the first its handler has sent, whole    *)
(* and in order, and when its event is set they are all of them, however   *)
(* the frames of the streams interleave; unless a sendall() has timed out. *)
Reassembled ==
  "send" \notin faults =>
    /\ reader # "lost"
    /\ \A s \in Ids : s \in done \/ streams[s] # <<>> =>
         \E t \in DOMAIN pending :
           /\ sid[t] = s
           /\ Len(streams[s]) \in IF s \in done THEN {sent[t]} ELSE 0..sent[t]
           /\ streams[s] = [f \in DOMAIN streams[s] |-> Frame(t, f, FALSE, s)]

(* "neither stream waits for the other to finish before its bytes can      *)
(* flow" (docstring of MuxServer): on a connection that stays open the     *)
(* event of a stream is set, although a Stuck handler that has begun its   *)
(* own stream may never go on.  The exceptions are a connection that ends  *)
(* and a send that times out; nothing makes either of them happen.         *)
NoStreamWaits ==
  \A r \in Frames \ Stuck :
    Kind[r] \in {"routed", "unrouted"} /\ Sid[r] \in Ids =>
      (arrived >= r) ~>
        (Sid[r] \in done \/ reader # "reading" \/ peer = "gone" \/ "send" \in faults)
=============================================================================
