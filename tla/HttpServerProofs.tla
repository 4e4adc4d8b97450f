-------------------------- MODULE HttpServerProofs --------------------------
(***************************************************************************)
(* Theorems about a connection of HTTPServer, for any number of requests   *)
(* of any length, every RECV_SIZE and header limit, and every choice of    *)
(* timeouts.  The first half is about the reader alone: what               *)
(* _parse_request keeps however the bytes are cut into recv() calls, one   *)
(* inductive invariant in four parts, kept by each action of the reader.   *)
(* The second half says what has been answered at each point of the loop   *)
(* of _handle_conn, and draws the theorems from both; what PipelinedClient *)
(* makes of the answers comes last.                                        *)
(***************************************************************************)
EXTENDS ClassicClient, SequenceTheorems, TLAPS

(* How many bytes rbuf can hold at each point of a call: a head that is    *)
(* longer than the limit ends the call, and a body is only received while  *)
(* it is short.                                                            *)
BufferInv ==
  /\ pc \in {"idle", "header"} => Buffered <= MaxHeader
  /\ pc = "body" => Buffered <= MaxHeader \/ Buffered < want + RecvSize
  /\ Buffered <= RecvSize + (IF want < MaxHeader THEN MaxHeader ELSE want)

(* Nothing is left in rbuf and nothing will ever come. *)
Drained == peer # "open" /\ got = sent /\ used = got

(* The requests returned so far are the first of the stream, and whole. *)
WholeSoFar ==
  \A i \in DOMAIN requests :
    /\ i \in Requests
    /\ requests[i] = [first |-> Start[i], head |-> HeadLen[i],
                      want |-> BodyLen[i], body |-> BodyLen[i]]

NextUp == Len(requests) + 1

(* Where a reader in step stands: at the first byte of the next request,   *)
(* behind its head, or at the end of a stream that was cut.                *)
Between == WholeSoFar /\ used = Start[NextUp]
Within ==
  /\ WholeSoFar
  /\ NextUp \in Requests
  /\ first = Start[NextUp]
  /\ used = HeadEnd(NextUp)
  /\ want = BodyLen[NextUp]

StepInv ==
  "body" \notin timeouts =>
    /\ InStep
    /\ pc \in {"idle", "header"} => Between \/ Drained
    /\ pc = "body" => Within

(* A head is given up at its first byte, and the reader stops there. *)
RefusedInv ==
  refused =>
    /\ pc = "ended"
    /\ "body" \notin timeouts =>
         \E r \in Requests : Start[r] = used /\ ~ShortHead(r)

(* Every call takes the end of another head out of the stream, in step or  *)
(* not; so there are no more calls than requests.                          *)
HeadsTaken == IF pc = "body" THEN Len(requests) + 1 ELSE Len(requests)
CountInv ==
  /\ \E r \in 0..N : HeadsTaken <= r /\ (r = 0 \/ HeadEnd(r) <= used)
  /\ pc = "body" => \E r \in Requests : used = HeadEnd(r)

ReaderInv == ReaderTypeOK /\ BufferInv /\ StepInv /\ RefusedInv /\ CountInv

(* A step of the reader, or one that notes that a sendall() timed out. *)
ReaderNext ==
  \/ Client
  \/ Call \/ RecvHeader \/ HeaderEnds \/ ParseHead \/ RecvBody \/ Deliver
  \/ /\ timeouts' \in {timeouts, timeouts \cup {"send"}}
     /\ UNCHANGED <<streamVars, bufVars, pc, first, want, requests, refused>>

-----------------------------------------------------------------------------
(* The layout of the stream: heads and bodies follow each other. *)
LEMMA Layout ==
  /\ N \in Nat /\ RecvSize \in Nat /\ RecvSize > 0 /\ MaxHeader \in Nat
  /\ RecvSize <= MaxHeader
  /\ \A r \in 1..(N + 1) : Start[r] \in Nat /\ Start[r] <= Total
  /\ Total \in Nat
  /\ \A r \in Requests :
       /\ HeadLen[r] \in Nat /\ HeadLen[r] > 0 /\ BodyLen[r] \in Nat
       /\ HeadEnd(r) \in Nat /\ HeadEnd(r) = Start[r] + HeadLen[r]
       /\ Start[r] < HeadEnd(r) /\ HeadEnd(r) + BodyLen[r] = Start[r + 1]
       /\ HeadEnd(r) <= Total
       /\ r + 1 \in 1..(N + 1) /\ r \in 1..(N + 1)
  /\ \A q, r \in Requests : q < r => HeadEnd(q) <= Start[r]
<1>1. /\ N \in Nat /\ N + 1 \in 1..(N + 1) /\ RecvSize \in Nat /\ RecvSize > 0
      /\ MaxHeader \in Nat /\ RecvSize <= MaxHeader
  BY ReaderAssumption
<1>2. \A q, r \in 1..(N + 1) : Start[q] \in Nat /\ (q <= r => Start[q] <= Start[r])
  BY ReaderAssumption
<1>3. \A r \in 1..(N + 1) : Start[r] <= Start[N + 1]
  BY <1>1, <1>2
<1>4. \A r \in 1..N :
        /\ HeadLen[r] \in Nat /\ HeadLen[r] > 0 /\ BodyLen[r] \in Nat
        /\ Start[r + 1] = Start[r] + HeadLen[r] + BodyLen[r]
        /\ r + 1 \in 1..(N + 1) /\ r \in 1..(N + 1)
  BY ReaderAssumption, <1>1 DEF Requests
<1>5. ASSUME NEW q \in 1..N, NEW r \in 1..N, q < r
      PROVE  Start[q] + HeadLen[q] <= Start[r]
  <2>1. q + 1 \in 1..(N + 1) /\ r \in 1..(N + 1) /\ q + 1 <= r
    BY <1>4, <1>5
  <2>2. /\ Start[q + 1] <= Start[r] /\ Start[q] \in Nat
        /\ Start[q + 1] \in Nat /\ Start[r] \in Nat
    BY <1>2, <1>4, <2>1
  <2>3. /\ HeadLen[q] \in Nat /\ BodyLen[q] \in Nat
        /\ Start[q + 1] = Start[q] + HeadLen[q] + BodyLen[q]
    BY <1>4
  <2> QED
    BY <2>2, <2>3
<1>6. ASSUME NEW r \in 1..N
      PROVE  /\ Start[r] + HeadLen[r] \in Nat /\ Start[r] < Start[r] + HeadLen[r]
             /\ Start[r] + HeadLen[r] + BodyLen[r] = Start[r + 1]
             /\ Start[r] + HeadLen[r] <= Start[N + 1]
  <2>1. /\ Start[r] \in Nat /\ Start[r + 1] \in Nat
        /\ Start[r + 1] <= Start[N + 1] /\ Start[N + 1] \in Nat
    BY <1>1, <1>2, <1>3, <1>4
  <2>2. /\ HeadLen[r] \in Nat /\ HeadLen[r] > 0 /\ BodyLen[r] \in Nat
        /\ Start[r + 1] = Start[r] + HeadLen[r] + BodyLen[r]
    BY <1>4
  <2> QED
    BY <2>1, <2>2
<1> QED
  BY <1>1, <1>2, <1>3, <1>4, <1>5, <1>6 DEF Requests, HeadEnd, Total

(* The first head that rbuf holds, when rbuf starts with a request. *)
LEMMA FirstHead ==
  ASSUME ReaderTypeOK, NEW k \in 1..(N + 1), used = Start[k],
         NEW r \in HeadsFound, \A q \in HeadsFound : r <= q
  PROVE  k \in Requests /\ r = k
<1> USE Layout
<1>1. r \in Requests /\ used < HeadEnd(r) /\ HeadEnd(r) <= got /\ got <= Total
      /\ got \in Nat /\ used \in Nat
  BY DEF HeadsFound, ReaderTypeOK
<1>2. k # N + 1
  BY <1>1 DEF Total
<1>3. k \in Requests
  BY <1>2 DEF Requests
<1>4. ~(r < k)
  BY <1>1, <1>3
<1>5. k <= r /\ HeadEnd(k) <= HeadEnd(r)
  <2>1. k \in Int /\ r \in Int
    BY <1>1, <1>3 DEF Requests
  <2>2. CASE k = r
    BY <2>1, <2>2, <1>3
  <2>3. CASE k < r
    BY <1>1, <1>3, <2>3, <2>1
  <2> QED
    BY <1>4, <2>1, <2>2, <2>3
<1>6. k \in HeadsFound
  BY <1>1, <1>3, <1>5 DEF HeadsFound
<1> QED
  BY <1>3, <1>5, <1>6 DEF Requests

(* One more request behind those returned so far. *)
LEMMA OneMore ==
  ASSUME NEW s \in Seq(Request), NEW x \in Request
  PROVE  /\ Append(s, x) \in Seq(Request)
         /\ Len(s) \in Nat /\ Len(Append(s, x)) = Len(s) + 1
         /\ DOMAIN s = 1..Len(s)
         /\ DOMAIN Append(s, x) = 1..(Len(s) + 1)
         /\ Append(s, x)[Len(s) + 1] = x
         /\ \A i \in 1..Len(s) : Append(s, x)[i] = s[i]
         /\ \A i \in 1..(Len(s) + 1) : i \in 1..Len(s) \/ i = Len(s) + 1
  OBVIOUS

-----------------------------------------------------------------------------
(* Every variable keeps its type. *)
LEMMA ReaderType == ReaderTypeOK /\ CountInv /\ ReaderNext => ReaderTypeOK'
<1> SUFFICES ASSUME ReaderTypeOK, CountInv, ReaderNext PROVE ReaderTypeOK'
  OBVIOUS
<1> USE Layout DEF ReaderTypeOK
<1>1. CASE Client
  <2>1. PICK s \in 0..Total : sent' = s /\ got <= s
    BY <1>1 DEF Client, SendByte, ClientLeaves
  <2>2. peer' \in {"open", "eof", "gone"}
    BY <1>1 DEF Client, SendByte, ClientLeaves
  <2>3. UNCHANGED <<got, used, pc, first, want, requests, refused, timeouts>>
    BY <1>1 DEF Client, SendByte, ClientLeaves, bufVars, parseVars
  <2>4. got \in 0..s
    BY <2>1
  <2> QED
    BY <2>1, <2>2, <2>3, <2>4
<1>2. CASE Call
  BY <1>2 DEF Call, streamVars, bufVars
<1>3. CASE RecvHeader
  BY <1>3 DEF RecvHeader, Receive, TooLong, streamVars
<1>4. CASE HeaderEnds
  BY <1>4 DEF HeaderEnds, TimedOut, streamVars, bufVars
<1>5. CASE ParseHead
  <2>1. PICK r \in HeadsFound :
          /\ first' = used /\ used' = HeadEnd(r)
          /\ \/ pc' = "body" /\ want' = BodyLen[r]
             \/ pc' \in {"ended", "raised"} /\ want' = want
    BY <1>5 DEF ParseHead
  <2>2. r \in Requests /\ used < HeadEnd(r) /\ HeadEnd(r) <= got
    BY DEF HeadsFound
  <2>3. used' \in 0..got /\ first' \in 0..used' /\ want' \in Nat
    BY <2>1, <2>2
  <2> QED
    BY <1>5, <2>1, <2>3 DEF ParseHead, streamVars
<1>6. CASE RecvBody
  BY <1>6 DEF RecvBody, Receive, streamVars, parseVars
<1>7. CASE Deliver
  <2>1. used' \in used..got /\ Taken \in Nat
    <3>1. Taken \in 0..(got - used)
      BY DEF Taken, Buffered
    <3> QED
      BY <1>7, <3>1 DEF Deliver
  <2>2. [first |-> first, head |-> used - first, want |-> want, body |-> Taken] \in Request
    BY <2>1 DEF Request
  <2>3. requests' \in Seq(Request)
    BY <1>7, <2>2, OneMore DEF Deliver
  <2> QED
    BY <1>7, <2>1, <2>3 DEF Deliver, TimedOut, streamVars
<1>8. CASE UNCHANGED <<streamVars, bufVars, pc, first, want, requests, refused>>
           /\ timeouts' \in {timeouts, timeouts \cup {"send"}}
  BY <1>8 DEF streamVars, bufVars
<1> QED
  BY <1>1, <1>2, <1>3, <1>4, <1>5, <1>6, <1>7, <1>8 DEF ReaderNext

(* The buffer keeps its bound. *)
LEMMA BufferStep == ReaderTypeOK /\ BufferInv /\ ReaderNext => BufferInv'
<1> SUFFICES ASSUME ReaderTypeOK, BufferInv, ReaderNext PROVE BufferInv'
  OBVIOUS
<1> USE DEF BufferInv, Buffered
<1>a. /\ got \in Nat /\ used \in Nat /\ want \in Nat /\ used <= got
      /\ RecvSize \in Nat /\ RecvSize > 0 /\ MaxHeader \in Nat /\ RecvSize <= MaxHeader
  BY Layout DEF ReaderTypeOK
<1>1. CASE Client
  BY <1>1 DEF Client, SendByte, ClientLeaves, bufVars, parseVars
<1>2. CASE Call
  BY <1>2 DEF Call, bufVars
<1>3. CASE RecvHeader
  <2>1. PICK n \in 1..RecvSize : got' = got + n
    BY <1>3 DEF RecvHeader, Receive
  <2>2. /\ pc = "header" /\ used' = used /\ want' = want
        /\ pc' = IF got' - used > MaxHeader THEN "ended" ELSE "header"
    BY <1>3 DEF RecvHeader, TooLong
  <2> QED
    BY <1>a, <2>1, <2>2
<1>4. CASE HeaderEnds
  BY <1>4 DEF HeaderEnds, bufVars
<1>5. CASE ParseHead
  <2>1. PICK u \in Nat : used' = u /\ used < u /\ u <= got
    <3>1. PICK r \in HeadsFound : used' = HeadEnd(r)
      BY <1>5 DEF ParseHead
    <3>2. r \in Requests /\ used < HeadEnd(r) /\ HeadEnd(r) <= got /\ HeadEnd(r) \in Nat
      BY Layout DEF HeadsFound
    <3> QED
      BY <3>1, <3>2
  <2>2. PICK w \in Nat : want' = w
    BY <1>a, <1>5, Layout DEF ParseHead, HeadsFound
  <2>3. pc = "header" /\ pc' \in {"body", "ended", "raised"} /\ got' = got
    BY <1>5 DEF ParseHead
  <2>4. got - used <= MaxHeader
    BY <2>3
  <2>5. got - u <= MaxHeader
    BY <1>a, <2>1, <2>4
  <2> QED
    BY <1>a, <2>1, <2>2, <2>3, <2>5
<1>6. CASE RecvBody
  BY <1>a, <1>6 DEF RecvBody, Receive, Short, parseVars
<1>7. CASE Deliver
  <2>1. /\ pc = "body" /\ pc' = "idle" /\ got' = got /\ want' = want
        /\ used' = used + (IF got - used < want THEN got - used ELSE want)
    BY <1>7 DEF Deliver, Taken
  <2>2. got' - used' <= MaxHeader
    <3>1. got - used <= MaxHeader \/ got - used < want + RecvSize
      BY <2>1
    <3> QED
      BY <1>a, <2>1, <3>1
  <2> QED
    BY <1>a, <2>1, <2>2
<1>8. CASE UNCHANGED <<streamVars, bufVars, pc, first, want, requests, refused>>
  BY <1>8 DEF bufVars
<1> QED
  BY <1>1, <1>2, <1>3, <1>4, <1>5, <1>6, <1>7, <1>8 DEF ReaderNext

(* Every call takes one head more. *)
LEMMA CountStep == ReaderTypeOK /\ CountInv /\ ReaderNext => CountInv'
<1> SUFFICES ASSUME ReaderTypeOK, CountInv, ReaderNext PROVE CountInv'
  OBVIOUS
<1> USE Layout
<1>a. used \in Nat /\ Len(requests) \in Nat /\ requests \in Seq(Request)
  BY LenProperties DEF ReaderTypeOK
<1>b. PICK r \in 0..N : HeadsTaken <= r /\ (r = 0 \/ HeadEnd(r) <= used)
  BY DEF CountInv
<1>1. ASSUME UNCHANGED <<used, requests>>, pc # "body", pc' # "body" PROVE CountInv'
  BY <1>b, <1>1 DEF CountInv, HeadsTaken, HeadEnd
<1>2. ASSUME UNCHANGED <<used, requests, pc>> PROVE CountInv'
  BY <1>2 DEF CountInv, HeadsTaken, HeadEnd
<1>3. CASE ParseHead
  <2>1. PICK h \in HeadsFound : used' = HeadEnd(h)
    BY <1>3 DEF ParseHead
  <2>2. h \in Requests /\ used < HeadEnd(h) /\ requests' = requests /\ pc = "header"
    BY <1>3, <2>1 DEF HeadsFound, ParseHead
  <2>3. r < h
    <3>1. r \in Int /\ h \in Int
      BY <2>2 DEF Requests
    <3>2. CASE r = 0
      BY <2>2, <3>2 DEF Requests
    <3>3. CASE r # 0
      <4>1. r \in Requests /\ HeadEnd(r) < HeadEnd(h)
        BY <1>a, <1>b, <2>2, <3>3 DEF Requests
      <4>2. ~(h < r)
        BY <2>2, <4>1
      <4>3. r # h
        BY <4>1, <2>2
      <4> QED
        BY <3>1, <4>2, <4>3
    <3> QED
      BY <3>2, <3>3
  <2>4. HeadsTaken' <= h
    <3>1. HeadsTaken = Len(requests) /\ HeadsTaken' <= Len(requests) + 1
      BY <1>a, <2>2 DEF HeadsTaken
    <3>2. HeadsTaken' \in Int
      BY <1>a, <2>2 DEF HeadsTaken
    <3> QED
      BY <1>a, <1>b, <2>2, <2>3, <3>1, <3>2 DEF Requests
  <2>5. h \in 0..N /\ (HeadEnd(h))' = HeadEnd(h) /\ HeadEnd(h) \in Nat
    BY <2>2 DEF Requests, HeadEnd
  <2> QED
    BY <2>1, <2>2, <2>4, <2>5 DEF CountInv, HeadEnd
<1>4. CASE Deliver
  <2>1. Len(requests') = Len(requests) + 1 /\ pc = "body" /\ pc' = "idle"
    BY <1>4, <1>a, LenProperties DEF Deliver
  <2>2. used' \in Nat /\ used <= used'
    BY <1>4 DEF Deliver, Taken, Buffered, ReaderTypeOK
  <2>3. HeadsTaken' = HeadsTaken
    BY <2>1 DEF HeadsTaken
  <2>4. r = 0 \/ HeadEnd(r) <= used'
    <3>1. r # 0 => r \in Requests
      BY DEF Requests
    <3> QED
      BY <1>a, <1>b, <2>2, <3>1
  <2> QED
    BY <1>b, <2>1, <2>3, <2>4 DEF CountInv, HeadEnd
<1> QED
  BY <1>1, <1>2, <1>3, <1>4
     DEF ReaderNext, Client, SendByte, ClientLeaves, Call, RecvHeader, HeaderEnds, RecvBody,
         streamVars, bufVars, parseVars

(* Requests that are all whole are in step. *)
LEMMA WholeInStep == WholeSoFar => InStep
<1> SUFFICES ASSUME WholeSoFar, NEW i \in DOMAIN requests
             PROVE  /\ i \in Requests
                    /\ requests[i].first = Start[i]
                    /\ requests[i].head = HeadLen[i]
                    /\ requests[i].want = BodyLen[i]
                    /\ ~(requests[i].body < requests[i].want)
  BY DEF InStep
<1>1. /\ i \in Requests
      /\ requests[i] = [first |-> Start[i], head |-> HeadLen[i],
                        want |-> BodyLen[i], body |-> BodyLen[i]]
  BY DEF WholeSoFar
<1>2. BodyLen[i] \in Nat
  BY <1>1, Layout
<1> QED
  BY <1>1, <1>2

(* The next request starts inside the stream, or at its end. *)
LEMMA NextUpType ==
  ASSUME ReaderTypeOK, WholeSoFar
  PROVE  Len(requests) \in Nat /\ DOMAIN requests = 1..Len(requests) /\ NextUp \in 1..(N + 1)
<1>1. Len(requests) \in Nat /\ DOMAIN requests = 1..Len(requests)
  BY DEF ReaderTypeOK
<1>2. Len(requests) > 0 => Len(requests) \in Requests
  BY <1>1 DEF WholeSoFar
<1> QED
  BY <1>1, <1>2, Layout DEF Requests, NextUp

(* A step that leaves the parser alone keeps it in step: the client's, or  *)
(* the note of a sendall() that timed out.                                 *)
LEMMA ParserAlone ==
  ASSUME StepInv, UNCHANGED <<got, used, pc, first, want, requests>>,
         "body" \notin timeouts' => "body" \notin timeouts,
         peer # "open" => peer' # "open",
         Drained => got' = sent'
  PROVE  StepInv'
<1> SUFFICES ASSUME "body" \notin timeouts' PROVE StepInv'
  BY DEF StepInv
<1>1. InStep'
  BY DEF StepInv, InStep
<1>2. Between => Between'
  BY DEF Between, WholeSoFar, NextUp
<1>3. Within => Within'
  BY DEF Within, WholeSoFar, NextUp, HeadEnd
<1>4. Drained => Drained'
  BY DEF Drained
<1> QED
  BY <1>1, <1>2, <1>3, <1>4 DEF StepInv

(* Unless a recv() has timed out in a body, the parser stays in step. *)
LEMMA StepStep == ReaderTypeOK /\ StepInv /\ ReaderNext => StepInv'
<1> SUFFICES ASSUME ReaderTypeOK, StepInv, ReaderNext, "body" \notin timeouts'
             PROVE  StepInv'
  BY DEF StepInv
<1>0. "body" \notin timeouts
  BY DEF ReaderNext, Client, SendByte, ClientLeaves, Call, RecvHeader, HeaderEnds, ParseHead,
         RecvBody, Deliver, bufVars, parseVars, streamVars
<1>a. /\ InStep
      /\ pc \in {"idle", "header"} => Between \/ Drained
      /\ pc = "body" => Within
  BY <1>0 DEF StepInv
<1>b. got \in Nat /\ sent \in Nat /\ used \in Nat /\ used <= got /\ got <= sent
  BY Layout DEF ReaderTypeOK
<1>1. CASE Client
  <2>1. /\ UNCHANGED <<got, used, pc, first, want, requests, timeouts>>
        /\ peer # "open" => peer' # "open"
    BY <1>1 DEF Client, SendByte, ClientLeaves, bufVars, parseVars
  <2>2. ASSUME Drained PROVE got' = sent'
    <3>1. peer # "open" /\ got = sent
      BY <2>2 DEF Drained
    <3>2. sent' \in got..sent
      BY <1>1, <3>1 DEF Client, SendByte, ClientLeaves
    <3> QED
      BY <1>b, <2>1, <3>1, <3>2
  <2> QED
    BY <2>1, <2>2, ParserAlone
<1>2. CASE Call
  <2>1. /\ UNCHANGED <<sent, peer, got, used, first, want, requests>>
        /\ pc = "idle" /\ pc' = "header"
    BY <1>2 DEF Call, streamVars, bufVars
  <2>2. InStep' /\ (Between' \/ Drained')
    BY <1>a, <2>1 DEF InStep, Between, WholeSoFar, NextUp, Drained
  <2> QED
    BY <2>1, <2>2 DEF StepInv
<1>3. CASE RecvHeader
  <2>1. PICK n \in 1..RecvSize : got + n <= sent /\ got' = got + n
    BY <1>3 DEF RecvHeader, Receive
  <2>2. /\ UNCHANGED <<sent, peer, used, first, want, requests>>
        /\ pc = "header" /\ pc' \in {"header", "ended"}
    BY <1>3 DEF RecvHeader, streamVars
  <2>3. ~Drained
    <3>1. n \in Nat /\ n > 0
      BY <2>1, Layout
    <3> QED
      BY <1>b, <2>1, <3>1 DEF Drained
  <2>4. InStep' /\ Between'
    BY <1>a, <2>2, <2>3 DEF InStep, Between, WholeSoFar, NextUp
  <2> QED
    BY <2>2, <2>4 DEF StepInv
<1>4. CASE HeaderEnds
  <2>1. UNCHANGED <<peer, requests>> /\ pc' = "ended"
    BY <1>4 DEF HeaderEnds, streamVars
  <2> QED
    BY <1>a, <2>1 DEF StepInv, InStep
<1>5. CASE ParseHead
  <2>1. PICK r \in HeadsFound :
          /\ \A q \in HeadsFound : r <= q
          /\ first' = used /\ used' = HeadEnd(r)
          /\ \/ pc' = "body" /\ want' = BodyLen[r]
             \/ pc' \in {"ended", "raised"}
    BY <1>5 DEF ParseHead
  <2>2. UNCHANGED <<peer, requests>> /\ pc = "header"
    BY <1>5 DEF ParseHead, streamVars
  <2>3. ~Drained
    BY <1>b, Layout DEF Drained, HeadsFound
  <2>4. Between /\ NextUp \in 1..(N + 1)
    BY <1>a, <2>2, <2>3, NextUpType DEF Between
  <2>5. NextUp \in Requests /\ r = NextUp
    BY <2>1, <2>4, FirstHead DEF Between
  <2>6. pc' = "body" => Within'
    <3>1. WholeSoFar' /\ NextUp' = NextUp
      BY <2>2, <2>4 DEF Between, WholeSoFar, NextUp
    <3>2. first' = Start[NextUp] /\ used' = HeadEnd(NextUp)
      BY <2>1, <2>4, <2>5 DEF Between
    <3> QED
      BY <2>1, <2>5, <3>1, <3>2 DEF Within, HeadEnd
  <2>7. InStep'
    BY <1>a, <2>2 DEF InStep
  <2> QED
    BY <2>1, <2>6, <2>7 DEF StepInv
<1>6. CASE RecvBody
  <2>1. UNCHANGED <<sent, peer, used, pc, first, want, requests>> /\ pc = "body"
    BY <1>6 DEF RecvBody, streamVars, parseVars
  <2>2. InStep' /\ Within'
    BY <1>a, <2>1 DEF InStep, Within, WholeSoFar, NextUp, HeadEnd
  <2> QED
    BY <2>1, <2>2 DEF StepInv
<1>7. CASE Deliver
  <2>1. /\ pc = "body" /\ pc' = "idle" /\ UNCHANGED <<sent, peer, got, first, want>>
        /\ used' = used + Taken
        /\ requests' = Append(requests, [first |-> first, head |-> used - first,
                                         want |-> want, body |-> Taken])
        /\ Buffered >= want \/ NothingComes
        /\ timeouts' = timeouts \cup (IF Buffered < want THEN TimedOut("body") ELSE {})
    <3>1. got \in Nat /\ used \in Nat /\ want \in Nat
      BY DEF ReaderTypeOK
    <3> QED
      BY <1>7, <3>1 DEF Deliver, Short, Buffered, streamVars
  <2> DEFINE k == Len(requests)
             x == [first |-> first, head |-> used - first, want |-> want, body |-> Taken]
  <2>2. /\ Within /\ WholeSoFar /\ NextUp \in Requests /\ NextUp = k + 1
        /\ k \in Nat /\ DOMAIN requests = 1..k
        /\ first = Start[k + 1] /\ used = HeadEnd(k + 1) /\ want = BodyLen[k + 1]
    BY <1>a, <2>1, NextUpType DEF Within, NextUp
  <2>3. used - first = HeadLen[k + 1] /\ want \in Nat /\ first \in Nat /\ used - first \in Nat
        /\ used + want = Start[k + 2] /\ (k + 1) + 1 = k + 2
    <3>1. /\ HeadLen[k + 1] \in Nat /\ HeadEnd(k + 1) = Start[k + 1] + HeadLen[k + 1]
          /\ Start[k + 1] \in Nat /\ BodyLen[k + 1] \in Nat
          /\ HeadEnd(k + 1) + BodyLen[k + 1] = Start[(k + 1) + 1]
      BY <2>2, Layout
    <3> QED
      BY <2>2, <3>1
  <2>4. /\ Taken \in Nat
        /\ Buffered >= want => Taken = want
        /\ ~(Buffered >= want) => Taken = Buffered /\ Taken < want
    BY <1>b, <2>3 DEF Taken, Buffered
  <2>5. x \in Request
    BY <2>3, <2>4 DEF Request
  <2>6. /\ Len(requests') = k + 1 /\ DOMAIN requests' = 1..(k + 1)
        /\ requests'[k + 1] = x /\ \A i \in 1..k : requests'[i] = requests[i]
        /\ \A i \in 1..(k + 1) : i \in 1..k \/ i = k + 1
    BY <2>1, <2>5, OneMore DEF ReaderTypeOK
  <2> HIDE DEF k, x
  <2>7. CASE Buffered >= want
    <3>1. x = [first |-> Start[k + 1], head |-> HeadLen[k + 1],
               want |-> BodyLen[k + 1], body |-> BodyLen[k + 1]]
      BY <2>2, <2>3, <2>4, <2>7 DEF x
    <3>2. WholeSoFar'
      BY <2>2, <2>6, <3>1 DEF WholeSoFar
    <3>3. used' = Start[NextUp]'
      BY <2>1, <2>3, <2>4, <2>6, <2>7, <2>2 DEF NextUp
    <3>4. InStep'
      BY <3>2, WholeInStep, PTL
    <3> QED
      BY <2>1, <3>2, <3>3, <3>4 DEF StepInv, Between
  <2>8. CASE ~(Buffered >= want)
    <3>1. NothingComes /\ got = sent
      BY <2>1, <2>8 DEF NothingComes
    <3>2. peer # "open"
      <4>1. Buffered < want
        BY <1>b, <2>3, <2>8 DEF Buffered
      <4> QED
        BY <2>1, <4>1 DEF TimedOut
    <3>3. Drained'
      <4>1. used' = got
        BY <1>b, <2>1, <2>4, <2>8 DEF Buffered
      <4> QED
        BY <2>1, <3>1, <3>2, <4>1 DEF Drained
    <3>4. InStep'
      <4> SUFFICES ASSUME NEW i \in 1..(k + 1)
                   PROVE  /\ i \in Requests
                          /\ requests'[i].first = Start[i]
                          /\ requests'[i].head = HeadLen[i]
                          /\ requests'[i].want = BodyLen[i]
                          /\ requests'[i].body < requests'[i].want =>
                               i = Len(requests') /\ peer' # "open"
        BY <2>6 DEF InStep
      <4>1. CASE i \in 1..k
        <5>1. /\ i \in Requests
              /\ requests'[i] = [first |-> Start[i], head |-> HeadLen[i],
                                 want |-> BodyLen[i], body |-> BodyLen[i]]
          BY <2>2, <2>6, <4>1 DEF WholeSoFar
        <5>2. ~(BodyLen[i] < BodyLen[i])
          BY <5>1, Layout
        <5> QED
          BY <5>1, <5>2
      <4>2. CASE i = k + 1
        BY <2>1, <2>2, <2>3, <2>6, <3>2, <4>2 DEF x
      <4> QED
        BY <2>6, <4>1, <4>2
    <3> QED
      BY <2>1, <3>3, <3>4 DEF StepInv
  <2> QED
    BY <2>7, <2>8
<1>8. CASE /\ timeouts' \in {timeouts, timeouts \cup {"send"}}
           /\ UNCHANGED <<streamVars, bufVars, pc, first, want, requests, refused>>
  BY <1>8, <1>0, ParserAlone DEF streamVars, bufVars, Drained
<1> QED
  BY <1>1, <1>2, <1>3, <1>4, <1>5, <1>6, <1>7, <1>8 DEF ReaderNext

(* A head is given up only when it comes near the limit. *)
LEMMA RefusedStep == ReaderTypeOK /\ StepInv /\ RefusedInv /\ ReaderNext => RefusedInv'
<1> SUFFICES ASSUME ReaderTypeOK, StepInv, RefusedInv, ReaderNext PROVE RefusedInv'
  OBVIOUS
<1>1. CASE RecvHeader
  <2> SUFFICES ASSUME refused', "body" \notin timeouts'
               PROVE  \E r \in Requests : Start[r] = used' /\ ~ShortHead(r)
    BY <1>1 DEF RefusedInv, RecvHeader
  <2>1. PICK n \in 1..RecvSize : got + n <= sent /\ got' = got + n
    BY <1>1 DEF RecvHeader, Receive
  <2>2. /\ used' = used /\ timeouts' = timeouts /\ HeadsFound = {} /\ pc = "header"
        /\ TooLong(got' - used)
    BY <1>1 DEF RecvHeader
  <2>3. /\ got \in Nat /\ used \in Nat /\ used <= got /\ n \in Nat /\ n > 0 /\ n <= RecvSize
        /\ sent \in Nat /\ sent <= Total /\ Total \in Nat
        /\ RecvSize \in Nat /\ MaxHeader \in Nat
    BY <2>1, Layout DEF ReaderTypeOK
  <2>4. Between /\ NextUp \in 1..(N + 1)
    BY <2>1, <2>2, <2>3, NextUpType DEF StepInv, Drained, Between
  <2>5. NextUp \in Requests
    <3>1. NextUp # N + 1
      BY <2>1, <2>3, <2>4 DEF Between, Total
    <3> QED
      BY <2>4, <3>1, Layout DEF Requests
  <2>6. /\ HeadLen[NextUp] \in Nat /\ HeadEnd(NextUp) = used + HeadLen[NextUp]
        /\ used < HeadEnd(NextUp) /\ HeadEnd(NextUp) \in Nat
    BY <2>4, <2>5, Layout DEF Between
  <2>7. ~(HeadEnd(NextUp) <= got)
    BY <2>2, <2>5, <2>6 DEF HeadsFound
  <2>8. ~(HeadLen[NextUp] + RecvSize <= MaxHeader + 1)
    <3>1. got + n - used > MaxHeader
      BY <2>1, <2>2, <2>3 DEF TooLong
    <3> QED
      BY <2>3, <2>6, <2>7, <3>1
  <2> QED
    BY <2>2, <2>4, <2>5, <2>8 DEF Between, ShortHead
<1>2. CASE Call \/ HeaderEnds \/ ParseHead \/ RecvBody \/ Deliver
  BY <1>2 DEF RefusedInv, Call, HeaderEnds, ParseHead, RecvBody, Deliver, parseVars
<1>3. ASSUME UNCHANGED <<used, pc, refused>>, timeouts' \in {timeouts, timeouts \cup {"send"}}
      PROVE  RefusedInv'
  BY <1>3 DEF RefusedInv, ShortHead
<1> QED
  BY <1>1, <1>2, <1>3
     DEF ReaderNext, Client, SendByte, ClientLeaves, bufVars, parseVars

(* At the start the reader stands in front of the first request. *)
LEMMA ReaderInvInit == ReaderInit => ReaderInv
<1> SUFFICES ASSUME ReaderInit PROVE ReaderInv
  OBVIOUS
<1> USE Layout DEF ReaderInit
<1>1. requests = <<>> /\ Len(requests) = 0 /\ DOMAIN requests = {} /\ requests \in Seq(Request)
  BY DEF ReaderInit
<1>2. ReaderTypeOK
  <2>1. sent \in 0..Total /\ got \in 0..sent /\ used \in 0..got /\ first \in 0..used
    OBVIOUS
  <2>2. timeouts \subseteq {"head", "body", "send"} /\ refused \in BOOLEAN
    OBVIOUS
  <2> QED
    BY <1>1, <2>1, <2>2 DEF ReaderTypeOK
<1>3. BufferInv
  BY DEF BufferInv, Buffered
<1>4. StepInv
  BY <1>1, ReaderAssumption DEF StepInv, InStep, Between, WholeSoFar, NextUp
<1>5. CountInv
  <2>1. HeadsTaken = 0 /\ 0 \in 0..N
    BY <1>1 DEF HeadsTaken
  <2> QED
    BY <2>1 DEF CountInv
<1> QED
  BY <1>2, <1>3, <1>4, <1>5 DEF ReaderInv, RefusedInv

(* The invariant is kept by every step of the reader. *)
LEMMA ReaderInvStep == ReaderInv /\ ReaderNext => ReaderInv'
  BY ReaderType, BufferStep, StepStep, RefusedStep, CountStep DEF ReaderInv

(* The connection's half. *)

(* What the mutants of HttpServer change is expanded everywhere. *)
USE DEF Encoded, AfterFailure, NothingRead

K == Len(requests)

(* Where the two program counters stand together, and that a request being *)
(* handled has a head that is one of the stream's.                         *)
PhaseInv ==
  /\ srv \in {"handling", "flushing"} => pc = "idle" /\ K > 0
  /\ srv \in {"closing", "closed"} => pc \in {"idle", "ended", "raised"}
  /\ srv = "handling" => \E r \in Requests : HeadEnd(r) = first + requests[K].head

(* Calls are answered in turn: before a call nothing is owed, during one   *)
(* exactly the last response, of which out is the rest.                    *)
AnswerInv ==
  /\ \A j \in DOMAIN wire : wire[j].call \in 1..K
  /\ srv = "parsing" => Answered = 1..K
  /\ srv = "handling" => Answered = 1..(K - 1)
  /\ srv = "flushing" =>
       /\ Answered = IF out = <<>> THEN 1..K ELSE 1..(K - 1)
       /\ \A j \in DOMAIN out :
            /\ out[j].call = K
            /\ out[j].keep = keep
            /\ out[j].i = out[j].n <=> j = Len(out)

(* A response that says close is the last one: the loop never starts       *)
(* another call behind it.                                                 *)
WordInv ==
  /\ srv \in {"parsing", "handling"} => \A j \in DOMAIN wire : wire[j].keep
  /\ srv = "flushing" =>
       /\ \A j \in DOMAIN wire : ~wire[j].keep => wire[j].call = K /\ ~keep
       /\ out = <<>> => wire # <<>> /\ wire[Len(wire)].keep = keep
  /\ srv \in {"closing", "closed"} =>
       /\ \A j \in DOMAIN wire : ~wire[j].keep => wire[j].call = K /\ pc = "idle"
       /\ wire # <<>> =>
            \/ ~wire[Len(wire)].keep
            \/ pc \in {"ended", "raised"}
            \/ K \notin Answered

ServerInv == PhaseInv /\ AnswerInv /\ WordInv

IInv == TypeOK /\ ReaderInv /\ ServerInv

-----------------------------------------------------------------------------
(* A response of n cells. *)
LEMMA PageType ==
  ASSUME NEW c \in Nat, NEW n \in Nat \ {0}, NEW k \in BOOLEAN
  PROVE  /\ Page(c, n, k) \in Seq(Cell)
         /\ Len(Page(c, n, k)) = n
         /\ Page(c, n, k) # <<>>
         /\ \A j \in 1..n : Page(c, n, k)[j] = [call |-> c, i |-> j, n |-> n, keep |-> k]
<1>1. Page(c, n, k) \in [1..n -> Cell]
  BY DEF Page, Cell
<1>2. Page(c, n, k) \in Seq(Cell) /\ Len(Page(c, n, k)) = n
  BY <1>1, SeqDef, LenProperties
<1>3. Page(c, n, k) # <<>>
  BY <1>2
<1> QED
  BY <1>2, <1>3 DEF Page

(* The request being served is one of the stream's, and what is answered   *)
(* says keep-alive or close.                                               *)
LEMMA ServedType ==
  ASSUME TypeOK, PhaseInv, srv = "handling"
  PROVE  Served \in Requests /\ KeepAlive \subseteq BOOLEAN
<1>1. Served \in Requests
  BY DEF PhaseInv, Served, K
<1>2. (Served \notin Closes) \in BOOLEAN
  OBVIOUS
<1> QED
  BY <1>1, <1>2 DEF KeepAlive

(* What one more cell on the wire answers. *)
LEMMA OneMoreCell ==
  ASSUME wire \in Seq(Cell), NEW x \in Cell, wire' = Append(wire, x)
  PROVE  /\ wire' \in Seq(Cell) /\ wire' # <<>> /\ wire'[Len(wire')] = x
         /\ \A j \in DOMAIN wire' : (j \in DOMAIN wire /\ wire'[j] = wire[j]) \/ wire'[j] = x
         /\ Answered' = IF x.i = x.n THEN Answered \cup {x.call} ELSE Answered
<1>1. /\ Len(wire) \in Nat /\ DOMAIN wire = 1..Len(wire)
      /\ wire' \in Seq(Cell) /\ Len(wire') = Len(wire) + 1
      /\ DOMAIN wire' = 1..(Len(wire) + 1)
      /\ wire'[Len(wire) + 1] = x
      /\ \A j \in 1..Len(wire) : wire'[j] = wire[j]
  OBVIOUS
<1>2. \A j \in 1..(Len(wire) + 1) : j \in 1..Len(wire) \/ j = Len(wire) + 1
  BY <1>1
<1>3. \A j \in 1..Len(wire) : j \in 1..(Len(wire) + 1)
  BY <1>1
<1>4. Len(wire) + 1 \in 1..(Len(wire) + 1) /\ wire' # <<>>
  BY <1>1
<1>5. \A c : c \in Answered <=> \E j \in DOMAIN wire : wire[j].i = wire[j].n /\ wire[j].call = c
  BY DEF Answered
<1>6. \A c : c \in Answered' <=> \E j \in DOMAIN wire' : wire'[j].i = wire'[j].n /\ wire'[j].call = c
  BY DEF Answered
<1>7. \A c : c \in Answered' <=> c \in Answered \/ (x.i = x.n /\ c = x.call)
  BY <1>1, <1>2, <1>3, <1>4, <1>5, <1>6
<1>8. \A j \in DOMAIN wire' : (j \in DOMAIN wire /\ wire'[j] = wire[j]) \/ wire'[j] = x
  BY <1>1, <1>2
<1>9. CASE x.i = x.n
  BY <1>1, <1>4, <1>7, <1>8, <1>9
<1>10. CASE x.i # x.n
  BY <1>1, <1>4, <1>7, <1>8, <1>10
<1> QED
  BY <1>9, <1>10

-----------------------------------------------------------------------------
(* Every step of the connection is a step of the reader. *)
LEMMA StepReads == [Next]_vars => ReaderNext
<1> USE DEF ReaderNext, rrvars, streamVars, bufVars, parseVars
<1>1. CASE Server
  BY <1>1 DEF Server, Read, Handle, SendCell, SendFails, FlushEnds, LoopEnds, Close
<1>2. CASE Client /\ UNCHANGED srvVars
  BY <1>2
<1>3. CASE UNCHANGED vars
  BY <1>3 DEF vars
<1> QED
  BY <1>1, <1>2, <1>3 DEF Next, Closed

(* Every variable keeps its type. *)
LEMMA TypeStep == IInv /\ ReaderTypeOK' /\ [Next]_vars => TypeOK'
<1> SUFFICES ASSUME IInv, ReaderTypeOK', [Next]_vars PROVE TypeOK'
  OBVIOUS
<1> USE HttpAssumption DEF TypeOK
<1>a. TypeOK /\ PhaseInv
  BY DEF IInv, ServerInv
<1>1. CASE UNCHANGED srvVars
  BY <1>a, <1>1 DEF srvVars
<1>2. CASE Read
  BY <1>a, <1>1, <1>2 DEF Read
<1>3. CASE Handle
  <2>1. PICK n \in {Cells[Served], 1} : out' = Page(K, n, keep')
    BY <1>3 DEF Handle, K
  <2>2. keep' \in BOOLEAN /\ n \in Nat \ {0} /\ K \in Nat
    BY <1>a, <1>3, ServedType DEF Handle, K, ReaderTypeOK
  <2>3. out' \in Seq(Cell)
    BY <2>1, <2>2, PageType
  <2> QED
    BY <1>a, <1>3, <2>2, <2>3 DEF Handle
<1>4. CASE SendCell
  <2>1. Head(out) \in Cell /\ Tail(out) \in Seq(Cell)
    BY <1>a, <1>4, HeadTailProperties DEF SendCell
  <2> QED
    BY <1>a, <1>4, <2>1 DEF SendCell
<1>5. CASE SendFails \/ FlushEnds \/ LoopEnds \/ Close
  BY <1>a, <1>5 DEF SendFails, FlushEnds, AfterFlush, LoopEnds, Close
<1> QED
  BY <1>1, <1>2, <1>3, <1>4, <1>5 DEF Next, Server, Closed, vars

(* What is answered, and with which Connection header, stays as it is when *)
(* neither the parser nor the server moves.                                *)
LEMMA ServerAlone ==
  ASSUME ServerInv, UNCHANGED <<pc, first, requests, srvVars>>
  PROVE  ServerInv'
  BY DEF ServerInv, PhaseInv, AnswerInv, WordInv, Answered, K, srvVars, HeadEnd

(* Reading the next request. *)
LEMMA ReadStep ==
  ASSUME IInv, Read
  PROVE  ServerInv'
<1>a. TypeOK /\ ReaderTypeOK /\ CountInv /\ PhaseInv /\ AnswerInv /\ WordInv /\ srv = "parsing"
  BY DEF IInv, ReaderInv, ServerInv, Read
<1>1. CASE UNCHANGED <<srvVars, requests>>
  <2>1. PhaseInv'
    BY <1>a, <1>1 DEF PhaseInv, srvVars
  <2>2. Answered' = Answered /\ K' = K
    BY <1>1 DEF Answered, K, srvVars
  <2>3. AnswerInv'
    BY <1>a, <1>1, <2>2 DEF AnswerInv, srvVars
  <2>4. WordInv'
    BY <1>a, <1>1 DEF WordInv, srvVars
  <2> QED
    BY <2>1, <2>3, <2>4 DEF ServerInv
<1>2. CASE Deliver /\ srv' = "handling" /\ UNCHANGED <<keep, out, wire>>
  <2>1. /\ pc = "body" /\ pc' = "idle" /\ first' = first
        /\ requests' = Append(requests, [first |-> first, head |-> used - first,
                                         want |-> want, body |-> Taken])
    BY <1>2 DEF Deliver
  <2>2. /\ K \in Nat /\ K' = K + 1 /\ K' > 0 /\ requests'[K'].head = used - first
        /\ used \in Nat /\ first \in Nat
    BY <1>a, <2>1, Layout DEF K, ReaderTypeOK
  <2>3. PICK r \in Requests : used = HeadEnd(r)
    BY <1>a, <2>1 DEF CountInv
  <2>4. HeadEnd(r)' = first' + requests'[K'].head
    <3>1. HeadEnd(r)' = used /\ first + (used - first) = used
      BY <2>2, <2>3 DEF HeadEnd
    <3> QED
      BY <2>1, <2>2, <3>1
  <2>5. PhaseInv'
    BY <1>2, <2>1, <2>2, <2>4 DEF PhaseInv
  <2>6. Answered' = Answered /\ 1..(K' - 1) = 1..K /\ 1..K \subseteq 1..K'
    BY <1>2, <2>2 DEF Answered
  <2>7. AnswerInv'
    BY <1>a, <1>2, <2>6 DEF AnswerInv
  <2>8. WordInv'
    BY <1>a, <1>2 DEF WordInv
  <2> QED
    BY <2>5, <2>7, <2>8 DEF ServerInv
<1> QED
  BY <1>1, <1>2
     DEF Read, Call, RecvHeader, HeaderEnds, ParseHead, RecvBody, parseVars

(* Calling the handler and sending what it returned. *)
LEMMA SendStep ==
  ASSUME IInv, Handle \/ SendCell \/ SendFails
  PROVE  ServerInv'
<1>a. TypeOK /\ ReaderTypeOK /\ PhaseInv /\ AnswerInv /\ WordInv /\ K \in Nat
  <2>1. TypeOK /\ ReaderTypeOK /\ PhaseInv /\ AnswerInv /\ WordInv
    BY DEF IInv, ReaderInv, ServerInv
  <2> QED
    BY <2>1 DEF K, ReaderTypeOK
<1>b. UNCHANGED <<pc, first, requests>> /\ K' = K
  BY DEF Handle, SendCell, SendFails, rrvars, parseVars, K
<1>1. CASE Handle
  <2>1. PICK n \in {Cells[Served], 1} : out' = Page(K, n, keep')
    BY <1>1 DEF Handle, K
  <2>2. /\ srv = "handling" /\ srv' = "flushing" /\ wire' = wire /\ Answered' = Answered
        /\ keep' \in BOOLEAN /\ n \in Nat \ {0}
    BY <1>a, <1>1, ServedType, HttpAssumption DEF Handle, Answered
  <2>3. /\ out' # <<>> /\ out' \in Seq(Cell) /\ Len(out') = n
        /\ \A j \in 1..n : out'[j] = [call |-> K, i |-> j, n |-> n, keep |-> keep']
    BY <1>a, <2>1, <2>2, PageType
  <2>4. \A j \in DOMAIN out' : /\ out'[j].call = K /\ out'[j].keep = keep'
                               /\ out'[j].i = out'[j].n <=> j = Len(out')
    BY <2>3
  <2>5. PhaseInv'
    BY <1>a, <1>b, <2>2 DEF PhaseInv
  <2>6. AnswerInv'
    BY <1>a, <1>b, <2>2, <2>3, <2>4 DEF AnswerInv
  <2>7. WordInv'
    BY <1>a, <1>b, <2>2, <2>3 DEF WordInv
  <2> QED
    BY <2>5, <2>6, <2>7 DEF ServerInv
<1>2. CASE SendCell
  <2> DEFINE x == Head(out)
  <2>1. /\ srv = "flushing" /\ srv' = "flushing" /\ keep' = keep /\ out # <<>>
        /\ out' = Tail(out) /\ wire' = Append(wire, x)
    BY <1>2 DEF SendCell
  <2>2. /\ out \in Seq(Cell) /\ x = out[1] /\ 1 \in DOMAIN out /\ x \in Cell
        /\ Len(out) \in Nat /\ Len(out) > 0 /\ Tail(out) \in Seq(Cell)
        /\ Len(Tail(out)) = Len(out) - 1 /\ DOMAIN Tail(out) = 1..(Len(out) - 1)
        /\ \A j \in 1..(Len(out) - 1) : Tail(out)[j] = out[j + 1] /\ j + 1 \in DOMAIN out
    BY <1>a, <2>1 DEF TypeOK
  <2>3. /\ x.call = K /\ x.keep = keep /\ (x.i = x.n <=> Len(out) = 1)
        /\ Answered = 1..(K - 1)
    BY <1>a, <2>1, <2>2 DEF AnswerInv
  <2>4. out' = <<>> <=> Len(out) = 1
    BY <2>1, <2>2
  <2> HIDE DEF x
  <2>5. /\ wire' # <<>> /\ wire'[Len(wire')] = x
        /\ \A j \in DOMAIN wire' : (j \in DOMAIN wire /\ wire'[j] = wire[j]) \/ wire'[j] = x
        /\ Answered' = IF x.i = x.n THEN Answered \cup {x.call} ELSE Answered
    BY <1>a, <2>1, <2>2, OneMoreCell DEF TypeOK
  <2>6. /\ K \in 1..K
        /\ 1..(K - 1) \cup {K} = 1..K
    BY <1>a, <2>1 DEF PhaseInv
  <2>7. \A j \in DOMAIN out' : /\ out'[j].call = K /\ out'[j].keep = keep
                               /\ out'[j].i = out'[j].n <=> j = Len(out')
    <3> SUFFICES ASSUME NEW j \in 1..(Len(out) - 1)
                 PROVE  /\ out[j + 1].call = K /\ out[j + 1].keep = keep
                        /\ out[j + 1].i = out[j + 1].n <=> j = Len(out) - 1
      <4>1. DOMAIN out' = 1..(Len(out) - 1) /\ Len(out') = Len(out) - 1
        BY <2>1, <2>2
      <4>2. \A j \in 1..(Len(out) - 1) : out'[j] = out[j + 1]
        BY <2>1, <2>2
      <4> QED
        BY <4>1, <4>2
    <3>1. j + 1 = Len(out) <=> j = Len(out) - 1
      BY <2>2
    <3> QED
      BY <1>a, <2>1, <2>2, <3>1 DEF AnswerInv
  <2>8. PhaseInv'
    BY <1>a, <1>b, <2>1 DEF PhaseInv
  <2>9. AnswerInv'
    <3>1. \A j \in DOMAIN wire' : wire'[j].call \in 1..K
      BY <1>a, <2>3, <2>5, <2>6 DEF AnswerInv
    <3>2. Answered' = IF out' = <<>> THEN 1..K ELSE 1..(K - 1)
      BY <2>3, <2>4, <2>5, <2>6
    <3> QED
      BY <1>b, <2>1, <2>7, <3>1, <3>2 DEF AnswerInv
  <2>10. WordInv'
    BY <1>a, <1>b, <2>1, <2>3, <2>5 DEF WordInv
  <2> QED
    BY <2>8, <2>9, <2>10 DEF ServerInv
<1>3. CASE SendFails
  <2>1. /\ srv = "flushing" /\ srv' = "closing" /\ out # <<>>
        /\ UNCHANGED <<keep, out, wire>> /\ Answered' = Answered
    BY <1>3 DEF SendFails, Answered
  <2>2. pc = "idle" /\ K \notin 1..(K - 1)
    BY <1>a, <2>1 DEF PhaseInv
  <2>3. PhaseInv'
    BY <1>b, <2>1, <2>2 DEF PhaseInv
  <2>4. AnswerInv'
    BY <1>a, <1>b, <2>1 DEF AnswerInv
  <2>5. WordInv'
    BY <1>a, <1>b, <2>1, <2>2 DEF WordInv, AnswerInv
  <2> QED
    BY <2>3, <2>4, <2>5 DEF ServerInv
<1> QED
  BY <1>1, <1>2, <1>3

(* The end of a turn of the loop, and of the loop. *)
LEMMA EndStep ==
  ASSUME IInv, FlushEnds \/ LoopEnds \/ Close
  PROVE  ServerInv'
<1>a. TypeOK /\ PhaseInv /\ AnswerInv /\ WordInv
  BY DEF IInv, ServerInv
<1>b. UNCHANGED <<pc, first, requests, keep, out, wire>> /\ K' = K /\ Answered' = Answered
  BY DEF FlushEnds, LoopEnds, Close, rrvars, parseVars, K, Answered
<1>1. CASE FlushEnds
  <2>1. /\ srv = "flushing" /\ out = <<>> /\ keep \in BOOLEAN
        /\ srv' = IF keep THEN "parsing" ELSE "closing"
    BY <1>a, <1>1 DEF FlushEnds, AfterFlush, TypeOK
  <2>2. PhaseInv'
    BY <1>a, <1>b, <2>1 DEF PhaseInv
  <2>3. AnswerInv'
    BY <1>a, <1>b, <2>1 DEF AnswerInv
  <2>4. WordInv'
    BY <1>a, <1>b, <2>1 DEF WordInv, PhaseInv
  <2> QED
    BY <2>2, <2>3, <2>4 DEF ServerInv
<1>2. CASE LoopEnds \/ Close
  <2>1. \/ srv = "parsing" /\ srv' = "closing" /\ pc \in {"ended", "raised"}
        \/ srv = "closing" /\ srv' = "closed"
    BY <1>2 DEF LoopEnds, Close
  <2>2. PhaseInv'
    BY <1>a, <1>b, <2>1 DEF PhaseInv
  <2>3. AnswerInv'
    BY <1>a, <1>b, <2>1 DEF AnswerInv
  <2>4. WordInv'
    BY <1>a, <1>b, <2>1 DEF WordInv
  <2> QED
    BY <2>2, <2>3, <2>4 DEF ServerInv
<1> QED
  BY <1>1, <1>2

(* The server's half of the invariant is kept. *)
LEMMA ServerStep == IInv /\ [Next]_vars => ServerInv'
<1> SUFFICES ASSUME IInv, [Next]_vars PROVE ServerInv'
  OBVIOUS
<1>1. CASE Client /\ UNCHANGED srvVars
  <2>1. UNCHANGED <<pc, first, requests>>
    BY <1>1 DEF Client, SendByte, ClientLeaves, parseVars
  <2> QED
    BY <1>1, <2>1, ServerAlone DEF IInv
<1>2. CASE UNCHANGED vars
  BY <1>2, ServerAlone DEF IInv, vars, rrvars, parseVars
<1> QED
  BY <1>1, <1>2, ReadStep, SendStep, EndStep DEF Next, Server, Closed

(* At the start nothing is read and nothing is owed. *)
LEMMA InitIInv == Init => IInv
<1> SUFFICES ASSUME Init PROVE IInv
  OBVIOUS
<1>1. ReaderInit /\ ReaderInv
  BY ReaderInvInit DEF Init
<1>2. wire = <<>> /\ out = <<>> /\ srv = "parsing" /\ keep = TRUE /\ requests = <<>>
  BY <1>1 DEF Init, ReaderInit
<1>3. DOMAIN wire = {} /\ K = 0 /\ wire \in Seq(Cell) /\ out \in Seq(Cell)
  BY <1>2 DEF K
<1>4. TypeOK
  BY <1>1, <1>2, <1>3 DEF TypeOK, ReaderInv
<1>5. Answered = {} /\ 1..K = {}
  BY <1>3 DEF Answered
<1>6. ServerInv
  BY <1>2, <1>3, <1>5 DEF ServerInv, PhaseInv, AnswerInv, WordInv
<1> QED
  BY <1>1, <1>4, <1>6 DEF IInv

(* Every step keeps the invariant. *)
LEMMA NextIInv == IInv /\ [Next]_vars => IInv'
<1> SUFFICES ASSUME IInv, [Next]_vars PROVE IInv'
  OBVIOUS
<1>1. ReaderInv'
  BY StepReads, ReaderInvStep DEF IInv
<1>2. TypeOK'
  BY <1>1, TypeStep DEF ReaderInv
<1>3. ServerInv'
  BY ServerStep
<1> QED
  BY <1>1, <1>2, <1>3 DEF IInv

LEMMA Invariance == Spec => []IInv
  BY InitIInv, NextIInv, PTL DEF Spec

-----------------------------------------------------------------------------
(* The state of a connection of HTTPServer stays well-typed. *)
THEOREM TypeCorrect == Spec => []TypeOK
<1>1. IInv => TypeOK
  BY DEF IInv
<1> QED
  BY <1>1, Invariance, PTL

(* conn.rbuf stays bounded by one longest head, or the body being read,    *)
(* and one recv() on top.                                                  *)
THEOREM BufferBounded == Spec => []BoundedBuffer
<1>1. IInv => BoundedBuffer
  BY DEF IInv, ReaderInv, BufferInv, BoundedBuffer
<1> QED
  BY <1>1, Invariance, PTL

(* _parse_request returns the requests of the stream, one per call and     *)
(* whole, as long as no recv() times out in a body.                        *)
THEOREM ParserInStep == Spec => []InStepUnlessCut
<1>1. IInv => InStepUnlessCut
  BY DEF IInv, ReaderInv, StepInv, InStepUnlessCut
<1> QED
  BY <1>1, Invariance, PTL

(* _MAX_HEADER_BYTES never refuses a head that stays below it by a recv(). *)
THEOREM ShortHeadsRead == Spec => []ShortHeadsServed
<1>1. IInv => ShortHeadsServed
  BY DEF IInv, ReaderInv, RefusedInv, ShortHeadsServed
<1> QED
  BY <1>1, Invariance, PTL

(* The Connection header of every response is the truth. *)
THEOREM WordKept == Spec => []KeepsItsWord
<1>1. ASSUME IInv PROVE KeepsItsWord
  <2>1. PhaseInv /\ AnswerInv /\ WordInv /\ TypeOK
    BY <1>1 DEF IInv, ServerInv
  <2>2. ASSUME NEW k \in DOMAIN wire, ~wire[k].keep
        PROVE  /\ pc = "idle" /\ wire[k].call = Len(requests)
               /\ \A j \in DOMAIN wire : wire[j].call <= wire[k].call
    <3>1. pc = "idle" /\ wire[k].call = K
      BY <2>1, <2>2 DEF PhaseInv, WordInv, TypeOK
    <3>2. \A j \in DOMAIN wire : wire[j].call \in 1..K
      BY <2>1 DEF AnswerInv
    <3> QED
      BY <3>1, <3>2 DEF K
  <2>3. srv = "closed" /\ wire # <<>> =>
          \/ ~wire[Len(wire)].keep
          \/ pc \in {"ended", "raised"}
          \/ Len(requests) \notin Answered
    BY <2>1 DEF WordInv, K
  <2> QED
    BY <2>2, <2>3 DEF KeepsItsWord
<1> QED
  BY <1>1, Invariance, PTL

(* HTTPServer is a Responder that answers in order: every request it takes *)
(* off the stream is answered at most once, behind all earlier ones, and   *)
(* never after the close.                                                  *)
THEOREM InOrder == Spec => AnswersInOrder
<1> USE DEF Abstract!rvars
<1>1. Init => Abstract!Init
  <2> SUFFICES ASSUME Init PROVE Abstract!Init
    OBVIOUS
  <2>1. requests = <<>> /\ wire = <<>> /\ srv = "parsing"
    BY DEF Init, ReaderInit
  <2>2. Len(requests) = 0 /\ Answered = {}
    BY <2>1 DEF Answered
  <2> QED
    BY <2>1, <2>2 DEF Abstract!Init
<1>2. ASSUME IInv, [Next]_vars
      PROVE  [Abstract!InOrderNext]_(Abstract!rvars)
  <2> USE DEF Abstract!InOrderNext
  <2>a. /\ TypeOK /\ ReaderTypeOK /\ CountInv /\ PhaseInv /\ AnswerInv
        /\ K \in Nat /\ K = Len(requests) /\ N \in Nat
    <3>1. TypeOK /\ ReaderTypeOK /\ CountInv /\ PhaseInv /\ AnswerInv
      BY <1>2 DEF IInv, ReaderInv, ServerInv
    <3> QED
      BY <3>1, Layout DEF ReaderTypeOK, K
  <2>1. ASSUME UNCHANGED <<requests, wire, srv>> PROVE UNCHANGED Abstract!rvars
    BY <2>1 DEF Answered
  <2>2. CASE Read /\ ~Deliver
    <3>1. UNCHANGED <<requests, wire, srv>>
      BY <2>2 DEF Read, srvVars, Call, RecvHeader, HeaderEnds, ParseHead, RecvBody, parseVars
    <3> QED
      BY <2>1, <3>1
  <2>3. CASE Read /\ Deliver
    <3>1. /\ srv = "parsing" /\ srv' # "closed" /\ wire' = wire /\ pc = "body"
          /\ K' = K + 1
      <4>1. Len(requests') = Len(requests) + 1
        BY <2>3, <2>a DEF Deliver, ReaderTypeOK
      <4> QED
        BY <2>3, <4>1
           DEF Read, srvVars, Deliver, K, Call, RecvHeader, HeaderEnds, ParseHead, RecvBody
    <3>2. K < N
      <4>1. PICK r \in 0..N : K + 1 <= r
        BY <2>a, <3>1 DEF CountInv, HeadsTaken, K
      <4> QED
        BY <2>a, <4>1
    <3>3. Answered' = Answered
      BY <3>1 DEF Answered
    <3> QED
      BY <2>a, <3>1, <3>2, <3>3 DEF Abstract!Accept, K
  <2>4. CASE Handle \/ SendFails \/ FlushEnds \/ LoopEnds
    <3>1. UNCHANGED <<requests, wire>> /\ srv # "closed" /\ srv' # "closed"
      BY <2>4 DEF Handle, SendFails, FlushEnds, AfterFlush, LoopEnds, rrvars, parseVars
    <3> QED
      BY <3>1 DEF Answered
  <2>5. CASE SendCell
    <3> DEFINE x == Head(out)
    <3>1. /\ srv = "flushing" /\ srv' = srv /\ out # <<>> /\ requests' = requests
          /\ wire' = Append(wire, x)
      BY <2>5 DEF SendCell, rrvars, parseVars
    <3>2. /\ x \in Cell /\ x = out[1] /\ 1 \in DOMAIN out
      BY <2>a, <3>1 DEF TypeOK
    <3>3. x.call = K /\ Answered = 1..(K - 1) /\ K > 0
      BY <2>a, <3>1, <3>2 DEF AnswerInv, PhaseInv
    <3> HIDE DEF x
    <3>4. Answered' = IF x.i = x.n THEN Answered \cup {x.call} ELSE Answered
      BY <2>a, <3>1, <3>2, OneMoreCell DEF TypeOK
    <3>5. CASE x.i # x.n
      BY <3>1, <3>4, <3>5
    <3>6. CASE x.i = x.n
      <4>1. K \in 1..N
        <5>1. PICK r \in 0..N : K <= r
          <6>1. pc = "idle"
            BY <2>a, <3>1 DEF PhaseInv
          <6> QED
            BY <2>a, <6>1 DEF CountInv, HeadsTaken, K
        <5> QED
          BY <2>a, <3>3, <5>1
      <4>2. Abstract!AnswerInOrder(K)
        <5>1. K \in (1..Len(requests)) \ Answered /\ 1..(K - 1) \subseteq Answered
          BY <2>a, <3>3
        <5>2. Answered' = Answered \cup {K}
          BY <3>3, <3>4, <3>6
        <5> QED
          BY <3>1, <5>1, <5>2 DEF Abstract!AnswerInOrder, Abstract!Answer
      <4> QED
        BY <4>1, <4>2
    <3> QED
      BY <3>5, <3>6
  <2>6. CASE Close
    <3>1. srv # "closed" /\ srv' = "closed" /\ UNCHANGED <<requests, wire>>
      BY <2>6 DEF Close, rrvars, parseVars
    <3> QED
      BY <3>1 DEF Abstract!Close, Answered
  <2>7. CASE Client /\ UNCHANGED srvVars
    BY <2>1, <2>7 DEF Client, SendByte, ClientLeaves, parseVars, srvVars
  <2>8. CASE UNCHANGED vars
    BY <2>1, <2>8 DEF vars, rrvars, parseVars, srvVars
  <2> QED
    BY <1>2, <2>2, <2>3, <2>4, <2>5, <2>6, <2>7, <2>8 DEF Next, Server, Closed
<1> QED
  BY <1>1, <1>2, Invariance, PTL DEF Spec, AnswersInOrder, Abstract!InOrderSpec

-----------------------------------------------------------------------------
(* A client that has shut down its sending side.                           *)
(*                                                                         *)
(* A reader in step stands in front of the next request at the latest.     *)
UpTo ==
  pc \in {"idle", "header"} /\ "body" \notin timeouts =>
    NextUp \in 1..(N + 1) /\ used <= Start[NextUp]

Plain(q) == Kind[q] = "request" /\ ShortHead(q)

(* Why a call that no timeout disturbed returned None or raised: the head  *)
(* of the next request, or the end of the stream with every whole request  *)
(* taken.                                                                  *)
EndInv ==
  pc \in {"ended", "raised"} /\ "head" \notin timeouts /\ "body" \notin timeouts =>
    \/ \E q \in Requests : q <= NextUp /\ ~Plain(q)
    \/ /\ peer # "open" /\ got = sent
       /\ \A r \in Requests : Start[r + 1] <= sent => r <= K

(* What a reader in step has handed over is what is answered: keep_alive   *)
(* is the request's, and the loop ends for one of two reasons.             *)
TurnInv ==
  "body" \notin timeouts =>
    /\ pc = "idle" /\ K > 0 => first = Start[K]
    /\ srv = "flushing" /\ ~keep => K \in Closes
    /\ srv \in {"closing", "closed"} /\ peer # "gone" /\ "send" \notin timeouts =>
         Answered = 1..K /\ (pc \in {"ended", "raised"} \/ K \in Closes)

HalfInv == UpTo /\ EndInv /\ TurnInv

(* What has timed out once stays noted, and a reset is for good. *)
LEMMA OnlyMore ==
  ASSUME [Next]_vars
  PROVE  timeouts \subseteq timeouts' /\ (peer = "gone" => peer' = "gone")
<1>1. ReaderNext
  BY StepReads
<1> QED
  BY <1>1 DEF ReaderNext, Client, SendByte, ClientLeaves, Call, RecvHeader, HeaderEnds,
              ParseHead, RecvBody, Deliver, bufVars, parseVars, streamVars

(* Two requests do not start at the same place. *)
LEMMA StartsDiffer ==
  ASSUME NEW q \in Requests, NEW r \in 1..(N + 1), Start[q] = Start[r]
  PROVE  q = r
<1>1. /\ q \in Int /\ r \in Int /\ N \in Int /\ Start[q] \in Nat /\ Start[r] \in Nat
      /\ Start[q] < HeadEnd(q) /\ HeadEnd(q) \in Nat /\ HeadEnd(q) <= Total /\ q <= N
  BY Layout DEF Requests
<1>2. CASE r = N + 1
  BY <1>1, <1>2 DEF Total
<1>3. CASE r \in Requests
  <2>1. Start[r] < HeadEnd(r) /\ HeadEnd(r) \in Nat
    BY <1>3, Layout
  <2>2. ~(q < r)
    BY <1>1, <1>3, Layout
  <2>3. ~(r < q)
    BY <1>1, <1>3, <2>1, Layout
  <2> QED
    BY <1>1, <2>2, <2>3
<1> QED
  BY <1>1, <1>2, <1>3 DEF Requests

(* Nor do their heads end at the same place. *)
LEMMA HeadsDiffer ==
  ASSUME NEW q \in Requests, NEW r \in Requests, HeadEnd(q) = HeadEnd(r)
  PROVE  q = r
<1>1. /\ q \in Int /\ r \in Int
      /\ Start[q] \in Nat /\ Start[r] \in Nat /\ HeadEnd(q) \in Nat
      /\ Start[q] < HeadEnd(q) /\ Start[r] < HeadEnd(r)
  BY Layout DEF Requests
<1>2. ~(q < r) /\ ~(r < q)
  <2>1. q < r => HeadEnd(q) <= Start[r]
    BY Layout
  <2>2. r < q => HeadEnd(r) <= Start[q]
    BY Layout
  <2> QED
    BY <1>1, <2>1, <2>2
<1> QED
  BY <1>1, <1>2

LEMMA UpToStep == ReaderInv /\ UpTo /\ ReaderNext => UpTo'
<1> SUFFICES ASSUME ReaderInv, UpTo, ReaderNext,
                    pc' \in {"idle", "header"}, "body" \notin timeouts'
             PROVE  NextUp' \in 1..(N + 1) /\ used' <= Start[NextUp']
  BY DEF UpTo
<1>0. "body" \notin timeouts
  BY DEF ReaderNext, Client, SendByte, ClientLeaves, Call, RecvHeader, HeaderEnds, ParseHead,
         RecvBody, Deliver, bufVars, parseVars, streamVars
<1>1. CASE Deliver
  <2>1. /\ pc = "body" /\ used' = used + Taken
        /\ requests' = Append(requests, [first |-> first, head |-> used - first,
                                         want |-> want, body |-> Taken])
    BY <1>1 DEF Deliver
  <2>2. /\ NextUp \in Requests /\ used = HeadEnd(NextUp) /\ want = BodyLen[NextUp]
        /\ ReaderTypeOK
    BY <1>0, <2>1 DEF ReaderInv, StepInv, Within
  <2>3. NextUp' = NextUp + 1
    BY <2>1, <2>2 DEF NextUp, ReaderTypeOK
  <2>4. /\ HeadEnd(NextUp) + BodyLen[NextUp] = Start[NextUp + 1]
        /\ NextUp + 1 \in 1..(N + 1) /\ HeadEnd(NextUp) \in Nat /\ BodyLen[NextUp] \in Nat
        /\ Start[NextUp + 1] \in Nat
    BY <2>2, Layout
  <2>5. Taken \in Int /\ Taken <= want
    BY <2>2, <2>4 DEF Taken, Buffered, ReaderTypeOK
  <2> QED
    BY <2>1, <2>2, <2>3, <2>4, <2>5
<1>2. CASE UNCHANGED <<used, requests>> /\ pc \in {"idle", "header"}
  BY <1>0, <1>2 DEF UpTo, NextUp
<1>3. ASSUME ~Deliver PROVE UNCHANGED <<used, requests>> /\ pc \in {"idle", "header"}
  BY <1>3 DEF ReaderNext, Client, SendByte, ClientLeaves, Call, RecvHeader, HeaderEnds,
              ParseHead, RecvBody, bufVars, parseVars, streamVars
<1> QED
  BY <1>1, <1>2, <1>3

LEMMA EndStepInv == ReaderInv /\ UpTo /\ EndInv /\ ReaderNext /\ ReaderInv' => EndInv'
<1> SUFFICES ASSUME ReaderInv, UpTo, EndInv, ReaderNext, ReaderInv',
                    pc' \in {"ended", "raised"}, "head" \notin timeouts', "body" \notin timeouts'
             PROVE  \/ \E q \in Requests : q <= NextUp' /\ ~Plain(q)
                    \/ /\ peer' # "open" /\ got' = sent'
                       /\ \A r \in Requests : Start[r + 1] <= sent' => r <= K'
  BY DEF EndInv, Plain, ShortHead
<1>0. "body" \notin timeouts /\ "head" \notin timeouts
  BY DEF ReaderNext, Client, SendByte, ClientLeaves, Call, RecvHeader, HeaderEnds, ParseHead,
         RecvBody, Deliver, bufVars, parseVars, streamVars
<1>a. /\ ReaderTypeOK /\ got \in Nat /\ sent \in Nat /\ used \in Nat /\ used <= got /\ got <= sent
      /\ sent <= Total /\ Total \in Nat /\ N \in Nat
  BY Layout DEF ReaderInv, ReaderTypeOK
<1>b. K \in Nat /\ NextUp = K + 1
  BY <1>a DEF K, NextUp, ReaderTypeOK
<1>c. pc \in {"idle", "header"} =>
        (Between \/ Drained) /\ NextUp \in 1..(N + 1) /\ used <= Start[NextUp]
  BY <1>0 DEF ReaderInv, StepInv, UpTo
<1>1. CASE RecvHeader
  <2>1. PICK n \in 1..RecvSize : got + n <= sent /\ got' = got + n
    BY <1>1 DEF RecvHeader, Receive
  <2>2. pc = "header" /\ refused' /\ UNCHANGED <<used, requests, timeouts>>
    BY <1>1 DEF RecvHeader
  <2>3. ~Drained
    <3>1. n \in Nat /\ n > 0
      BY <2>1, Layout
    <3> QED
      BY <1>a, <2>1, <3>1 DEF Drained
  <2>4. used = Start[NextUp] /\ NextUp \in 1..(N + 1)
    BY <1>c, <2>2, <2>3 DEF Between
  <2>5. PICK r \in Requests : Start[r] = used' /\ ~ShortHead(r)
    BY <2>2 DEF ReaderInv, RefusedInv, ShortHead
  <2>6. r = NextUp
    BY <2>2, <2>4, <2>5, StartsDiffer
  <2>7. NextUp' = NextUp /\ r <= NextUp'
    BY <1>b, <2>2, <2>6 DEF NextUp
  <2> QED
    BY <2>5, <2>7 DEF Plain
<1>2. CASE HeaderEnds
  <2>1. /\ pc = "header" /\ HeadsFound = {} /\ got = sent
        /\ UNCHANGED <<sent, peer, got, used, requests>>
    BY <1>2 DEF HeaderEnds, NothingComes, streamVars, bufVars
  <2>2. peer # "open"
    BY <1>2 DEF HeaderEnds, TimedOut
  <2>3. ASSUME NEW r \in Requests, Start[r + 1] <= sent, ~(r <= K) PROVE FALSE
    <3>1. /\ r \in Int /\ NextUp <= r /\ r <= N
      BY <1>a, <1>b, <2>3 DEF Requests
    <3>2. NextUp \in Requests /\ NextUp \in Int
      BY <1>a, <1>b, <3>1 DEF Requests
    <3>3. /\ HeadEnd(NextUp) \in Nat /\ Start[NextUp] < HeadEnd(NextUp)
          /\ Start[NextUp] \in Nat /\ Start[r] \in Nat /\ Start[r + 1] \in Nat
          /\ HeadEnd(NextUp) + BodyLen[NextUp] = Start[NextUp + 1] /\ BodyLen[NextUp] \in Nat
          /\ HeadEnd(r) \in Nat /\ Start[r] < HeadEnd(r)
          /\ HeadEnd(r) + BodyLen[r] = Start[r + 1] /\ BodyLen[r] \in Nat
      BY <3>2, Layout
    <3>4. NextUp < r => HeadEnd(NextUp) <= Start[r]
      BY <3>2, Layout
    <3>5. HeadEnd(NextUp) <= got
      <4>1. HeadEnd(r) <= got
        BY <1>a, <2>1, <2>3, <3>3
      <4>2. CASE NextUp = r
        BY <4>1, <4>2
      <4>3. CASE NextUp < r
        BY <1>a, <3>3, <3>4, <4>1, <4>3
      <4> QED
        BY <3>1, <3>2, <4>2, <4>3
    <3>6. used < HeadEnd(NextUp)
      BY <1>a, <1>c, <2>1, <3>3
    <3> QED
      BY <2>1, <3>2, <3>5, <3>6 DEF HeadsFound
  <2>4. K' = K
    BY <2>1 DEF K
  <2> QED
    BY <2>1, <2>2, <2>3, <2>4
<1>3. CASE ParseHead
  <2>1. PICK r \in HeadsFound :
          /\ \A q \in HeadsFound : r <= q
          /\ \/ "malformed" \in Outcomes(r)
             \/ "raises" \in Outcomes(r)
    BY <1>3 DEF ParseHead
  <2>2. UNCHANGED requests /\ pc = "header"
    BY <1>3 DEF ParseHead
  <2>3. ~Drained
    BY <1>a, <2>1, Layout DEF Drained, HeadsFound
  <2>4. used = Start[NextUp] /\ NextUp \in 1..(N + 1)
    BY <1>c, <2>2, <2>3 DEF Between
  <2>5. NextUp \in Requests /\ r = NextUp
    BY <1>a, <2>1, <2>4, FirstHead
  <2>6. Kind[r] # "request"
    BY <2>1, <2>4, <2>5 DEF Outcomes
  <2>7. NextUp' = NextUp /\ r <= NextUp'
    BY <1>b, <2>2, <2>5 DEF NextUp
  <2> QED
    BY <2>5, <2>6, <2>7 DEF Plain
<1>4. CASE Client
  <2>1. UNCHANGED <<got, pc, requests>>
    BY <1>4 DEF Client, SendByte, ClientLeaves, bufVars, parseVars
  <2>2. CASE \E q \in Requests : q <= NextUp /\ ~Plain(q)
    BY <2>1, <2>2 DEF NextUp
  <2>3. CASE /\ peer # "open" /\ got = sent
             /\ \A r \in Requests : Start[r + 1] <= sent => r <= K
    <3>1. peer' # "open" /\ sent' \in got..sent
      BY <1>4, <2>3 DEF Client, SendByte, ClientLeaves
    <3>2. sent' = sent
      BY <1>a, <2>3, <3>1
    <3> QED
      BY <2>1, <2>3, <3>1, <3>2 DEF K
  <2> QED
    BY <1>0, <2>1, <2>2, <2>3 DEF EndInv
<1>5. CASE UNCHANGED <<streamVars, bufVars, pc, first, want, requests, refused>>
  <2>1. UNCHANGED <<sent, peer, got, pc, requests>>
    BY <1>5 DEF streamVars, bufVars
  <2>2. K' = K /\ NextUp' = NextUp
    BY <2>1 DEF K, NextUp
  <2> QED
    BY <1>0, <2>1, <2>2 DEF EndInv
<1>6. ~Call /\ ~RecvBody /\ ~Deliver
  <2>1. ASSUME RecvBody PROVE FALSE
    BY <2>1 DEF RecvBody, parseVars
  <2> QED
    BY <2>1 DEF Call, Deliver
<1> QED
  BY <1>1, <1>2, <1>3, <1>4, <1>5, <1>6 DEF ReaderNext

(* One turn of the loop behind the other: the request whose head the       *)
(* parser has read is the one that is served, and its Connection header    *)
(* decides.                                                                *)
LEMMA TurnStep == IInv /\ TurnInv /\ [Next]_vars => TurnInv'
<1> SUFFICES ASSUME IInv, TurnInv, [Next]_vars, "body" \notin timeouts' PROVE TurnInv'
  BY DEF TurnInv
<1>a. /\ TypeOK /\ ReaderTypeOK /\ StepInv /\ PhaseInv /\ AnswerInv /\ K \in Nat
      /\ "body" \notin timeouts /\ ("send" \notin timeouts' => "send" \notin timeouts)
      /\ (peer' # "gone" => peer # "gone")
  <2>1. TypeOK /\ ReaderTypeOK /\ StepInv /\ PhaseInv /\ AnswerInv
    BY DEF IInv, ReaderInv, ServerInv
  <2> QED
    BY <2>1, OnlyMore DEF K, ReaderTypeOK
<1>b. /\ pc = "idle" /\ K > 0 => first = Start[K]
      /\ srv = "flushing" /\ ~keep => K \in Closes
      /\ srv \in {"closing", "closed"} /\ peer # "gone" /\ "send" \notin timeouts =>
           Answered = 1..K /\ (pc \in {"ended", "raised"} \/ K \in Closes)
  BY <1>a DEF TurnInv
<1>1. CASE Client /\ UNCHANGED srvVars
  <2>1. UNCHANGED <<pc, first, requests, srv, keep, wire>>
    BY <1>1 DEF Client, SendByte, ClientLeaves, parseVars, srvVars
  <2>2. K' = K /\ Answered' = Answered
    BY <2>1 DEF K, Answered
  <2> QED
    BY <1>a, <1>b, <2>1, <2>2 DEF TurnInv
<1>2. CASE Read
  <2>1. srv = "parsing" /\ srv' \in {"parsing", "handling"}
    BY <1>2 DEF Read, srvVars
  <2>2. CASE pc' = "idle" /\ K' > 0
    <3>1. Deliver
      BY <1>2, <2>2 DEF Read, Call, RecvHeader, HeaderEnds, ParseHead, RecvBody, parseVars,
                        Deliver
    <3>2. /\ pc = "body" /\ first' = first /\ Within
          /\ requests' = Append(requests, [first |-> first, head |-> used - first,
                                           want |-> want, body |-> Taken])
      BY <1>a, <3>1 DEF Deliver, StepInv
    <3>3. K' = NextUp
      BY <1>a, <3>2 DEF K, NextUp, ReaderTypeOK
    <3> QED
      BY <2>1, <3>2, <3>3 DEF TurnInv, Within
  <2> QED
    BY <2>1, <2>2 DEF TurnInv
<1>3. CASE Handle
  <2>1. /\ srv = "handling" /\ srv' = "flushing" /\ keep' \in KeepAlive
        /\ UNCHANGED <<pc, first, requests>> /\ K' = K
    BY <1>3 DEF Handle, rrvars, parseVars, K
  <2>2. pc = "idle" /\ K > 0 /\ first = Start[K] /\ Served \in Requests
    BY <1>a, <1>b, <2>1, ServedType DEF PhaseInv
  <2>3. K \in Requests /\ requests[K].head = HeadLen[K]
    <3>1. K \in DOMAIN requests
      BY <1>a, <2>2 DEF K, ReaderTypeOK
    <3> QED
      BY <1>a, <3>1 DEF StepInv, InStep
  <2>4. Served = K
    <3>1. HeadEnd(Served) = first + requests[K].head
      BY <1>a, <2>1 DEF PhaseInv, Served, K
    <3>2. HeadEnd(Served) = HeadEnd(K)
      BY <2>2, <2>3, <3>1, Layout
    <3> QED
      BY <2>2, <2>3, <3>2, HeadsDiffer
  <2>5. ~keep' => K \in Closes
    BY <2>1, <2>2, <2>4 DEF KeepAlive
  <2> QED
    BY <1>b, <2>1, <2>5 DEF TurnInv
<1>4. CASE SendCell
  <2>1. srv = "flushing" /\ srv' = srv /\ keep' = keep /\ UNCHANGED <<pc, first, requests>> /\ K' = K
    BY <1>4 DEF SendCell, rrvars, parseVars, K
  <2> QED
    BY <1>b, <2>1 DEF TurnInv
<1>5. CASE SendFails
  <2>1. /\ srv' = "closing" /\ UNCHANGED <<pc, first, requests>> /\ K' = K
        /\ peer' = "gone" \/ "send" \in timeouts'
    BY <1>5 DEF SendFails, streamVars, K
  <2> QED
    BY <1>b, <2>1 DEF TurnInv
<1>6. CASE FlushEnds \/ LoopEnds \/ Close
  <2>1. UNCHANGED <<pc, first, requests, keep, wire>> /\ K' = K /\ Answered' = Answered
    BY <1>6 DEF FlushEnds, LoopEnds, Close, rrvars, parseVars, K, Answered
  <2>2. \/ srv = "flushing" /\ out = <<>> /\ srv' = IF keep THEN "parsing" ELSE "closing"
        \/ srv = "parsing" /\ srv' = "closing" /\ pc \in {"ended", "raised"}
        \/ srv = "closing" /\ srv' = "closed"
    BY <1>6 DEF FlushEnds, AfterFlush, LoopEnds, Close
  <2>3. /\ srv = "flushing" /\ out = <<>> => Answered = 1..K
        /\ srv = "parsing" => Answered = 1..K
    BY <1>a DEF AnswerInv
  <2> QED
    BY <1>a, <1>b, <2>1, <2>2, <2>3 DEF TurnInv
<1>7. CASE UNCHANGED vars
  <2>1. UNCHANGED <<pc, first, requests, srv, keep, wire, peer, timeouts>>
    BY <1>7 DEF vars, rrvars, streamVars, parseVars, srvVars
  <2> QED
    BY <1>a, <1>b, <2>1 DEF TurnInv, K, Answered
<1> QED
  BY <1>1, <1>2, <1>3, <1>4, <1>5, <1>6, <1>7 DEF Next, Server, Closed

(* HTTPServer answers a client that half-closes its connection: without a  *)
(* timeout, every whole request up to the first that closes, cannot be     *)
(* parsed or comes near the header limit.                                  *)
THEOREM HalfClosed == Spec => []HalfClosedStillAnswered
<1>1. Init => HalfInv
  <2> SUFFICES ASSUME Init PROVE HalfInv
    OBVIOUS
  <2>1. requests = <<>> /\ pc = "idle" /\ used = 0 /\ srv = "parsing"
    BY DEF Init, ReaderInit
  <2>2. K = 0 /\ NextUp = 1
    BY <2>1 DEF K, NextUp
  <2>3. 1 \in 1..(N + 1) /\ used <= Start[1]
    BY <2>1, ReaderAssumption
  <2> QED
    BY <2>1, <2>2, <2>3 DEF HalfInv, UpTo, EndInv, TurnInv
<1>2. IInv /\ HalfInv /\ [Next]_vars /\ IInv' => HalfInv'
  BY StepReads, UpToStep, EndStepInv, TurnStep DEF HalfInv, IInv
<1>3. ASSUME IInv, HalfInv PROVE HalfClosedStillAnswered
  <2> SUFFICES ASSUME srv = "closed", peer = "eof", timeouts = {},
                      NEW r \in Requests, Start[r + 1] <= sent,
                      \A q \in 1..r : Kind[q] = "request" /\ ShortHead(q),
                      \A q \in 1..(r - 1) : q \notin Closes
               PROVE  r \in Answered
    BY DEF HalfClosedStillAnswered
  <2>1. /\ Answered = 1..K /\ (pc \in {"ended", "raised"} \/ K \in Closes)
    BY <1>3 DEF HalfInv, TurnInv
  <2>2. r \in 1..N /\ N \in Nat /\ K \in Nat /\ NextUp = K + 1
    BY <1>3, Layout DEF IInv, TypeOK, ReaderTypeOK, K, NextUp, Requests
  <2>3. CASE K \in Closes
    <3>1. K \in Requests /\ K \notin 1..(r - 1)
      BY <2>3, HttpAssumption
    <3> QED
      BY <2>1, <2>2, <3>1 DEF Requests
  <2>4. CASE pc \in {"ended", "raised"}
    <3>1. CASE \E q \in Requests : q <= NextUp /\ ~Plain(q)
      <4>1. PICK q \in Requests : q <= NextUp /\ ~Plain(q)
        BY <3>1
      <4>2. q \notin 1..r
        BY <4>1 DEF Plain
      <4> QED
        BY <2>1, <2>2, <4>1, <4>2 DEF Requests
    <3>2. CASE \A q \in Requests : Start[q + 1] <= sent => q <= K
      BY <2>1, <2>2, <3>2
    <3> QED
      BY <1>3, <2>4, <3>1, <3>2 DEF HalfInv, EndInv
  <2> QED
    BY <2>1, <2>3, <2>4
<1>4. Spec => []HalfInv
  BY <1>1, <1>2, Invariance, PTL DEF Spec
<1> QED
  BY <1>3, <1>4, Invariance, PTL

-----------------------------------------------------------------------------
(* What the client of examples/pipelining_client.py makes of the stream.   *)
(*                                                                         *)
(* The responses to the calls 1..c, each whole, one behind the other.      *)
Pages(s, c) ==
  /\ s = <<>> => c = 0
  /\ s # <<>> =>
       /\ s[1].i = 1 /\ s[1].call = 1
       /\ s[Len(s)].i = s[Len(s)].n /\ s[Len(s)].call = c
  /\ \A k \in 1..Len(s) : s[k].n > 0
  /\ \A k \in 1..(Len(s) - 1) :
       s[k].i = s[k].n => s[k + 1].i = 1 /\ s[k + 1].call = s[k].call + 1
  /\ \A k \in 1..Len(s) :
       s[k].i = 1 =>
         /\ k + s[k].n - 1 <= Len(s)
         /\ \A d \in 0..(s[k].n - 1) :
              s[k + d] = Page(s[k].call, s[k].n, s[k].keep)[d + 1]
  /\ \A j, k \in 1..Len(s) :
       j < k => s[j].call <= s[k].call /\ (s[k].i = 1 => s[j].call < s[k].call)

(* What was sent and what is still to be sent are the responses to all     *)
(* calls whose handler has returned.                                       *)
Stream == wire \o out
Made == IF srv = "handling" THEN K - 1 ELSE K

PagesInv ==
  /\ Pages(Stream, Made)
  /\ srv \in {"parsing", "handling"} => out = <<>>
  /\ srv \in {"closing", "closed"} => Answered \in {1..K, 1..(K - 1)}

A == Len(answers)

(* The client has taken whole responses out of its buffer, *)
Edge ==
  /\ ate = 0 => A = 0
  /\ ate > 0 => wire[ate].i = wire[ate].n /\ wire[ate].call = A

(* or those and the head of the next one.                  *)
InBody == ate > 0 /\ wire[ate].i = 1 /\ wire[ate].call = A + 1

TakenInv ==
  /\ taken \in 0..Len(wire) /\ ate \in 0..taken
  /\ at = "head" => Edge
  /\ at = "body" => InBody
  /\ at = "ended" => \/ Edge /\ taken = ate
                     \/ InBody /\ taken - ate < wire[ate].n - 1

AnswersInv ==
  /\ answers \in Seq([head : Cell, body : Seq(Cell)])
  /\ \A k \in DOMAIN answers :
       LET page == <<answers[k].head>> \o answers[k].body
       IN page = Page(k, Len(page), page[1].keep)

CInv == IInv /\ PagesInv /\ TakenInv /\ AnswersInv

(* Two sequences, one behind the other. *)
LEMMA Behind ==
  ASSUME NEW s \in Seq(Cell), NEW t \in Seq(Cell)
  PROVE  /\ s \o t \in Seq(Cell)
         /\ Len(s) \in Nat /\ Len(t) \in Nat /\ Len(s \o t) = Len(s) + Len(t)
         /\ \A k \in 1..Len(s) : (s \o t)[k] = s[k]
         /\ \A k \in (Len(s) + 1)..(Len(s) + Len(t)) : (s \o t)[k] = t[k - Len(s)]
  OBVIOUS

LEMMA OnePageMore ==
  ASSUME NEW s \in Seq(Cell), NEW c \in Nat \ {0}, NEW n \in Nat \ {0}, NEW w \in BOOLEAN,
         Pages(s, c - 1)
  PROVE  Pages(s \o Page(c, n, w), c)
<1> DEFINE p == Page(c, n, w)
           u == s \o p
           L == Len(s)
<1>1. /\ p \in Seq(Cell) /\ Len(p) = n
      /\ \A j \in 1..n : p[j] = [call |-> c, i |-> j, n |-> n, keep |-> w]
  BY PageType
<1> HIDE DEF p
<1>2. /\ u \in Seq(Cell) /\ L \in Nat /\ Len(u) = L + n
      /\ \A k \in 1..L : u[k] = s[k]
      /\ \A k \in (L + 1)..(L + n) : u[k] = p[k - L]
  BY <1>1, Behind
<1> HIDE DEF u
<1>3. \A k \in (L + 1)..(L + n) : u[k] = [call |-> c, i |-> k - L, n |-> n, keep |-> w]
  <2> TAKE k \in (L + 1)..(L + n)
  <2>1. k - L \in 1..n
    BY <1>2
  <2> QED
    BY <1>1, <1>2, <2>1
<1>b. ASSUME NEW k \in (L + 1)..(L + n)
      PROVE  u[k].call = c /\ u[k].i = k - L /\ u[k].n = n
  <2>1. u[k] = [call |-> c, i |-> k - L, n |-> n, keep |-> w]
    BY <1>3
  <2> QED
    BY <2>1
<1>4. \A k \in 1..L : s[k] \in Cell
  BY ElementOfSeq
<1>a. /\ L > 0 => s[L].i = s[L].n /\ s[L].call = c - 1 /\ s[1].i = 1 /\ s[1].call = 1
      /\ L = 0 => c = 1
  BY <1>2 DEF Pages
<1>5. u # <<>> /\ u[1].i = 1 /\ u[1].call = 1
  <2>1. CASE L = 0
    BY <1>2, <1>3, <1>a, <2>1
  <2>2. CASE L > 0
    BY <1>2, <1>a, <2>2
  <2> QED
    BY <1>2, <2>1, <2>2
<1>6. u[Len(u)].i = u[Len(u)].n /\ u[Len(u)].call = c
  <2>1. L + n \in (L + 1)..(L + n) /\ (L + n) - L = n
    BY <1>2
  <2> QED
    BY <1>2, <1>b, <2>1
<1>7. ASSUME NEW k \in 1..Len(u) PROVE u[k].n > 0
  <2>1. CASE k \in 1..L
    BY <1>2, <2>1 DEF Pages
  <2>2. CASE k \in (L + 1)..(L + n)
    BY <1>b, <2>2
  <2> QED
    BY <1>2, <2>1, <2>2
<1>8. ASSUME NEW k \in 1..(Len(u) - 1), u[k].i = u[k].n
      PROVE  u[k + 1].i = 1 /\ u[k + 1].call = u[k].call + 1
  <2>1. CASE k < L
    <3>1. k \in 1..L /\ k + 1 \in 1..L /\ k \in 1..(L - 1)
      BY <1>2, <2>1
    <3> QED
      BY <1>2, <1>8, <3>1 DEF Pages
  <2>2. CASE k = L
    <3>1. k \in 1..L /\ k + 1 \in (L + 1)..(L + n) /\ (k + 1) - L = 1 /\ L > 0
      BY <1>2, <2>2
    <3> QED
      BY <1>2, <1>b, <1>a, <2>2, <3>1
  <2>3. CASE k > L
    <3>1. k \in (L + 1)..(L + n) /\ k - L # n
      BY <1>2, <2>3
    <3> QED
      BY <1>b, <1>8, <3>1
  <2> QED
    BY <1>2, <2>1, <2>2, <2>3
<1>9. ASSUME NEW k \in 1..Len(u), u[k].i = 1
      PROVE  /\ k + u[k].n - 1 <= Len(u)
             /\ \A d \in 0..(u[k].n - 1) : u[k + d] = Page(u[k].call, u[k].n, u[k].keep)[d + 1]
  <2>1. CASE k <= L
    <3>1. k \in 1..L /\ u[k] = s[k]
      BY <1>2, <2>1
    <3>2. s[k].n \in Nat
      BY <1>4, <3>1 DEF Cell
    <3>3. /\ k + s[k].n - 1 <= L
          /\ \A d \in 0..(s[k].n - 1) : s[k + d] = Page(s[k].call, s[k].n, s[k].keep)[d + 1]
      BY <1>9, <3>1 DEF Pages
    <3>4. ASSUME NEW d \in 0..(s[k].n - 1) PROVE k + d \in 1..L /\ u[k + d] = s[k + d]
      <4>1. k + d \in 1..L
        BY <1>2, <3>1, <3>2, <3>3
      <4> QED
        BY <1>2, <4>1
    <3> QED
      BY <1>2, <3>1, <3>2, <3>3, <3>4
  <2>2. CASE k > L
    <3>1. k \in (L + 1)..(L + n)
      BY <1>2, <2>2
    <3>2. k = L + 1
      BY <1>2, <1>b, <1>9, <3>1
    <3>3. u[k] = [call |-> c, i |-> 1, n |-> n, keep |-> w]
      BY <1>2, <1>3, <3>1, <3>2
    <3>4. ASSUME NEW d \in 0..(n - 1) PROVE u[k + d] = p[d + 1]
      <4>1. k + d \in (L + 1)..(L + n) /\ (k + d) - L = d + 1
        BY <1>2, <3>2
      <4> QED
        BY <1>2, <4>1
    <3> QED
      BY <1>2, <3>2, <3>3, <3>4 DEF p
  <2> QED
    BY <1>2, <2>1, <2>2
<1>10. ASSUME NEW j \in 1..Len(u), NEW k \in 1..Len(u), j < k
       PROVE  u[j].call <= u[k].call /\ (u[k].i = 1 => u[j].call < u[k].call)
  <2>1. CASE k <= L
    <3>1. j \in 1..L /\ k \in 1..L
      BY <1>2, <1>10, <2>1
    <3> QED
      BY <1>2, <1>10, <3>1 DEF Pages
  <2>2. CASE j <= L /\ L < k
    <3>1. j \in 1..L /\ k \in (L + 1)..(L + n) /\ L \in 1..L
      BY <1>2, <2>2
    <3>2. s[j].call <= s[L].call
      <4>1. CASE j < L
        BY <3>1, <4>1 DEF Pages
      <4>2. CASE j = L
        BY <1>4, <3>1, <4>2 DEF Cell
      <4> QED
        BY <1>2, <3>1, <4>1, <4>2
    <3>3. s[L].call = c - 1 /\ u[j] = s[j] /\ u[k].call = c
      BY <1>2, <1>b, <1>a, <3>1
    <3>4. s[j] \in Cell /\ s[j].call \in Nat
      BY <1>4, <3>1 DEF Cell
    <3> QED
      BY <3>2, <3>3, <3>4
  <2>3. CASE L < j
    <3>1. j \in (L + 1)..(L + n) /\ k \in (L + 1)..(L + n) /\ k - L # 1
      BY <1>2, <1>10, <2>3
    <3> QED
      BY <1>b, <3>1
  <2> QED
    BY <1>2, <2>1, <2>2, <2>3
<1> QED
  BY <1>5, <1>6, <1>7, <1>8, <1>9, <1>10 DEF Pages, u, p

(* Only a handler that returns adds to the stream. *)
LEMMA PagesStep == IInv /\ PagesInv /\ [Next]_vars /\ IInv' => PagesInv'
<1> SUFFICES ASSUME IInv, PagesInv, [Next]_vars, IInv' PROVE PagesInv'
  OBVIOUS
<1>a. /\ TypeOK /\ PhaseInv /\ AnswerInv /\ K \in Nat
  <2>1. TypeOK /\ ReaderTypeOK /\ PhaseInv /\ AnswerInv
    BY DEF IInv, ReaderInv, ServerInv
  <2> QED
    BY <2>1 DEF K, ReaderTypeOK
<1>b. /\ Pages(Stream, Made)
      /\ srv \in {"parsing", "handling"} => out = <<>>
      /\ srv \in {"closing", "closed"} => Answered \in {1..K, 1..(K - 1)}
  BY DEF PagesInv
<1>1. CASE UNCHANGED <<requests, srvVars>>
  <2>1. K' = K /\ Made' = Made /\ Stream' = Stream /\ Answered' = Answered
    BY <1>1 DEF K, Made, Stream, Answered, srvVars
  <2> QED
    BY <1>1, <1>b, <2>1 DEF PagesInv, srvVars
<1>2. CASE Deliver /\ srv = "parsing" /\ srv' = "handling" /\ UNCHANGED <<keep, out, wire>>
  <2>1. K' = K + 1
    BY <1>2, <1>a DEF Deliver, K, TypeOK, ReaderTypeOK
  <2>2. Made' = Made /\ Stream' = Stream
    BY <1>2, <1>a, <2>1 DEF Made, Stream
  <2> QED
    BY <1>2, <1>b, <2>2 DEF PagesInv
<1>3. CASE Handle
  <2>1. PICK n \in {Cells[Served], 1} : out' = Page(K, n, keep')
    BY <1>3 DEF Handle, K
  <2>2. /\ srv = "handling" /\ srv' = "flushing" /\ wire' = wire /\ K' = K
        /\ keep' \in BOOLEAN /\ n \in Nat \ {0} /\ K \in Nat \ {0}
    BY <1>a, <1>3, ServedType, HttpAssumption DEF Handle, rrvars, parseVars, K, PhaseInv
  <2>3. wire \in Seq(Cell) /\ Stream = wire
    <3>1. wire \in Seq(Cell) /\ out = <<>>
      BY <1>a, <1>b, <2>2 DEF TypeOK
    <3> QED
      BY <3>1 DEF Stream
  <2>4. Pages(wire, K - 1)
    BY <1>b, <2>2, <2>3 DEF Made
  <2>5. Pages(wire \o Page(K, n, keep'), K)
    BY <2>2, <2>3, <2>4, OnePageMore
  <2>6. Stream' = wire \o Page(K, n, keep') /\ Made' = K
    BY <2>1, <2>2 DEF Stream, Made
  <2> QED
    BY <2>2, <2>5, <2>6 DEF PagesInv
<1>4. CASE SendCell
  <2>1. /\ srv = "flushing" /\ srv' = srv /\ requests' = requests /\ out # <<>>
        /\ wire' = Append(wire, Head(out)) /\ out' = Tail(out)
    BY <1>4 DEF SendCell, rrvars, parseVars
  <2>2. Stream' = Stream
    <3>1. wire \in Seq(Cell) /\ out \in Seq(Cell)
      BY <1>a DEF TypeOK
    <3> QED
      BY <2>1, <3>1 DEF Stream
  <2> QED
    BY <1>b, <2>1, <2>2 DEF PagesInv, Made, K
<1>5. CASE SendFails \/ FlushEnds \/ LoopEnds \/ Close
  <2>1. UNCHANGED <<requests, out, wire>> /\ K' = K /\ Stream' = Stream /\ Answered' = Answered
    BY <1>5 DEF SendFails, FlushEnds, LoopEnds, Close, rrvars, parseVars, K, Stream, Answered
  <2>2. /\ srv # "handling" /\ srv' # "handling"
        /\ srv' = "parsing" => out = <<>>
        /\ srv' \in {"closing", "closed"} => srv \in {"parsing", "flushing", "closing"}
    BY <1>5 DEF SendFails, FlushEnds, AfterFlush, LoopEnds, Close
  <2>3. srv' \in {"closing", "closed"} => Answered \in {1..K, 1..(K - 1)}
    BY <1>a, <1>b, <2>2 DEF AnswerInv
  <2> QED
    BY <1>b, <2>1, <2>2, <2>3 DEF PagesInv, Made
<1>6. CASE Read
  <2>1. CASE UNCHANGED srvVars
    <3>1. requests' = requests
      BY <1>6, <2>1 DEF Read, srvVars, Call, RecvHeader, HeaderEnds, ParseHead, RecvBody,
                        parseVars
    <3> QED
      BY <1>1, <2>1, <3>1
  <2> QED
    BY <1>2, <1>6, <2>1 DEF Read
<1>7. CASE Client /\ UNCHANGED srvVars
  BY <1>1, <1>7 DEF Client, SendByte, ClientLeaves, parseVars
<1>8. CASE UNCHANGED vars
  BY <1>1, <1>8 DEF vars, rrvars, parseVars
<1> QED
  BY <1>3, <1>4, <1>5, <1>6, <1>7, <1>8 DEF Next, Server, Closed

(* What of this the client can rely on in the part that has been sent. *)
LEMMA ClientSees ==
  ASSUME TypeOK, PagesInv
  PROVE  /\ Len(wire) \in Nat /\ DOMAIN wire = 1..Len(wire)
         /\ \A k \in 1..Len(wire) : wire[k] \in Cell /\ wire[k].n \in Nat \ {0}
         /\ Len(wire) > 0 => wire[1].i = 1 /\ wire[1].call = 1
         /\ \A k \in 1..(Len(wire) - 1) :
              wire[k].i = wire[k].n => wire[k + 1].i = 1 /\ wire[k + 1].call = wire[k].call + 1
         /\ \A k \in 1..Len(wire) : \A d \in 0..(wire[k].n - 1) :
              wire[k].i = 1 /\ k + d <= Len(wire) =>
                wire[k + d] = [call |-> wire[k].call, i |-> d + 1, n |-> wire[k].n,
                               keep |-> wire[k].keep]
         /\ \A j, k \in 1..Len(wire) :
              j < k => wire[j].call <= wire[k].call /\ (wire[k].i = 1 => wire[j].call < wire[k].call)
<1>1. wire \in Seq(Cell) /\ out \in Seq(Cell) /\ Pages(Stream, Made)
  BY DEF TypeOK, PagesInv
<1>2. /\ Stream \in Seq(Cell) /\ Len(wire) \in Nat /\ Len(out) \in Nat
      /\ Len(Stream) = Len(wire) + Len(out)
      /\ \A k \in 1..Len(wire) : Stream[k] = wire[k]
  BY <1>1, Behind DEF Stream
<1>3. DOMAIN wire = 1..Len(wire) /\ \A k \in 1..Len(wire) : wire[k] \in Cell
  BY <1>1, ElementOfSeq
<1>4. \A k \in 1..Len(wire) : k \in 1..Len(Stream)
  BY <1>2
<1>5. ASSUME NEW k \in 1..Len(wire) PROVE wire[k].n \in Nat \ {0}
  <2>1. wire[k].n \in Nat
    BY <1>3 DEF Cell
  <2>2. Stream[k].n > 0
    BY <1>1, <1>4 DEF Pages
  <2> QED
    BY <1>2, <2>1, <2>2
<1>6. Len(wire) > 0 => wire[1].i = 1 /\ wire[1].call = 1
  <2> SUFFICES ASSUME Len(wire) > 0 PROVE wire[1].i = 1 /\ wire[1].call = 1
    OBVIOUS
  <2>1. 1 \in 1..Len(wire) /\ Stream # <<>>
    BY <1>2
  <2> QED
    BY <1>1, <1>2, <2>1 DEF Pages
<1>7. ASSUME NEW k \in 1..(Len(wire) - 1), wire[k].i = wire[k].n
      PROVE  wire[k + 1].i = 1 /\ wire[k + 1].call = wire[k].call + 1
  <2>1. k \in 1..Len(wire) /\ k + 1 \in 1..Len(wire) /\ k \in 1..(Len(Stream) - 1)
    BY <1>2
  <2>2. Stream[k] = wire[k] /\ Stream[k + 1] = wire[k + 1]
    BY <1>2, <2>1
  <2> QED
    BY <1>1, <1>7, <2>1, <2>2 DEF Pages
<1>8. ASSUME NEW k \in 1..Len(wire), NEW d \in 0..(wire[k].n - 1),
             wire[k].i = 1, k + d <= Len(wire)
      PROVE  wire[k + d] = [call |-> wire[k].call, i |-> d + 1, n |-> wire[k].n,
                            keep |-> wire[k].keep]
  <2>1. k \in 1..Len(Stream) /\ Stream[k] = wire[k]
    BY <1>2, <1>4
  <2>2. Stream[k + d] = Page(wire[k].call, wire[k].n, wire[k].keep)[d + 1]
    BY <1>1, <1>8, <2>1 DEF Pages
  <2>3. k + d \in 1..Len(wire)
    BY <1>2, <1>5, <1>8
  <2>4. wire[k + d] = Page(wire[k].call, wire[k].n, wire[k].keep)[d + 1]
    BY <1>2, <2>2, <2>3
  <2>5. d + 1 \in 1..wire[k].n
    BY <1>5
  <2> QED
    BY <2>4, <2>5 DEF Page
<1>9. ASSUME NEW j \in 1..Len(wire), NEW k \in 1..Len(wire), j < k
      PROVE  wire[j].call <= wire[k].call /\ (wire[k].i = 1 => wire[j].call < wire[k].call)
  <2>1. /\ j \in 1..Len(Stream) /\ Stream[j] = wire[j]
        /\ k \in 1..Len(Stream) /\ Stream[k] = wire[k]
    BY <1>2, <1>4
  <2> QED
    BY <1>1, <1>9, <2>1 DEF Pages
<1> QED
  BY <1>2, <1>3, <1>5, <1>6, <1>7, <1>8, <1>9

(* A step of the server leaves alone what the client has taken. *)
LEMMA WireGrows ==
  ASSUME TypeOK, [Next]_vars
  PROVE  /\ Len(wire) \in Nat /\ Len(wire') \in Nat /\ Len(wire) <= Len(wire')
         /\ \A k \in 1..Len(wire) : wire'[k] = wire[k]
<1>1. wire \in Seq(Cell) /\ out \in Seq(Cell)
  BY DEF TypeOK
<1>2. CASE SendCell
  <2>1. wire' = Append(wire, Head(out)) /\ Head(out) \in Cell
    BY <1>1, <1>2, HeadTailProperties DEF SendCell
  <2> QED
    BY <1>1, <2>1
<1>3. CASE wire' = wire
  BY <1>1, <1>3
<1>4. ~SendCell => wire' = wire
  BY DEF Next, Server, Closed, vars, srvVars, Read, Handle, SendFails, FlushEnds, LoopEnds, Close
<1> QED
  BY <1>2, <1>3, <1>4

LEMMA TakenKept ==
  ASSUME TypeOK, [Next]_vars, TakenInv, UNCHANGED clientState
  PROVE  TakenInv'
<1>1. UNCHANGED <<at, taken, ate, answers>> /\ A' = A
  BY DEF clientState, A
<1>2. taken \in 0..Len(wire) /\ ate \in 0..taken
  BY DEF TakenInv
<1>3. /\ Len(wire) \in Nat /\ Len(wire') \in Nat /\ Len(wire) <= Len(wire')
      /\ \A k \in 1..Len(wire) : wire'[k] = wire[k]
  BY WireGrows
<1>4. taken' \in 0..Len(wire') /\ ate' \in 0..taken'
  BY <1>1, <1>2, <1>3
<1>5. ate > 0 => wire'[ate] = wire[ate]
  <2>1. ate > 0 => ate \in 1..Len(wire)
    BY <1>2, <1>3
  <2> QED
    BY <1>3, <2>1
<1>6. (Edge => Edge') /\ (InBody => InBody')
  BY <1>1, <1>5 DEF Edge, InBody
<1>7. ate > 0 => wire'[ate'] = wire[ate]
  BY <1>1, <1>5
<1> QED
  BY <1>1, <1>4, <1>6, <1>7 DEF TakenInv, InBody

(* A head and as many cells behind it as it announces are the page. *)
LEMMA WholePage ==
  ASSUME TypeOK, PagesInv, NEW a \in 1..Len(wire), wire[a].i = 1,
         a + wire[a].n - 1 <= Len(wire)
  PROVE  LET body == SubSeq(wire, a + 1, a + (wire[a].n - 1))
             page == <<wire[a]>> \o body
         IN  /\ body \in Seq(Cell)
             /\ page[1] = wire[a]
             /\ page = Page(wire[a].call, Len(page), wire[a].keep)
<1> DEFINE n == wire[a].n
           body == SubSeq(wire, a + 1, a + (n - 1))
           page == <<wire[a]>> \o body
           x == wire[a]
<1>1. /\ Len(wire) \in Nat /\ n \in Nat \ {0} /\ x \in Cell
      /\ \A d \in 0..(n - 1) : a + d <= Len(wire) =>
           wire[a + d] = [call |-> x.call, i |-> d + 1, n |-> n, keep |-> x.keep]
  BY ClientSees
<1>2. wire \in Seq(Cell)
  BY DEF TypeOK
<1>3. /\ body \in Seq(Cell) /\ Len(body) = n - 1
      /\ \A d \in 1..(n - 1) : body[d] = wire[a + d]
  <2> DEFINE m == a + (n - 1)
  <2>1. m \in Nat /\ m <= Len(wire) /\ a + 1 \in 1..(Len(wire) + 1) /\ m - (a + 1) + 1 = n - 1
    BY <1>1
  <2>2. \A j \in 1..(n - 1) : (a + 1) + j - 1 = a + j
    BY <1>1
  <2> HIDE DEF n, m
  <2>3. /\ SubSeq(wire, a + 1, m) \in Seq(Cell)
        /\ Len(SubSeq(wire, a + 1, m)) = n - 1
        /\ \A j \in 1..(n - 1) : SubSeq(wire, a + 1, m)[j] = wire[(a + 1) + j - 1]
    BY <1>1, <1>2, <2>1
  <2> QED
    BY <2>2, <2>3 DEF m, n
<1> HIDE DEF body, x
<1>4. /\ page \in Seq(Cell) /\ Len(page) = n /\ page[1] = x
      /\ \A d \in 2..n : page[d] = body[d - 1]
  <2>1. /\ <<x>> \in Seq(Cell) /\ Len(<<x>>) = 1 /\ <<x>>[1] = x
    BY <1>1
  <2> HIDE DEF n
  <2>2. /\ <<x>> \o body \in Seq(Cell) /\ Len(<<x>> \o body) = 1 + (n - 1)
        /\ \A k \in 1..1 : (<<x>> \o body)[k] = <<x>>[k]
        /\ \A k \in (1 + 1)..(1 + (n - 1)) : (<<x>> \o body)[k] = body[k - 1]
    BY <1>3, <2>1, Behind
  <2>3. 1 + (n - 1) = n /\ 1 \in 1..1 /\ 1 + 1 = 2
    BY <1>1 DEF n, x
  <2> QED
    BY <2>1, <2>2, <2>3 DEF x
<1>5. ASSUME NEW d \in 1..n
      PROVE  page[d] = [call |-> x.call, i |-> d, n |-> n, keep |-> x.keep]
  <2>1. d - 1 \in 0..(n - 1) /\ a + (d - 1) <= Len(wire) /\ (d - 1) + 1 = d
    BY <1>1
  <2>2. wire[a + (d - 1)] = [call |-> x.call, i |-> d, n |-> n, keep |-> x.keep]
    BY <1>1, <2>1
  <2>3. CASE d = 1
    <3>1. a + (d - 1) = a
      BY <2>3
    <3> QED
      BY <1>4, <2>2, <2>3, <3>1 DEF x
  <2>4. CASE d > 1
    <3>1. d \in 2..n /\ d - 1 \in 1..(n - 1)
      BY <1>1, <2>4
    <3> QED
      BY <1>3, <1>4, <2>2, <3>1
  <2>5. d = 1 \/ d > 1
    BY <1>1
  <2> QED
    BY <2>3, <2>4, <2>5
<1>6. page = [d \in 1..n |-> [call |-> x.call, i |-> d, n |-> n, keep |-> x.keep]]
  <2>1. DOMAIN page = 1..n /\ page = [d \in DOMAIN page |-> page[d]]
    BY <1>1, <1>4
  <2> QED
    BY <1>5, <2>1
<1> QED
  BY <1>3, <1>4, <1>6 DEF Page, body, x

(* What the client has read lies within what was sent. *)
LEMMA ReadWithin ==
  ASSUME TypeOK, PagesInv, TakenInv
  PROVE  /\ Len(wire) \in Nat /\ taken \in Nat /\ ate \in Nat
         /\ ate <= taken /\ taken <= Len(wire)
         /\ ate > 0 => ate \in 1..Len(wire)
<1>1. Len(wire) \in Nat /\ taken \in 0..Len(wire) /\ ate \in 0..taken
  BY DEF TypeOK, TakenInv
<1> QED
  BY <1>1

(* Behind whole responses a head comes next. *)
LEMMA HeadNext ==
  ASSUME TypeOK, PagesInv, TakenInv, Edge, ate < taken
  PROVE  /\ ate + 1 \in 1..Len(wire) /\ ate + 1 \in Incoming!Heads
         /\ wire[ate + 1].i = 1 /\ wire[ate + 1].call = A + 1
<1>1. /\ Len(wire) \in Nat /\ taken \in Nat /\ ate \in Nat
      /\ ate <= taken /\ taken <= Len(wire)
      /\ ate > 0 => ate \in 1..Len(wire)
  BY ReadWithin
<1>2. wire[ate + 1].i = 1 /\ wire[ate + 1].call = A + 1
  <2>1. CASE ate = 0
    <3>1. Len(wire) > 0 /\ ate + 1 = 1 /\ A = 0
      BY <1>1, <2>1 DEF Edge
    <3> QED
      BY <3>1, ClientSees
  <2>2. CASE ate > 0
    <3>1. ate \in 1..(Len(wire) - 1) /\ wire[ate].i = wire[ate].n /\ wire[ate].call = A
      BY <1>1, <2>2 DEF Edge
    <3> QED
      BY <3>1, ClientSees
  <2> QED
    BY <1>1, <2>1, <2>2
<1>3. ate + 1 \in 1..Len(wire) /\ ate + 1 \in (ate + 1)..taken
  BY <1>1
<1> QED
  BY <1>2, <1>3 DEF Incoming!Heads

(* recv_one(): the next response is the next call's. *)
LEMMA ReceiveStep ==
  ASSUME CInv, Incoming!RecvOne, UNCHANGED vars
  PROVE  TakenInv' /\ AnswersInv'
<1>a. /\ TypeOK /\ PagesInv /\ TakenInv /\ AnswersInv
  BY DEF CInv, IInv
<1>b. wire' = wire
  BY DEF vars, srvVars
<1>c. /\ Len(wire) \in Nat /\ taken \in Nat /\ ate \in Nat
      /\ ate <= taken /\ taken <= Len(wire)
      /\ ate > 0 => ate \in 1..Len(wire)
  BY <1>a, ReadWithin
<1>d. /\ at = "head" => Edge
      /\ at = "body" => InBody
  BY <1>a DEF TakenInv
<1>1. CASE Incoming!Receive
  <2>1. PICK n \in 1..ReadSize : taken' = taken + n
    BY <1>1 DEF Incoming!Receive
  <2>2. /\ taken' <= Len(wire) /\ UNCHANGED <<at, ate, answers>> /\ at \in {"head", "body"}
    BY <1>1 DEF Incoming!Receive, Incoming!Wants
  <2>3. taken' \in 0..Len(wire') /\ ate' \in 0..taken'
    BY <1>b, <1>c, <2>1, <2>2, ClientAssumption
  <2>4. (Edge => Edge') /\ (InBody => InBody')
    BY <1>b, <2>2 DEF Edge, InBody, A
  <2>5. TakenInv'
    BY <1>d, <2>2, <2>3, <2>4 DEF TakenInv
  <2> QED
    BY <1>a, <2>2, <2>5 DEF AnswersInv
<1>2. CASE Incoming!ParseHead
  <2>1. /\ at = "head" /\ UNCHANGED <<taken, answers>>
    BY <1>2 DEF Incoming!ParseHead
  <2>2. PICK k \in Incoming!Heads :
          /\ \A j \in Incoming!Heads : k <= j
          /\ ate' = k
          /\ at' \in IF k = ate + 1 THEN {"body"} ELSE {"body", "ended"}
    BY <1>2 DEF Incoming!ParseHead
  <2>3. k \in (ate + 1)..taken
    BY <2>2 DEF Incoming!Heads
  <2>4. ate < taken
    BY <1>c, <2>3
  <2>5. /\ ate + 1 \in 1..Len(wire) /\ ate + 1 \in Incoming!Heads
        /\ wire[ate + 1].i = 1 /\ wire[ate + 1].call = A + 1
    BY <1>a, <1>d, <2>1, <2>4, HeadNext
  <2>6. k = ate + 1
    BY <1>c, <2>2, <2>3, <2>5
  <2>7. at' = "body" /\ ate' = ate + 1 /\ A' = A
    BY <2>1, <2>2, <2>6 DEF A
  <2>8. InBody'
    BY <1>b, <1>c, <2>5, <2>7 DEF InBody
  <2>9. taken' \in 0..Len(wire') /\ ate' \in 0..taken'
    BY <1>b, <1>c, <2>1, <2>4, <2>7
  <2>10. TakenInv'
    BY <2>7, <2>8, <2>9 DEF TakenInv
  <2> QED
    BY <1>a, <2>1, <2>10 DEF AnswersInv
<1>3. CASE Incoming!TakeBody
  <2> DEFINE n == wire[ate].n
             body == SubSeq(wire, ate + 1, ate + (n - 1))
             x == [head |-> wire[ate], body |-> body]
             page == <<wire[ate]>> \o body
  <2>1. /\ at = "body" /\ taken - ate >= n - 1 /\ taken' = taken
        /\ answers' = Append(answers, x)
        /\ ate' = ate + (n - 1)
        /\ at' \in {"done", "head"}
    BY <1>3 DEF Incoming!TakeBody, Incoming!ContentLength, Incoming!BodyLength
  <2>2. /\ ate \in 1..Len(wire) /\ wire[ate].i = 1 /\ wire[ate].call = A + 1
        /\ n \in Nat \ {0} /\ wire[ate] \in Cell
    <3>1. InBody /\ ate \in 1..Len(wire)
      BY <1>c, <1>d, <2>1 DEF InBody
    <3> QED
      BY <1>a, <3>1, ClientSees DEF InBody
  <2>3. /\ ate + (n - 1) <= taken /\ ate + (n - 1) \in 1..Len(wire)
        /\ ate + n - 1 <= Len(wire)
    <3>1. /\ n \in Nat /\ n > 0 /\ taken - ate >= n - 1
          /\ ate \in Nat /\ ate > 0 /\ taken \in Nat /\ taken <= Len(wire) /\ Len(wire) \in Nat
      BY <1>c, <2>1, <2>2
    <3> HIDE DEF n
    <3>2. ate + (n - 1) <= taken
      BY <3>1
    <3> QED
      BY <3>1, <3>2
  <2>4. wire[ate + (n - 1)] = [call |-> wire[ate].call, i |-> (n - 1) + 1, n |-> n,
                               keep |-> wire[ate].keep]
    <3>1. n - 1 \in 0..(n - 1) /\ ate + (n - 1) <= Len(wire)
      BY <1>c, <2>2, <2>3
    <3> QED
      BY <1>a, <2>2, <3>1, ClientSees
  <2>5. /\ body \in Seq(Cell) /\ page[1] = wire[ate]
        /\ page = Page(wire[ate].call, Len(page), wire[ate].keep)
    BY <1>a, <2>2, <2>3, WholePage
  <2>6. /\ answers \in Seq([head : Cell, body : Seq(Cell)]) /\ A \in Nat
        /\ x \in [head : Cell, body : Seq(Cell)]
    <3>1. answers \in Seq([head : Cell, body : Seq(Cell)])
      BY <1>a DEF AnswersInv
    <3>2. wire[ate] \in Cell /\ body \in Seq(Cell)
      BY <2>2, <2>5
    <3> HIDE DEF body
    <3> QED
      BY <3>1, <3>2 DEF A
  <2> HIDE DEF x
  <2>7. /\ answers' \in Seq([head : Cell, body : Seq(Cell)]) /\ A' = A + 1
        /\ DOMAIN answers = 1..A /\ DOMAIN answers' = 1..(A + 1) /\ answers'[A + 1] = x
        /\ \A k \in 1..A : answers'[k] = answers[k]
    BY <2>1, <2>6 DEF A
  <2> HIDE DEF page, body, n
  <2>8. <<x.head>> \o x.body = page /\ page = Page(A + 1, Len(page), page[1].keep)
    BY <2>2, <2>5 DEF x, page
  <2>9. ASSUME NEW k \in DOMAIN answers'
        PROVE  LET p == <<answers'[k].head>> \o answers'[k].body
               IN p = Page(k, Len(p), p[1].keep)
    <3>1. CASE k \in 1..A
      BY <1>a, <2>7, <3>1 DEF AnswersInv
    <3>2. CASE k = A + 1
      BY <2>7, <2>8, <3>2
    <3> QED
      BY <2>6, <2>7, <3>1, <3>2
  <2>10. AnswersInv'
    BY <2>7, <2>9 DEF AnswersInv
  <2>11. taken' \in 0..Len(wire') /\ ate' \in 0..taken'
    BY <1>b, <1>c, <2>1, <2>3
  <2>12. Edge'
    <3>1. (n - 1) + 1 = n
      BY <2>2
    <3>2. wire'[ate'].i = n /\ wire'[ate'].n = n /\ wire'[ate'].call = A'
      BY <1>b, <2>1, <2>2, <2>4, <2>7, <3>1
    <3>3. ~(ate' = 0)
      BY <2>1, <2>3
    <3> QED
      BY <3>2, <3>3 DEF Edge
  <2>13. TakenInv'
    BY <2>1, <2>11, <2>12 DEF TakenInv
  <2> QED
    BY <2>10, <2>13
<1>4. CASE Incoming!NothingComes
  <2>1. /\ Incoming!Wants /\ at' = "ended" /\ UNCHANGED <<taken, ate, answers>>
    BY <1>4 DEF Incoming!NothingComes
  <2>2. taken' \in 0..Len(wire') /\ ate' \in 0..taken'
    BY <1>a, <1>b, <2>1 DEF TakenInv
  <2>3. (Edge => Edge') /\ (InBody => InBody')
    BY <1>b, <2>1 DEF Edge, InBody, A
  <2>4. CASE at = "head"
    <3>1. Incoming!Heads = {}
      BY <2>1, <2>4 DEF Incoming!Wants
    <3>2. ~(ate < taken)
      BY <1>a, <1>d, <2>4, <3>1, HeadNext
    <3>3. taken' = ate'
      BY <1>c, <2>1, <3>2
    <3> QED
      BY <1>a, <1>d, <2>1, <2>2, <2>3, <2>4, <3>3 DEF TakenInv, AnswersInv
  <2>5. CASE at = "body"
    <3>1. taken - ate < wire[ate].n - 1
      BY <2>1, <2>5 DEF Incoming!Wants, Incoming!ContentLength
    <3>2. (taken - ate < wire[ate].n - 1)'
      BY <1>b, <2>1, <3>1
    <3> QED
      BY <1>a, <1>d, <2>1, <2>2, <2>3, <2>5, <3>2 DEF TakenInv, AnswersInv
  <2> QED
    BY <2>1, <2>4, <2>5 DEF Incoming!Wants
<1> QED
  BY <1>1, <1>2, <1>3, <1>4 DEF Incoming!RecvOne

LEMMA InitCInv == ClientInit => CInv
<1> SUFFICES ASSUME ClientInit PROVE CInv
  OBVIOUS
<1>1. IInv
  BY InitIInv DEF ClientInit
<1>2. wire = <<>> /\ out = <<>> /\ srv = "parsing" /\ requests = <<>>
  BY DEF ClientInit, Init, ReaderInit
<1>3. K = 0 /\ Stream = <<>> /\ Made = 0 /\ Len(wire) = 0
  BY <1>2 DEF K, Stream, Made
<1>4. Pages(<<>>, 0)
  BY DEF Pages
<1>5. PagesInv
  BY <1>2, <1>3, <1>4 DEF PagesInv
<1>6. at = "head" /\ taken = 0 /\ ate = 0 /\ answers = <<>> /\ A = 0 /\ DOMAIN answers = {}
  BY DEF ClientInit, A
<1>7. TakenInv /\ AnswersInv
  BY <1>3, <1>6 DEF TakenInv, AnswersInv, Edge
<1> QED
  BY <1>1, <1>5, <1>7 DEF CInv

LEMMA CInvStep == CInv /\ [ClientNext]_allVars => CInv'
<1> SUFFICES ASSUME CInv, [ClientNext]_allVars PROVE CInv'
  OBVIOUS
<1>a. [Next]_vars
  BY DEF ClientNext, Receives, Next, allVars
<1>1. IInv' /\ PagesInv'
  BY <1>a, NextIInv, PagesStep DEF CInv
<1>2. CASE Receives
  BY <1>1, <1>2, ReceiveStep DEF CInv, Receives
<1>3. CASE UNCHANGED clientState
  <2>1. TakenInv'
    BY <1>a, <1>3, TakenKept DEF CInv, IInv
  <2>2. AnswersInv'
    BY <1>3 DEF CInv, AnswersInv, clientState
  <2> QED
    BY <1>1, <2>1, <2>2 DEF CInv
<1>4. Receives \/ UNCHANGED clientState
  BY DEF ClientNext, allVars
<1> QED
  BY <1>2, <1>3, <1>4

LEMMA ClientInvariance == ClientSpec => []CInv
  BY InitCInv, CInvStep, PTL DEF ClientSpec

(* PipelinedClient may rely on the order of the responses alone: what its  *)
(* k-th recv_one() returns is the whole response to the k-th request, and  *)
(* none that came whole is left when the stream ends under it.             *)
THEOREM OrderSuffices == ClientSpec => []RightAnswer
<1>1. ASSUME CInv PROVE RightAnswer
  <2>a. /\ TypeOK /\ AnswerInv /\ PagesInv /\ TakenInv /\ AnswersInv /\ K \in Nat
    <3>1. TypeOK /\ ReaderTypeOK /\ AnswerInv /\ PagesInv /\ TakenInv /\ AnswersInv
      BY <1>1 DEF CInv, IInv, ReaderInv, ServerInv
    <3> QED
      BY <3>1 DEF ReaderTypeOK, K
  <2>1. ASSUME at = "ended", srv = "closed", taken = Len(wire)
        PROVE  Answered = 1..Len(answers)
    <3>1. PICK m \in {K, K - 1} : Answered = 1..m
      BY <2>1, <2>a DEF PagesInv
    <3>2. /\ Len(wire) \in Nat /\ ate \in Nat /\ ate <= taken /\ A \in Nat /\ m \in Int
          /\ ate > 0 => ate \in 1..Len(wire)
      <4>1. Len(wire) \in Nat /\ ate \in Nat /\ ate <= taken /\ (ate > 0 => ate \in 1..Len(wire))
        BY <2>a, ReadWithin
      <4> QED
        BY <2>a, <4>1 DEF AnswersInv, A
    <3>3. /\ DOMAIN wire = 1..Len(wire)
          /\ \A k \in 1..Len(wire) : wire[k].call \in Nat /\ wire[k].n \in Nat
      BY <2>a, ClientSees DEF Cell
    <3>4. \A c : c \in Answered <=> \E k \in 1..Len(wire) : wire[k].i = wire[k].n /\ wire[k].call = c
      BY <3>3 DEF Answered
    <3>5. CASE Edge /\ taken = ate
      <4>1. CASE ate = 0
        <5>1. A = 0 /\ Len(wire) = 0
          BY <2>1, <3>5, <4>1 DEF Edge
        <5>2. Answered = {}
          BY <3>4, <5>1
        <5> QED
          BY <5>1, <5>2 DEF A
      <4>2. CASE ate > 0
        <5>1. ate = Len(wire) /\ ate \in 1..Len(wire) /\ wire[ate].i = wire[ate].n /\ wire[ate].call = A
          BY <2>1, <3>2, <3>5, <4>2 DEF Edge
        <5>2. A \in 1..m
          BY <3>1, <3>4, <5>1
        <5>3. ASSUME NEW c \in 1..m PROVE c <= A
          <6>1. PICK k \in 1..Len(wire) : wire[k].call = c
            BY <3>1, <3>4
          <6>2. CASE k = ate
            BY <3>2, <5>1, <6>1, <6>2
          <6>3. CASE k < ate
            BY <2>a, <5>1, <6>1, <6>3, ClientSees
          <6> QED
            BY <3>2, <5>1, <6>2, <6>3
        <5>4. m \in 1..m
          BY <3>2, <5>2
        <5>5. m = A
          BY <3>2, <5>2, <5>3, <5>4
        <5> QED
          BY <3>1, <5>5 DEF A
      <4> QED
        BY <3>2, <4>1, <4>2
    <3>6. CASE InBody /\ taken - ate < wire[ate].n - 1
      <4>1. /\ ate \in 1..Len(wire) /\ wire[ate].i = 1 /\ wire[ate].call = A + 1
            /\ Len(wire) - ate < wire[ate].n - 1 /\ wire[ate].n \in Nat
        BY <2>1, <3>2, <3>3, <3>6 DEF InBody
      <4>2. A <= m
        <5>1. A + 1 \in 1..K
          BY <2>a, <3>3, <4>1 DEF AnswerInv
        <5> QED
          BY <2>a, <3>2, <5>1
      <4>3. ASSUME NEW c \in Answered PROVE c <= A
        <5>1. PICK k \in 1..Len(wire) : wire[k].i = wire[k].n /\ wire[k].call = c
          BY <3>4
        <5>2. CASE k < ate
          <6>1. wire[k].call < A + 1
            BY <2>a, <4>1, <5>2, ClientSees
          <6> QED
            BY <3>2, <3>3, <5>1, <6>1
        <5>3. CASE ~(k < ate)
          <6> DEFINE d == k - ate
          <6>1. /\ d \in 0..(wire[ate].n - 1) /\ ate + d = k /\ ate + d <= Len(wire)
                /\ d + 1 # wire[ate].n
            BY <3>2, <4>1, <5>3
          <6> HIDE DEF d
          <6>2. wire[ate + d] = [call |-> wire[ate].call, i |-> d + 1, n |-> wire[ate].n,
                                 keep |-> wire[ate].keep]
            BY <2>a, <4>1, <6>1, ClientSees
          <6>3. wire[k].i = d + 1 /\ wire[k].n = wire[ate].n
            BY <6>1, <6>2
          <6> QED
            BY <5>1, <6>1, <6>3
        <5> QED
          BY <5>2, <5>3
      <4>4. m = A
        <5>1. m > A => m \in 1..m
          BY <3>2
        <5>2. ~(m > A)
          BY <3>1, <3>2, <4>3, <5>1
        <5> QED
          BY <3>2, <4>2, <5>2
      <4> QED
        BY <3>1, <4>4 DEF A
    <3> QED
      BY <2>1, <2>a, <3>5, <3>6 DEF TakenInv
  <2> QED
    BY <2>1, <2>a DEF RightAnswer, AnswersInv
<1> QED
  BY <1>1, ClientInvariance, PTL
=============================================================================
