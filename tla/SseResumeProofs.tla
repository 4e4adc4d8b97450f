-------------------------- MODULE SseResumeProofs --------------------------
(***************************************************************************)
(* What the example client prints of the counter stream, for any number of *)
(* ticks and of connections and wherever each of them breaks off: whole    *)
(* events, in order and once, and none skipped but those that were cut.    *)
(***************************************************************************)
EXTENDS SseResume, SequenceTheorems, TLAPS

(* What the mutants of SseResume change is expanded everywhere. *)
USE DEF First, Resume, MoreLines, FieldsAfter

TickEvent(i) == <<L("id", i), L("event", i), L("data", i)>>
DoneEvent == <<L("event", Done), L("data", Done)>>

(* The client has read r lines of tick q of the connection, or of the      *)
(* closing event behind the last tick.                                     *)
InTick(s, q, r) ==
  /\ q < Ticks
  /\ \/ r \in {0, 1} /\ last = s + q - 1 /\ fields = <<>>
     \/ r = 2 /\ last = s + q /\ fields = <<L("id", s + q)>>
     \/ r = 3 /\ last = s + q /\ fields = <<L("id", s + q), L("event", s + q)>>
     \/ r = 4 /\ last = s + q /\ fields = TickEvent(s + q)

InDone(s, q, r) ==
  /\ q = Ticks
  /\ last = s + Ticks - 1
  /\ \/ r \in {0, 3} /\ fields = <<>>
     \/ r = 1 /\ fields = <<L("event", Done)>>
     \/ r = 2 /\ fields = DoneEvent

(* Where the client is in a stream that starts with tick s. *)
Reads(s) ==
  \/ taken \in {1, 2} /\ last = s - 1 /\ fields = <<>>
  \/ \E q \in 0..Ticks, r \in 0..4 :
       taken = 3 + 5 * q + r /\ (InTick(s, q, r) \/ InDone(s, q, r))

PlaceInv ==
  /\ cli \in {"off", "died"} => last <= Ticks * conn
  /\ cli \in {"headers", "stream"} =>
       /\ conn > 0
       /\ \E s \in Nat \ {0} :
            /\ lines = Stream(s)
            /\ s <= Ticks * (conn - 1) + 1
            /\ cli = "headers" => last = s - 1 /\ fields = <<>> /\ taken = 0
            /\ cli = "stream" => Reads(s)

(* An id line has been read and its event is not complete. *)
Pending == cli = "stream" /\ fields # <<>> /\ fields[1].kind = "id"

Printed(i) == \E k \in DOMAIN printed : HasId(printed[k]) /\ printed[k][1].i = i

OrderInv ==
  /\ \A j, k \in DOMAIN printed :
       j < k /\ HasId(printed[j]) /\ HasId(printed[k]) =>
         printed[j][1].i < printed[k][1].i
  /\ \A k \in DOMAIN printed : HasId(printed[k]) =>
       /\ printed[k][1].i <= last
       /\ Pending => printed[k][1].i < last

CoverInv == \A i \in 1..last : Printed(i) \/ i \in cut \/ (i = last /\ Pending)

IInv == TypeOK /\ PlaceInv /\ EventsWhole /\ OrderInv /\ CoverInv

-----------------------------------------------------------------------------
(* The stream of one connection, line by line *)

LEMMA Division ==
  ASSUME NEW q \in Nat, NEW r \in 0..4
  PROVE  (5 * q + r) \div 5 = q /\ (5 * q + r) % 5 = r
  BY SMT

LEMMA TickLines ==
  ASSUME NEW i \in Nat, NEW r \in 0..4
  PROVE  /\ Tick(i)[r + 1] \in Line
         /\ Tick(i)[r + 1].i = i
         /\ Tick(i)[r + 1].kind = <<"comment", "id", "event", "data", "blank">>[r + 1]
<1>1. Tick(i)[r + 1] = L(<<"comment", "id", "event", "data", "blank">>[r + 1], i)
  BY SMT DEF Tick, L
<1>2. <<"comment", "id", "event", "data", "blank">>[r + 1] \in LineKinds
  BY SMT DEF LineKinds
<1> QED BY <1>1, <1>2, SMT DEF L, Line

(* The ticks of the stream, without the lines around them. *)
Body(s) == [k \in 1..(5 * Ticks) |-> Tick(First(s) + ((k - 1) \div 5))[((k - 1) % 5) + 1]]

LEMMA BodyLines ==
  ASSUME NEW s \in Nat
  PROVE  /\ Body(s) \in Seq(Line)
         /\ Len(Body(s)) = 5 * Ticks
         /\ \A q \in 0..(Ticks - 1), r \in 0..4 : Body(s)[5 * q + r + 1] = Tick(s + q)[r + 1]
<1>t. Ticks \in Nat \ {0} BY SseAssumption
<1>1. ASSUME NEW k \in 1..(5 * Ticks) PROVE Body(s)[k] \in Line
  <2>1. (k - 1) \div 5 \in Nat /\ (k - 1) % 5 \in 0..4 BY <1>t, SMT
  <2>2. s + ((k - 1) \div 5) \in Nat BY <2>1, SMT
  <2>3. Tick(s + ((k - 1) \div 5))[((k - 1) % 5) + 1] \in Line BY <2>1, <2>2, TickLines
  <2> QED BY <2>3 DEF Body
<1>2. Body(s) \in [1..(5 * Ticks) -> Line] BY <1>1 DEF Body
<1>3. 5 * Ticks \in Nat BY <1>t, SMT
<1>4. Body(s) \in Seq(Line) /\ Len(Body(s)) = 5 * Ticks BY <1>2, <1>3, SMT
<1>5. ASSUME NEW q \in 0..(Ticks - 1), NEW r \in 0..4
      PROVE  Body(s)[5 * q + r + 1] = Tick(s + q)[r + 1]
  <2>1. 5 * q + r + 1 \in 1..(5 * Ticks) BY <1>t, SMT
  <2>2. (5 * q + r + 1) - 1 = 5 * q + r BY SMT
  <2>3. (5 * q + r) \div 5 = q /\ (5 * q + r) % 5 = r BY Division
  <2>4. Body(s)[5 * q + r + 1]
          = Tick(s + ((5 * q + r) \div 5))[((5 * q + r) % 5) + 1]
    BY <2>1, <2>2 DEF Body
  <2> QED BY <2>3, <2>4
<1> QED BY <1>4, <1>5

LEMMA Joined ==
  ASSUME NEW a \in Seq(Line), NEW b \in Seq(Line)
  PROVE  /\ a \o b \in Seq(Line) /\ Len(a \o b) = Len(a) + Len(b)
         /\ \A k \in 1..Len(a) : (a \o b)[k] = a[k]
         /\ \A k \in 1..Len(b) : (a \o b)[Len(a) + k] = b[k]
  BY SMT

LEMMA StreamLines ==
  ASSUME NEW s \in Nat
  PROVE  /\ Stream(s) \in Seq(Line)
         /\ Len(Stream(s)) = 6 + 5 * Ticks
         /\ Stream(s)[2] = L("retry", 0)
         /\ Stream(s)[3] = L("blank", 0)
         /\ \A q \in 0..(Ticks - 1), r \in 0..4 :
              Stream(s)[3 + 5 * q + r + 1] = Tick(s + q)[r + 1]
         /\ Stream(s)[3 + 5 * Ticks + 1] = L("event", Done)
         /\ Stream(s)[3 + 5 * Ticks + 2] = L("data", Done)
         /\ Stream(s)[3 + 5 * Ticks + 3] = L("blank", Done)
<1> DEFINE H == <<L("200", 0), L("retry", 0), L("blank", 0)>>
<1> DEFINE D == <<L("event", Done), L("data", Done), L("blank", Done)>>
<1>t. Ticks \in Nat \ {0} BY SseAssumption
<1>1. /\ H \in Seq(Line) /\ D \in Seq(Line) /\ Len(H) = 3 /\ Len(D) = 3
      /\ H[2] = L("retry", 0) /\ H[3] = L("blank", 0)
      /\ D[1] = L("event", Done) /\ D[2] = L("data", Done) /\ D[3] = L("blank", Done)
  <2>1. /\ L("200", 0) \in Line /\ L("retry", 0) \in Line /\ L("blank", 0) \in Line
        /\ L("event", Done) \in Line /\ L("data", Done) \in Line /\ L("blank", Done) \in Line
    BY SMT DEF L, Line, LineKinds, Done
  <2> QED BY <2>1
<1>2. /\ Body(s) \in Seq(Line)
      /\ Len(Body(s)) = 5 * Ticks
      /\ \A q \in 0..(Ticks - 1), r \in 0..4 : Body(s)[5 * q + r + 1] = Tick(s + q)[r + 1]
  BY BodyLines
<1> HIDE DEF H, D
<1>3. Stream(s) = (H \o Body(s)) \o D BY DEF Stream, Body, H, D
<1>4. /\ H \o Body(s) \in Seq(Line) /\ Len(H \o Body(s)) = 3 + 5 * Ticks
      /\ \A k \in 1..3 : (H \o Body(s))[k] = H[k]
      /\ \A k \in 1..(5 * Ticks) : (H \o Body(s))[3 + k] = Body(s)[k]
  <2> DEFINE B == Body(s)
  <2>1. B \in Seq(Line) /\ Len(B) = 5 * Ticks BY <1>2
  <2> HIDE DEF B
  <2>2. /\ H \o B \in Seq(Line) /\ Len(H \o B) = Len(H) + Len(B)
        /\ \A k \in 1..Len(H) : (H \o B)[k] = H[k]
        /\ \A k \in 1..Len(B) : (H \o B)[Len(H) + k] = B[k]
    BY <1>1, <2>1, Joined
  <2>3. /\ H \o B \in Seq(Line) /\ Len(H \o B) = 3 + 5 * Ticks
        /\ \A k \in 1..3 : (H \o B)[k] = H[k]
        /\ \A k \in 1..(5 * Ticks) : (H \o B)[3 + k] = B[k]
    BY <1>1, <2>1, <2>2
  <2> QED BY <2>3 DEF B
<1>5. /\ Stream(s) \in Seq(Line) /\ Len(Stream(s)) = 6 + 5 * Ticks
      /\ \A k \in 1..(3 + 5 * Ticks) : Stream(s)[k] = (H \o Body(s))[k]
      /\ \A k \in 1..3 : Stream(s)[3 + 5 * Ticks + k] = D[k]
  <2>1. /\ Stream(s) \in Seq(Line) /\ Len(Stream(s)) = (3 + 5 * Ticks) + 3
        /\ \A k \in 1..(3 + 5 * Ticks) : Stream(s)[k] = (H \o Body(s))[k]
        /\ \A k \in 1..3 : Stream(s)[(3 + 5 * Ticks) + k] = D[k]
    <3> DEFINE B == H \o Body(s)
    <3>1. B \in Seq(Line) /\ Len(B) = 3 + 5 * Ticks BY <1>4
    <3>2. Stream(s) = B \o D BY <1>3
    <3> HIDE DEF B
    <3>3. /\ B \o D \in Seq(Line) /\ Len(B \o D) = Len(B) + Len(D)
          /\ \A k \in 1..Len(B) : (B \o D)[k] = B[k]
          /\ \A k \in 1..Len(D) : (B \o D)[Len(B) + k] = D[k]
      BY <1>1, <3>1, Joined
    <3>4. /\ B \o D \in Seq(Line) /\ Len(B \o D) = (3 + 5 * Ticks) + 3
          /\ \A k \in 1..(3 + 5 * Ticks) : (B \o D)[k] = B[k]
          /\ \A k \in 1..3 : (B \o D)[(3 + 5 * Ticks) + k] = D[k]
      BY <1>1, <3>1, <3>3
    <3> QED BY <3>2, <3>4 DEF B
  <2>2. (3 + 5 * Ticks) + 3 = 6 + 5 * Ticks
        /\ \A k \in 1..3 : (3 + 5 * Ticks) + k = 3 + 5 * Ticks + k
    BY <1>t, SMT
  <2> QED BY <2>1, <2>2
<1>6. ASSUME NEW q \in 0..(Ticks - 1), NEW r \in 0..4
      PROVE  Stream(s)[3 + 5 * q + r + 1] = Tick(s + q)[r + 1]
  <2>1. 5 * q + r + 1 \in 1..(5 * Ticks) BY <1>t, SMT
  <2>2. 3 + 5 * q + r + 1 = 3 + (5 * q + r + 1) /\ 3 + 5 * q + r + 1 \in 1..(3 + 5 * Ticks)
    BY <2>1, <1>t, SMT
  <2>3. Stream(s)[3 + 5 * q + r + 1] = (H \o Body(s))[3 + (5 * q + r + 1)] BY <1>5, <2>2
  <2>4. (H \o Body(s))[3 + (5 * q + r + 1)] = Body(s)[5 * q + r + 1] BY <1>4, <2>1
  <2> QED BY <1>2, <2>3, <2>4
<1>7. Stream(s)[2] = H[2] /\ Stream(s)[3] = H[3]
  <2>1. 2 \in 1..(3 + 5 * Ticks) /\ 3 \in 1..(3 + 5 * Ticks) BY <1>t, SMT
  <2>2. Stream(s)[2] = (H \o Body(s))[2] /\ Stream(s)[3] = (H \o Body(s))[3] BY <2>1, <1>5
  <2>3. 2 \in 1..3 /\ 3 \in 1..3 BY SMT
  <2>4. (H \o Body(s))[2] = H[2] /\ (H \o Body(s))[3] = H[3] BY <2>3, <1>4
  <2> QED BY <2>2, <2>4
<1>8. /\ Stream(s)[3 + 5 * Ticks + 1] = D[1] /\ Stream(s)[3 + 5 * Ticks + 2] = D[2]
      /\ Stream(s)[3 + 5 * Ticks + 3] = D[3]
  <2>1. 1 \in 1..3 /\ 2 \in 1..3 /\ 3 \in 1..3 BY SMT
  <2> QED BY <2>1, <1>5
<1> QED BY <1>1, <1>5, <1>6, <1>7, <1>8

-----------------------------------------------------------------------------
(* What a line does to the client *)

(* What ReadLine can come to: nothing yet, the id of the next tick, or the *)
(* end of that tick or of the closing event.                               *)
Silent == UNCHANGED <<last, printed>> /\ (Pending' <=> Pending)
TickBegun == ~Pending /\ Pending' /\ last' = last + 1 /\ printed' = printed
TickEnded ==
  /\ Pending /\ ~Pending'
  /\ last' = last /\ last \in Ids
  /\ printed' = Append(printed, TickEvent(last))
StreamDone ==
  /\ ~Pending /\ ~Pending'
  /\ last' = last
  /\ printed' = Append(printed, DoneEvent)

Effect == Silent \/ TickBegun \/ TickEnded \/ StreamDone

LEMMA Fields ==
  ASSUME NEW a \in FieldLines, NEW b \in FieldLines, NEW c \in FieldLines
  PROVE  /\ Append(<<>>, a) = <<a>>
         /\ Append(<<a>>, b) = <<a, b>>
         /\ Append(<<a, b>>, c) = <<a, b, c>>
<1>1. Append(<<>>, a) = <<a>> BY SMT
<1>2. Append(<<a>>, b) = <<a, b>>
  <2> DEFINE x == Append(<<a>>, b)
  <2>1. x \in Seq(FieldLines) /\ Len(x) = 2 /\ x[1] = a /\ x[2] = b BY SMT
  <2> HIDE DEF x
  <2>2. x = <<a, b>> BY <2>1, SMT
  <2> QED BY <2>2 DEF x
<1>3. Append(<<a, b>>, c) = <<a, b, c>>
  <2> DEFINE x == Append(<<a, b>>, c)
  <2>1. x \in Seq(FieldLines) /\ Len(x) = 3 /\ x[1] = a /\ x[2] = b /\ x[3] = c BY SMT
  <2> HIDE DEF x
  <2>2. x = <<a, b, c>> BY <2>1, SMT
  <2> QED BY <2>2 DEF x
<1> QED BY <1>1, <1>2, <1>3

(* The line that is read, by its kind. *)
LEMMA LineRead ==
  ASSUME ReadLine, NEW kind, NEW i, lines[taken + 1] = L(kind, i)
  PROVE  /\ kind = "id" => /\ last' = i /\ printed' = printed
                           /\ fields' = Append(fields, L(kind, i))
         /\ kind \in {"event", "data"} => /\ last' = last /\ printed' = printed
                                          /\ fields' = Append(fields, L(kind, i))
         /\ kind = "blank" => /\ last' = last /\ fields' = <<>>
                              /\ fields = <<>> => printed' = printed
                              /\ fields # <<>> => printed' = Append(printed, fields)
         /\ kind \in {"retry", "comment"} =>
              last' = last /\ printed' = printed /\ fields' = fields
<1>1. L(kind, i).kind = kind /\ L(kind, i).i = i BY SMT DEF L
<1> QED BY <1>1, SMT DEF ReadLine

LEMMA Bound ==
  ASSUME NEW c \in Nat, c > 0, c <= Connections
  PROVE  /\ Ticks * (c - 1) + Ticks = Ticks * c
         /\ Ticks * c <= Ticks * Connections
         /\ Ticks * c \in Nat /\ Ticks * (c - 1) \in Nat /\ Ticks * Connections \in Nat
<1>1. Ticks \in Nat /\ Connections \in Nat BY SseAssumption
<1>2. \A a, b, d \in Nat : a <= b => d * a <= d * b BY SMT
<1>3. Ticks * c <= Ticks * Connections BY <1>1, <1>2
<1>4. Ticks * (c - 1) + Ticks = Ticks * c BY <1>1, SMT
<1>5. Ticks * c \in Nat /\ Ticks * (c - 1) \in Nat /\ Ticks * Connections \in Nat BY <1>1, SMT
<1> QED BY <1>3, <1>4, <1>5

(* A partly read event that begins with its id line is a pending one. *)
LEMMA PendingFields ==
  ASSUME cli = "stream"
  PROVE  /\ fields = <<>> => ~Pending
         /\ \A i : fields = <<L("id", i)>> => Pending
         /\ \A i : fields = <<L("id", i), L("event", i)>> => Pending
         /\ \A i : fields = TickEvent(i) => Pending /\ fields # <<>>
         /\ \A i : fields = <<L("event", i)>> => ~Pending
         /\ fields = DoneEvent => ~Pending /\ fields # <<>>
  BY SMT DEF Pending, L, TickEvent, DoneEvent

(* Where the line leaves the client in the stream, and what it did. *)
Moves(s) == Reads(s)' /\ Effect /\ last' \in {0} \cup Ids

LEMMA MovesOn ==
  ASSUME NEW s \in Nat \ {0}, s <= Ticks * (conn - 1) + 1,
         NEW q \in 0..Ticks, NEW r \in 0..4, taken' = 3 + 5 * q + r,
         InTick(s, q, r)' \/ InDone(s, q, r)',
         Effect, last' \in {0} \cup Ids
  PROVE  Moves(s)
<1>1. Ticks' = Ticks OBVIOUS
<1>2. \E q1 \in 0..Ticks, r1 \in 0..4 :
        taken' = 3 + 5 * q1 + r1 /\ (InTick(s, q1, r1)' \/ InDone(s, q1, r1)')
  OBVIOUS
<1> QED BY <1>2, Zenon DEF Moves, Reads

LEMMA TickLineRead ==
  ASSUME TypeOK, ReadLine, conn > 0,
         NEW s \in Nat \ {0}, s <= Ticks * (conn - 1) + 1, lines = Stream(s),
         NEW q \in 0..Ticks, NEW r \in 0..4, taken = 3 + 5 * q + r, InTick(s, q, r)
  PROVE  Moves(s)
<1>t. /\ Ticks \in Nat /\ Ticks > 0 /\ q < Ticks /\ s + q \in Nat
      /\ cli = "stream" /\ cli' = "stream" /\ taken' = taken + 1
      /\ conn \in Nat /\ conn <= Connections
  <2>1. Ticks \in Nat /\ Ticks > 0 /\ Connections \in Nat BY SseAssumption
  <2>2. q < Ticks BY DEF InTick
  <2>3. cli = "stream" /\ cli' = "stream" /\ taken' = taken + 1 BY DEF ReadLine
  <2>4. conn \in 0..Connections BY DEF TypeOK
  <2> QED BY <2>1, <2>2, <2>3, <2>4, SMT
<1>r. q \in 0..(Ticks - 1) BY <1>t, SMT
<1>i. s + q \in Ids
  <2>1. s + q <= Ticks * (conn - 1) + Ticks BY <1>t, Bound, SMT
  <2>2. s + q <= Ticks * Connections BY <2>1, <1>t, Bound, SMT
  <2> QED BY <2>2, <1>t, SMT DEF Ids
<1>f. /\ L("id", s + q) \in FieldLines /\ L("event", s + q) \in FieldLines
      /\ L("data", s + q) \in FieldLines
  BY <1>t, SMT DEF L, FieldLines
<1>a. /\ Append(<<>>, L("id", s + q)) = <<L("id", s + q)>>
      /\ Append(<<L("id", s + q)>>, L("event", s + q)) = <<L("id", s + q), L("event", s + q)>>
      /\ Append(<<L("id", s + q), L("event", s + q)>>, L("data", s + q)) = TickEvent(s + q)
  BY <1>f, Fields DEF TickEvent
<1>l. lines[taken + 1] = Tick(s + q)[r + 1]
  <2>1. lines[3 + 5 * q + r + 1] = Tick(s + q)[r + 1] BY StreamLines, <1>r
  <2> QED BY <2>1, <1>t, SMT
<1>p. /\ fields = <<>> => ~Pending
      /\ fields = <<L("id", s + q)>> => Pending
      /\ fields = <<L("id", s + q), L("event", s + q)>> => Pending
      /\ fields = TickEvent(s + q) => Pending /\ fields # <<>>
  BY <1>t, PendingFields
<1>n. /\ fields' = <<>> => ~Pending'
      /\ fields' = <<L("id", s + q)>> => Pending'
      /\ fields' = <<L("id", s + q), L("event", s + q)>> => Pending'
      /\ fields' = TickEvent(s + q) => Pending'
  <2>1. fields' = <<>> => ~Pending' BY SMT DEF Pending
  <2>2. fields' = <<L("id", s + q)>> => Pending' BY <1>t, SMT DEF Pending, L
  <2>3. fields' = <<L("id", s + q), L("event", s + q)>> => Pending' BY <1>t, SMT DEF Pending, L
  <2>4. fields' = TickEvent(s + q) => Pending' BY <1>t, SMT DEF Pending, L, TickEvent
  <2> QED BY <2>1, <2>2, <2>3, <2>4
<1>0. CASE r = 0
  <2>1. lines[taken + 1] = L("comment", s + q) BY <1>0, <1>l, SMT DEF Tick
  <2>2. last' = last /\ printed' = printed /\ fields' = fields BY <2>1, LineRead
  <2>3. last = s + q - 1 /\ fields = <<>> BY <1>0, SMT DEF InTick
  <2>4. Effect BY <2>2, <2>3, <1>p, <1>n DEF Effect, Silent
  <2>5. InTick(s, q, 1)' BY <2>2, <2>3, <1>t, SMT DEF InTick
  <2>6. taken' = 3 + 5 * q + 1 /\ 1 \in 0..4 BY <1>0, <1>t, SMT
  <2>7. last' \in {0} \cup Ids BY <2>2 DEF TypeOK
  <2> QED BY <2>4, <2>5, <2>6, <2>7, MovesOn
<1>1. CASE r = 1
  <2>1. lines[taken + 1] = L("id", s + q) BY <1>1, <1>l, SMT DEF Tick
  <2>2. last' = s + q /\ printed' = printed /\ fields' = Append(fields, L("id", s + q))
    BY <2>1, LineRead
  <2>3. last = s + q - 1 /\ fields = <<>> BY <1>1, SMT DEF InTick
  <2>4. fields' = <<L("id", s + q)>> BY <2>2, <2>3, <1>a
  <2>5. last' = last + 1 BY <2>2, <2>3, <1>t, SMT
  <2>6. Effect BY <2>2, <2>3, <2>4, <2>5, <1>p, <1>n DEF Effect, TickBegun
  <2>7. InTick(s, q, 2)' BY <2>2, <2>4, <1>t DEF InTick
  <2>8. taken' = 3 + 5 * q + 2 /\ 2 \in 0..4 BY <1>1, <1>t, SMT
  <2>9. last' \in {0} \cup Ids BY <2>2, <1>i
  <2> QED BY <2>6, <2>7, <2>8, <2>9, MovesOn
<1>2. CASE r = 2
  <2>1. lines[taken + 1] = L("event", s + q) BY <1>2, <1>l, SMT DEF Tick
  <2>2. last' = last /\ printed' = printed /\ fields' = Append(fields, L("event", s + q))
    BY <2>1, LineRead
  <2>3. last = s + q /\ fields = <<L("id", s + q)>> BY <1>2, SMT DEF InTick
  <2>4. fields' = <<L("id", s + q), L("event", s + q)>> BY <2>2, <2>3, <1>a
  <2>5. Pending /\ Pending' BY <2>3, <2>4, <1>p, <1>n
  <2>6. Effect BY <2>2, <2>5 DEF Effect, Silent
  <2>7. InTick(s, q, 3)' BY <2>2, <2>3, <2>4, <1>t DEF InTick
  <2>8. taken' = 3 + 5 * q + 3 /\ 3 \in 0..4 BY <1>2, <1>t, SMT
  <2>9. last' \in {0} \cup Ids BY <2>2 DEF TypeOK
  <2> QED BY <2>6, <2>7, <2>8, <2>9, MovesOn
<1>3. CASE r = 3
  <2>1. lines[taken + 1] = L("data", s + q) BY <1>3, <1>l, SMT DEF Tick
  <2>2. last' = last /\ printed' = printed /\ fields' = Append(fields, L("data", s + q))
    BY <2>1, LineRead
  <2>3. last = s + q /\ fields = <<L("id", s + q), L("event", s + q)>>
    BY <1>3, SMT DEF InTick
  <2>4. fields' = TickEvent(s + q) BY <2>2, <2>3, <1>a
  <2>5. Pending /\ Pending' BY <2>3, <2>4, <1>p, <1>n
  <2>6. Effect BY <2>2, <2>5 DEF Effect, Silent
  <2>7. InTick(s, q, 4)' BY <2>2, <2>3, <2>4, <1>t DEF InTick
  <2>8. taken' = 3 + 5 * q + 4 /\ 4 \in 0..4 BY <1>3, <1>t, SMT
  <2>9. last' \in {0} \cup Ids BY <2>2 DEF TypeOK
  <2> QED BY <2>6, <2>7, <2>8, <2>9, MovesOn
<1>4. CASE r = 4
  <2>1. lines[taken + 1] = L("blank", s + q) BY <1>4, <1>l, SMT DEF Tick
  <2>2. last = s + q /\ fields = TickEvent(s + q) BY <1>4, SMT DEF InTick
  <2>3. Pending /\ fields # <<>> BY <2>2, <1>p
  <2>4. last' = last /\ fields' = <<>> /\ printed' = Append(printed, fields)
    BY <2>1, <2>3, LineRead
  <2>5. last \in Ids BY <2>2, <1>i
  <2>6. Effect BY <2>2, <2>3, <2>4, <2>5, <1>n DEF Effect, TickEnded
  <2>7. q + 1 \in 0..Ticks /\ 0 \in 0..4 /\ taken' = 3 + 5 * (q + 1) + 0
    BY <1>4, <1>t, SMT
  <2>8. InTick(s, q + 1, 0)' \/ InDone(s, q + 1, 0)'
    <3>1. last' = s + (q + 1) - 1 BY <2>2, <2>4, <1>t, SMT
    <3>2. CASE q + 1 < Ticks BY <3>1, <3>2, <2>4, SMT DEF InTick
    <3>3. CASE q + 1 = Ticks
      <4>1. last' = s + Ticks - 1 BY <3>1, <3>3, <1>t, SMT
      <4> QED BY <4>1, <3>3, <2>4, SMT DEF InDone
    <3> QED BY <3>2, <3>3, <2>7, <1>t, SMT
  <2>9. last' \in {0} \cup Ids BY <2>4 DEF TypeOK
  <2> QED BY <2>6, <2>7, <2>8, <2>9, MovesOn
<1> QED BY <1>0, <1>1, <1>2, <1>3, <1>4, SMT

LEMMA DoneLineRead ==
  ASSUME TypeOK, ReadLine, conn > 0,
         NEW s \in Nat \ {0}, s <= Ticks * (conn - 1) + 1, lines = Stream(s),
         NEW q \in 0..Ticks, NEW r \in 0..4, taken = 3 + 5 * q + r, InDone(s, q, r)
  PROVE  Moves(s)
<1>t. /\ Ticks \in Nat /\ q = Ticks /\ cli = "stream" /\ cli' = "stream"
      /\ taken' = taken + 1 /\ taken < Len(lines)
  <2>1. Ticks \in Nat BY SseAssumption
  <2>2. q = Ticks BY DEF InDone
  <2>3. cli = "stream" /\ cli' = "stream" /\ taken' = taken + 1 /\ taken < put BY DEF ReadLine
  <2>4. lines \in Seq(Line) /\ put \in 0..Len(lines) /\ taken \in 0..put BY DEF TypeOK
  <2>5. Len(lines) \in Nat BY <2>4, SMT
  <2>6. taken < Len(lines) BY <2>3, <2>4, <2>5, SMT
  <2> QED BY <2>1, <2>2, <2>3, <2>6
<1>f. L("event", Done) \in FieldLines /\ L("data", Done) \in FieldLines
  BY SMT DEF L, FieldLines, Done
<1>a. /\ Append(<<>>, L("event", Done)) = <<L("event", Done)>>
      /\ Append(<<L("event", Done)>>, L("data", Done)) = DoneEvent
  BY <1>f, Fields DEF DoneEvent
<1>l. /\ lines[3 + 5 * Ticks + 1] = L("event", Done)
      /\ lines[3 + 5 * Ticks + 2] = L("data", Done)
      /\ lines[3 + 5 * Ticks + 3] = L("blank", Done)
      /\ Len(lines) = 6 + 5 * Ticks
  BY StreamLines
<1>p. /\ fields = <<>> => ~Pending
      /\ fields = <<L("event", Done)>> => ~Pending
      /\ fields = DoneEvent => ~Pending /\ fields # <<>>
  BY <1>t, PendingFields
<1>n. /\ fields' = <<>> => ~Pending'
      /\ fields' = <<L("event", Done)>> => ~Pending'
      /\ fields' = DoneEvent => ~Pending'
  <2>1. fields' = <<>> => ~Pending' BY SMT DEF Pending
  <2>2. fields' = <<L("event", Done)>> => ~Pending' BY SMT DEF Pending, L
  <2>3. fields' = DoneEvent => ~Pending' BY SMT DEF Pending, L, DoneEvent
  <2> QED BY <2>1, <2>2, <2>3
<1>e. last = s + Ticks - 1 BY DEF InDone
<1>0. CASE r = 0
  <2>1. lines[taken + 1] = L("event", Done)
    <3>1. taken + 1 = 3 + 5 * Ticks + 1 BY <1>0, <1>t, SMT
    <3> QED BY <3>1, <1>l
  <2>2. last' = last /\ printed' = printed /\ fields' = Append(fields, L("event", Done))
    BY <2>1, LineRead
  <2>3. fields = <<>> BY <1>0, SMT DEF InDone
  <2>4. fields' = <<L("event", Done)>> BY <2>2, <2>3, <1>a
  <2>5. ~Pending /\ ~Pending' BY <2>3, <2>4, <1>p, <1>n
  <2>6. Effect BY <2>2, <2>5 DEF Effect, Silent
  <2>7. InDone(s, q, 1)' BY <2>2, <2>4, <1>t, <1>e DEF InDone
  <2>8. taken' = 3 + 5 * q + 1 /\ 1 \in 0..4 BY <1>0, <1>t, SMT
  <2>9. last' \in {0} \cup Ids BY <2>2 DEF TypeOK
  <2> QED BY <2>6, <2>7, <2>8, <2>9, MovesOn
<1>1. CASE r = 1
  <2>1. lines[taken + 1] = L("data", Done)
    <3>1. taken + 1 = 3 + 5 * Ticks + 2 BY <1>1, <1>t, SMT
    <3> QED BY <3>1, <1>l
  <2>2. last' = last /\ printed' = printed /\ fields' = Append(fields, L("data", Done))
    BY <2>1, LineRead
  <2>3. fields = <<L("event", Done)>> BY <1>1, SMT DEF InDone
  <2>4. fields' = DoneEvent BY <2>2, <2>3, <1>a
  <2>5. ~Pending /\ ~Pending' BY <2>3, <2>4, <1>p, <1>n
  <2>6. Effect BY <2>2, <2>5 DEF Effect, Silent
  <2>7. InDone(s, q, 2)' BY <2>2, <2>4, <1>t, <1>e DEF InDone
  <2>8. taken' = 3 + 5 * q + 2 /\ 2 \in 0..4 BY <1>1, <1>t, SMT
  <2>9. last' \in {0} \cup Ids BY <2>2 DEF TypeOK
  <2> QED BY <2>6, <2>7, <2>8, <2>9, MovesOn
<1>2. CASE r = 2
  <2>1. lines[taken + 1] = L("blank", Done)
    <3>1. taken + 1 = 3 + 5 * Ticks + 3 BY <1>2, <1>t, SMT
    <3> QED BY <3>1, <1>l
  <2>2. fields = DoneEvent BY <1>2, SMT DEF InDone
  <2>3. ~Pending /\ fields # <<>> BY <2>2, <1>p
  <2>4. last' = last /\ fields' = <<>> /\ printed' = Append(printed, fields)
    BY <2>1, <2>3, LineRead
  <2>5. ~Pending' BY <2>4, <1>n
  <2>6. Effect BY <2>2, <2>3, <2>4, <2>5 DEF Effect, StreamDone
  <2>7. InDone(s, q, 3)' BY <2>4, <1>t, <1>e DEF InDone
  <2>8. taken' = 3 + 5 * q + 3 /\ 3 \in 0..4 BY <1>2, <1>t, SMT
  <2>9. last' \in {0} \cup Ids BY <2>4 DEF TypeOK
  <2> QED BY <2>6, <2>7, <2>8, <2>9, MovesOn
<1>3. CASE r \in {3, 4} BY <1>3, <1>l, <1>t, SMT
<1> QED BY <1>0, <1>1, <1>2, <1>3, SMT

LEMMA HeadLineRead ==
  ASSUME TypeOK, ReadLine, conn > 0,
         NEW s \in Nat \ {0}, s <= Ticks * (conn - 1) + 1, lines = Stream(s),
         taken \in {1, 2}, last = s - 1, fields = <<>>
  PROVE  Moves(s)
<1>t. /\ Ticks \in Nat \ {0} /\ cli = "stream" /\ cli' = "stream" /\ taken' = taken + 1
      /\ lines[2] = L("retry", 0) /\ lines[3] = L("blank", 0)
  BY SseAssumption, StreamLines DEF ReadLine
<1>1. last' = last /\ printed' = printed /\ fields' = <<>>
  <2>1. CASE taken = 1
    <3>1. lines[taken + 1] = L("retry", 0) BY <2>1, <1>t, SMT
    <3> QED BY <3>1, LineRead
  <2>2. CASE taken = 2
    <3>1. lines[taken + 1] = L("blank", 0) BY <2>2, <1>t, SMT
    <3> QED BY <3>1, LineRead
  <2> QED BY <2>1, <2>2
<1>2. ~Pending BY <1>t, PendingFields
<1>3. ~Pending' BY <1>1, SMT DEF Pending
<1>4. Effect BY <1>1, <1>2, <1>3 DEF Effect, Silent
<1>5. last' \in {0} \cup Ids BY <1>1 DEF TypeOK
<1>6. CASE taken = 1
  <2>1. taken' = 2 BY <1>6, <1>t, SMT
  <2>2. taken' \in {1, 2} /\ last' = s - 1 /\ fields' = <<>> BY <2>1, <1>1, SMT
  <2>3. Reads(s)' BY <2>2, Zenon DEF Reads
  <2> QED BY <2>3, <1>4, <1>5 DEF Moves
<1>7. CASE taken = 2
  <2>1. 0 \in 0..Ticks /\ 0 \in 0..4 /\ taken' = 3 + 5 * 0 + 0 BY <1>7, <1>t, SMT
  <2>2. InTick(s, 0, 0)' BY <1>1, <1>t, SMT DEF InTick
  <2> QED BY <2>1, <2>2, <1>4, <1>5, MovesOn
<1> QED BY <1>6, <1>7

LEMMA ReadEffect ==
  ASSUME TypeOK, PlaceInv, ReadLine
  PROVE  PlaceInv' /\ Effect /\ last' \in {0} \cup Ids
<1>1. PICK s \in Nat \ {0} :
        conn > 0 /\ lines = Stream(s) /\ s <= Ticks * (conn - 1) + 1 /\ Reads(s)
  BY DEF PlaceInv, ReadLine
<1>2. Moves(s)
  <2>1. CASE taken \in {1, 2} /\ last = s - 1 /\ fields = <<>>
    BY <1>1, <2>1, HeadLineRead
  <2>2. CASE \E q \in 0..Ticks, r \in 0..4 :
               taken = 3 + 5 * q + r /\ (InTick(s, q, r) \/ InDone(s, q, r))
    BY <1>1, <2>2, TickLineRead, DoneLineRead
  <2> QED BY <1>1, <2>1, <2>2 DEF Reads
<1>3. cli' = "stream" /\ conn' = conn /\ lines' = lines BY DEF ReadLine, serverVars
<1>4. PlaceInv'
  <2>1. Reads(s)' /\ lines' = Stream(s) /\ conn' > 0 /\ s <= Ticks * (conn' - 1) + 1
    BY <1>1, <1>2, <1>3 DEF Moves
  <2>2. Stream(s)' = Stream(s) OBVIOUS
  <2> QED BY <2>1, <2>2, <1>3 DEF PlaceInv
<1> QED BY <1>2, <1>4 DEF Moves

-----------------------------------------------------------------------------
(* The events printed *)

(* An event is added behind those that are printed. *)
LEMMA PrintedMore ==
  ASSUME TypeOK, NEW event \in Seq(FieldLines), printed' = Append(printed, event)
  PROVE  /\ DOMAIN printed' = DOMAIN printed \cup {Len(printed) + 1}
         /\ Len(printed) + 1 \notin DOMAIN printed
         /\ \A k \in DOMAIN printed : printed'[k] = printed[k]
         /\ printed'[Len(printed) + 1] = event
         /\ \A j \in DOMAIN printed' : j <= Len(printed) + 1 /\ j \in Nat
  BY SMT DEF TypeOK

LEMMA TickPrinted ==
  ASSUME NEW i \in Ids
  PROVE  /\ TickEvent(i) \in Seq(FieldLines)
         /\ HasId(TickEvent(i)) /\ TickEvent(i)[1].i = i
<1>1. i \in Nat /\ L("id", i) \in FieldLines /\ L("event", i) \in FieldLines
      /\ L("data", i) \in FieldLines
  <2>1. i \in Nat BY SMT DEF Ids
  <2> QED BY <2>1, SMT DEF L, FieldLines
<1>2. TickEvent(i) \in Seq(FieldLines) BY <1>1 DEF TickEvent
<1>3. TickEvent(i)[1] = L("id", i) BY SMT DEF TickEvent
<1>4. L("id", i).kind = "id" /\ L("id", i).i = i BY SMT DEF L
<1> QED BY <1>2, <1>3, <1>4 DEF HasId

LEMMA DonePrinted ==
  /\ DoneEvent \in Seq(FieldLines)
  /\ ~HasId(DoneEvent)
<1>1. L("event", Done) \in FieldLines /\ L("data", Done) \in FieldLines
  BY SMT DEF L, FieldLines, Done
<1>2. DoneEvent \in Seq(FieldLines) BY <1>1 DEF DoneEvent
<1>3. DoneEvent[1].kind = "event" BY SMT DEF DoneEvent, L
<1> QED BY <1>2, <1>3 DEF HasId

LEMMA WholeKept ==
  ASSUME TypeOK, EventsWhole, Effect
  PROVE  EventsWhole'
<1> DEFINE Whole(event) ==
      \/ \E i \in Ids : event = <<L("id", i), L("event", i), L("data", i)>>
      \/ event = <<L("event", Done), L("data", Done)>>
<1>1. CASE Silent \/ TickBegun
  <2>1. printed' = printed BY <1>1 DEF Silent, TickBegun
  <2> QED BY <2>1 DEF EventsWhole
<1>2. ASSUME NEW event \in Seq(FieldLines), printed' = Append(printed, event), Whole(event)
      PROVE  EventsWhole'
  <2>1. \A k \in DOMAIN printed : Whole(printed[k]) BY DEF EventsWhole
  <2>2. \A k \in DOMAIN printed' : Whole(printed'[k])
    <3> HIDE DEF Whole
    <3> QED BY <1>2, <2>1, PrintedMore
  <2> QED BY <2>2 DEF EventsWhole
<1>3. CASE TickEnded
  <2>1. TickEvent(last) \in Seq(FieldLines) /\ Whole(TickEvent(last))
    BY <1>3, TickPrinted DEF TickEnded, TickEvent
  <2> QED BY <2>1, <1>2, <1>3 DEF TickEnded
<1>4. CASE StreamDone
  <2>1. DoneEvent \in Seq(FieldLines) /\ Whole(DoneEvent) BY DonePrinted DEF DoneEvent
  <2> QED BY <2>1, <1>2, <1>4 DEF StreamDone
<1> QED BY <1>1, <1>3, <1>4 DEF Effect

LEMMA IdsPrinted ==
  ASSUME EventsWhole, NEW k \in DOMAIN printed, HasId(printed[k])
  PROVE  printed[k][1].i \in Nat
<1>1. CASE \E i \in Ids : printed[k] = TickEvent(i)
  <2>1. PICK i \in Ids : printed[k] = TickEvent(i) BY <1>1
  <2>2. printed[k][1].i = i BY <2>1, TickPrinted
  <2> QED BY <2>2, SMT DEF Ids
<1>2. CASE printed[k] = DoneEvent BY <1>2, DonePrinted
<1> QED BY <1>1, <1>2 DEF EventsWhole, TickEvent, DoneEvent

LEMMA OrderKept ==
  ASSUME TypeOK, EventsWhole, OrderInv, Effect, last' \in {0} \cup Ids
  PROVE  OrderInv'
<1> DEFINE Id(k) == printed[k][1].i
<1>n. last \in Nat /\ last' \in Nat
  <2>1. \A i \in Ids : i \in Nat BY SMT DEF Ids
  <2> QED BY <2>1 DEF TypeOK
<1>o. \A j, k \in DOMAIN printed :
        j < k /\ HasId(printed[j]) /\ HasId(printed[k]) => Id(j) < Id(k)
  BY DEF OrderInv
<1>i. \A k \in DOMAIN printed : HasId(printed[k]) =>
        Id(k) <= last /\ (Pending => Id(k) < last)
  BY DEF OrderInv
<1>d. \A k \in DOMAIN printed : HasId(printed[k]) => Id(k) \in Nat BY IdsPrinted
<1>1. CASE Silent
  <2>1. printed' = printed /\ last' = last /\ (Pending' <=> Pending) BY <1>1 DEF Silent
  <2> QED BY <2>1, <1>o, <1>i DEF OrderInv
<1>2. CASE TickBegun
  <2>1. printed' = printed /\ last' = last + 1 BY <1>2 DEF TickBegun
  <2>2. \A k \in DOMAIN printed : HasId(printed[k]) => Id(k) <= last' /\ Id(k) < last'
    <3> HIDE DEF Id
    <3> QED BY <1>i, <1>d, <1>n, <2>1, SMT
  <2> QED BY <2>1, <2>2, <1>o DEF OrderInv
<1>3. ASSUME NEW event \in Seq(FieldLines), printed' = Append(printed, event), ~Pending',
             last' = last,
             HasId(event) => /\ event[1].i = last
                             /\ \A k \in DOMAIN printed : HasId(printed[k]) => Id(k) < last
      PROVE  OrderInv'
  <2> DEFINE n == Len(printed) + 1
  <2>1. /\ DOMAIN printed' = DOMAIN printed \cup {n} /\ n \notin DOMAIN printed
        /\ \A k \in DOMAIN printed : printed'[k] = printed[k]
        /\ printed'[n] = event
        /\ \A j \in DOMAIN printed' : j <= n /\ j \in Nat
    BY <1>3, PrintedMore
  <2> HIDE DEF n
  <2>2. ASSUME NEW j \in DOMAIN printed', NEW k \in DOMAIN printed', j < k,
               HasId(printed'[j]), HasId(printed'[k])
        PROVE  printed'[j][1].i < printed'[k][1].i
    <3>1. j # n
      <4>1. k <= n /\ k \in Nat /\ n \in Nat BY <2>1
      <4>2. ~(n < k) BY <4>1, SMT
      <4> QED BY <4>2, <2>2
    <3>2. j \in DOMAIN printed /\ printed'[j] = printed[j] BY <2>1, <3>1
    <3>3. CASE k = n
      <4>1. HasId(event) /\ printed'[k][1].i = last BY <1>3, <2>1, <2>2, <3>3
      <4>2. Id(j) < last BY <4>1, <1>3, <3>2, <2>2
      <4> QED BY <4>1, <4>2, <3>2
    <3>4. CASE k # n
      <4>1. k \in DOMAIN printed /\ printed'[k] = printed[k] BY <2>1, <3>4
      <4> QED BY <4>1, <3>2, <2>2, <1>o
    <3> QED BY <3>3, <3>4
  <2>3. ASSUME NEW k \in DOMAIN printed', HasId(printed'[k])
        PROVE  printed'[k][1].i <= last'
    <3>1. CASE k = n
      <4>1. printed'[k][1].i = last BY <1>3, <2>1, <2>3, <3>1
      <4> QED BY <4>1, <1>3, <1>n, SMT
    <3>2. CASE k # n
      <4>1. k \in DOMAIN printed /\ printed'[k] = printed[k] BY <2>1, <3>2
      <4> QED BY <4>1, <2>3, <1>3, <1>i
    <3> QED BY <3>1, <3>2
  <2> QED BY <2>2, <2>3, <1>3 DEF OrderInv
<1>4. CASE TickEnded
  <2>1. /\ last \in Ids /\ Pending /\ ~Pending' /\ last' = last
        /\ printed' = Append(printed, TickEvent(last))
    BY <1>4 DEF TickEnded
  <2>2. TickEvent(last) \in Seq(FieldLines) /\ TickEvent(last)[1].i = last
    BY <2>1, TickPrinted
  <2> QED BY <2>1, <2>2, <1>3, <1>i
<1>5. CASE StreamDone
  <2>1. ~Pending' /\ last' = last /\ printed' = Append(printed, DoneEvent)
    BY <1>5 DEF StreamDone
  <2> QED BY <2>1, <1>3, DonePrinted
<1> QED BY <1>1, <1>2, <1>4, <1>5 DEF Effect

LEMMA CoverKept ==
  ASSUME TypeOK, CoverInv, Effect, cut' = cut, last' \in {0} \cup Ids
  PROVE  CoverInv'
<1>n. last \in Nat /\ last' \in Nat
  <2>1. \A i \in Ids : i \in Nat BY SMT DEF Ids
  <2> QED BY <2>1 DEF TypeOK
<1>c. \A i \in 1..last : Printed(i) \/ i \in cut \/ (i = last /\ Pending) BY DEF CoverInv
<1>1. CASE Silent
  <2>1. printed' = printed /\ last' = last /\ (Pending' <=> Pending) BY <1>1 DEF Silent
  <2>2. \A i : Printed(i)' <=> Printed(i) BY <2>1 DEF Printed
  <2> QED BY <2>1, <2>2, <1>c DEF CoverInv
<1>2. CASE TickBegun
  <2>1. printed' = printed /\ last' = last + 1 /\ ~Pending /\ Pending'
    BY <1>2 DEF TickBegun
  <2>2. \A i : Printed(i)' <=> Printed(i) BY <2>1 DEF Printed
  <2>3. \A i \in 1..last' : i \in 1..last \/ i = last' BY <2>1, <1>n, SMT
  <2> QED BY <2>1, <2>2, <2>3, <1>c DEF CoverInv
<1>3. ASSUME NEW event \in Seq(FieldLines), printed' = Append(printed, event), last' = last,
             Pending => HasId(event) /\ event[1].i = last
      PROVE  CoverInv'
  <2> DEFINE n == Len(printed) + 1
  <2>1. /\ DOMAIN printed' = DOMAIN printed \cup {n}
        /\ \A k \in DOMAIN printed : printed'[k] = printed[k]
        /\ printed'[n] = event
    BY <1>3, PrintedMore
  <2> HIDE DEF n
  <2>2. \A i : Printed(i) => Printed(i)' BY <2>1 DEF Printed
  <2>3. Pending => Printed(last)' BY <2>1, <1>3 DEF Printed
  <2> QED BY <2>2, <2>3, <1>3, <1>c DEF CoverInv
<1>4. CASE TickEnded
  <2>1. last \in Ids /\ last' = last /\ printed' = Append(printed, TickEvent(last))
    BY <1>4 DEF TickEnded
  <2> QED BY <2>1, <1>3, TickPrinted
<1>5. CASE StreamDone
  <2>1. ~Pending /\ last' = last /\ printed' = Append(printed, DoneEvent)
    BY <1>5 DEF StreamDone
  <2> QED BY <2>1, <1>3, DonePrinted
<1> QED BY <1>1, <1>2, <1>4, <1>5 DEF Effect

-----------------------------------------------------------------------------
(* The invariant *)

(* In the stream the client is at most at the connection's last tick, and  *)
(* an id line in pending_fields is its first.                              *)
LEMMA InStream ==
  ASSUME TypeOK, PlaceInv, cli = "stream"
  PROVE  /\ last <= Ticks * conn
         /\ (\E j \in DOMAIN fields : fields[j].kind = "id") => Pending /\ last \in Ids
         /\ Pending => \E j \in DOMAIN fields : fields[j].kind = "id"
<1>t. Ticks \in Nat /\ Ticks > 0 /\ last \in Nat /\ conn \in Nat /\ conn <= Connections
  <2>1. \A i \in Ids : i \in Nat BY SMT DEF Ids
  <2>2. last \in {0} \cup Ids /\ conn \in 0..Connections BY DEF TypeOK
  <2>3. last \in Nat BY <2>1, <2>2
  <2>4. Ticks \in Nat /\ Ticks > 0 /\ Connections \in Nat BY SseAssumption
  <2> QED BY <2>2, <2>3, <2>4, SMT
<1>1. PICK s \in Nat \ {0} : conn > 0 /\ s <= Ticks * (conn - 1) + 1 /\ Reads(s)
  BY DEF PlaceInv
<1>b. Ticks * (conn - 1) + Ticks = Ticks * conn /\ Ticks * conn \in Nat /\ Ticks * (conn - 1) \in Nat
  BY <1>1, <1>t, Bound
<1>2. /\ last <= s + Ticks - 1
      /\ fields # <<>> => fields[1].kind \in {"id", "event"} /\ 1 \in DOMAIN fields
      /\ fields # <<>> /\ fields[1].kind = "id" => last > 0
      /\ \A j \in DOMAIN fields : fields[j].kind = "id" => fields[1].kind = "id"
  <2>1. CASE fields = <<>> /\ last <= s + Ticks - 1 BY <2>1, SMT
  <2>2. CASE /\ last <= s + Ticks - 1 /\ last >= s
             /\ \/ fields = <<L("id", last)>>
                \/ fields = <<L("id", last), L("event", last)>>
                \/ fields = TickEvent(last)
    BY <2>2, <1>t, SMT DEF L, TickEvent
  <2>3. CASE /\ last <= s + Ticks - 1
             /\ fields = <<L("event", Done)>> \/ fields = DoneEvent
    BY <2>3, <1>t, SMT DEF L, DoneEvent
  <2>4. CASE taken \in {1, 2} /\ last = s - 1 /\ fields = <<>>
    BY <2>4, <2>1, <1>t, SMT
  <2>5. ASSUME NEW q \in 0..Ticks, NEW r \in 0..4, InTick(s, q, r)
        PROVE  \/ fields = <<>> /\ last <= s + Ticks - 1
               \/ /\ last <= s + Ticks - 1 /\ last >= s
                  /\ \/ fields = <<L("id", last)>>
                     \/ fields = <<L("id", last), L("event", last)>>
                     \/ fields = TickEvent(last)
    <3>1. q < Ticks BY <2>5 DEF InTick
    <3>2. s + q <= s + Ticks - 1 /\ s + q >= s /\ s + q - 1 <= s + Ticks - 1 BY <3>1, <1>t, SMT
    <3>3. CASE last = s + q - 1 /\ fields = <<>> BY <3>2, <3>3
    <3>4. CASE last = s + q /\ fields = <<L("id", s + q)>> BY <3>2, <3>4
    <3>5. CASE last = s + q /\ fields = <<L("id", s + q), L("event", s + q)>> BY <3>2, <3>5
    <3>6. CASE last = s + q /\ fields = TickEvent(s + q) BY <3>2, <3>6
    <3> QED BY <2>5, <3>3, <3>4, <3>5, <3>6, Zenon DEF InTick
  <2>6. ASSUME NEW q \in 0..Ticks, NEW r \in 0..4, InDone(s, q, r)
        PROVE  /\ last <= s + Ticks - 1
               /\ fields = <<>> \/ fields = <<L("event", Done)>> \/ fields = DoneEvent
    <3>1. last = s + Ticks - 1 BY <2>6 DEF InDone
    <3>2. last <= s + Ticks - 1 BY <3>1, <1>t, SMT
    <3> QED BY <2>6, <3>2, Zenon DEF InDone
  <2> QED BY <1>1, <2>1, <2>2, <2>3, <2>4, <2>5, <2>6 DEF Reads
<1>3. last <= Ticks * conn BY <1>1, <1>2, <1>t, <1>b, SMT
<1>4. last > 0 => last \in Ids
  <2>1. Ticks * conn <= Ticks * Connections BY <1>1, <1>t, Bound
  <2>2. Ticks * Connections \in Nat BY <1>1, <1>t, Bound
  <2> QED BY <2>1, <2>2, <1>3, <1>b, <1>t, SMT DEF Ids
<1>5. ASSUME NEW j \in DOMAIN fields, fields[j].kind = "id" PROVE Pending /\ last \in Ids
  <2>1. fields # <<>> BY <1>5, SMT DEF TypeOK
  <2> QED BY <1>2, <1>4, <1>5, <2>1 DEF Pending
<1>6. Pending => \E j \in DOMAIN fields : fields[j].kind = "id" BY <1>2 DEF Pending
<1> QED BY <1>3, <1>5, <1>6

LEMMA InitIInv == Init => IInv
<1> SUFFICES ASSUME Init PROVE IInv OBVIOUS
<1>t. Ticks \in Nat /\ Connections \in Nat BY SseAssumption
<1>1. TypeOK
  <2>1. conn \in 0..Connections BY <1>t, SMT DEF Init
  <2>2. put \in 0..Len(lines) /\ taken \in 0..put BY SMT DEF Init
  <2>3. fields \in Seq(FieldLines) /\ printed \in Seq(Seq(FieldLines)) /\ lines \in Seq(Line)
    BY SMT DEF Init
  <2> QED BY <2>1, <2>2, <2>3 DEF Init, TypeOK
<1>2. PlaceInv BY <1>t, SMT DEF Init, PlaceInv
<1>3. EventsWhole BY SMT DEF Init, EventsWhole
<1>4. OrderInv BY SMT DEF Init, OrderInv
<1>5. CoverInv BY SMT DEF Init, CoverInv
<1> QED BY <1>1, <1>2, <1>3, <1>4, <1>5 DEF IInv

(* Where neither the printed events nor last, cut and Pending change.      *)
LEMMA EventsStay ==
  ASSUME EventsWhole, OrderInv, CoverInv, UNCHANGED <<last, printed, cut>>,
         Pending' <=> Pending
  PROVE  EventsWhole' /\ OrderInv' /\ CoverInv'
<1>1. EventsWhole' BY DEF EventsWhole
<1>2. OrderInv' BY Zenon DEF OrderInv
<1>3. CoverInv' BY Zenon DEF CoverInv, Printed
<1> QED BY <1>1, <1>2, <1>3
LEMMA PlaceStays ==
  ASSUME PlaceInv, UNCHANGED <<cli, conn, last, fields, taken, lines>>
  PROVE  PlaceInv'
<1>1. CASE cli \in {"headers", "stream"}
  <2>1. PICK s \in Nat \ {0} :
          /\ conn > 0 /\ lines = Stream(s) /\ s <= Ticks * (conn - 1) + 1
          /\ cli = "headers" => last = s - 1 /\ fields = <<>> /\ taken = 0
          /\ cli = "stream" => Reads(s)
    BY <1>1 DEF PlaceInv
  <2>2. Stream(s)' = Stream(s) OBVIOUS
  <2>3. Reads(s) => Reads(s)' BY DEF Reads, InTick, InDone
  <2> QED BY <1>1, <2>1, <2>2, <2>3 DEF PlaceInv
<1>2. CASE cli \in {"off", "died"} BY <1>2 DEF PlaceInv
<1>3. CASE cli \notin {"headers", "stream", "off", "died"} BY <1>3 DEF PlaceInv
<1> QED BY <1>1, <1>2, <1>3

LEMMA StepIInv == IInv /\ [Next]_vars => IInv'
<1> SUFFICES ASSUME IInv, [Next]_vars PROVE IInv' OBVIOUS
<1>i. TypeOK /\ PlaceInv /\ EventsWhole /\ OrderInv /\ CoverInv BY DEF IInv
<1>t. /\ Ticks \in Nat \ {0} /\ Connections \in Nat
      /\ last \in {0} \cup Ids /\ last \in Nat
      /\ conn \in 0..Connections /\ conn \in Nat
      /\ Len(lines) \in Nat /\ put \in 0..Len(lines) /\ taken \in 0..put
  <2>1. \A i \in Ids : i \in Nat BY SMT DEF Ids
  <2>2. /\ last \in {0} \cup Ids /\ conn \in 0..Connections /\ lines \in Seq(Line)
        /\ put \in 0..Len(lines) /\ taken \in 0..put
    BY <1>i DEF TypeOK
  <2>3. Len(lines) \in Nat BY <2>2, SMT
  <2>4. conn \in Nat BY <2>2, SMT
  <2> QED BY <2>1, <2>2, <2>3, <2>4, SseAssumption
<1>1. CASE ServerSends
  <2>1. /\ cli' = cli /\ conn' = conn /\ last' = last /\ fields' = fields
        /\ printed' = printed /\ cut' = cut /\ taken' = taken /\ lines' = lines
        /\ open' = open /\ put' = put + 1 /\ put < Len(lines)
    BY <1>1 DEF ServerSends, clientVars
  <2>2. TypeOK'
    <3>1. put' \in 0..Len(lines') /\ taken' \in 0..put' BY <2>1, <1>t, SMT
    <3> QED BY <3>1, <2>1, <1>i DEF TypeOK
  <2>3. PlaceInv' BY <2>1, <1>i, PlaceStays
  <2>4. EventsWhole' /\ OrderInv' /\ CoverInv' BY <2>1, <1>i, EventsStay DEF Pending
  <2> QED BY <2>2, <2>3, <2>4 DEF IInv
<1>2. CASE ServerEnds
  <2>1. /\ cli' = cli /\ conn' = conn /\ last' = last /\ fields' = fields
        /\ printed' = printed /\ cut' = cut /\ taken' = taken /\ lines' = lines
        /\ open' = FALSE /\ put' = put
    BY <1>2 DEF ServerEnds, clientVars
  <2>2. TypeOK' BY <2>1, <1>i DEF TypeOK
  <2>3. PlaceInv' BY <2>1, <1>i, PlaceStays
  <2>4. EventsWhole' /\ OrderInv' /\ CoverInv' BY <2>1, <1>i, EventsStay DEF Pending
  <2> QED BY <2>2, <2>3, <2>4 DEF IInv
<1>3. CASE Connect
  <2>1. /\ cli = "off" /\ cli' = "headers" /\ conn < Connections /\ conn' = conn + 1
        /\ fields' = <<>> /\ taken' = 0 /\ lines' = Stream(last + 1) /\ put' = 0
        /\ open' = TRUE /\ last' = last /\ printed' = printed /\ cut' = cut
    BY <1>3 DEF Connect
  <2>2. last + 1 \in Nat \ {0} BY <1>t, SMT
  <2>3. TypeOK'
    <3>1. Stream(last + 1) \in Seq(Line) BY <2>2, StreamLines
    <3>2. put' \in 0..Len(lines') /\ taken' \in 0..put'
      <4>1. Len(lines') \in Nat BY <2>1, <3>1, SMT
      <4> QED BY <4>1, <2>1, SMT
    <3>3. conn' \in 0..Connections BY <2>1, <1>t, SMT
    <3>4. fields' \in Seq(FieldLines) BY <2>1, SMT
    <3> QED BY <3>1, <3>2, <3>3, <3>4, <2>1, <1>i DEF TypeOK
  <2>4. PlaceInv'
    <3> DEFINE s == last + 1
    <3>1. last <= Ticks * conn BY <2>1, <1>i DEF PlaceInv
    <3>2. conn' - 1 = conn /\ conn' > 0 /\ Ticks * conn \in Nat BY <2>1, <1>t, SMT
    <3>3. s \in Nat \ {0} /\ s <= Ticks * (conn' - 1) + 1 /\ last' = s - 1
      BY <3>1, <3>2, <2>1, <2>2, <1>t, SMT
    <3>4. lines' = Stream(s) BY <2>1
    <3> HIDE DEF s
    <3>5. Stream(s)' = Stream(s') OBVIOUS
    <3>6. \E x \in Nat \ {0} : /\ lines' = Stream(x) /\ x <= Ticks * (conn' - 1) + 1
                               /\ last' = x - 1 /\ fields' = <<>> /\ taken' = 0
      BY <3>3, <3>4, <2>1
    <3> QED BY <3>2, <3>6, <2>1, Zenon DEF PlaceInv
  <2>5. Pending' <=> Pending BY <2>1 DEF Pending
  <2>6. EventsWhole' /\ OrderInv' /\ CoverInv' BY <2>1, <2>5, <1>i, EventsStay
  <2> QED BY <2>3, <2>4, <2>6 DEF IInv
<1>4. CASE ReadHeaders
  <2>1. /\ cli = "headers" /\ cli' = "stream" /\ put > 0 /\ taken' = 1
        /\ conn' = conn /\ last' = last /\ fields' = fields
        /\ printed' = printed /\ cut' = cut /\ lines' = lines /\ open' = open /\ put' = put
    BY <1>4 DEF ReadHeaders, serverVars
  <2>2. TypeOK'
    <3>1. put' \in 0..Len(lines') /\ taken' \in 0..put' BY <2>1, <1>t, SMT
    <3> QED BY <3>1, <2>1, <1>i DEF TypeOK
  <2>3. PICK s \in Nat \ {0} : /\ conn > 0 /\ lines = Stream(s) /\ s <= Ticks * (conn - 1) + 1
                               /\ last = s - 1 /\ fields = <<>>
    BY <2>1, <1>i DEF PlaceInv
  <2>4. PlaceInv'
    <3>1. Reads(s)'
      <4>1. taken' \in {1, 2} /\ last' = s - 1 /\ fields' = <<>> BY <2>1, <2>3
      <4> QED BY <4>1, Zenon DEF Reads
    <3>2. Stream(s)' = Stream(s) OBVIOUS
    <3>3. conn' > 0 /\ lines' = Stream(s) /\ s <= Ticks * (conn' - 1) + 1 BY <2>1, <2>3
    <3> QED BY <3>1, <3>2, <3>3, <2>1 DEF PlaceInv
  <2>5. Pending' <=> Pending BY <2>1, <2>3 DEF Pending
  <2>6. EventsWhole' /\ OrderInv' /\ CoverInv' BY <2>1, <2>5, <1>i, EventsStay
  <2> QED BY <2>2, <2>4, <2>6 DEF IInv
<1>5. CASE HeadersTimeOut
  <2>1. /\ cli = "headers" /\ cli' = "died"
        /\ conn' = conn /\ last' = last /\ fields' = fields /\ taken' = taken
        /\ printed' = printed /\ cut' = cut /\ lines' = lines /\ open' = open /\ put' = put
    BY <1>5 DEF HeadersTimeOut, serverVars
  <2>2. TypeOK' BY <2>1, <1>i DEF TypeOK
  <2>3. PlaceInv'
    <3>1. PICK s \in Nat \ {0} : conn > 0 /\ s <= Ticks * (conn - 1) + 1 /\ last = s - 1
      BY <2>1, <1>i DEF PlaceInv
    <3>2. Ticks * (conn - 1) + Ticks = Ticks * conn /\ Ticks * (conn - 1) \in Nat
      BY <3>1, <1>t, Bound, SMT
    <3>3. last <= Ticks * conn BY <3>1, <3>2, <1>t, SMT
    <3> QED BY <3>3, <2>1 DEF PlaceInv
  <2>4. Pending' <=> Pending BY <2>1 DEF Pending
  <2>5. EventsWhole' /\ OrderInv' /\ CoverInv' BY <2>1, <2>4, <1>i, EventsStay
  <2> QED BY <2>2, <2>3, <2>5 DEF IInv
<1>6. CASE ReadLine
  <2>1. /\ cli' = cli /\ conn' = conn /\ cut' = cut /\ lines' = lines /\ open' = open
        /\ put' = put /\ cli = "stream" /\ taken < put /\ taken' = taken + 1
    BY <1>6 DEF ReadLine, serverVars
  <2>2. PlaceInv' /\ Effect /\ last' \in {0} \cup Ids BY <1>6, <1>i, ReadEffect
  <2>3. TypeOK'
    <3>1. taken' \in 0..put' BY <2>1, <1>t, SMT
    <3>2. fields' \in Seq(FieldLines)
      <4>1. lines[taken + 1] \in Line
        <5>1. taken + 1 \in 1..Len(lines) BY <2>1, <1>t, SMT
        <5> QED BY <5>1, <1>i, SMT DEF TypeOK
      <4>2. fields \in Seq(FieldLines) BY <1>i DEF TypeOK
      <4>3. fields' = FieldsAfter(lines[taken + 1]) BY <1>6 DEF ReadLine
      <4>4. lines[taken + 1].kind \in {"id", "event", "data"} =>
              lines[taken + 1] \in FieldLines
        BY <4>1, SMT DEF Line, FieldLines
      <4> QED BY <4>2, <4>3, <4>4, SMT
    <3>3. printed' \in Seq(Seq(FieldLines))
      <4>1. printed' = printed \/ printed' = Append(printed, fields)
        BY <1>6, Zenon DEF ReadLine
      <4>2. fields \in Seq(FieldLines) /\ printed \in Seq(Seq(FieldLines)) BY <1>i DEF TypeOK
      <4>3. Append(printed, fields) \in Seq(Seq(FieldLines))
        BY <4>2, AppendProperties
      <4> QED BY <4>1, <4>2, <4>3
    <3> QED BY <3>1, <3>2, <3>3, <2>1, <2>2, <1>i DEF TypeOK
  <2>4. EventsWhole' BY <2>2, <1>i, WholeKept
  <2>5. OrderInv' BY <2>2, <1>i, OrderKept
  <2>6. CoverInv' BY <2>1, <2>2, <1>i, CoverKept
  <2> QED BY <2>2, <2>3, <2>4, <2>5, <2>6 DEF IInv
<1>7. CASE StreamEnds
  <2>1. /\ cli = "stream" /\ cli' = "off"
        /\ conn' = conn /\ last' = last /\ fields' = fields /\ taken' = taken
        /\ printed' = printed /\ lines' = lines /\ open' = open /\ put' = put
        /\ cut' = IF \E j \in DOMAIN fields : fields[j].kind = "id"
                    THEN cut \cup {last} ELSE cut
    BY <1>7 DEF StreamEnds, serverVars
  <2>2. /\ last <= Ticks * conn
        /\ (\E j \in DOMAIN fields : fields[j].kind = "id") <=> Pending
        /\ Pending => last \in Ids
    BY <2>1, <1>i, InStream
  <2>3. cut' = IF Pending THEN cut \cup {last} ELSE cut BY <2>1, <2>2
  <2>4. TypeOK'
    <3>1. cut' \subseteq Ids BY <2>2, <2>3, <1>i DEF TypeOK
    <3> QED BY <3>1, <2>1, <1>i DEF TypeOK
  <2>5. PlaceInv' BY <2>1, <2>2 DEF PlaceInv
  <2>6. ~Pending' BY <2>1 DEF Pending
  <2>7. EventsWhole' BY <2>1, <1>i DEF EventsWhole
  <2>8. OrderInv' BY <2>1, <2>6, <1>i DEF OrderInv
  <2>9. CoverInv'
    <3>1. \A i : Printed(i)' <=> Printed(i) BY <2>1 DEF Printed
    <3>2. \A i \in 1..last : Printed(i) \/ i \in cut' BY <2>3, <1>i DEF CoverInv
    <3> QED BY <3>1, <3>2, <2>1 DEF CoverInv
  <2> QED BY <2>4, <2>5, <2>7, <2>8, <2>9 DEF IInv
<1>8. CASE UNCHANGED vars
  <2>1. /\ cli' = cli /\ conn' = conn /\ last' = last /\ fields' = fields
        /\ printed' = printed /\ cut' = cut /\ taken' = taken /\ lines' = lines
        /\ open' = open /\ put' = put
    BY <1>8 DEF vars, clientVars, serverVars
  <2>2. TypeOK' BY <2>1, <1>i DEF TypeOK
  <2>3. PlaceInv' BY <2>1, <1>i, PlaceStays
  <2>4. EventsWhole' /\ OrderInv' /\ CoverInv' BY <2>1, <1>i, EventsStay DEF Pending
  <2> QED BY <2>2, <2>3, <2>4 DEF IInv
<1>9. CASE Finished BY <1>8, <1>9 DEF Finished
<1> QED BY <1>1, <1>2, <1>3, <1>4, <1>5, <1>6, <1>7, <1>8, <1>9 DEF Next, Server, Client

-----------------------------------------------------------------------------
(* The theorems *)

LEMMA Invariant == Spec => []IInv
  BY InitIInv, StepIInv, PTL DEF Spec

(* Every id stays within what the connections can number, and the client   *)
(* is never ahead of the server (sse_client.connect_and_read).             *)
THEOREM TypeCorrect == Spec => []TypeOK
<1>1. IInv => TypeOK BY DEF IInv
<1> QED BY <1>1, Invariant, PTL

(* However the connections break off, what the client prints is one event  *)
(* as it was sent, never the halves of two (pending_fields is of one       *)
(* connection and a blank line ends it).                                   *)
THEOREM WholeEvents == Spec => []EventsWhole
<1>1. IInv => EventsWhole BY DEF IInv
<1> QED BY <1>1, Invariant, PTL

(* Reconnecting with Last-Event-ID continues the ticks where they broke    *)
(* off: in order, none twice, none lost but one whose event was cut behind *)
(* its id line (counter_stream and connect_and_read).                      *)
THEOREM Resumed == Spec => []TicksResumed
<1>1. IInv => TicksResumed
  <2> SUFFICES ASSUME IInv PROVE TicksResumed OBVIOUS
  <2>1. \A j, k \in DOMAIN printed :
          j < k /\ HasId(printed[j]) /\ HasId(printed[k]) =>
            printed[j][1].i < printed[k][1].i
    BY DEF IInv, OrderInv
  <2>2. \A i \in 1..last : Printed(i) \/ i \in cut \/ (i = last /\ cli = "stream")
    BY DEF IInv, CoverInv, Pending
  <2> QED BY <2>1, <2>2 DEF TicksResumed, Printed
<1> QED BY <1>1, Invariant, PTL
=============================================================================
