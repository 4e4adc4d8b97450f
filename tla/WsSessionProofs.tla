--------------------------- MODULE WsSessionProofs ---------------------------
(***************************************************************************)
(* Theorems about the headers of module Framing and about the sessions of  *)
(* module WsSession, which exchange them.                                  *)
(*                                                                         *)
(* What is written as a header is read as that header, with any payload    *)
(* behind it: the two writers and the two readers of WebSocket frames      *)
(* agree for every opcode and every length that eight bytes can carry, and *)
(* so do encode_frame and recv_frame of a multiplexing connection.         *)
(*                                                                         *)
(* With them a session, of any frames of the client and any sends of the   *)
(* handler, answers its pings in order and ends with one CLOSE, and the    *)
(* example client of module WsClient reads the frames that were written.   *)
(***************************************************************************)
EXTENDS WsClient, SequenceTheorems, TLAPS

Bytes == Seq(Nat)

P16 == 65536
P32 == 65536 * P16
P48 == 65536 * P32
P64 == 65536 * P48

-----------------------------------------------------------------------------
LEMMA Single ==
  ASSUME NEW a \in Nat
  PROVE  <<a>> \in Bytes /\ Len(<<a>>) = 1 /\ <<a>>[1] = a
  BY DEF Bytes

LEMMA Pair ==
  ASSUME NEW a \in Nat, NEW b \in Nat
  PROVE  /\ <<a, b>> \in Bytes
         /\ Len(<<a, b>>) = 2
         /\ <<a, b>>[1] = a /\ <<a, b>>[2] = b
  BY DEF Bytes

(* Where the bytes of the parts are in the whole. *)
LEMMA Joined ==
  ASSUME NEW s \in Bytes, NEW u \in Bytes
  PROVE  /\ s \o u \in Bytes
         /\ Len(s \o u) = Len(s) + Len(u)
         /\ \A i \in 1..Len(s) : (s \o u)[i] = s[i]
         /\ \A i \in 1..Len(u) : (s \o u)[Len(s) + i] = u[i]
<1>1. /\ s \o u \in Bytes /\ Len(s \o u) = Len(s) + Len(u)
      /\ \A i \in 1..Len(s) + Len(u) :
           (s \o u)[i] = IF i <= Len(s) THEN s[i] ELSE u[i - Len(s)]
  BY ConcatProperties DEF Bytes
<1>2. Len(s) \in Nat /\ Len(u) \in Nat
  BY LenProperties DEF Bytes
<1> QED
  BY <1>1, <1>2

(* A number splits into its quotient and its remainder. *)
LEMMA Split ==
  ASSUME NEW n \in Nat
  PROVE  /\ n \div 65536 \in Nat
         /\ n % 65536 \in Nat /\ n % 65536 < P16
         /\ n = (n \div 65536) * 65536 + (n % 65536)
  BY SMT DEF P16

(* struct.pack("!H") and struct.unpack. *)
LEMMA RoundTrip16 ==
  ASSUME NEW n \in Nat, n < P16
  PROVE  /\ U16(n) \in Bytes /\ Len(U16(n)) = 2
         /\ V16(U16(n), 1) = n
<1>1. n \div 256 \in Nat /\ n % 256 \in Nat /\ n = (n \div 256) * 256 + (n % 256)
  BY SMT DEF P16
<1>2. /\ U16(n) \in Bytes /\ Len(U16(n)) = 2
      /\ U16(n)[1] = n \div 256 /\ U16(n)[2] = n % 256
  BY <1>1, Pair DEF U16
<1>3. V16(U16(n), 1) = U16(n)[1] * 256 + U16(n)[2]
  BY DEF V16
<1> QED
  BY <1>1, <1>2, <1>3

LEMMA RoundTrip32 ==
  ASSUME NEW n \in Nat, n < P32
  PROVE  /\ U32(n) \in Bytes /\ Len(U32(n)) = 4
         /\ V32(U32(n), 1) = n
<1>1. /\ n \div 65536 \in Nat /\ n % 65536 \in Nat /\ n % 65536 < P16
      /\ n = (n \div 65536) * 65536 + (n % 65536)
  BY Split
<1>2. PICK h \in Nat : h = n \div 65536
  BY <1>1
<1>3. PICK l \in Nat : l = n % 65536
  BY <1>1
<1>4. h < P16 /\ l < P16 /\ n = h * 65536 + l
  BY <1>1, <1>2, <1>3 DEF P16, P32
<1>5. PICK s \in Bytes : s = U16(h) /\ Len(s) = 2 /\ V16(s, 1) = h
  BY <1>4, RoundTrip16
<1>6. PICK u \in Bytes : u = U16(l) /\ Len(u) = 2 /\ V16(u, 1) = l
  BY <1>4, RoundTrip16
<1>7. U32(n) = s \o u
  BY <1>2, <1>3, <1>5, <1>6 DEF U32
<1>8. /\ s \o u \in Bytes /\ Len(s \o u) = 4
      /\ (s \o u)[1] = s[1] /\ (s \o u)[2] = s[2]
      /\ (s \o u)[3] = u[1] /\ (s \o u)[4] = u[2]
  <2>1. /\ s \o u \in Bytes /\ Len(s \o u) = 2 + 2
        /\ \A i \in 1..2 : (s \o u)[i] = s[i]
        /\ \A i \in 1..2 : (s \o u)[2 + i] = u[i]
    <3>1. /\ s \o u \in Bytes /\ Len(s \o u) = Len(s) + Len(u)
          /\ \A i \in 1..Len(s) : (s \o u)[i] = s[i]
          /\ \A i \in 1..Len(u) : (s \o u)[Len(s) + i] = u[i]
      BY Joined
    <3> QED
      BY <1>5, <1>6, <3>1
  <2>2. 1 \in 1..2 /\ 2 \in 1..2 /\ 2 + 1 = 3 /\ 2 + 2 = 4
    OBVIOUS
  <2> QED
    BY <2>1, <2>2
<1>9. V32(s \o u, 1) = V16(s, 1) * 65536 + V16(u, 1)
  BY <1>8 DEF V32, V16
<1>10. V32(U32(n), 1) = n
  <2>1. V32(U32(n), 1) = V16(s, 1) * 65536 + V16(u, 1)
    BY <1>7, <1>9
  <2>2. V16(s, 1) * 65536 + V16(u, 1) = h * 65536 + l
    BY <1>5, <1>6
  <2> QED
    BY <1>4, <2>1, <2>2
<1> QED
  BY <1>7, <1>8, <1>10

(* struct.pack("!Q") and struct.unpack. *)
LEMMA RoundTrip64 ==
  ASSUME NEW n \in Nat, n < P64
  PROVE  /\ U64(n) \in Bytes /\ Len(U64(n)) = 8
         /\ V64(U64(n), 1) = n
<1>1. PICK q \in Nat : q = n \div 65536
  BY Split
<1>2. PICK h \in Nat : h = q \div 65536
  BY Split
<1>3. PICK m \in Nat : m = q % 65536
  BY Split
<1>4. PICK l \in Nat : l = n % 65536
  BY Split
<1>5. n = q * 65536 + l /\ q = h * 65536 + m /\ m < P16 /\ l < P16
  BY <1>1, <1>2, <1>3, <1>4, Split
<1>6. h < P32
  BY <1>5 DEF P16, P32, P48, P64
<1>7. PICK r \in Bytes : r = U32(h) /\ Len(r) = 4 /\ V32(r, 1) = h
  BY <1>6, RoundTrip32
<1>8. PICK s \in Bytes : s = U16(m) /\ Len(s) = 2 /\ V16(s, 1) = m
  BY <1>5, RoundTrip16
<1>9. PICK u \in Bytes : u = U16(l) /\ Len(u) = 2 /\ V16(u, 1) = l
  BY <1>5, RoundTrip16
<1>10. U64(n) = (r \o s) \o u
  BY <1>1, <1>2, <1>3, <1>4, <1>7, <1>8, <1>9 DEF U64
<1>11. PICK p \in Bytes : p = r \o s
  BY Joined
<1>12. PICK b \in Bytes : b = p \o u
  BY Joined
<1>13. /\ Len(b) = 8
       /\ b[1] = r[1] /\ b[2] = r[2] /\ b[3] = r[3] /\ b[4] = r[4]
       /\ b[5] = s[1] /\ b[6] = s[2] /\ b[7] = u[1] /\ b[8] = u[2]
  <2>1. /\ Len(p) = 4 + 2
        /\ \A i \in 1..4 : p[i] = r[i]
        /\ \A i \in 1..2 : p[4 + i] = s[i]
    <3>1. /\ Len(r \o s) = Len(r) + Len(s)
          /\ \A i \in 1..Len(r) : (r \o s)[i] = r[i]
          /\ \A i \in 1..Len(s) : (r \o s)[Len(r) + i] = s[i]
      BY Joined
    <3> QED
      BY <1>7, <1>8, <1>11, <3>1
  <2>2. /\ p[1] = r[1] /\ p[2] = r[2] /\ p[3] = r[3] /\ p[4] = r[4]
        /\ p[5] = s[1] /\ p[6] = s[2] /\ Len(p) = 6
    <3>1. /\ 1 \in 1..4 /\ 2 \in 1..4 /\ 3 \in 1..4 /\ 4 \in 1..4
          /\ 1 \in 1..2 /\ 2 \in 1..2 /\ 4 + 1 = 5 /\ 4 + 2 = 6
      OBVIOUS
    <3> QED
      BY <2>1, <3>1
  <2>3. /\ Len(b) = 6 + 2
        /\ \A i \in 1..6 : b[i] = p[i]
        /\ \A i \in 1..2 : b[6 + i] = u[i]
    <3>1. /\ Len(p \o u) = Len(p) + Len(u)
          /\ \A i \in 1..Len(p) : (p \o u)[i] = p[i]
          /\ \A i \in 1..Len(u) : (p \o u)[Len(p) + i] = u[i]
      BY Joined
    <3> QED
      BY <1>9, <1>12, <2>2, <3>1
  <2>4. /\ b[1] = p[1] /\ b[2] = p[2] /\ b[3] = p[3] /\ b[4] = p[4]
        /\ b[5] = p[5] /\ b[6] = p[6] /\ b[7] = u[1] /\ b[8] = u[2]
    <3>1. /\ 1 \in 1..6 /\ 2 \in 1..6 /\ 3 \in 1..6 /\ 4 \in 1..6 /\ 5 \in 1..6
          /\ 6 \in 1..6 /\ 1 \in 1..2 /\ 2 \in 1..2 /\ 6 + 1 = 7 /\ 6 + 2 = 8
      OBVIOUS
    <3> QED
      BY <2>3, <3>1
  <2> QED
    BY <2>2, <2>3, <2>4
<1>14. /\ V32(b, 1) = h /\ V16(b, 5) = m /\ V16(b, 7) = l
  <2>1. V32(b, 1) = V32(r, 1)
    BY <1>13 DEF V32, V16
  <2>2. V16(b, 5) = V16(s, 1) /\ V16(b, 7) = V16(u, 1)
    BY <1>13 DEF V16
  <2> QED
    BY <1>7, <1>8, <1>9, <2>1, <2>2
<1>15. V64(b, 1) = (V32(b, 1) * 65536 + V16(b, 5)) * 65536 + V16(b, 7)
  BY DEF V64
<1>16. V64(b, 1) = n
  <2>1. V64(b, 1) = (h * 65536 + m) * 65536 + l
    BY <1>14, <1>15
  <2> QED
    BY <1>5, <2>1
<1> QED
  BY <1>10, <1>11, <1>12, <1>13, <1>16

-----------------------------------------------------------------------------
(* The three forms of the length, in a header whose second byte is m more: *)
(* 0 without the mask bit, 128 with it.                                    *)
Form(first, m, n) ==
  CASE n < 126   -> <<first, m + n>>
    [] 126 <= n /\ n < 65536 -> <<first, m + 126>> \o U16(n)
    [] OTHER     -> <<first, m + 127>> \o U64(n)

(* b begins with the bytes of s. *)
Begins(b, s) == \A i \in 1..Len(s) : b[i] = s[i]

(* Two bytes and what follows them. *)
LEMMA AfterTwo ==
  ASSUME NEW x \in Nat, NEW y \in Nat, NEW e \in Bytes, NEW b \in Bytes,
         Begins(b, <<x, y>> \o e)
  PROVE  /\ <<x, y>> \o e \in Bytes
         /\ Len(<<x, y>> \o e) = 2 + Len(e)
         /\ b[1] = x /\ b[2] = y
         /\ \A i \in 1..Len(e) : b[2 + i] = e[i]
<1>1. PICK p \in Bytes : p = <<x, y>> /\ Len(p) = 2 /\ p[1] = x /\ p[2] = y
  BY Pair
<1>2. /\ p \o e \in Bytes /\ Len(p \o e) = Len(p) + Len(e)
      /\ \A i \in 1..Len(p) : (p \o e)[i] = p[i]
      /\ \A i \in 1..Len(e) : (p \o e)[Len(p) + i] = e[i]
  BY Joined
<1>3. /\ Len(e) \in Nat /\ 1 \in 1..2 /\ 2 \in 1..2
      /\ 1 \in 1..2 + Len(e) /\ 2 \in 1..2 + Len(e)
      /\ \A i \in 1..Len(e) : 2 + i \in 1..2 + Len(e)
  <2>1. Len(e) \in Nat
    BY LenProperties DEF Bytes
  <2> QED
    BY <2>1
<1>4. \A i \in 1..2 + Len(e) : b[i] = (p \o e)[i]
  BY <1>1, <1>2 DEF Begins
<1>5. (p \o e)[1] = x /\ (p \o e)[2] = y
  BY <1>1, <1>2, <1>3
<1>6. \A i \in 1..Len(e) : (p \o e)[2 + i] = e[i]
  BY <1>1, <1>2
<1> QED
  BY <1>1, <1>2, <1>3, <1>4, <1>5, <1>6

LEMMA FormType ==
  ASSUME NEW first \in Nat, NEW m \in {0, 128}, NEW n \in Nat, n < P64
  PROVE  Form(first, m, n) \in Bytes
<1>1. m + n \in Nat /\ m + 126 \in Nat /\ m + 127 \in Nat
  OBVIOUS
<1>2. CASE n < 126
  BY <1>1, <1>2, Pair DEF Form
<1>3. CASE 126 <= n /\ n < 65536
  BY <1>1, <1>3, Pair, Joined, RoundTrip16 DEF Form, P16
<1>4. CASE n >= 65536
  BY <1>1, <1>4, Pair, Joined, RoundTrip64 DEF Form
<1> QED
  BY <1>2, <1>3, <1>4

(* Whatever follows the header, a reader finds the length in it and knows  *)
(* where it ends.                                                          *)
LEMMA FormRead ==
  ASSUME NEW first \in Nat, NEW m \in {0, 128}, NEW n \in Nat, n < P64,
         NEW b \in Bytes, Begins(b, Form(first, m, n))
  PROVE  /\ Form(first, m, n) \in Bytes
         /\ PayloadLength(b) = n
         /\ Extended(b) \in Nat /\ Len(Form(first, m, n)) = 2 + Extended(b)
         /\ b[1] = first
         /\ b[2] \in Nat /\ (b[2] >= 128 <=> m = 128)
<1>1. CASE n < 126
  <2>1. Form(first, m, n) = <<first, m + n>> /\ m + n \in Nat
    BY <1>1 DEF Form
  <2>2. /\ <<first, m + n>> \in Bytes /\ Len(<<first, m + n>>) = 2
        /\ b[1] = first /\ b[2] = m + n
    <3>1. /\ <<first, m + n>> \in Bytes /\ Len(<<first, m + n>>) = 2
          /\ <<first, m + n>>[1] = first /\ <<first, m + n>>[2] = m + n
      BY <2>1, Pair
    <3>2. 1 \in 1..2 /\ 2 \in 1..2
      OBVIOUS
    <3>3. \A i \in 1..2 : b[i] = <<first, m + n>>[i]
      BY <2>1, <3>1 DEF Begins
    <3> QED
      BY <3>1, <3>2, <3>3
  <2>3. (m + n) % 128 = n /\ (m + n >= 128 <=> m = 128)
    BY <1>1
  <2>4. b[2] % 128 = n
    BY <2>2, <2>3
  <2>5. Extended(b) = 0
    BY <1>1, <2>4 DEF Extended
  <2>6. PayloadLength(b) = n
    BY <2>4, <2>5 DEF PayloadLength
  <2> QED
    BY <2>1, <2>2, <2>3, <2>5, <2>6
<1>2. CASE 126 <= n /\ n < 65536
  <2>1. Form(first, m, n) = <<first, m + 126>> \o U16(n) /\ m + 126 \in Nat
    BY <1>2 DEF Form
  <2>2. PICK e \in Bytes : e = U16(n) /\ Len(e) = 2 /\ V16(e, 1) = n
    BY <1>2, RoundTrip16 DEF P16
  <2>3. /\ Form(first, m, n) \in Bytes /\ Len(Form(first, m, n)) = 2 + Len(e)
        /\ b[1] = first /\ b[2] = m + 126
        /\ \A i \in 1..Len(e) : b[2 + i] = e[i]
    <3>1. PICK x \in Nat : x = m + 126
      BY <2>1
    <3>2. Form(first, m, n) = <<first, x>> \o e
      BY <2>1, <2>2, <3>1
    <3>3. Begins(b, <<first, x>> \o e)
      BY <3>2
    <3>4. /\ <<first, x>> \o e \in Bytes /\ Len(<<first, x>> \o e) = 2 + Len(e)
          /\ b[1] = first /\ b[2] = x
          /\ \A i \in 1..Len(e) : b[2 + i] = e[i]
      BY <3>3, AfterTwo
    <3> QED
      BY <3>1, <3>2, <3>4
  <2>4. (m + 126) % 128 = 126 /\ (m + 126 >= 128 <=> m = 128)
    OBVIOUS
  <2>5. b[2] % 128 = 126
    BY <2>3, <2>4
  <2>6. Extended(b) = 2
    BY <2>5 DEF Extended
  <2>7. b[3] = e[1] /\ b[4] = e[2]
    <3>1. 1 \in 1..2 /\ 2 \in 1..2 /\ 2 + 1 = 3 /\ 2 + 2 = 4
      OBVIOUS
    <3> QED
      BY <2>2, <2>3, <3>1
  <2>8. V16(b, 3) = V16(e, 1)
    BY <2>7 DEF V16
  <2>9. PayloadLength(b) = n
    BY <2>2, <2>6, <2>8 DEF PayloadLength
  <2> QED
    BY <2>1, <2>2, <2>3, <2>4, <2>6, <2>9
<1>3. CASE n >= 65536
  <2>1. Form(first, m, n) = <<first, m + 127>> \o U64(n) /\ m + 127 \in Nat
    BY <1>3 DEF Form
  <2>2. PICK e \in Bytes : e = U64(n) /\ Len(e) = 8 /\ V64(e, 1) = n
    BY RoundTrip64
  <2>3. /\ Form(first, m, n) \in Bytes /\ Len(Form(first, m, n)) = 2 + Len(e)
        /\ b[1] = first /\ b[2] = m + 127
        /\ \A i \in 1..Len(e) : b[2 + i] = e[i]
    <3>1. PICK x \in Nat : x = m + 127
      BY <2>1
    <3>2. Form(first, m, n) = <<first, x>> \o e
      BY <2>1, <2>2, <3>1
    <3>3. Begins(b, <<first, x>> \o e)
      BY <3>2
    <3>4. /\ <<first, x>> \o e \in Bytes /\ Len(<<first, x>> \o e) = 2 + Len(e)
          /\ b[1] = first /\ b[2] = x
          /\ \A i \in 1..Len(e) : b[2 + i] = e[i]
      BY <3>3, AfterTwo
    <3> QED
      BY <3>1, <3>2, <3>4
  <2>4. (m + 127) % 128 = 127 /\ (m + 127 >= 128 <=> m = 128)
    OBVIOUS
  <2>5. b[2] % 128 = 127
    BY <2>3, <2>4
  <2>6. Extended(b) = 8
    BY <2>5 DEF Extended
  <2>7. /\ b[3] = e[1] /\ b[4] = e[2] /\ b[5] = e[3] /\ b[6] = e[4]
        /\ b[7] = e[5] /\ b[8] = e[6] /\ b[9] = e[7] /\ b[10] = e[8]
    <3>1. \A i \in 1..8 : b[2 + i] = e[i]
      BY <2>2, <2>3
    <3>2. /\ 1 \in 1..8 /\ 2 \in 1..8 /\ 3 \in 1..8 /\ 4 \in 1..8
          /\ 5 \in 1..8 /\ 6 \in 1..8 /\ 7 \in 1..8 /\ 8 \in 1..8
          /\ 2 + 1 = 3 /\ 2 + 2 = 4 /\ 2 + 3 = 5 /\ 2 + 4 = 6
          /\ 2 + 5 = 7 /\ 2 + 6 = 8 /\ 2 + 7 = 9 /\ 2 + 8 = 10
      OBVIOUS
    <3> QED
      BY <3>1, <3>2
  <2>8. V64(b, 3) = V64(e, 1)
    BY <2>7 DEF V64, V32, V16
  <2>9. PayloadLength(b) = n
    BY <2>2, <2>6, <2>8 DEF PayloadLength
  <2> QED
    BY <2>1, <2>2, <2>3, <2>4, <2>6, <2>9
<1> QED
  BY <1>1, <1>2, <1>3

-----------------------------------------------------------------------------
(* A sequence begins with its first part. *)
LEMMA BeginsWith ==
  ASSUME NEW s \in Bytes, NEW u \in Bytes
  PROVE  s \o u \in Bytes /\ Begins(s \o u, s)
  BY Joined DEF Begins

(* The client's recv_frame finds in what write_frame has put before a      *)
(* payload the opcode and the length of that payload, and takes exactly    *)
(* the header from the stream.                                             *)
THEOREM ServerFramesRead ==
  ASSUME NEW op \in 0..15, NEW n \in Nat, n < P64, NEW payload \in Bytes
  PROVE  ClientReads(ServerHead(op, n) \o payload)
           = [op |-> op, length |-> n, head |-> Len(ServerHead(op, n))]
<1>1. PICK x \in Nat : x = 128 + op /\ x % 16 = op
  OBVIOUS
<1>2. ServerHead(op, n) = Form(x, 0, n)
  BY <1>1 DEF ServerHead, Form
<1>3. Form(x, 0, n) \in Bytes
  BY FormType
<1>4. PICK b \in Bytes : b = ServerHead(op, n) \o payload /\ Begins(b, Form(x, 0, n))
  BY <1>2, <1>3, BeginsWith
<1>5. /\ PayloadLength(b) = n /\ b[1] = x
      /\ Len(ServerHead(op, n)) = 2 + Extended(b)
  <2>1. /\ PayloadLength(b) = n /\ b[1] = x
        /\ Len(Form(x, 0, n)) = 2 + Extended(b)
    <3>1. PICK m \in {0, 128} : m = 0
      OBVIOUS
    <3>2. Begins(b, Form(x, m, n))
      BY <1>4, <3>1
    <3>3. /\ PayloadLength(b) = n /\ b[1] = x
          /\ Len(Form(x, m, n)) = 2 + Extended(b)
      BY <3>2, FormRead
    <3> QED
      BY <3>1, <3>3
  <2> QED
    BY <1>2, <2>1
<1>6. b[1] % 16 = op
  BY <1>1, <1>5
<1> QED
  BY <1>4, <1>5, <1>6 DEF ClientReads

(* The server's read_frame does so with what make_client_frame has put     *)
(* before a payload, whatever the four bytes of the mask are.              *)
THEOREM ClientFramesRead ==
  ASSUME NEW op \in 0..15, NEW n \in Nat, n < P64, NEW payload \in Bytes,
         NEW mask \in Bytes, Len(mask) = 4
  PROVE  ServerReads(ClientHead(op, n, mask) \o payload)
           = [op |-> op, length |-> n, head |-> Len(ClientHead(op, n, mask))]
<1>1. PICK x \in Nat : x = 128 + op /\ x % 16 = op
  OBVIOUS
<1>2. ClientHead(op, n, mask) = Form(x, 128, n) \o mask
  BY <1>1 DEF ClientHead, Form
<1>3. Form(x, 128, n) \in Bytes
  BY FormType
<1>4. PICK h \in Bytes : h = ClientHead(op, n, mask) /\ Begins(h, Form(x, 128, n))
                        /\ Len(h) = Len(Form(x, 128, n)) + 4
  <2>1. PICK s \in Bytes : s = Form(x, 128, n)
    BY <1>3
  <2>2. s \o mask \in Bytes /\ Begins(s \o mask, s) /\ Len(s \o mask) = Len(s) + 4
    <3>1. s \o mask \in Bytes /\ Begins(s \o mask, s)
      BY BeginsWith
    <3>2. Len(s \o mask) = Len(s) + Len(mask)
      BY Joined
    <3> QED
      BY <3>1, <3>2
  <2> QED
    BY <1>2, <2>1, <2>2
<1>5. PICK b \in Bytes : b = h \o payload /\ Begins(b, h)
  BY BeginsWith
<1>6. Begins(b, Form(x, 128, n))
  <2>1. Len(h) \in Nat /\ Len(Form(x, 128, n)) \in Nat
    BY <1>3, LenProperties DEF Bytes
  <2>2. \A i \in 1..Len(Form(x, 128, n)) : i \in 1..Len(h)
    BY <1>4, <2>1
  <2> QED
    BY <1>4, <1>5, <2>2 DEF Begins
<1>7. /\ PayloadLength(b) = n /\ b[1] = x /\ b[2] >= 128
      /\ Extended(b) \in Nat /\ Len(Form(x, 128, n)) = 2 + Extended(b)
  BY <1>6, FormRead
<1>8. b[1] % 16 = op
  BY <1>1, <1>7
<1>9. 2 + Extended(b) + (IF b[2] >= 128 THEN 4 ELSE 0) = Len(h)
  BY <1>4, <1>7
<1> QED
  BY <1>4, <1>5, <1>7, <1>8, <1>9 DEF ServerReads

(* recv_frame of a multiplexing connection finds the stream, the type and  *)
(* the length in the nine bytes that encode_frame has written.             *)
THEOREM MuxFramesRead ==
  ASSUME NEW sid \in Nat, sid < P32, NEW type \in Nat, NEW n \in Nat, n < P32,
         NEW payload \in Bytes
  PROVE  /\ Len(MuxHead(sid, type, n)) = 9
         /\ MuxReads(MuxHead(sid, type, n) \o payload)
              = [sid |-> sid, type |-> type, length |-> n]
<1>1. PICK r \in Bytes : r = U32(sid) /\ Len(r) = 4 /\ V32(r, 1) = sid
  BY RoundTrip32
<1>2. PICK u \in Bytes : u = U32(n) /\ Len(u) = 4 /\ V32(u, 1) = n
  BY RoundTrip32
<1>3. PICK y \in Bytes : y = <<type>> /\ Len(y) = 1 /\ y[1] = type
  BY Single
<1>4. PICK p \in Bytes : p = r \o y
  BY Joined
<1>5. PICK h \in Bytes : h = p \o u
  BY Joined
<1>6. PICK b \in Bytes : b = h \o payload /\ Begins(b, h)
  BY BeginsWith
<1>7. /\ Len(p) = 4 + 1
      /\ \A i \in 1..4 : p[i] = r[i]
      /\ \A i \in 1..1 : p[4 + i] = y[i]
  <2>1. /\ Len(r \o y) = Len(r) + Len(y)
        /\ \A i \in 1..Len(r) : (r \o y)[i] = r[i]
        /\ \A i \in 1..Len(y) : (r \o y)[Len(r) + i] = y[i]
    BY Joined
  <2> QED
    BY <1>1, <1>3, <1>4, <2>1
<1>8. /\ Len(h) = 5 + 4
      /\ \A i \in 1..5 : h[i] = p[i]
      /\ \A i \in 1..4 : h[5 + i] = u[i]
  <2>1. /\ Len(p \o u) = Len(p) + Len(u)
        /\ \A i \in 1..Len(p) : (p \o u)[i] = p[i]
        /\ \A i \in 1..Len(u) : (p \o u)[Len(p) + i] = u[i]
    BY Joined
  <2>2. Len(p) = 5
    BY <1>7
  <2> QED
    BY <1>2, <1>5, <2>1, <2>2
<1>9. /\ p[1] = r[1] /\ p[2] = r[2] /\ p[3] = r[3] /\ p[4] = r[4] /\ p[5] = type
  <2>1. 1 \in 1..4 /\ 2 \in 1..4 /\ 3 \in 1..4 /\ 4 \in 1..4 /\ 1 \in 1..1 /\ 4 + 1 = 5
    OBVIOUS
  <2> QED
    BY <1>3, <1>7, <2>1
<1>10. /\ h[1] = p[1] /\ h[2] = p[2] /\ h[3] = p[3] /\ h[4] = p[4] /\ h[5] = p[5]
       /\ h[6] = u[1] /\ h[7] = u[2] /\ h[8] = u[3] /\ h[9] = u[4]
  <2>1. /\ 1 \in 1..5 /\ 2 \in 1..5 /\ 3 \in 1..5 /\ 4 \in 1..5 /\ 5 \in 1..5
        /\ 1 \in 1..4 /\ 2 \in 1..4 /\ 3 \in 1..4 /\ 4 \in 1..4
        /\ 5 + 1 = 6 /\ 5 + 2 = 7 /\ 5 + 3 = 8 /\ 5 + 4 = 9
    OBVIOUS
  <2> QED
    BY <1>8, <2>1
<1>11. \A i \in 1..9 : b[i] = h[i]
  <2>1. Len(h) = 9
    BY <1>8
  <2> QED
    BY <1>6, <2>1 DEF Begins
<1>12. /\ b[1] = r[1] /\ b[2] = r[2] /\ b[3] = r[3] /\ b[4] = r[4] /\ b[5] = type
       /\ b[6] = u[1] /\ b[7] = u[2] /\ b[8] = u[3] /\ b[9] = u[4]
  BY <1>9, <1>10, <1>11
<1>13. V32(b, 1) = V32(r, 1) /\ V32(b, 6) = V32(u, 1)
  BY <1>12 DEF V32, V16
<1>14. MuxHead(sid, type, n) = h
  BY <1>1, <1>2, <1>3, <1>4, <1>5 DEF MuxHead
<1>15. MuxReads(b) = [sid |-> sid, type |-> type, length |-> n]
  BY <1>1, <1>2, <1>12, <1>13 DEF MuxReads
<1> QED
  BY <1>6, <1>8, <1>14, <1>15
-----------------------------------------------------------------------------
(* The session.  What its output may look like is said of two cells, one   *)
(* somewhere behind the other: it then holds of the three parts of the     *)
(* output, wire, chunk and wbuf, and from one to the next, and stays true  *)
(* when a chunk is lost.                                                   *)

(* What the mutants of WsSession change is expanded everywhere. *)
USE DEF ChunkLost, AnswersAlways, AfterNothing, NeedsNoClose

(* Behind a CLOSE come its own payload and PONGs, PONGs come in the order  *)
(* of the frames they answer, one for each.                                *)
Follows(c, d) ==
  /\ c.op = CLOSE => d.op \in {CLOSE, PONG} /\ (d.op = CLOSE => d.head = <<>>)
  /\ c.op = PONG /\ d.op = PONG /\ d.head # <<>> => c.of < d.of

Ordered(s) == \A j, k \in DOMAIN s : j < k => Follows(s[j], s[k])
Across(s, u) == \A j \in DOMAIN s, k \in DOMAIN u : Follows(s[j], u[k])

OrderInv ==
  /\ Ordered(wire) /\ Ordered(chunk) /\ Ordered(wbuf)
  /\ Across(wire, chunk) /\ Across(wire, wbuf) /\ Across(chunk, wbuf)

CellsIn(s) == {s[k] : k \in DOMAIN s}
Output == CellsIn(wire) \cup CellsIn(chunk) \cup CellsIn(wbuf)

Headed(c, op) == c.op = op /\ c.head # <<>>
Pong(c, r) == Headed(c, PONG) /\ c.of = r

OnWire(r) == \E c \in CellsIn(wire) : Pong(c, r)

(* The thread will not come to the finally clause any more. *)
Leaving ==
  \/ at \in {"closing", "closed"}
  \/ at = "writing" /\ then.done \in {"closing", "closed"}

(* What is true of every cell of the output. *)
CellOK(c) ==
  /\ c.op = CLOSE => closed
  /\ c.op = PONG => Ping(c.of)
  /\ Headed(c, PONG) =>
       /\ ClientReads(c.head).length = Length[c.of]
       /\ \A r \in 1..(c.of - 1) : Ping(r) => OnWire(r)
  /\ c.op = Upgraded /\ Leaving => closed \/ broken

CellsInv == \A c \in Output : CellOK(c)

(* Where the thread is: nothing is written before the upgrade, and what it *)
(* has written is sent unless a sendall() failed.                          *)
ThreadInv ==
  /\ at = "upgrading" =>
       wire = <<>> /\ chunk = <<>> /\ wbuf = <<>> /\ ~closed /\ ~broken /\ read = 0
  /\ ~broken /\ at # "writing" => wbuf = <<>>
  /\ at \in {"handler", "receiving"} => ~broken
  /\ at = "writing" =>
       /\ then.done \in {"handler", "receiving", "finally", "closing"}
       /\ then.failed \in {"finally", "closing"}
       /\ then.done \in {"handler", "receiving"} => ~broken

(* The CLOSE of a closed connection is somewhere. *)
CloseInv == closed /\ ~broken => \E c \in Output : Headed(c, CLOSE)

(* The pings read are answered, or their answers are being written. *)
PingInv ==
  /\ at \in {"receiving", "handler"} => \A r \in 1..read : Ping(r) => OnWire(r)
  /\ at = "writing" /\ then.done \in {"receiving", "handler"} =>
       \A r \in 1..read : Ping(r) => \E c \in Output : Pong(c, r)

IInv == TypeOK /\ OrderInv /\ CellsInv /\ ThreadInv /\ CloseInv /\ PingInv

-----------------------------------------------------------------------------
(* The cells of a frame *)

LEMMA BytesOf16 ==
  ASSUME NEW n \in Nat, n < P16
  PROVE  U16(n) \in Seq(Byte)
<1>1. n \div 256 \in Byte /\ n % 256 \in Byte BY SMT DEF P16, Byte
<1> QED BY <1>1 DEF U16

LEMMA BytesOf64 ==
  ASSUME NEW n \in Nat, n < P64
  PROVE  U64(n) \in Seq(Byte)
<1> DEFINE a == n \div 65536
<1> DEFINE b == a \div 65536
<1> DEFINE c == b \div 65536
<1>1. /\ a \in Nat /\ n % 65536 \in Nat /\ n % 65536 < P16
      /\ n = a * 65536 + (n % 65536)
  BY Split
<1>2. a < P48 BY <1>1, SMT DEF P64, P48, P32, P16
<1> HIDE DEF a
<1>3. /\ b \in Nat /\ a % 65536 \in Nat /\ a % 65536 < P16
      /\ a = b * 65536 + (a % 65536)
  BY <1>1, Split DEF b
<1>4. b < P32 BY <1>1, <1>2, <1>3, SMT DEF P48, P32, P16
<1> HIDE DEF b
<1>5. /\ c \in Nat /\ b % 65536 \in Nat /\ b % 65536 < P16
      /\ b = c * 65536 + (b % 65536)
  BY <1>3, Split DEF c
<1>6. c < P16 BY <1>3, <1>4, <1>5, SMT DEF P32, P16
<1>7. U16(c) \in Seq(Byte) /\ U16(b % 65536) \in Seq(Byte) BY <1>5, <1>6, BytesOf16
<1>8. U16(a % 65536) \in Seq(Byte) /\ U16(n % 65536) \in Seq(Byte) BY <1>1, <1>3, BytesOf16
<1>9. U32(b) \in Seq(Byte) BY <1>7, ConcatProperties DEF U32, c
<1>10. U64(n) = (U32(b) \o U16(a % 65536)) \o U16(n % 65536) BY DEF U64, a, b
<1> QED BY <1>8, <1>9, <1>10, ConcatProperties

LEMMA HeadBytes ==
  ASSUME NEW op \in Opcodes, NEW n \in Nat, n < P64
  PROVE  /\ ServerHead(op, n) \in Seq(Byte) /\ ServerHead(op, n) # <<>>
         /\ ClientReads(ServerHead(op, n)).length = n
<1>1. op \in 0..15 /\ 128 + op \in Byte /\ 126 \in Byte /\ 127 \in Byte
  BY SMT DEF Opcodes, CONT, TEXT, BIN, CLOSE, PING, PONG, Byte
<1> HIDE DEF Opcodes, CONT, TEXT, BIN, CLOSE, PING, PONG
<1>2. ServerHead(op, n) \in Seq(Byte)
  <2>1. CASE n < 126
    <3>1. n \in Byte BY <2>1, SMT DEF Byte
    <3>2. ServerHead(op, n) = <<128 + op, n>> BY <2>1 DEF ServerHead
    <3> QED BY <3>1, <3>2, <1>1
  <2>2. CASE 126 <= n /\ n < 65536
    <3>1. U16(n) \in Seq(Byte) BY <2>2, BytesOf16 DEF P16
    <3>2. <<128 + op, 126>> \in Seq(Byte) BY <1>1
    <3>3. ServerHead(op, n) = <<128 + op, 126>> \o U16(n) BY <2>2 DEF ServerHead
    <3> QED BY <3>1, <3>2, <3>3, ConcatProperties
  <2>3. CASE n >= 65536
    <3>1. U64(n) \in Seq(Byte) BY BytesOf64
    <3>2. <<128 + op, 127>> \in Seq(Byte) BY <1>1
    <3>3. ServerHead(op, n) = <<128 + op, 127>> \o U64(n) BY <2>3 DEF ServerHead
    <3> QED BY <3>1, <3>2, <3>3, ConcatProperties
  <2> QED BY <2>1, <2>2, <2>3
<1>3. /\ ClientReads(ServerHead(op, n) \o <<>>)
            = [op |-> op, length |-> n, head |-> Len(ServerHead(op, n))]
  <2>1. <<>> \in Bytes BY DEF Bytes
  <2> QED BY <1>1, <2>1, ServerFramesRead
<1>4. ServerHead(op, n) \o <<>> = ServerHead(op, n) BY <1>2, ConcatEmptySeq
<1>5. ServerHead(op, n) # <<>>
  <2>1. PICK x \in Nat : x = 128 + op BY <1>1
  <2>2. ServerHead(op, n) = Form(x, 0, n) BY <2>1 DEF ServerHead, Form
  <2>3. PICK m \in {0, 128} : m = 0 OBVIOUS
  <2>4. Form(x, m, n) \in Bytes BY FormType
  <2>5. Begins(Form(x, m, n), Form(x, m, n)) BY DEF Begins
  <2>6. /\ Extended(Form(x, m, n)) \in Nat
        /\ Len(Form(x, m, n)) = 2 + Extended(Form(x, m, n))
    <3>1. PICK b \in Bytes : b = Form(x, m, n) BY <2>4
    <3>2. Extended(b) \in Nat /\ Len(Form(x, m, n)) = 2 + Extended(b)
      BY <2>5, <3>1, FormRead
    <3> QED BY <3>1, <3>2
  <2>7. Len(Form(x, m, n)) # 0 BY <2>6
  <2>8. Form(x, m, n) # <<>> BY <2>7, EmptySeq
  <2> QED BY <2>2, <2>3, <2>8
<1> QED BY <1>2, <1>3, <1>4, <1>5

(* The first cell of a frame has its header, the others have none. *)
LEMMA CellsOfFrame ==
  ASSUME NEW f \in Nat \ {0}, NEW op \in Opcodes \cup {Upgraded, Refused}, NEW of \in 0..N,
         NEW n \in Nat, n < P64
  PROVE  /\ CellsOf(f, op, of, n) \in Seq(Cell)
         /\ Len(CellsOf(f, op, of, n)) >= 1
         /\ \A k \in DOMAIN CellsOf(f, op, of, n) :
              /\ CellsOf(f, op, of, n)[k].op = op /\ CellsOf(f, op, of, n)[k].of = of
              /\ k = 1 => CellsOf(f, op, of, n)[k].head
                            = IF op \in Opcodes THEN ServerHead(op, n) ELSE <<>>
              /\ k > 1 => CellsOf(f, op, of, n)[k].head = <<>>
<1> DEFINE h == IF op \in Opcodes THEN ServerHead(op, n) ELSE <<>>
<1> DEFINE cell(head, size) == [f |-> f, op |-> op, of |-> of, head |-> head, size |-> size]
<1>1. h \in Seq(Byte) BY HeadBytes
<1> HIDE DEF h
<1>2. n \div 2 \in Nat /\ n - (n \div 2) \in Nat BY SMT
<1>3. \A s \in Nat : cell(h, s) \in Cell /\ cell(<<>>, s) \in Cell
  BY <1>1 DEF Cell
<1>4. PICK c \in Cell : c = cell(h, 0) BY <1>3
<1>5. c.op = op /\ c.of = of /\ c.head = h BY <1>4
<1>6. ASSUME NEW s \in Nat
      PROVE  cell(<<>>, s).op = op /\ cell(<<>>, s).of = of /\ cell(<<>>, s).head = <<>>
  OBVIOUS
<1>7. CASE n = 0
  <2>1. CellsOf(f, op, of, n) = <<c>> BY <1>4, <1>7 DEF CellsOf, h
  <2> QED BY <2>1, <1>5, SMT DEF h
<1>8. CASE n = 1
  <2>1. PICK d \in Cell : d = cell(<<>>, 1) BY <1>3
  <2>2. d.op = op /\ d.of = of /\ d.head = <<>> BY <2>1
  <2>3. CellsOf(f, op, of, n) = <<c, d>> BY <1>4, <1>8, <2>1 DEF CellsOf, h
  <2> QED BY <2>2, <2>3, <1>5, SMT DEF h
<1>9. CASE n \notin {0, 1}
  <2>1. PICK d \in Cell : d = cell(<<>>, n \div 2) BY <1>2, <1>3
  <2>2. PICK e \in Cell : e = cell(<<>>, n - (n \div 2)) BY <1>2, <1>3
  <2>3. d.op = op /\ d.of = of /\ d.head = <<>> BY <2>1
  <2>4. e.op = op /\ e.of = of /\ e.head = <<>> BY <2>2
  <2>5. CellsOf(f, op, of, n) = <<c, d, e>> BY <1>4, <1>9, <2>1, <2>2 DEF CellsOf, h
  <2> QED BY <2>3, <2>4, <2>5, <1>5, SMT DEF h
<1> QED BY <1>7, <1>8, <1>9

-----------------------------------------------------------------------------
(* What the steps of write_frame do to the output *)

(* Two sequences strung together. *)
LEMMA Strung ==
  ASSUME NEW a \in Seq(Cell), NEW b \in Seq(Cell)
  PROVE  /\ a \o b \in Seq(Cell)
         /\ CellsIn(a \o b) = CellsIn(a) \cup CellsIn(b)
         /\ Ordered(a) /\ Ordered(b) /\ Across(a, b) => Ordered(a \o b)
         /\ \A c \in Seq(Cell) : Across(c, a) /\ Across(c, b) => Across(c, a \o b)
<1> DEFINE s == a \o b
<1>1. /\ s \in Seq(Cell) /\ Len(a) \in Nat /\ Len(b) \in Nat
      /\ DOMAIN a = 1..Len(a) /\ DOMAIN b = 1..Len(b) /\ DOMAIN s = 1..(Len(a) + Len(b))
      /\ \A i \in 1..(Len(a) + Len(b)) : s[i] = IF i <= Len(a) THEN a[i] ELSE b[i - Len(a)]
  <2>1. s \in Seq(Cell) /\ Len(s) = Len(a) + Len(b) BY ConcatProperties
  <2>2. \A i \in 1..(Len(a) + Len(b)) : s[i] = IF i <= Len(a) THEN a[i] ELSE b[i - Len(a)]
    BY ConcatProperties
  <2> QED BY <2>1, <2>2, LenProperties
<1> HIDE DEF s
<1>2. /\ \A k \in DOMAIN a : k \in DOMAIN s /\ s[k] = a[k]
      /\ \A k \in DOMAIN b : Len(a) + k \in DOMAIN s /\ s[Len(a) + k] = b[k]
      /\ \A k \in DOMAIN s : k \notin DOMAIN a => k - Len(a) \in DOMAIN b /\ s[k] = b[k - Len(a)]
  BY <1>1, SMT
<1>3. CellsIn(s) = CellsIn(a) \cup CellsIn(b)
  <2>1. ASSUME NEW k \in DOMAIN s PROVE s[k] \in CellsIn(a) \cup CellsIn(b)
    BY <1>2 DEF CellsIn
  <2>2. \A k \in DOMAIN a : a[k] \in CellsIn(s) BY <1>2 DEF CellsIn
  <2>3. \A k \in DOMAIN b : b[k] \in CellsIn(s) BY <1>2 DEF CellsIn
  <2> QED BY <2>1, <2>2, <2>3 DEF CellsIn
<1>4. ASSUME Ordered(a), Ordered(b), Across(a, b) PROVE Ordered(s)
  <2>1. ASSUME NEW j \in DOMAIN s, NEW k \in DOMAIN s, j < k PROVE Follows(s[j], s[k])
    <3>1. CASE k \in DOMAIN a
      <4>1. j \in DOMAIN a BY <3>1, <2>1, <1>1, SMT
      <4> QED BY <4>1, <3>1, <2>1, <1>2, <1>4 DEF Ordered
    <3>2. CASE k \notin DOMAIN a /\ j \in DOMAIN a
      BY <3>2, <1>2, <1>4 DEF Across
    <3>3. CASE k \notin DOMAIN a /\ j \notin DOMAIN a
      <4>1. j - Len(a) < k - Len(a) BY <2>1, <1>1, SMT
      <4> QED BY <4>1, <3>3, <1>2, <1>4 DEF Ordered
    <3> QED BY <3>1, <3>2, <3>3
  <2> QED BY <2>1 DEF Ordered
<1>5. ASSUME NEW c \in Seq(Cell), Across(c, a), Across(c, b) PROVE Across(c, s)
  BY <1>2, <1>5 DEF Across
<1> QED BY <1>1, <1>3, <1>4, <1>5 DEF s

(* A sequence cut in two. *)
LEMMA CutInTwo ==
  ASSUME NEW s \in Seq(Cell), NEW m \in 0..Len(s)
  PROVE  /\ SubSeq(s, 1, m) \in Seq(Cell) /\ SubSeq(s, m + 1, Len(s)) \in Seq(Cell)
         /\ CellsIn(s) = CellsIn(SubSeq(s, 1, m)) \cup CellsIn(SubSeq(s, m + 1, Len(s)))
         /\ Ordered(s) => /\ Ordered(SubSeq(s, 1, m)) /\ Ordered(SubSeq(s, m + 1, Len(s)))
                          /\ Across(SubSeq(s, 1, m), SubSeq(s, m + 1, Len(s)))
         /\ \A c \in Seq(Cell) : Across(c, s) =>
              Across(c, SubSeq(s, 1, m)) /\ Across(c, SubSeq(s, m + 1, Len(s)))
<1> DEFINE a == SubSeq(s, 1, m)
<1> DEFINE b == SubSeq(s, m + 1, Len(s))
<1>0. Len(s) \in Nat /\ DOMAIN s = 1..Len(s) /\ m \in Nat /\ m <= Len(s) BY LenProperties, SMT
<1>1. /\ a \in Seq(Cell) /\ DOMAIN a = 1..m /\ \A k \in 1..m : a[k] = s[k]
      /\ b \in Seq(Cell) /\ DOMAIN b = 1..(Len(s) - m) /\ \A k \in 1..(Len(s) - m) : b[k] = s[m + k]
  BY <1>0, SMT
<1> HIDE DEF a, b
<1>2. /\ \A k \in DOMAIN a : k \in DOMAIN s /\ a[k] = s[k]
      /\ \A k \in DOMAIN b : m + k \in DOMAIN s /\ b[k] = s[m + k]
      /\ \A k \in DOMAIN s : k \in DOMAIN a \/ (k - m \in DOMAIN b /\ s[k] = b[k - m])
      /\ \A j \in DOMAIN a, k \in DOMAIN b : j < m + k
      /\ \A j, k \in DOMAIN b : j < k => m + j < m + k
  BY <1>0, <1>1, SMT
<1>3. CellsIn(s) = CellsIn(a) \cup CellsIn(b)
  <2>1. \A k \in DOMAIN s : s[k] \in CellsIn(a) \cup CellsIn(b) BY <1>2 DEF CellsIn
  <2>2. \A k \in DOMAIN a : a[k] \in CellsIn(s) BY <1>2 DEF CellsIn
  <2>3. \A k \in DOMAIN b : b[k] \in CellsIn(s) BY <1>2 DEF CellsIn
  <2> QED BY <2>1, <2>2, <2>3 DEF CellsIn
<1>4. ASSUME Ordered(s) PROVE Ordered(a) /\ Ordered(b) /\ Across(a, b)
  BY <1>2, <1>4 DEF Ordered, Across
<1>5. ASSUME NEW c \in Seq(Cell), Across(c, s) PROVE Across(c, a) /\ Across(c, b)
  BY <1>2, <1>5 DEF Across
<1> QED BY <1>1, <1>3, <1>4, <1>5 DEF a, b

(* The first cell of a sequence goes to the end of another. *)
LEMMA FirstMoves ==
  ASSUME NEW s \in Seq(Cell), NEW c \in Seq(Cell), c # <<>>
  PROVE  /\ Append(s, Head(c)) \in Seq(Cell) /\ Tail(c) \in Seq(Cell)
         /\ CellsIn(s) \subseteq CellsIn(Append(s, Head(c)))
         /\ CellsIn(Append(s, Head(c))) \cup CellsIn(Tail(c)) = CellsIn(s) \cup CellsIn(c)
         /\ Ordered(s) /\ Ordered(c) /\ Across(s, c) =>
              /\ Ordered(Append(s, Head(c))) /\ Ordered(Tail(c))
              /\ Across(Append(s, Head(c)), Tail(c))
         /\ \A b \in Seq(Cell) : Across(s, b) /\ Across(c, b) =>
              Across(Append(s, Head(c)), b) /\ Across(Tail(c), b)
<1> DEFINE u == Append(s, Head(c))
<1> DEFINE d == Tail(c)
<1>0. /\ Len(s) \in Nat /\ DOMAIN s = 1..Len(s)
      /\ Len(c) \in Nat /\ DOMAIN c = 1..Len(c) /\ Len(c) > 0
  BY LenProperties, EmptySeq
<1>1. /\ u \in Seq(Cell) /\ DOMAIN u = 1..(Len(s) + 1) /\ \A k \in 1..Len(s) : u[k] = s[k]
      /\ u[Len(s) + 1] = c[1]
      /\ d \in Seq(Cell) /\ DOMAIN d = 1..(Len(c) - 1) /\ \A k \in 1..(Len(c) - 1) : d[k] = c[k + 1]
  BY <1>0, SMT
<1> HIDE DEF u, d
<1>2. /\ \A k \in DOMAIN s : k \in DOMAIN u /\ u[k] = s[k]
      /\ \A k \in DOMAIN u : k \in DOMAIN s \/ k = Len(s) + 1
      /\ \A k \in DOMAIN u : ~(Len(s) + 1 < k)
      /\ Len(s) + 1 \in DOMAIN u /\ u[Len(s) + 1] = c[1] /\ 1 \in DOMAIN c
      /\ \A k \in DOMAIN d : k + 1 \in DOMAIN c /\ d[k] = c[k + 1] /\ 1 < k + 1
      /\ \A j, k \in DOMAIN d : j < k => j + 1 < k + 1
      /\ \A k \in DOMAIN c : k = 1 \/ (k - 1 \in DOMAIN d /\ c[k] = d[k - 1])
  BY <1>0, <1>1, SMT
<1>3. CellsIn(u) = CellsIn(s) \cup {c[1]} /\ CellsIn(c) = CellsIn(d) \cup {c[1]}
  <2>1. \A k \in DOMAIN u : u[k] \in CellsIn(s) \cup {c[1]} BY <1>2 DEF CellsIn
  <2>2. \A k \in DOMAIN s : s[k] \in CellsIn(u) BY <1>2 DEF CellsIn
  <2>3. c[1] \in CellsIn(u) /\ c[1] \in CellsIn(c) BY <1>2 DEF CellsIn
  <2>4. \A k \in DOMAIN c : c[k] \in CellsIn(d) \cup {c[1]} BY <1>2 DEF CellsIn
  <2>5. \A k \in DOMAIN d : d[k] \in CellsIn(c) BY <1>2 DEF CellsIn
  <2> QED BY <2>1, <2>2, <2>3, <2>4, <2>5 DEF CellsIn
<1>4. ASSUME Ordered(s), Ordered(c), Across(s, c)
      PROVE  Ordered(u) /\ Ordered(d) /\ Across(u, d)
  <2>1. ASSUME NEW j \in DOMAIN u, NEW k \in DOMAIN u, j < k PROVE Follows(u[j], u[k])
    <3>1. j \in DOMAIN s BY <2>1, <1>2
    <3>2. CASE k \in DOMAIN s BY <3>1, <3>2, <2>1, <1>2, <1>4 DEF Ordered
    <3>3. CASE k = Len(s) + 1 BY <3>1, <3>3, <1>2, <1>4 DEF Across
    <3> QED BY <3>2, <3>3, <1>2
  <2>2. Ordered(d) BY <1>2, <1>4 DEF Ordered
  <2>3. ASSUME NEW j \in DOMAIN u, NEW k \in DOMAIN d PROVE Follows(u[j], d[k])
    <3>1. CASE j \in DOMAIN s BY <3>1, <1>2, <1>4 DEF Across
    <3>2. CASE j = Len(s) + 1 BY <3>2, <1>2, <1>4 DEF Ordered
    <3> QED BY <3>1, <3>2, <1>2
  <2> QED BY <2>1, <2>2, <2>3 DEF Ordered, Across
<1>5. ASSUME NEW b \in Seq(Cell), Across(s, b), Across(c, b) PROVE Across(u, b) /\ Across(d, b)
  BY <1>2, <1>5 DEF Across
<1> QED BY <1>1, <1>3, <1>4, <1>5 DEF u, d

(* A frame goes to the end of the output. *)
LEMMA WriteOut ==
  ASSUME TypeOK, OrderInv,
         NEW op \in Opcodes \cup {Upgraded, Refused}, NEW n \in Nat, n < P64,
         NEW of \in 0..N, NEW done, NEW failed, Write(op, n, of, done, failed),
         \A c \in Output, d \in Cell : d.op = op /\ d.of = of => Follows(c, d)
  PROVE  /\ OrderInv'
         /\ wbuf' \in Seq(Cell) /\ frames' \in Nat
         /\ at' = "writing" /\ then' = [done |-> done, failed |-> failed]
         /\ chunk' = chunk /\ wire' = wire /\ broken' = broken
         /\ Output \subseteq Output'
         /\ \A c \in Output' : c \in Output \/
              /\ c \in Cell /\ c.op = op /\ c.of = of
              /\ c.head # <<>> => op \in Opcodes /\ c.head = ServerHead(op, n)
         /\ op \in Opcodes => \E c \in Output' : Headed(c, op) /\ c.of = of
<1> DEFINE new == CellsOf(frames + 1, op, of, n)
<1>1. /\ wbuf' = wbuf \o new /\ frames' = frames + 1 /\ at' = "writing"
      /\ then' = [done |-> done, failed |-> failed]
      /\ chunk' = chunk /\ wire' = wire /\ broken' = broken
  BY DEF Write
<1>t. /\ wire \in Seq(Cell) /\ chunk \in Seq(Cell) /\ wbuf \in Seq(Cell) /\ frames \in Nat
      /\ frames + 1 \in Nat \ {0}
  <2>1. wire \in Seq(Cell) /\ chunk \in Seq(Cell) /\ wbuf \in Seq(Cell) /\ frames \in Nat
    BY DEF TypeOK
  <2> QED BY <2>1, SMT
<1>2. /\ new \in Seq(Cell) /\ Len(new) >= 1
      /\ \A k \in DOMAIN new :
           /\ new[k].op = op /\ new[k].of = of
           /\ k = 1 => new[k].head = IF op \in Opcodes THEN ServerHead(op, n) ELSE <<>>
           /\ k > 1 => new[k].head = <<>>
  <2>1. PICK f \in Nat \ {0} : f = frames + 1 BY <1>t
  <2>2. /\ CellsOf(f, op, of, n) \in Seq(Cell) /\ Len(CellsOf(f, op, of, n)) >= 1
        /\ \A k \in DOMAIN CellsOf(f, op, of, n) :
             /\ CellsOf(f, op, of, n)[k].op = op /\ CellsOf(f, op, of, n)[k].of = of
             /\ k = 1 => CellsOf(f, op, of, n)[k].head
                           = IF op \in Opcodes THEN ServerHead(op, n) ELSE <<>>
             /\ k > 1 => CellsOf(f, op, of, n)[k].head = <<>>
    BY CellsOfFrame
  <2>3. new = CellsOf(f, op, of, n) BY <2>1
  <2> HIDE DEF new
  <2> QED BY <2>2, <2>3
<1> HIDE DEF new
<1>3. DOMAIN new = 1..Len(new) /\ Len(new) \in Nat /\ 1 \in DOMAIN new
  <2>1. DOMAIN new = 1..Len(new) /\ Len(new) \in Nat BY <1>2, LenProperties
  <2> QED BY <2>1, <1>2, SMT
<1>4. \A k \in DOMAIN new : new[k] \in Cell BY <1>2, <1>3, ElementOfSeq
<1>5. Ordered(new)
  <2>1. ASSUME NEW j \in DOMAIN new, NEW k \in DOMAIN new, j < k PROVE Follows(new[j], new[k])
    <3>1. k > 1 BY <2>1, <1>3, SMT
    <3>2. new[k].head = <<>> /\ new[j].op = op /\ new[k].op = op BY <3>1, <1>2
    <3> QED BY <3>2 DEF Follows
  <2> QED BY <2>1 DEF Ordered
<1>6. Across(wire, new) /\ Across(chunk, new) /\ Across(wbuf, new)
  <2>1. \A c \in Output, k \in DOMAIN new : Follows(c, new[k]) BY <1>2, <1>4
  <2> QED BY <2>1 DEF Across, Output, CellsIn
<1>7. /\ wbuf \o new \in Seq(Cell)
      /\ CellsIn(wbuf \o new) = CellsIn(wbuf) \cup CellsIn(new)
      /\ Ordered(wbuf \o new)
      /\ Across(wire, wbuf \o new) /\ Across(chunk, wbuf \o new)
  BY <1>t, <1>2, <1>5, <1>6, Strung DEF OrderInv
<1>8. OrderInv'
  <2>1. /\ Ordered(wire') /\ Ordered(chunk') /\ Ordered(wbuf')
        /\ Across(wire', chunk') /\ Across(wire', wbuf') /\ Across(chunk', wbuf')
    BY <1>1, <1>7 DEF OrderInv
  <2> QED BY <2>1 DEF OrderInv, Ordered, Across
<1>9. Output' = Output \cup CellsIn(new)
  <2>1. Output' = CellsIn(wire') \cup CellsIn(chunk') \cup CellsIn(wbuf') BY DEF Output, CellsIn
  <2> QED BY <2>1, <1>1, <1>7 DEF Output
<1>10. ASSUME NEW c \in CellsIn(new)
       PROVE  /\ c \in Cell /\ c.op = op /\ c.of = of
              /\ c.head # <<>> => op \in Opcodes /\ c.head = ServerHead(op, n)
  <2>1. PICK k \in DOMAIN new : c = new[k] BY DEF CellsIn
  <2>2. k = 1 \/ k > 1 BY <1>3, SMT
  <2> QED BY <2>1, <2>2, <1>2, <1>4
<1>11. ASSUME op \in Opcodes PROVE \E c \in Output' : Headed(c, op) /\ c.of = of
  <2>1. new[1] \in CellsIn(new) BY <1>3 DEF CellsIn
  <2>2. new[1].head = ServerHead(op, n) /\ new[1].op = op /\ new[1].of = of
    BY <1>2, <1>3, <1>11
  <2>3. ServerHead(op, n) # <<>> BY <1>11, HeadBytes
  <2> QED BY <2>1, <2>2, <2>3, <1>9 DEF Headed
<1> QED BY <1>1, <1>t, <1>7, <1>8, <1>9, <1>10, <1>11

LEMMA OutputType ==
  ASSUME TypeOK
  PROVE  /\ Output \subseteq Cell /\ CellsIn(wire) \subseteq Output
         /\ \A c \in Output : c.op = PONG => c.of \in Nat
<1>1. \A s \in Seq(Cell) : CellsIn(s) \subseteq Cell BY LenProperties, ElementOfSeq DEF CellsIn
<1>2. Output \subseteq Cell /\ CellsIn(wire) \subseteq Output BY <1>1 DEF Output, TypeOK
<1>3. \A c \in Cell : c.of \in 0..N BY DEF Cell
<1>4. 0..N \subseteq Nat BY WsAssumption, SMT
<1> QED BY <1>2, <1>3, <1>4

(* What is true of a cell stays true. *)
LEMMA CellKept ==
  ASSUME NEW c, CellOK(c),
         read \in Nat, read' \in Nat, read <= read', closed => closed', broken => broken',
         CellsIn(wire) \subseteq CellsIn(wire'),
         c.op = Upgraded /\ Leaving' => Leaving \/ closed' \/ broken'
  PROVE  CellOK(c)'
<1>1. c.op = CLOSE => closed' BY DEF CellOK
<1>2. \A r : Ping(r) => Ping(r)' BY SMT DEF Ping
<1>3. \A r : OnWire(r) => OnWire(r)' BY DEF OnWire, Pong, CellsIn
<1>4. c.op = PONG => Ping(c.of)' BY <1>2 DEF CellOK
<1>5. ASSUME Headed(c, PONG)
      PROVE  /\ ClientReads(c.head).length = Length[c.of]
             /\ \A r \in 1..(c.of - 1) : Ping(r)' => OnWire(r)'
  <2>1. Ping(c.of) BY <1>5 DEF CellOK, Headed
  <2>2. ASSUME NEW r \in 1..(c.of - 1), Ping(r)' PROVE Ping(r)
    BY <2>1, <2>2, SMT DEF Ping
  <2> QED BY <2>2, <1>3, <1>5 DEF CellOK
<1>6. c.op = Upgraded /\ Leaving' => closed' \/ broken' BY DEF CellOK
<1> QED BY <1>1, <1>4, <1>5, <1>6 DEF CellOK, Headed

-----------------------------------------------------------------------------
(* Steps that write nothing, and steps that begin a frame *)

LEMMA QuietStep ==
  ASSUME IInv, TypeOK', UNCHANGED outVars, read <= read', closed' = closed,
         Leaving' => Leaving \/ closed \/ broken \/ Output = {},
         ThreadInv', PingInv'
  PROVE  IInv'
<1>1. /\ wire' = wire /\ chunk' = chunk /\ wbuf' = wbuf /\ broken' = broken
      /\ OrderInv /\ CellsInv /\ CloseInv
  BY DEF outVars, IInv
<1>2. read \in Nat /\ read' \in Nat
  <2>1. arrived \in 0..N /\ read \in 0..arrived BY DEF IInv, TypeOK
  <2>2. arrived' \in 0..N /\ read' \in 0..arrived' BY DEF TypeOK
  <2> QED BY <2>1, <2>2, SMT
<1>3. Output' = Output /\ CellsIn(wire') = CellsIn(wire)
  BY <1>1 DEF Output, CellsIn
<1>4. OrderInv' BY <1>1, Zenon DEF OrderInv, Ordered, Across
<1>5. CellsInv'
  <2>1. ASSUME NEW c \in Output PROVE CellOK(c)'
    <3>1. CellOK(c) BY <1>1 DEF CellsInv
    <3>2. c.op = Upgraded /\ Leaving' => Leaving \/ closed' \/ broken' BY <1>1
    <3> QED BY <3>1, <3>2, <1>1, <1>2, <1>3, CellKept
  <2> QED BY <2>1, <1>3 DEF CellsInv
<1>6. CloseInv' BY <1>1, <1>3 DEF CloseInv
<1> QED BY <1>4, <1>5, <1>6 DEF IInv

LEMMA WriteStep ==
  ASSUME IInv, TypeOK',
         NEW op \in Opcodes \cup {Upgraded, Refused}, NEW n \in Nat, n < P64,
         NEW of \in 0..N,
         NEW done \in {"handler", "receiving", "finally", "closing"},
         NEW failed \in {"finally", "closing"},
         Write(op, n, of, done, failed),
         \A c \in Output, d \in Cell : d.op = op /\ d.of = of => Follows(c, d),
         \A c \in Cell :
           /\ c.op = op /\ c.of = of
           /\ c.head # <<>> => op \in Opcodes /\ c.head = ServerHead(op, n)
           => CellOK(c)',
         done \in {"handler", "receiving"} => ~broken,
         read <= read', closed => closed', closed' => closed \/ op = CLOSE,
         done = "closing" => Leaving \/ closed' \/ broken \/ Output = {},
         PingInv'
  PROVE  IInv'
<1>t. TypeOK /\ OrderInv /\ CellsInv /\ CloseInv BY DEF IInv
<1>1. /\ OrderInv'
      /\ at' = "writing" /\ then' = [done |-> done, failed |-> failed]
      /\ chunk' = chunk /\ wire' = wire /\ broken' = broken
      /\ Output \subseteq Output'
      /\ \A c \in Output' : c \in Output \/
           /\ c \in Cell /\ c.op = op /\ c.of = of
           /\ c.head # <<>> => op \in Opcodes /\ c.head = ServerHead(op, n)
      /\ op \in Opcodes => \E c \in Output' : Headed(c, op) /\ c.of = of
  BY <1>t, WriteOut
<1>2. read \in Nat /\ read' \in Nat
  <2>1. arrived \in 0..N /\ read \in 0..arrived BY <1>t DEF TypeOK
  <2>2. arrived' \in 0..N /\ read' \in 0..arrived' BY DEF TypeOK
  <2> QED BY <2>1, <2>2, SMT
<1>3. then'.done = done /\ then'.failed = failed BY <1>1
<1>4. CellsInv'
  <2>1. ASSUME NEW c \in Output PROVE CellOK(c)'
    <3>1. CellOK(c) BY <1>t DEF CellsInv
    <3>2. Leaving' => done = "closing" BY <1>1, <1>3 DEF Leaving
    <3>3. c.op = Upgraded /\ Leaving' => Leaving \/ closed' \/ broken' BY <3>2, <1>1
    <3>4. CellsIn(wire) \subseteq CellsIn(wire') BY <1>1
    <3> QED BY <3>1, <3>3, <3>4, <1>1, <1>2, CellKept
  <2>2. \A c \in Output' : CellOK(c)' BY <2>1, <1>1
  <2> QED BY <2>2 DEF CellsInv
<1>5. ThreadInv' BY <1>1, <1>3 DEF ThreadInv
<1>6. CloseInv'
  <2>1. CASE closed /\ ~broken BY <2>1, <1>1, <1>t DEF CloseInv
  <2>2. CASE op = CLOSE
    <3>1. op \in Opcodes BY <2>2 DEF Opcodes
    <3> QED BY <3>1, <2>2, <1>1 DEF CloseInv
  <2> QED BY <2>1, <2>2, <1>1 DEF CloseInv
<1> QED BY <1>1, <1>4, <1>5, <1>6 DEF IInv

(* Before the connection is closed nothing has been sent that a frame      *)
(* other than a PONG may not follow.                                       *)
LEMMA OpenOutput ==
  ASSUME TypeOK, CellsInv, ~closed, NEW op, op # PONG
  PROVE  \A c \in Output, d \in Cell : d.op = op => Follows(c, d)
  BY DEF CellsInv, CellOK, Follows

(* A PONG that answers the next frame may follow anything. *)
LEMMA PongFollows ==
  ASSUME TypeOK, CellsInv
  PROVE  \A c \in Output, d \in Cell : d.op = PONG /\ d.of = read + 1 => Follows(c, d)
<1> SUFFICES ASSUME NEW c \in Output, NEW d \in Cell, d.op = PONG, d.of = read + 1
             PROVE  Follows(c, d)
  OBVIOUS
<1>1. PONG # CLOSE BY SMT DEF PONG, CLOSE
<1>2. c.op = PONG => c.of < d.of
  <2>1. c.op = PONG => c.of \in 1..read BY DEF CellsInv, CellOK, Ping
  <2>2. arrived \in 0..N /\ read \in 0..arrived BY DEF TypeOK
  <2> QED BY <2>1, <2>2, SMT
<1> QED BY <1>1, <1>2 DEF Follows

-----------------------------------------------------------------------------
(* Type correctness *)

(* No payload is longer than struct.pack("!Q") takes. *)
LengthsFit == (\A r \in Frames : Length[r] < P64) /\ (\A n \in Sizes : n < P64)

(* The lengths the code itself chooses. *)
LEMMA ShortLengths == 0 < P64 /\ 2 < P64 /\ 11 < P64
<1>1. P32 \in Nat /\ P32 > 11 BY SMT DEF P32, P16
<1>2. P48 \in Nat /\ P48 > 11 BY <1>1, SMT DEF P48
<1>3. P64 \in Nat /\ P64 > 11 BY <1>2, SMT DEF P64
<1> QED BY <1>3, SMT

LEMMA OpcodesDiffer ==
  /\ TEXT \in Opcodes /\ CLOSE \in Opcodes /\ PONG \in Opcodes /\ PING \in Opcodes
  /\ PONG # CLOSE /\ TEXT # PONG /\ TEXT # CLOSE /\ PING # CLOSE
  /\ Upgraded # CLOSE /\ Upgraded # PONG /\ Refused # CLOSE /\ Refused # PONG
  /\ Refused # Upgraded /\ TEXT # Upgraded /\ CLOSE # Upgraded /\ PONG # Upgraded
  BY SMT DEF Opcodes, CONT, TEXT, BIN, CLOSE, PING, PONG, Upgraded, Refused

(* read_frame() finds the frame that the client has sent. *)
LEMMA FrameRead ==
  ASSUME TypeOK, LengthsFit, read < arrived
  PROVE  /\ read + 1 \in Frames /\ read + 1 \in 0..N
         /\ NextFrame.op = Op[read + 1]
         /\ NextFrame.length = Length[read + 1]
         /\ Length[read + 1] \in Nat /\ Length[read + 1] < P64
<1>1. arrived \in 0..N /\ read \in 0..arrived /\ N \in Nat BY WsAssumption DEF TypeOK
<1>2. read + 1 \in Frames /\ read + 1 \in 0..N BY <1>1, SMT DEF Frames
<1>3. /\ Length[read + 1] \in Nat /\ Length[read + 1] < P64 /\ Op[read + 1] \in Opcodes
  BY <1>2, WsAssumption DEF LengthsFit
<1>4. Op[read + 1] \in 0..15
  BY <1>3, SMT DEF Opcodes, CONT, TEXT, BIN, CLOSE, PING, PONG
<1>5. SomeMask \in Bytes /\ Len(SomeMask) = 4 BY SMT DEF SomeMask, Bytes
<1>6. <<>> \in Bytes BY DEF Bytes
<1> DEFINE h == ClientHead(Op[read + 1], Length[read + 1], SomeMask)
<1>7. ServerReads(h \o <<>>) = [op |-> Op[read + 1], length |-> Length[read + 1], head |-> Len(h)]
  BY <1>3, <1>4, <1>5, <1>6, ClientFramesRead
<1>8. h \o <<>> = h
  <2>1. h \in Bytes
    <3>1. PICK x \in Nat : x = 128 + Op[read + 1] BY <1>4
    <3>2. h = Form(x, 128, Length[read + 1]) \o SomeMask BY <3>1 DEF ClientHead, Form
    <3>3. Form(x, 128, Length[read + 1]) \in Bytes BY <1>3, FormType
    <3> QED BY <3>2, <3>3, <1>5, Joined
  <2> QED BY <2>1, ConcatEmptySeq DEF Bytes
<1>9. NextFrame = [op |-> Op[read + 1], length |-> Length[read + 1], head |-> Len(h)]
  BY <1>7, <1>8 DEF NextFrame
<1> QED BY <1>2, <1>3, <1>9

LEMMA WriteType ==
  ASSUME TypeOK,
         NEW op \in Opcodes \cup {Upgraded, Refused}, NEW n \in Nat, n < P64,
         NEW of \in 0..N, NEW done \in Places, NEW failed \in Places,
         Write(op, n, of, done, failed)
  PROVE  /\ at' \in Places /\ then' \in [done : Places, failed : Places]
         /\ frames' \in Nat /\ wbuf' \in Seq(Cell) /\ chunk' \in Seq(Cell)
         /\ wire' \in Seq(Cell) /\ broken' \in BOOLEAN
         /\ chunk' # <<>> => at' = "writing"
<1>t. /\ wbuf \in Seq(Cell) /\ frames \in Nat BY DEF TypeOK
<1>1. PICK f \in Nat \ {0} : f = frames + 1 BY <1>t
<1>2. CellsOf(f, op, of, n) \in Seq(Cell) BY CellsOfFrame
<1>3. wbuf' = wbuf \o CellsOf(f, op, of, n) /\ frames' = f BY <1>1 DEF Write
<1>4. wbuf' \in Seq(Cell) BY <1>t, <1>2, <1>3, ConcatProperties
<1>5. at' = "writing" /\ at' \in Places BY DEF Write, Places
<1> QED BY <1>3, <1>4, <1>5 DEF Write, TypeOK

LEMMA TypeStep ==
  ASSUME TypeOK, LengthsFit, [Next]_vars
  PROVE  TypeOK'
<1>p. /\ "upgrading" \in Places /\ "handler" \in Places /\ "receiving" \in Places
      /\ "finally" \in Places /\ "writing" \in Places /\ "closing" \in Places
      /\ "closed" \in Places
  BY DEF Places
<1>t. /\ arrived \in 0..N /\ read \in 0..arrived /\ N \in Nat /\ unasked \in 0..Sends
      /\ Sends \in Nat /\ 0 \in 0..N
  <2>1. N \in Nat /\ Sends \in Nat BY WsAssumption
  <2>2. 0 \in 0..N BY <2>1, SMT
  <2> QED BY <2>1, <2>2 DEF TypeOK
<1>s. wire \in Seq(Cell) /\ chunk \in Seq(Cell) /\ wbuf \in Seq(Cell) BY DEF TypeOK
<1>k. read \in 0..arrived /\ arrived <= N /\ arrived \in Nat /\ read \in Nat BY <1>t, SMT
<1>w. ASSUME NEW op \in Opcodes \cup {Upgraded, Refused}, NEW n \in Nat, n < P64,
             NEW of \in 0..N, NEW done \in Places, NEW failed \in Places,
             Write(op, n, of, done, failed), UNCHANGED clientVars,
             read' \in 0..arrived, over' \in BOOLEAN, closed' \in BOOLEAN, unasked' \in 0..Sends
      PROVE  TypeOK'
  <2>1. /\ at' \in Places /\ then' \in [done : Places, failed : Places]
        /\ frames' \in Nat /\ wbuf' \in Seq(Cell) /\ chunk' \in Seq(Cell)
        /\ wire' \in Seq(Cell) /\ broken' \in BOOLEAN
        /\ chunk' # <<>> => at' = "writing"
    BY <1>w, WriteType
  <2>2. arrived' = arrived /\ peer' = peer BY <1>w DEF clientVars
  <2>3. arrived' \in 0..N /\ peer' \in {"open", "eof", "gone"} BY <2>2 DEF TypeOK
  <2>4. read' \in 0..arrived' BY <2>2, <1>w
  <2> QED BY <2>1, <2>3, <2>4, <1>w DEF TypeOK
<1>q. ASSUME UNCHANGED <<then, outVars>>, at' \in Places, chunk # <<>> => at' = "writing",
             arrived' \in 0..N, peer' \in {"open", "eof", "gone"}, read' \in 0..arrived',
             over' \in BOOLEAN, closed' \in BOOLEAN, unasked' = unasked
      PROVE  TypeOK'
  BY <1>q DEF TypeOK, outVars
<1>e. at # "writing" => chunk = <<>> BY DEF TypeOK
<1>1. CASE SendFrame
  <2>1. arrived' \in 0..N /\ read' \in 0..arrived' BY <1>1, <1>t, SMT DEF SendFrame, sessionVars
  <2>2. UNCHANGED <<peer, at, then, over, closed, unasked, outVars>>
    BY <1>1 DEF SendFrame, sessionVars
  <2> QED BY <2>1, <2>2, <1>q DEF TypeOK
<1>2. CASE ClientLeaves
  <2>1. peer' \in {"open", "eof", "gone"} BY <1>2 DEF ClientLeaves
  <2>2. UNCHANGED <<arrived, at, then, read, over, closed, unasked, outVars>>
    BY <1>2 DEF ClientLeaves, sessionVars
  <2> QED BY <2>1, <2>2, <1>q DEF TypeOK
<1>3. CASE TakeChunk
  <2>1. ChunkLength \in 0..Len(wbuf)
    <3>1. Len(wbuf) \in Nat /\ RecvSize \in Nat BY <1>s, LenProperties, WsAssumption
    <3> QED BY <3>1, SMT DEF ChunkLength
  <2>2. wbuf' \in Seq(Cell) /\ chunk' \in Seq(Cell) BY <2>1, <1>s, <1>3, CutInTwo DEF TakeChunk
  <2> QED BY <1>3, <2>2 DEF TakeChunk, TypeOK, clientVars, sessionVars
<1>4. CASE SendCell
  <2>1. wire' \in Seq(Cell) /\ chunk' \in Seq(Cell) BY <1>s, <1>4, FirstMoves DEF SendCell
  <2> QED BY <1>4, <2>1 DEF SendCell, TypeOK, clientVars, sessionVars
<1>5. CASE SendFails
  <2>1. chunk' = <<>> /\ chunk' \in Seq(Cell) /\ at' = then.failed /\ broken' = TRUE
    BY <1>5 DEF SendFails
  <2>2. then \in [done : Places, failed : Places] BY DEF TypeOK
  <2>3. at' \in Places BY <2>1, <2>2
  <2> QED BY <1>5, <2>1, <2>3 DEF SendFails, TypeOK, clientVars, sessionVars
<1>6. CASE WriteEnds
  <2>1. then \in [done : Places, failed : Places] BY DEF TypeOK
  <2>2. at' \in Places BY <1>6, <2>1 DEF WriteEnds
  <2> QED BY <1>6, <2>2, <1>q DEF WriteEnds, TypeOK, clientVars, sessionVars
<1>7. CASE NoRequest
  BY <1>7, <1>e, <1>p, <1>q DEF NoRequest, TypeOK, clientVars, sessionVars
<1>8. CASE RefuseUpgrade
  BY <1>8, <1>p, <1>t, <1>w, ShortLengths DEF RefuseUpgrade, TypeOK, sessionVars
<1>9. CASE Upgrade
  <2>1. PICK place \in {"handler", "finally"} : Write(Upgraded, 0, 0, place, "closing")
    BY <1>9 DEF Upgrade
  <2>2. place \in Places BY <1>p
  <2> QED BY <1>9, <2>1, <2>2, <1>p, <1>t, <1>w, ShortLengths DEF Upgrade, TypeOK, sessionVars
<1>10. CASE HandlerSends
  <2>1. PICK n \in Sizes : Write(TEXT, n, 0, "handler", "finally") BY <1>10 DEF HandlerSends
  <2>2. n \in Nat /\ n < P64 BY WsAssumption DEF LengthsFit
  <2>3. unasked' \in 0..Sends BY <1>10, <1>t, SMT DEF HandlerSends
  <2>4. UNCHANGED <<clientVars, read, over, closed>> BY <1>10 DEF HandlerSends
  <2>5. TEXT \in Opcodes BY OpcodesDiffer
  <2> QED BY <2>1, <2>2, <2>3, <2>4, <2>5, <1>p, <1>t, <1>w DEF TypeOK
<1>11. CASE HandlerCloses
  BY <1>11, <1>p, <1>t, <1>w, ShortLengths, OpcodesDiffer DEF HandlerCloses, TypeOK
<1>12. CASE HandlerReceives \/ HandlerEnds
  BY <1>12, <1>e, <1>p, <1>q DEF HandlerReceives, HandlerEnds, TypeOK, clientVars, sessionVars
<1>r. ASSUME Receiving PROVE read' = read + 1 /\ read' \in 0..arrived /\ read < arrived
  BY <1>r, <1>t, SMT DEF Receiving
<1>13. CASE ReceivePing
  <2>1. read' \in 0..arrived /\ read < arrived BY <1>13, <1>r DEF ReceivePing
  <2>2. /\ read + 1 \in 0..N /\ NextFrame.length \in Nat /\ NextFrame.length < P64
    BY <2>1, FrameRead
  <2>3. Write(PONG, NextFrame.length, read + 1, "receiving", "finally")
    BY <1>13 DEF ReceivePing
  <2>4. UNCHANGED <<clientVars, over, closed, unasked>> BY <1>13 DEF ReceivePing
  <2>5. PONG \in Opcodes BY OpcodesDiffer
  <2> QED BY <2>1, <2>2, <2>3, <2>4, <2>5, <1>p, <1>w DEF TypeOK
<1>14. CASE ReceiveData
  <2>1. read' \in 0..arrived BY <1>14, <1>r DEF ReceiveData
  <2>2. UNCHANGED <<arrived, peer, then, over, closed, unasked, outVars>> /\ at' = "handler"
        /\ at = "receiving"
    BY <1>14 DEF ReceiveData, clientVars, Receiving
  <2> QED BY <2>1, <2>2, <1>e, <1>p, <1>q DEF TypeOK
<1>15. CASE ReceiveClose
  <2>1. read' \in 0..arrived BY <1>15, <1>r DEF ReceiveClose
  <2>2. UNCHANGED <<clientVars, unasked>> /\ over' = TRUE /\ closed' = TRUE /\ at = "receiving"
    BY <1>15 DEF ReceiveClose, Receiving
  <2>3. CASE at' = "handler" /\ UNCHANGED <<then, outVars>>
    BY <2>1, <2>2, <2>3, <1>e, <1>p, <1>q DEF TypeOK, clientVars
  <2>4. CASE Write(CLOSE, 2, 0, "handler", "finally")
    BY <2>1, <2>2, <2>4, <1>p, <1>t, <1>w, ShortLengths, OpcodesDiffer DEF TypeOK
  <2> QED BY <1>15, <2>3, <2>4 DEF ReceiveClose
<1>16. CASE ReceiveNothing
  BY <1>16, <1>e, <1>p, <1>q DEF ReceiveNothing, TypeOK, clientVars
<1>17. CASE Finally
  <2>1. CASE at' = "closing" /\ UNCHANGED <<then, closed, outVars>>
    BY <2>1, <1>17, <1>e, <1>p, <1>q DEF Finally, TypeOK, clientVars
  <2>2. CASE closed' = TRUE /\ Write(CLOSE, 2, 0, "closing", "closing")
    BY <2>2, <1>17, <1>p, <1>t, <1>w, ShortLengths, OpcodesDiffer DEF Finally, TypeOK
  <2> QED BY <2>1, <2>2, <1>17 DEF Finally
<1>18. CASE Close
  BY <1>18, <1>e, <1>p, <1>q DEF Close, TypeOK, clientVars, sessionVars
<1>19. CASE UNCHANGED vars
  BY <1>19, <1>q DEF vars, TypeOK, clientVars, sessionVars
<1>20. CASE Finished BY <1>19, <1>20 DEF Finished
<1> QED BY <1>1, <1>2, <1>3, <1>4, <1>5, <1>6, <1>7, <1>8, <1>9, <1>10, <1>11, <1>12,
           <1>13, <1>14, <1>15, <1>16, <1>17, <1>18, <1>19, <1>20
        DEF Next, Server, Writing, Handler, Receive

-----------------------------------------------------------------------------
(* The invariant *)

LEMMA InitIInv == Init => IInv
<1> SUFFICES ASSUME Init PROVE IInv OBVIOUS
<1>1. /\ wire = <<>> /\ chunk = <<>> /\ wbuf = <<>> /\ at = "upgrading" /\ ~closed /\ ~broken
      /\ <<>> \in Seq(Cell) /\ DOMAIN <<>> = {}
  <2>1. <<>> \in Seq(Cell) /\ DOMAIN <<>> = {} BY EmptySeq, LenProperties, SMT
  <2> QED BY <2>1 DEF Init
<1>2. TypeOK
  <2>1. arrived \in 0..N /\ read \in 0..arrived /\ unasked \in 0..Sends
    BY WsAssumption, SMT DEF Init
  <2>2. then \in [done : Places, failed : Places] /\ at \in Places BY DEF Init, Places
  <2> QED BY <1>1, <2>1, <2>2 DEF Init, TypeOK
<1>3. OrderInv BY <1>1 DEF OrderInv, Ordered, Across
<1>4. Output = {} BY <1>1 DEF Output, CellsIn
<1>5. CellsInv /\ ThreadInv /\ CloseInv /\ PingInv
  <2>1. read = 0 BY DEF Init
  <2> QED BY <1>1, <1>4, <2>1, SMT DEF CellsInv, ThreadInv, CloseInv, PingInv
<1> QED BY <1>2, <1>3, <1>5 DEF IInv

(* A step of flush() that moves cells, and one that loses some. *)
LEMMA FlushStep ==
  ASSUME IInv, TypeOK', OrderInv',
         UNCHANGED <<arrived, then, read, closed>>,
         CellsIn(wire) \subseteq CellsIn(wire'), Output' \subseteq Output,
         \/ Output' = Output /\ at = "writing" /\ at' = at /\ broken' = broken
         \/ at = "writing" /\ at' = then.failed /\ broken'
  PROVE  IInv'
<1>t. TypeOK /\ CellsInv /\ ThreadInv /\ CloseInv /\ PingInv BY DEF IInv
<1>1. read \in Nat /\ read' = read /\ closed' = closed /\ then' = then /\ (broken => broken')
  <2>1. arrived \in 0..N /\ read \in 0..arrived BY <1>t DEF TypeOK
  <2>2. read \in Nat BY <2>1, SMT
  <2> QED BY <2>2
<1>2. CellsInv'
  <2>1. ASSUME NEW c \in Output PROVE CellOK(c)'
    <3>1. CellOK(c) BY <1>t DEF CellsInv
    <3>2. Leaving' => Leaving \/ broken' BY <1>1 DEF Leaving
    <3>3. c.op = Upgraded /\ Leaving' => Leaving \/ closed' \/ broken' BY <3>2
    <3>4. read \in Nat /\ read' \in Nat /\ read <= read' BY <1>1, SMT
    <3> QED BY <3>1, <3>3, <3>4, <1>1, CellKept
  <2> QED BY <2>1 DEF CellsInv
<1>3. CASE Output' = Output /\ at = "writing" /\ at' = at /\ broken' = broken
  <2>1. ThreadInv' BY <1>1, <1>3, <1>t DEF ThreadInv
  <2>2. CloseInv' BY <1>1, <1>3, <1>t DEF CloseInv
  <2>3. PingInv' BY <1>1, <1>3, <1>t DEF PingInv, Ping
  <2> QED BY <2>1, <2>2, <2>3, <1>2 DEF IInv
<1>4. CASE at = "writing" /\ at' = then.failed /\ broken'
  <2>1. at' \in {"finally", "closing"} BY <1>4, <1>t DEF ThreadInv
  <2>2. ThreadInv' BY <2>1, <1>4 DEF ThreadInv
  <2>3. CloseInv' BY <1>4 DEF CloseInv
  <2>4. PingInv' BY <2>1 DEF PingInv
  <2> QED BY <2>2, <2>3, <2>4, <1>2 DEF IInv
<1> QED BY <1>3, <1>4

LEMMA WritingStep ==
  ASSUME IInv, TypeOK', TakeChunk \/ SendCell \/ SendFails
  PROVE  IInv'
<1>t. TypeOK /\ OrderInv BY DEF IInv
<1>s. /\ wire \in Seq(Cell) /\ chunk \in Seq(Cell) /\ wbuf \in Seq(Cell)
      /\ CellsIn(<<>>) = {}
  <2>1. CellsIn(<<>>) = {} BY SMT DEF CellsIn
  <2> QED BY <1>t, <2>1 DEF TypeOK
<1>o. /\ Ordered(wire) /\ Ordered(chunk) /\ Ordered(wbuf)
      /\ Across(wire, chunk) /\ Across(wire, wbuf) /\ Across(chunk, wbuf)
  BY <1>t DEF OrderInv
<1>n. ASSUME /\ Ordered(wire') /\ Ordered(chunk') /\ Ordered(wbuf')
             /\ Across(wire', chunk') /\ Across(wire', wbuf') /\ Across(chunk', wbuf')
      PROVE  OrderInv'
  BY <1>n DEF OrderInv, Ordered, Across
<1>p. Output' = CellsIn(wire') \cup CellsIn(chunk') \cup CellsIn(wbuf')
  BY DEF Output, CellsIn
<1>1. CASE TakeChunk
  <2>1. /\ at = "writing" /\ chunk = <<>>
        /\ chunk' = SubSeq(wbuf, 1, ChunkLength)
        /\ wbuf' = SubSeq(wbuf, ChunkLength + 1, Len(wbuf))
        /\ UNCHANGED <<arrived, then, read, closed, at, wire, broken>>
    BY <1>1 DEF TakeChunk, clientVars, sessionVars
  <2>2. ChunkLength \in 0..Len(wbuf)
    <3>1. Len(wbuf) \in Nat /\ RecvSize \in Nat BY <1>s, LenProperties, WsAssumption
    <3> QED BY <3>1, SMT DEF ChunkLength
  <2>3. /\ CellsIn(wbuf) = CellsIn(chunk') \cup CellsIn(wbuf')
        /\ Ordered(chunk') /\ Ordered(wbuf') /\ Across(chunk', wbuf')
        /\ Across(wire, chunk') /\ Across(wire, wbuf')
    BY <2>1, <2>2, <1>s, <1>o, CutInTwo
  <2>4. OrderInv' BY <2>1, <2>3, <1>o, <1>n
  <2>5. Output' = Output BY <2>1, <2>3, <1>s, <1>p DEF Output
  <2>6. CellsIn(wire) \subseteq CellsIn(wire') BY <2>1
  <2> QED BY <2>1, <2>4, <2>5, <2>6, FlushStep
<1>2. CASE SendCell
  <2>1. /\ at = "writing" /\ chunk # <<>>
        /\ wire' = Append(wire, Head(chunk)) /\ chunk' = Tail(chunk)
        /\ UNCHANGED <<arrived, then, read, closed, at, wbuf, broken>>
    BY <1>2 DEF SendCell, clientVars, sessionVars
  <2>2. /\ CellsIn(wire) \subseteq CellsIn(wire')
        /\ CellsIn(wire') \cup CellsIn(chunk') = CellsIn(wire) \cup CellsIn(chunk)
        /\ Ordered(wire') /\ Ordered(chunk') /\ Across(wire', chunk')
        /\ Across(wire', wbuf) /\ Across(chunk', wbuf)
    BY <2>1, <1>s, <1>o, FirstMoves
  <2>3. OrderInv' BY <2>1, <2>2, <1>o, <1>n
  <2>4. Output' = Output BY <2>1, <2>2, <1>p DEF Output
  <2> QED BY <2>1, <2>2, <2>3, <2>4, FlushStep
<1>3. CASE SendFails
  <2>1. /\ at = "writing" /\ chunk' = <<>> /\ at' = then.failed /\ broken'
        /\ UNCHANGED <<arrived, then, read, closed, wbuf, wire>>
    BY <1>3 DEF SendFails, clientVars, sessionVars
  <2>2. Ordered(chunk') /\ Across(wire, chunk') /\ Across(chunk', wbuf)
    <3>1. DOMAIN chunk' = {} BY <2>1, SMT
    <3> QED BY <3>1 DEF Ordered, Across
  <2>3. OrderInv' BY <2>1, <2>2, <1>o, <1>n
  <2>4. Output' \subseteq Output BY <2>1, <1>s, <1>p DEF Output
  <2>5. CellsIn(wire) \subseteq CellsIn(wire') BY <2>1
  <2> QED BY <2>1, <2>3, <2>4, <2>5, FlushStep
<1> QED BY <1>1, <1>2, <1>3

(* What the step itself needs of WriteOut. *)
LEMMA WriteEffect ==
  ASSUME IInv,
         NEW op \in Opcodes \cup {Upgraded, Refused}, NEW n \in Nat, n < P64,
         NEW of \in 0..N,
         NEW done \in {"handler", "receiving", "finally", "closing"},
         NEW failed \in {"finally", "closing"},
         Write(op, n, of, done, failed),
         \A c \in Output, d \in Cell : d.op = op /\ d.of = of => Follows(c, d)
  PROVE  /\ at' = "writing" /\ then'.done = done /\ Output \subseteq Output'
         /\ wire' = wire /\ broken' = broken
         /\ op \in Opcodes => \E c \in Output' : Headed(c, op) /\ c.of = of
<1>1. TypeOK /\ OrderInv BY DEF IInv
<1>2. /\ OrderInv'
      /\ at' = "writing" /\ then' = [done |-> done, failed |-> failed]
      /\ chunk' = chunk /\ wire' = wire /\ broken' = broken
      /\ Output \subseteq Output'
      /\ \A c \in Output' : c \in Output \/
           /\ c \in Cell /\ c.op = op /\ c.of = of
           /\ c.head # <<>> => op \in Opcodes /\ c.head = ServerHead(op, n)
      /\ op \in Opcodes => \E c \in Output' : Headed(c, op) /\ c.of = of
  BY <1>1, WriteOut, SMTT(60)
<1> QED BY <1>2

LEMMA StepIInv ==
  ASSUME IInv, LengthsFit, [Next]_vars
  PROVE  IInv'
<1>i. TypeOK /\ OrderInv /\ CellsInv /\ ThreadInv /\ CloseInv /\ PingInv BY DEF IInv
<1>t. TypeOK' BY <1>i, TypeStep
<1>n. /\ arrived \in 0..N /\ read \in 0..arrived /\ read \in Nat /\ read <= read /\ 0 \in 0..N
      /\ read <= read + 1
  <2>1. arrived \in 0..N /\ read \in 0..arrived /\ N \in Nat BY <1>i, WsAssumption DEF TypeOK
  <2> QED BY <2>1, SMT
<1>o. at = "upgrading" => Output = {} BY <1>i DEF ThreadInv, Output, CellsIn
<1>q. ASSUME UNCHANGED <<at, then, read, closed, outVars>> PROVE IInv'
  <2>1. UNCHANGED <<wire, chunk, wbuf, broken>> BY <1>q DEF outVars
  <2>2. ThreadInv' BY <2>1, <1>q, <1>i DEF ThreadInv
  <2>3. Leaving' => Leaving BY <1>q DEF Leaving
  <2>4. PingInv'
    <3>1. Output' = Output BY <2>1 DEF Output, CellsIn
    <3>2. \A r : OnWire(r)' <=> OnWire(r) BY <2>1 DEF OnWire, CellsIn
    <3> QED BY <3>1, <3>2, <1>q, <1>i DEF PingInv, Ping
  <2> QED BY <2>2, <2>3, <2>4, <1>q, <1>n, <1>t, QuietStep
<1>1. CASE SendFrame BY <1>1, <1>q DEF SendFrame, sessionVars
<1>2. CASE ClientLeaves BY <1>2, <1>q DEF ClientLeaves, sessionVars
<1>3. CASE TakeChunk \/ SendCell \/ SendFails BY <1>3, <1>t, WritingStep
<1>4. CASE WriteEnds
  <2>1. /\ at = "writing" /\ chunk = <<>> /\ wbuf = <<>> /\ at' = then.done
        /\ UNCHANGED <<then, read, closed, outVars>>
    BY <1>4 DEF WriteEnds, sessionVars
  <2>2. UNCHANGED <<wire, chunk, wbuf, broken>> BY <2>1 DEF outVars
  <2>3. ThreadInv' BY <2>1, <2>2, <1>i DEF ThreadInv
  <2>4. Leaving' => Leaving BY <2>1 DEF Leaving
  <2>5. PingInv'
    <3>1. Output = CellsIn(wire) BY <2>1 DEF Output, CellsIn
    <3>2. \A r : OnWire(r)' <=> OnWire(r) BY <2>2 DEF OnWire, CellsIn
    <3>3. \A r \in 1..read : Ping(r) /\ then.done \in {"receiving", "handler"} => OnWire(r)
      BY <3>1, <2>1, <1>i DEF PingInv, OnWire
    <3>4. at' # "writing" BY <2>1, <1>i DEF ThreadInv
    <3> QED BY <3>2, <3>3, <3>4, <2>1 DEF PingInv, Ping
  <2> QED BY <2>1, <2>3, <2>4, <2>5, <1>n, <1>t, QuietStep
<1>5. CASE NoRequest
  <2>1. at = "upgrading" /\ at' = "closing" /\ UNCHANGED <<then, read, closed, outVars>>
    BY <1>5 DEF NoRequest, sessionVars
  <2>2. UNCHANGED <<wire, chunk, wbuf, broken>> BY <2>1 DEF outVars
  <2>3. ThreadInv' BY <2>1, <2>2, <1>i DEF ThreadInv
  <2>4. PingInv' BY <2>1 DEF PingInv
  <2> QED BY <2>1, <2>3, <2>4, <1>n, <1>o, <1>t, QuietStep
<1>p. ASSUME at' = "writing", then'.done \notin {"receiving", "handler"} PROVE PingInv'
  BY <1>p DEF PingInv
<1>a. ASSUME at \in {"handler", "receiving"}, Output \subseteq Output'
      PROVE  \A r \in 1..read : Ping(r) => \E c \in Output' : Pong(c, r)
  <2>1. CellsIn(wire) \subseteq Output' BY <1>a DEF Output
  <2> QED BY <2>1, <1>a, <1>i DEF PingInv, OnWire
<1>b. ASSUME at' = "writing", at \in {"handler", "receiving"}, Output \subseteq Output',
             read' = read + 1, Op[read + 1] # PING
      PROVE  PingInv'
  <2>1. \A r \in 1..(read + 1) : Ping(r)' => r \in 1..read /\ Ping(r)
    BY <1>b, <1>n, SMT DEF Ping
  <2> QED BY <2>1, <1>a, <1>b DEF PingInv
<1>c. ASSUME at' = "writing", at \in {"handler", "receiving"}, Output \subseteq Output',
             read' = read
      PROVE  PingInv'
  BY <1>a, <1>c DEF PingInv, Ping
<1>6. CASE RefuseUpgrade
  <2>1. /\ at = "upgrading" /\ Write(Refused, 11, 0, "closing", "closing")
        /\ read' = read /\ closed' = closed
    BY <1>6 DEF RefuseUpgrade, sessionVars
  <2>2. \A c \in Output, d \in Cell : d.op = Refused /\ d.of = 0 => Follows(c, d) BY <2>1, <1>o
  <2>3. PingInv'
    <3>1. at' = "writing" /\ then'.done = "closing" BY <2>1, <2>2, <1>n, WriteEffect, ShortLengths
    <3> QED BY <3>1, <1>p
  <2>4. \A c \in Cell : c.op = Refused => CellOK(c)'
    BY OpcodesDiffer DEF CellOK, Headed
  <2> QED BY <2>1, <2>2, <2>3, <2>4, <1>n, <1>o, <1>t, ShortLengths, WriteStep
<1>7. CASE Upgrade
  <2>1. PICK place \in {"handler", "finally"} : Write(Upgraded, 0, 0, place, "closing")
    BY <1>7 DEF Upgrade
  <2>2. /\ at = "upgrading" /\ read' = read /\ closed' = closed /\ ~closed /\ ~broken
        /\ read = 0
    BY <1>7, <1>i DEF Upgrade, sessionVars, ThreadInv
  <2>3. \A c \in Output, d \in Cell : d.op = Upgraded /\ d.of = 0 => Follows(c, d)
    BY <2>2, <1>o
  <2>4. at' = "writing" /\ then'.done = place /\ broken' = broken
    BY <2>1, <2>3, <1>n, WriteEffect, ShortLengths
  <2>5. \A c \in Cell : c.op = Upgraded => CellOK(c)'
    <3>1. ~Leaving' BY <2>4 DEF Leaving
    <3> QED BY <3>1, OpcodesDiffer DEF CellOK, Headed
  <2>6. PingInv'
    <3>1. \A r \in 1..read : FALSE BY <2>2, SMT
    <3> QED BY <3>1, <2>2, <2>4 DEF PingInv
  <2> QED BY <2>1, <2>2, <2>3, <2>5, <2>6, <1>n, <1>t, ShortLengths, WriteStep
<1>8. CASE HandlerSends
  <2>1. PICK n \in Sizes : Write(TEXT, n, 0, "handler", "finally") BY <1>8 DEF HandlerSends
  <2>2. n \in Nat /\ n < P64 BY WsAssumption DEF LengthsFit
  <2>3. /\ at = "handler" /\ ~closed /\ read' = read /\ closed' = closed /\ ~broken
    BY <1>8, <1>i DEF HandlerSends, ThreadInv
  <2>4. \A c \in Output, d \in Cell : d.op = TEXT /\ d.of = 0 => Follows(c, d)
    BY <2>3, <1>i, OpenOutput, OpcodesDiffer
  <2>5. PingInv' BY <2>1, <2>2, <2>3, <2>4, <1>n, <1>c, WriteEffect, OpcodesDiffer
  <2>6. \A c \in Cell : c.op = TEXT => CellOK(c)' BY OpcodesDiffer DEF CellOK, Headed
  <2> QED BY <2>1, <2>2, <2>3, <2>4, <2>5, <2>6, <1>n, <1>t, OpcodesDiffer, WriteStep
<1>e. \A c \in Cell : c.op = CLOSE /\ closed' => CellOK(c)'
  BY OpcodesDiffer DEF CellOK, Headed
<1>9. CASE HandlerCloses
  <2>1. /\ at = "handler" /\ ~closed /\ read' = read /\ closed' = TRUE /\ ~broken
        /\ Write(CLOSE, 2, 0, "handler", "finally")
    BY <1>9, <1>i DEF HandlerCloses, ThreadInv
  <2>2. \A c \in Output, d \in Cell : d.op = CLOSE /\ d.of = 0 => Follows(c, d)
    BY <2>1, <1>i, OpenOutput, OpcodesDiffer
  <2>3. PingInv' BY <2>1, <2>2, <1>n, <1>c, WriteEffect, OpcodesDiffer, ShortLengths
  <2> QED BY <2>1, <2>2, <2>3, <1>e, <1>n, <1>t, OpcodesDiffer, ShortLengths, WriteStep
<1>f. ASSUME UNCHANGED outVars, at \in {"handler", "receiving"}, at' \in {"handler", "receiving"},
             read' = read \/ (read' = read + 1 /\ Op[read + 1] # PING), closed' = closed
      PROVE  IInv'
  <2>1. UNCHANGED <<wire, chunk, wbuf, broken>> BY <1>f DEF outVars
  <2>2. ThreadInv' BY <2>1, <1>f, <1>i DEF ThreadInv
  <2>3. ~Leaving' BY <1>f DEF Leaving
  <2>4. PingInv'
    <3>1. \A r \in 1..read' : Ping(r)' => r \in 1..read /\ Ping(r)
      BY <1>f, <1>n, SMT DEF Ping
    <3>2. \A r : OnWire(r)' <=> OnWire(r) BY <2>1 DEF OnWire, CellsIn
    <3> QED BY <3>1, <3>2, <1>f, <1>i DEF PingInv
  <2>5. read <= read' BY <1>f, <1>n
  <2> QED BY <2>2, <2>3, <2>4, <2>5, <1>f, <1>t, QuietStep
<1>10. CASE HandlerReceives BY <1>10, <1>f DEF HandlerReceives, sessionVars
<1>11. CASE HandlerEnds
  <2>1. at = "handler" /\ at' = "finally" /\ UNCHANGED <<then, read, closed, outVars>>
    BY <1>11 DEF HandlerEnds, sessionVars
  <2>2. UNCHANGED <<wire, chunk, wbuf, broken>> BY <2>1 DEF outVars
  <2>3. ThreadInv' BY <2>1, <2>2, <1>i DEF ThreadInv
  <2>4. ~Leaving' /\ PingInv' BY <2>1 DEF Leaving, PingInv
  <2> QED BY <2>1, <2>3, <2>4, <1>n, <1>t, QuietStep
<1>12. CASE ReceivePing
  <2>1. /\ at = "receiving" /\ read < arrived /\ read' = read + 1 /\ closed' = closed
        /\ Write(PONG, NextFrame.length, read + 1, "receiving", "finally")
        /\ NextFrame.op = PING /\ ~broken
    BY <1>12, <1>i DEF ReceivePing, Receiving, ThreadInv
  <2>2. PICK n \in Nat : n = Length[read + 1] /\ n = NextFrame.length /\ n < P64
    BY <2>1, <1>i, FrameRead
  <2>3. read + 1 \in 0..N /\ Op[read + 1] = PING BY <2>1, <1>i, FrameRead
  <2>4. Write(PONG, n, read + 1, "receiving", "finally") BY <2>1, <2>2
  <2>5. \A c \in Output, d \in Cell : d.op = PONG /\ d.of = read + 1 => Follows(c, d)
    BY <1>i, PongFollows
  <2>6. /\ at' = "writing" /\ Output \subseteq Output' /\ wire' = wire
        /\ \E c \in Output' : Headed(c, PONG) /\ c.of = read + 1
    BY <2>2, <2>3, <2>4, <2>5, WriteEffect, OpcodesDiffer
  <2>7. \A r \in 1..(read + 1) : r = read + 1 \/ r \in 1..read BY <1>n, SMT
  <2>8. \A r \in 1..read : Ping(r)' => Ping(r) BY <1>n, SMT DEF Ping
  <2>9. PingInv'
    <3>1. \A r \in 1..read : Ping(r) => \E c \in Output' : Pong(c, r) BY <2>1, <2>6, <1>a
    <3> QED BY <3>1, <2>1, <2>6, <2>7, <2>8 DEF PingInv, Pong
  <2>10. ASSUME NEW c \in Cell, c.op = PONG, c.of = read + 1,
                c.head # <<>> => c.head = ServerHead(PONG, n)
         PROVE  CellOK(c)'
    <3>1. Ping(c.of)' BY <2>1, <2>3, <2>10, <1>n, SMT DEF Ping
    <3>2. c.head # <<>> => ClientReads(c.head).length = Length[c.of]
      <4>1. ClientReads(ServerHead(PONG, n)).length = n BY <2>2, HeadBytes, OpcodesDiffer
      <4> QED BY <4>1, <2>2, <2>10
    <3>3. \A r \in 1..(c.of - 1) : Ping(r)' => OnWire(r)'
      <4>1. c.of - 1 = read BY <2>10, <1>n
      <4>2. \A r \in 1..read : Ping(r) => OnWire(r) BY <2>1, <1>i DEF PingInv
      <4>3. \A r : OnWire(r) <=> OnWire(r)' BY <2>6 DEF OnWire, CellsIn
      <4> QED BY <4>1, <4>2, <4>3, <2>8
    <3> QED BY <3>1, <3>2, <3>3, <2>10, OpcodesDiffer DEF CellOK, Headed
  <2> QED BY <2>1, <2>2, <2>3, <2>4, <2>5, <2>9, <2>10, <1>n, <1>t, OpcodesDiffer, WriteStep
<1>13. CASE ReceiveData
  <2>1. /\ at = "receiving" /\ read < arrived /\ read' = read + 1 /\ at' = "handler"
        /\ closed' = closed /\ UNCHANGED outVars /\ NextFrame.op # PING
    BY <1>13 DEF ReceiveData, Receiving
  <2>2. Op[read + 1] # PING BY <2>1, <1>i, FrameRead
  <2> QED BY <2>1, <2>2, <1>f
<1>14. CASE ReceiveClose
  <2>1. /\ at = "receiving" /\ read < arrived /\ read' = read + 1 /\ closed' = TRUE
        /\ NextFrame.op = CLOSE /\ ~broken
        /\ IF closed THEN at' = "handler" /\ UNCHANGED <<then, outVars>>
                     ELSE Write(CLOSE, 2, 0, "handler", "finally")
    BY <1>14, <1>i DEF ReceiveClose, Receiving, ThreadInv
  <2>2. Op[read + 1] # PING BY <2>1, <1>i, FrameRead, OpcodesDiffer
  <2>3. closed \in BOOLEAN BY <1>i DEF TypeOK
  <2>4. CASE closed
    <3>1. closed' = closed /\ at' = "handler" /\ UNCHANGED outVars BY <2>1, <2>3, <2>4
    <3> QED BY <3>1, <2>1, <2>2, <1>f
  <2>5. CASE ~closed
    <3>1. Write(CLOSE, 2, 0, "handler", "finally") BY <2>1, <2>5
    <3>2. \A c \in Output, d \in Cell : d.op = CLOSE /\ d.of = 0 => Follows(c, d)
      BY <2>5, <1>i, OpenOutput, OpcodesDiffer
    <3>3. PingInv' BY <2>1, <2>2, <3>1, <3>2, <1>n, <1>b, WriteEffect, OpcodesDiffer, ShortLengths
    <3> QED BY <2>1, <3>1, <3>2, <3>3, <1>e, <1>n, <1>t, OpcodesDiffer, ShortLengths, WriteStep
  <2> QED BY <2>4, <2>5
<1>15. CASE ReceiveNothing BY <1>15, <1>f DEF ReceiveNothing
<1>16. CASE Finally
  <2>1. /\ at = "finally" /\ read' = read
        /\ IF closed THEN at' = "closing" /\ UNCHANGED <<then, closed, outVars>>
                     ELSE closed' = TRUE /\ Write(CLOSE, 2, 0, "closing", "closing")
    BY <1>16 DEF Finally
  <2>2. CASE closed
    <3>1. at' = "closing" /\ UNCHANGED <<then, closed, outVars>> BY <2>1, <2>2
    <3>2. UNCHANGED <<wire, chunk, wbuf, broken>> BY <3>1 DEF outVars
    <3>3. ThreadInv' BY <2>1, <3>1, <3>2, <1>i DEF ThreadInv
    <3>4. PingInv' BY <3>1 DEF PingInv
    <3> QED BY <2>1, <2>2, <3>1, <3>3, <3>4, <1>n, <1>t, QuietStep
  <2>3. CASE ~closed
    <3>1. closed' = TRUE /\ Write(CLOSE, 2, 0, "closing", "closing") BY <2>1, <2>3
    <3>2. \A c \in Output, d \in Cell : d.op = CLOSE /\ d.of = 0 => Follows(c, d)
      BY <2>3, <1>i, OpenOutput, OpcodesDiffer
    <3>3. PingInv' BY <3>1, <3>2, <1>n, <1>p, WriteEffect, OpcodesDiffer, ShortLengths
    <3> QED BY <2>1, <3>1, <3>2, <3>3, <1>e, <1>n, <1>t, OpcodesDiffer, ShortLengths, WriteStep
  <2> QED BY <2>2, <2>3
<1>17. CASE Close
  <2>1. at = "closing" /\ at' = "closed" /\ UNCHANGED <<then, read, closed, outVars>>
    BY <1>17 DEF Close, sessionVars
  <2>2. UNCHANGED <<wire, chunk, wbuf, broken>> BY <2>1 DEF outVars
  <2>3. ThreadInv' BY <2>1, <2>2, <1>i DEF ThreadInv
  <2>4. Leaving /\ PingInv' BY <2>1 DEF Leaving, PingInv
  <2> QED BY <2>1, <2>3, <2>4, <1>n, <1>t, QuietStep
<1>18. CASE UNCHANGED vars BY <1>18, <1>q DEF vars, sessionVars
<1>19. CASE Finished BY <1>18, <1>19 DEF Finished
<1> QED BY <1>1, <1>2, <1>3, <1>4, <1>5, <1>6, <1>7, <1>8, <1>9, <1>10, <1>11, <1>12,
           <1>13, <1>14, <1>15, <1>16, <1>17, <1>18, <1>19
        DEF Next, Server, Writing, Handler, Receive

-----------------------------------------------------------------------------
(* The theorems *)

LEMMA Invariant ==
  ASSUME LengthsFit
  PROVE  Spec => []IInv
<1>1. IInv /\ [Next]_vars => IInv' BY StepIInv
<1> QED BY <1>1, InitIInv, PTL DEF Spec

(* Whatever the client sends and the handler does, the state of a session  *)
(* is well-typed: every cell that write_frame makes of a header consists   *)
(* of bytes.                                                               *)
THEOREM TypeCorrect ==
  ASSUME LengthsFit
  PROVE  Spec => []TypeOK
<1>1. IInv => TypeOK BY DEF IInv
<1> QED BY <1>1, Invariant, PTL

(* A session never sends a second CLOSE, and when its socket is closed     *)
(* without a sendall() having failed a CLOSE was the last but for PONGs    *)
(* (send_close, recv_frame and the finally clause of _handle_conn).        *)
THEOREM OneClose ==
  ASSUME LengthsFit
  PROVE  Spec => []EndsWithClose
<1>1. IInv => EndsWithClose
  <2> SUFFICES ASSUME IInv PROVE EndsWithClose OBVIOUS
  <2>0. /\ Ordered(wire) /\ wire \in Seq(Cell) /\ DOMAIN wire = 1..Len(wire)
        /\ CellsIn(wire) \subseteq Output
    <3>1. Ordered(wire) /\ wire \in Seq(Cell) BY DEF IInv, OrderInv, TypeOK
    <3> QED BY <3>1, LenProperties DEF Output
  <2>1. ASSUME NEW j \in Written(CLOSE), NEW k \in Written(CLOSE) PROVE ~(j < k)
    BY <2>0 DEF Written, Ordered, Follows
  <2>2. \A j, k \in Written(CLOSE) : j = k
    <3>1. \A j, k \in DOMAIN wire : ~(j < k) /\ ~(k < j) => j = k BY <2>0, SMT
    <3>2. Written(CLOSE) \subseteq DOMAIN wire BY DEF Written
    <3> QED BY <2>1, <3>1, <3>2
  <2>3. ASSUME at = "closed", ~broken, NEW u \in DOMAIN wire, wire[u].op = Upgraded
        PROVE  \E k \in Written(CLOSE) :
                 \A j \in DOMAIN wire : j > k => wire[j].op \in {CLOSE, PONG}
    <3>1. CellOK(wire[u]) /\ Leaving
      BY <2>0, <2>3 DEF IInv, CellsInv, CellsIn, Leaving
    <3>2. closed BY <3>1, <2>3 DEF CellOK
    <3>3. wbuf = <<>> /\ chunk = <<>> BY <2>3 DEF IInv, ThreadInv, TypeOK
    <3>4. Output = CellsIn(wire) BY <3>3 DEF Output, CellsIn
    <3>5. PICK k \in DOMAIN wire : Headed(wire[k], CLOSE)
      BY <3>2, <3>4, <2>3 DEF IInv, CloseInv, CellsIn
    <3>6. k \in Written(CLOSE) /\ wire[k].op = CLOSE BY <3>5 DEF Written, Headed
    <3>7. \A j \in DOMAIN wire : j > k => k < j BY <2>0, SMT
    <3>8. \A j \in DOMAIN wire : j > k => wire[j].op \in {CLOSE, PONG}
      BY <2>0, <3>6, <3>7 DEF Ordered, Follows
    <3> QED BY <3>6, <3>8
  <2> QED BY <2>2, <2>3 DEF EndsWithClose
<1> QED BY <1>1, Invariant, PTL

(* recv_frame() answers the pings it reads in order, each once and with as *)
(* many bytes, before it does anything else.                               *)
THEOREM PongsAnswer ==
  ASSUME LengthsFit
  PROVE  Spec => []PongsAnswerPings
<1>1. IInv => PongsAnswerPings
  <2> SUFFICES ASSUME IInv PROVE PongsAnswerPings OBVIOUS
  <2>1. Ordered(wire) /\ CellsIn(wire) \subseteq Output BY DEF IInv, OrderInv, Output
  <2>2. \A r : OnWire(r) <=> Ponged(r)
    BY DEF OnWire, Ponged, Written, CellsIn, Pong, Headed
  <2>3. ASSUME NEW k \in Written(PONG)
        PROVE  /\ Ping(wire[k].of)
               /\ ClientReads(wire[k].head).length = Length[wire[k].of]
               /\ \A j \in Written(PONG) : j < k => wire[j].of < wire[k].of
               /\ \A r \in 1..(wire[k].of - 1) : Ping(r) => Ponged(r)
    <3>1. k \in DOMAIN wire /\ Headed(wire[k], PONG) BY DEF Written, Headed
    <3>2. CellOK(wire[k]) BY <2>1, <3>1 DEF IInv, CellsInv, CellsIn
    <3>3. \A j \in Written(PONG) : j < k => wire[j].of < wire[k].of
      BY <2>1 DEF Written, Ordered, Follows
    <3> QED BY <2>2, <3>1, <3>2, <3>3 DEF CellOK, Headed
  <2>4. at \in {"receiving", "handler"} => \A r \in 1..read : Ping(r) => Ponged(r)
    BY <2>2 DEF IInv, PingInv
  <2> QED BY <2>3, <2>4 DEF PongsAnswerPings
<1> QED BY <1>1, Invariant, PTL

-----------------------------------------------------------------------------
(* What the client of examples/ws_client.py reads.                         *)
(*                                                                         *)
(* The payload that the first cell of a frame announces, and the frame.    *)
Announced(c) ==
  IF c.op \in Opcodes THEN ClientReads(c.head).length ELSE IF c.op = Upgraded THEN 0 ELSE 11

Run(c) == CellsOf(c.f, c.op, c.of, Announced(c))

(* The frames 1..n, each whole, one behind the other: the response to the  *)
(* upgrade, and behind it frames with a header.  Only the first cell of a  *)
(* frame carries no payload.                                               *)
Whole(s, n) ==
  /\ \A k \in 1..Len(s) : s[k].size = 0 =>
       /\ k + Len(Run(s[k])) - 1 <= Len(s)
       /\ \A d \in 1..Len(Run(s[k])) : s[k + d - 1] = Run(s[k])[d]
       /\ k + Len(Run(s[k])) <= Len(s) => s[k + Len(Run(s[k]))].size = 0
  /\ \A k \in 1..Len(s) : s[k].size = 0 => Announced(s[k]) \in Nat /\ Announced(s[k]) < P64
  /\ \A j, k \in 1..Len(s) : j < k =>
       s[j].f <= s[k].f /\ (s[k].size = 0 => s[j].f < s[k].f)
  /\ \A k \in 1..(Len(s) - 1) : s[k + 1].f <= s[k].f + 1
  /\ \A k \in 1..Len(s) : s[k].f > 1 => s[k].op \in Opcodes
  /\ s = <<>> => n = 0
  /\ s # <<>> => s[1].size = 0 /\ s[1].f = 1 /\ s[Len(s)].f = n

Stream == wire \o chunk \o wbuf

StreamInv == ~broken => Whole(Stream, frames)

LEMMA RunLength ==
  ASSUME NEW f, NEW op, NEW of, NEW n
  PROVE  /\ Len(CellsOf(f, op, of, n)) = IF n = 0 THEN 1 ELSE IF n = 1 THEN 2 ELSE 3
         /\ Len(CellsOf(f, op, of, n)) \in 1..3
<1> DEFINE cell(head, size) == [f |-> f, op |-> op, of |-> of, head |-> head, size |-> size]
           c == cell(IF op \in Opcodes THEN ServerHead(op, n) ELSE <<>>, 0)
<1>1. CASE n = 0
  <2>1. CellsOf(f, op, of, n) = <<c>> BY <1>1 DEF CellsOf
  <2> HIDE DEF c
  <2> QED BY <1>1, <2>1
<1>2. CASE n = 1
  <2>1. CellsOf(f, op, of, n) = <<c, cell(<<>>, 1)>> BY <1>2 DEF CellsOf
  <2> HIDE DEF c, cell
  <2> QED BY <1>2, <2>1
<1>3. CASE n \notin {0, 1}
  <2>1. CellsOf(f, op, of, n) = <<c, cell(<<>>, n \div 2), cell(<<>>, n - (n \div 2))>>
    BY <1>3 DEF CellsOf
  <2> HIDE DEF c, cell
  <2> QED BY <1>3, <2>1
<1> QED BY <1>1, <1>2, <1>3

(* The cells of a frame: the first has its header, the payload follows.    *)
IsFrame(r, f, op, of, n) ==
  /\ r \in Seq(Cell) /\ Len(r) \in 1..3
  /\ Len(r) = IF n = 0 THEN 1 ELSE IF n = 1 THEN 2 ELSE 3
  /\ \A k \in 1..Len(r) :
       /\ r[k].f = f /\ r[k].op = op /\ r[k].of = of
       /\ r[k].size = 0 <=> k = 1
       /\ k > 1 => r[k].head = <<>>
  /\ n = 1 => r[2].size = 1
  /\ n > 1 => r[2].size = n \div 2 /\ r[3].size = n - (n \div 2)
  /\ op \in Opcodes => r[1].head = ServerHead(op, n)

(* A frame is the one its first cell announces. *)
LEMMA FrameRun ==
  ASSUME NEW f \in Nat \ {0}, NEW op \in Opcodes \cup {Upgraded, Refused}, NEW of \in 0..N,
         NEW n \in Nat, n < P64, op = Upgraded => n = 0, op = Refused => n = 11,
         NEW r, r = CellsOf(f, op, of, n)
  PROVE  IsFrame(r, f, op, of, n) /\ Announced(r[1]) = n /\ Run(r[1]) = r
<1> DEFINE cell(head, size) == [f |-> f, op |-> op, of |-> of, head |-> head, size |-> size]
<1> DEFINE h == IF op \in Opcodes THEN ServerHead(op, n) ELSE <<>>
<1>1. /\ r \in Seq(Cell)
      /\ \A k \in DOMAIN r : /\ r[k].op = op /\ r[k].of = of
                             /\ k = 1 => r[k].head = h
                             /\ k > 1 => r[k].head = <<>>
  <2>1. /\ CellsOf(f, op, of, n) \in Seq(Cell)
        /\ \A k \in DOMAIN CellsOf(f, op, of, n) :
             /\ CellsOf(f, op, of, n)[k].op = op /\ CellsOf(f, op, of, n)[k].of = of
             /\ k = 1 => CellsOf(f, op, of, n)[k].head = h
             /\ k > 1 => CellsOf(f, op, of, n)[k].head = <<>>
    BY CellsOfFrame
  <2> HIDE DEF h
  <2> QED BY <2>1
<1>2. Len(r) \in 1..3 /\ Len(r) = IF n = 0 THEN 1 ELSE IF n = 1 THEN 2 ELSE 3
  BY RunLength
<1>3. DOMAIN r = 1..Len(r) BY <1>1, LenProperties
<1>4. /\ \A k \in 1..Len(r) : r[k].f = f /\ (r[k].size = 0 <=> k = 1)
      /\ n = 1 => r[2].size = 1
      /\ n > 1 => r[2].size = n \div 2 /\ r[3].size = n - (n \div 2)
  <2>1. PICK c : c = cell(h, 0) OBVIOUS
  <2>2. c.f = f /\ c.size = 0 BY <2>1
  <2>3. CASE n = 0
    <3>1. r = <<c>> BY <2>1, <2>3 DEF CellsOf
    <3> QED BY <3>1, <2>2, <2>3, SMT
  <2>4. CASE n = 1
    <3>1. PICK d : d = cell(<<>>, 1) OBVIOUS
    <3>2. d.f = f /\ d.size = 1 BY <3>1
    <3>3. r = <<c, d>> BY <2>1, <2>4, <3>1 DEF CellsOf
    <3> QED BY <3>2, <3>3, <2>2, <2>4, SMT
  <2>5. CASE n > 1
    <3>1. PICK d : d = cell(<<>>, n \div 2) OBVIOUS
    <3>2. PICK e : e = cell(<<>>, n - (n \div 2)) OBVIOUS
    <3>3. d.f = f /\ d.size = n \div 2 BY <3>1
    <3>4. e.f = f /\ e.size = n - (n \div 2) BY <3>2
    <3>5. r = <<c, d, e>> BY <2>1, <2>5, <3>1, <3>2 DEF CellsOf
    <3>6. n \div 2 # 0 /\ n - (n \div 2) # 0 BY <2>5, SMT
    <3> HIDE DEF cell
    <3> QED BY <3>3, <3>4, <3>5, <3>6, <2>2, <2>5, SMT
  <2> QED BY <2>3, <2>4, <2>5, SMT
<1>5. r[1].op = op /\ r[1].of = of /\ r[1].f = f /\ r[1].head = h
  BY <1>1, <1>2, <1>3, <1>4
<1>6. Announced(r[1]) = n
  <2>1. CASE op \in Opcodes
    <3>1. ClientReads(ServerHead(op, n)).length = n BY <2>1, HeadBytes
    <3> QED BY <3>1, <2>1, <1>5 DEF Announced
  <2>2. CASE op \notin Opcodes BY <2>2, <1>5, OpcodesDiffer DEF Announced
  <2> QED BY <2>1, <2>2
<1>7. Run(r[1]) = r BY <1>5, <1>6 DEF Run
<1>8. IsFrame(r, f, op, of, n) BY <1>1, <1>2, <1>3, <1>4, <1>5 DEF IsFrame
<1> QED BY <1>6, <1>7, <1>8

(* One more frame behind the others. *)
LEMMA WholeAppend ==
  ASSUME NEW s \in Seq(Cell), NEW m \in Nat, Whole(s, m), NEW r \in Seq(Cell), Len(r) \in 1..3,
         \A k \in 1..Len(r) : r[k].f = m + 1 /\ (r[k].size = 0 <=> k = 1),
         \A k \in 1..Len(r) : m > 0 => r[k].op \in Opcodes,
         Run(r[1]) = r, Announced(r[1]) \in Nat, Announced(r[1]) < P64
  PROVE  Whole(s \o r, m + 1) /\ (s \o r)[Len(s) + 1].size = 0
<1> DEFINE u == s \o r
           L == Len(s)
<1>1. /\ L \in Nat /\ Len(u) = L + Len(r) /\ Len(r) \in Nat /\ u \in Seq(Cell)
      /\ \A i \in 1..L : u[i] = s[i] /\ s[i] \in Cell
      /\ \A i \in 1..Len(r) : u[L + i] = r[i]
  <2>1. /\ L \in Nat /\ Len(r) \in Nat /\ \A i \in 1..L : s[i] \in Cell
    BY ElementOfSeq, LenProperties
  <2>2. /\ u \in Seq(Cell) /\ Len(u) = L + Len(r)
        /\ \A i \in 1..(L + Len(r)) : u[i] = IF i <= L THEN s[i] ELSE r[i - L]
    BY ConcatProperties
  <2>3. \A i \in 1..Len(r) : L + i \in 1..(L + Len(r)) /\ ~(L + i <= L) /\ (L + i) - L = i
    BY <2>1
  <2>4. \A i \in 1..L : i \in 1..(L + Len(r)) /\ i <= L
    BY <2>1
  <2> HIDE DEF u, L
  <2> QED BY <2>1, <2>2, <2>3, <2>4
<1>2. /\ \A k \in 1..Len(u) : k \in 1..L \/ (k - L \in 1..Len(r) /\ u[k] = r[k - L])
      /\ 1 \in 1..Len(r)
  BY <1>1
<1>3. u[L + 1] = r[1] /\ r[1].size = 0 BY <1>1, <1>2
<1>4. s # <<>> => L \in 1..L /\ s[L].f = m BY <1>1, EmptySeq DEF Whole
<1>5. \A k \in 1..L : s[k].f \in Nat /\ s[k].f <= m
  <2>1. ASSUME NEW k \in 1..L PROVE s[k].f \in Nat /\ s[k].f <= m
    <3>1. s # <<>> BY <1>1, EmptySeq
    <3>2. s[L].f = m /\ L \in 1..L BY <3>1, <1>4
    <3>3. s[k].f \in Nat BY <1>1 DEF Cell
    <3>4. k = L \/ k < L BY <1>1
    <3>5. \A a, b \in 1..L : a < b => s[a].f <= s[b].f BY Zenon DEF Whole
    <3>6. CASE k = L BY <3>2, <3>3, <3>6
    <3>7. CASE k < L
      <4>1. s[k].f <= s[L].f BY <3>2, <3>5, <3>7
      <4> QED BY <3>2, <3>3, <4>1
    <3> QED BY <3>4, <3>6, <3>7
  <2> QED BY <2>1
<1> HIDE DEF u
<1>6. ASSUME NEW k \in 1..Len(u), u[k].size = 0
      PROVE  /\ k + Len(Run(u[k])) - 1 <= Len(u)
             /\ \A d \in 1..Len(Run(u[k])) : u[k + d - 1] = Run(u[k])[d]
             /\ k + Len(Run(u[k])) <= Len(u) => u[k + Len(Run(u[k]))].size = 0
  <2>1. CASE k \in 1..L
    <3>1. PICK q : q = Run(s[k]) OBVIOUS
    <3>2. Len(q) \in 1..3 BY <3>1, RunLength DEF Run
    <3>3. /\ k + Len(q) - 1 <= L
          /\ \A d \in 1..Len(q) : s[k + d - 1] = q[d]
          /\ k + Len(q) <= L => s[k + Len(q)].size = 0
      BY <2>1, <3>1, <1>1, <1>6 DEF Whole
    <3>a. \A a, b, c \in Nat : a \in 1..b /\ c \in 1..3 /\ a + c - 1 <= b =>
            /\ \A d \in 1..c : a + d - 1 \in 1..b
            /\ a + c = b + 1 \/ a + c \in 1..b
            /\ \A e \in Nat : a + c - 1 <= b + e
      OBVIOUS
    <3>b. k \in Nat /\ Len(q) \in Nat /\ L \in Nat BY <2>1, <3>2, <1>1
    <3>c. k + Len(q) - 1 <= L BY <3>3
    <3>d. /\ \A d \in 1..Len(q) : k + d - 1 \in 1..L
          /\ k + Len(q) = L + 1 \/ k + Len(q) \in 1..L
          /\ \A e \in Nat : k + Len(q) - 1 <= L + e
      BY <2>1, <3>2, <3>a, <3>b, <3>c
    <3>4. /\ u[k] = s[k] /\ k + Len(q) - 1 <= Len(u)
          /\ \A d \in 1..Len(q) : k + d - 1 \in 1..L
          /\ k + Len(q) = L + 1 \/ k + Len(q) \in 1..L
      BY <2>1, <3>d, <1>1
    <3>5. \A d \in 1..Len(q) : u[k + d - 1] = q[d] BY <3>3, <3>4, <1>1
    <3>6. u[k + Len(q)].size = 0
      <4>1. CASE k + Len(q) = L + 1 BY <4>1, <1>3
      <4>2. CASE k + Len(q) \in 1..L
        <5>1. k + Len(q) <= L BY <4>2
        <5> QED BY <4>2, <5>1, <3>3, <1>1
      <4> QED BY <3>4, <4>1, <4>2
    <3> QED BY <3>1, <3>4, <3>5, <3>6
  <2>2. CASE k \notin 1..L
    <3>1. k - L \in 1..Len(r) /\ u[k] = r[k - L] BY <2>2, <1>2
    <3>2. k - L = 1 BY <3>1, <1>6
    <3>3. k = L + 1 BY <3>2, <1>1
    <3>4. Run(u[k]) = r BY <3>1, <3>2
    <3>5. /\ k + Len(r) - 1 <= Len(u) /\ ~(k + Len(r) <= Len(u))
          /\ \A d \in 1..Len(r) : k + d - 1 = L + d
      BY <3>3, <1>1
    <3> QED BY <3>4, <3>5, <1>1
  <2> QED BY <2>1, <2>2
<1>a. ASSUME NEW k \in 1..Len(u), u[k].size = 0
      PROVE  Announced(u[k]) \in Nat /\ Announced(u[k]) < P64
  <2>1. CASE k \in 1..L
    <3>1. u[k] = s[k] BY <2>1, <1>1
    <3>2. s[k].size = 0 BY <3>1, <1>a
    <3> QED BY <2>1, <3>1, <3>2 DEF Whole
  <2>2. CASE k \notin 1..L
    <3>1. k - L \in 1..Len(r) /\ u[k] = r[k - L] BY <2>2, <1>2
    <3>2. k - L = 1 BY <3>1, <1>a
    <3> QED BY <3>1, <3>2
  <2> QED BY <2>1, <2>2
<1>7. ASSUME NEW j \in 1..Len(u), NEW k \in 1..Len(u), j < k
      PROVE  u[j].f <= u[k].f /\ (u[k].size = 0 => u[j].f < u[k].f)
  <2>1. CASE k \in 1..L
    <3>1. j \in 1..L BY <1>1, <1>7, <2>1
    <3> QED BY <1>1, <1>7, <2>1, <3>1 DEF Whole
  <2>2. CASE k \notin 1..L /\ j \in 1..L
    <3>1. u[k].f = m + 1 BY <2>2, <1>2
    <3>2. u[j] = s[j] /\ s[j].f \in Nat /\ s[j].f <= m BY <2>2, <1>1, <1>5
    <3> QED BY <3>1, <3>2
  <2>3. CASE k \notin 1..L /\ j \notin 1..L
    <3>1. /\ k - L \in 1..Len(r) /\ u[k] = r[k - L]
          /\ j - L \in 1..Len(r) /\ u[j] = r[j - L]
      BY <2>3, <1>2
    <3>2. k - L # 1 BY <3>1, <1>1, <1>7
    <3>3. u[k].f = m + 1 /\ u[j].f = m + 1 /\ u[k].size # 0 BY <3>1, <3>2
    <3> QED BY <3>3
  <2> QED BY <2>1, <2>2, <2>3
<1>8. ASSUME NEW k \in 1..(Len(u) - 1) PROVE u[k + 1].f <= u[k].f + 1
  <2>0. k \in 1..Len(u) /\ k + 1 \in 1..Len(u) BY <1>1
  <2>1. CASE k \in 1..L /\ k + 1 \in 1..L
    <3>1. k \in 1..(L - 1) BY <2>1, <1>1
    <3> QED BY <2>1, <3>1, <1>1 DEF Whole
  <2>2. CASE k \in 1..L /\ k + 1 \notin 1..L
    <3>1. k = L BY <2>2, <1>1
    <3>2. s # <<>> BY <2>2, <1>1, EmptySeq
    <3>3. u[k].f = m BY <2>2, <3>1, <3>2, <1>1, <1>4
    <3>4. u[k + 1].f = m + 1 BY <2>0, <2>2, <1>2
    <3> QED BY <3>3, <3>4
  <2>3. CASE k \notin 1..L
    <3>1. k + 1 \notin 1..L BY <2>3, <1>1
    <3>2. \A j \in 1..Len(u) : j \notin 1..L => u[j].f = m + 1
      <4>1. ASSUME NEW j \in 1..Len(u), j \notin 1..L PROVE u[j].f = m + 1
        <5>1. j - L \in 1..Len(r) /\ u[j] = r[j - L] BY <4>1, <1>2
        <5> QED BY <5>1
      <4> QED BY <4>1
    <3>3. u[k].f = m + 1 /\ u[k + 1].f = m + 1 BY <2>0, <2>3, <3>1, <3>2
    <3> QED BY <3>3
  <2> QED BY <2>1, <2>2, <2>3
<1>9. ASSUME NEW k \in 1..Len(u), u[k].f > 1 PROVE u[k].op \in Opcodes
  <2>1. CASE k \in 1..L BY <2>1, <1>1, <1>9 DEF Whole
  <2>2. CASE k \notin 1..L
    <3>1. k - L \in 1..Len(r) /\ u[k] = r[k - L] BY <2>2, <1>2
    <3>2. u[k].f = m + 1 BY <3>1
    <3>3. m > 0 BY <3>2, <1>9
    <3> QED BY <3>1, <3>3
  <2> QED BY <2>1, <2>2
<1>10. u # <<>> /\ u[1].size = 0 /\ u[1].f = 1 /\ u[Len(u)].f = m + 1
  <2>1. Len(u) > 0 BY <1>1
  <2>2. u # <<>> BY <2>1, <1>1, EmptySeq
  <2>3. Len(u) \in 1..Len(u) /\ Len(u) \notin 1..L BY <1>1
  <2>4. u[Len(u)].f = m + 1 BY <2>3, <1>2
  <2>5. CASE s = <<>>
    <3>1. m = 0 /\ L = 0 BY <2>5, EmptySeq DEF Whole
    <3>2. u[1] = r[1] BY <3>1, <1>3
    <3> QED BY <2>2, <2>4, <3>1, <3>2, <1>2, <1>3
  <2>6. CASE s # <<>>
    <3>1. 1 \in 1..L BY <2>6, <1>1, <1>4
    <3> QED BY <2>2, <2>4, <2>6, <3>1, <1>1 DEF Whole
  <2> QED BY <2>5, <2>6
<1>11. Whole(u, m + 1)
  BY <1>6, <1>a, <1>7, <1>8, <1>9, <1>10 DEF Whole
<1> QED BY <1>3, <1>11 DEF u

(* The stream u goes on where s ends, with a new frame. *)
Grows(s, u) ==
  /\ Len(s) <= Len(u)
  /\ \A k \in 1..Len(s) : u[k] = s[k]
  /\ Len(s) < Len(u) => u[Len(s) + 1].size = 0

LEMMA StreamType ==
  ASSUME TypeOK
  PROVE  /\ Stream \in Seq(Cell) /\ Len(Stream) \in Nat
         /\ Len(wire) \in Nat /\ Len(wire) <= Len(Stream)
         /\ \A k \in 1..Len(wire) : k \in 1..Len(Stream) /\ wire[k] = Stream[k] /\ wire[k] \in Cell
         /\ Stream = wire \o (chunk \o wbuf)
<1>1. wire \in Seq(Cell) /\ chunk \in Seq(Cell) /\ wbuf \in Seq(Cell) BY DEF TypeOK
<1>2. Stream = wire \o (chunk \o wbuf) BY <1>1, ConcatAssociative DEF Stream
<1>3. PICK r : r = chunk \o wbuf OBVIOUS
<1>4. r \in Seq(Cell) BY <1>1, <1>3, ConcatProperties
<1>5. /\ wire \o r \in Seq(Cell) /\ Len(wire \o r) = Len(wire) + Len(r)
      /\ \A i \in 1..(Len(wire) + Len(r)) :
           (wire \o r)[i] = IF i <= Len(wire) THEN wire[i] ELSE r[i - Len(wire)]
  BY <1>1, <1>4, ConcatProperties
<1>6. Len(wire) \in Nat /\ Len(r) \in Nat /\ \A k \in 1..Len(wire) : wire[k] \in Cell
  BY <1>1, <1>4, LenProperties, ElementOfSeq
<1>7. \A k \in 1..Len(wire) : k \in 1..(Len(wire) + Len(r)) /\ k <= Len(wire) BY <1>6
<1>8. Len(wire) <= Len(wire) + Len(r) /\ Len(wire) + Len(r) \in Nat BY <1>6
<1> QED BY <1>2, <1>3, <1>5, <1>6, <1>7, <1>8

LEMMA Assoc ==
  ASSUME NEW a \in Seq(Cell), NEW b \in Seq(Cell), NEW c \in Seq(Cell)
  PROVE  (a \o b) \o c = a \o (b \o c)
  BY ConcatAssociative

(* sendall() takes nothing out of the stream and puts nothing in. *)
LEMMA StreamSent ==
  ASSUME TypeOK, TakeChunk \/ SendCell
  PROVE  Stream' = Stream
<1>1. wire \in Seq(Cell) /\ chunk \in Seq(Cell) /\ wbuf \in Seq(Cell) BY DEF TypeOK
<1>2. CASE TakeChunk
  <2>1. /\ chunk = <<>> /\ wire' = wire
        /\ chunk' = SubSeq(wbuf, 1, ChunkLength)
        /\ wbuf' = SubSeq(wbuf, ChunkLength + 1, Len(wbuf))
    BY <1>2 DEF TakeChunk
  <2>2. Len(wbuf) \in Nat /\ ChunkLength \in 0..Len(wbuf)
    <3>1. Len(wbuf) \in Nat /\ RecvSize \in Nat BY <1>1, LenProperties, WsAssumption
    <3> QED BY <3>1, SMT DEF ChunkLength
  <2>3. PICK m \in 0..Len(wbuf) : m = ChunkLength BY <2>2
  <2>4. /\ 1 \in 1..(Len(wbuf) + 1) /\ m \in (1 - 1)..Len(wbuf)
        /\ Len(wbuf) \in m..Len(wbuf)
    BY <2>2
  <2>5. SubSeq(wbuf, 1, m) \o SubSeq(wbuf, m + 1, Len(wbuf)) = SubSeq(wbuf, 1, Len(wbuf))
    BY <1>1, <2>4, ConcatAdjacentSubSeq
  <2>6. chunk' \o wbuf' = wbuf BY <2>1, <2>3, <2>5, <1>1, SubSeqFull
  <2>7. chunk' \in Seq(Cell) /\ wbuf' \in Seq(Cell) BY <2>1, <2>2, <1>1, CutInTwo
  <2>a. PICK c \in Seq(Cell) : c = chunk' BY <2>7
  <2>b. PICK b \in Seq(Cell) : b = wbuf' BY <2>7
  <2>c. (wire \o c) \o b = wire \o (c \o b) BY <1>1, Assoc
  <2>8. (wire \o chunk') \o wbuf' = wire \o (chunk' \o wbuf') BY <2>a, <2>b, <2>c
  <2>9. wire \o chunk = wire BY <1>1, <2>1, ConcatEmptySeq
  <2> QED BY <2>1, <2>6, <2>8, <2>9 DEF Stream
<1>3. CASE SendCell
  <2>1. /\ chunk # <<>> /\ wire' = Append(wire, Head(chunk)) /\ chunk' = Tail(chunk)
        /\ wbuf' = wbuf
    BY <1>3 DEF SendCell
  <2>2. PICK h : h = Head(chunk) OBVIOUS
  <2>3. PICK t : t = Tail(chunk) OBVIOUS
  <2>4. /\ h \in Cell /\ t \in Seq(Cell) /\ <<h>> \in Seq(Cell) /\ h = chunk[1]
        /\ Len(t) = Len(chunk) - 1 /\ \A i \in 1..Len(t) : t[i] = chunk[i + 1]
        /\ Len(chunk) \in Nat /\ Len(chunk) > 0
    BY <1>1, <2>1, <2>2, <2>3, HeadTailProperties, LenProperties, EmptySeq
  <2>5. <<h>> \o t = chunk
    <3>1. /\ <<h>> \o t \in Seq(Cell) /\ Len(<<h>> \o t) = Len(<<h>>) + Len(t)
          /\ \A i \in 1..(Len(<<h>>) + Len(t)) :
               (<<h>> \o t)[i] = IF i <= Len(<<h>>) THEN <<h>>[i] ELSE t[i - Len(<<h>>)]
      BY <2>4, ConcatProperties
    <3>2. Len(<<h>>) = 1 /\ <<h>>[1] = h OBVIOUS
    <3>3. /\ <<h>> \o t \in Seq(Cell) /\ Len(<<h>> \o t) = 1 + Len(t)
          /\ \A i \in 1..(1 + Len(t)) : (<<h>> \o t)[i] = IF i <= 1 THEN <<h>>[i] ELSE t[i - 1]
      BY <3>1, <3>2
    <3>4. ASSUME NEW i \in 1..Len(chunk) PROVE (<<h>> \o t)[i] = chunk[i]
      <4>1. i \in 1..(1 + Len(t)) BY <2>4
      <4>2. CASE i = 1 BY <4>1, <4>2, <3>2, <3>3, <2>4
      <4>3. CASE i # 1
        <5>1. i - 1 \in 1..Len(t) /\ (i - 1) + 1 = i /\ ~(i <= 1) BY <4>3, <2>4
        <5>2. t[i - 1] = chunk[(i - 1) + 1] BY <5>1, <2>4
        <5> QED BY <4>1, <5>1, <5>2, <3>3
      <4> QED BY <4>2, <4>3
    <3>5. Len(<<h>> \o t) = Len(chunk) BY <3>3, <2>4
    <3> QED BY <3>3, <3>4, <3>5, <1>1, SeqEqual
  <2>6. wire' = wire \o <<h>> BY <1>1, <2>1, <2>2, <2>4, AppendIsConcat
  <2>a. PICK g \in Seq(Cell) : g = <<h>> BY <2>4
  <2>b. (wire \o g) \o t = wire \o (g \o t) BY <1>1, <2>4, Assoc
  <2>7. (wire \o <<h>>) \o t = wire \o chunk BY <2>a, <2>b, <2>5
  <2> QED BY <2>1, <2>3, <2>6, <2>7 DEF Stream
<1> QED BY <1>2, <1>3

(* write_frame puts a frame behind the stream. *)
LEMMA StreamWritten ==
  ASSUME TypeOK, Whole(Stream, frames),
         NEW op \in Opcodes \cup {Upgraded, Refused}, NEW n \in Nat, n < P64,
         NEW of \in 0..N, NEW done, NEW failed, Write(op, n, of, done, failed),
         op = Upgraded => n = 0, op = Refused => n = 11, frames = 0 \/ op \in Opcodes
  PROVE  /\ Whole(Stream, frames)' /\ Grows(Stream, Stream')
         /\ frames' \in Nat /\ frames' > 0 /\ broken' = broken
<1>1. /\ wire \in Seq(Cell) /\ chunk \in Seq(Cell) /\ wbuf \in Seq(Cell) /\ frames \in Nat
      /\ frames + 1 \in Nat \ {0}
  <2>1. wire \in Seq(Cell) /\ chunk \in Seq(Cell) /\ wbuf \in Seq(Cell) /\ frames \in Nat
    BY DEF TypeOK
  <2> QED BY <2>1, SMT
<1>2. PICK r : r = CellsOf(frames + 1, op, of, n) OBVIOUS
<1>3. /\ wbuf' = wbuf \o r /\ frames' = frames + 1 /\ wire' = wire /\ chunk' = chunk
      /\ broken' = broken
  BY <1>2 DEF Write
<1>4. /\ r \in Seq(Cell) /\ Len(r) \in 1..3
      /\ \A k \in 1..Len(r) : /\ r[k].f = frames + 1 /\ r[k].op = op
                              /\ r[k].size = 0 <=> k = 1
      /\ Run(r[1]) = r /\ Announced(r[1]) \in Nat /\ Announced(r[1]) < P64
  <2>1. PICK f \in Nat \ {0} : f = frames + 1 BY <1>1
  <2>2. r = CellsOf(f, op, of, n) BY <1>2, <2>1
  <2>3. /\ r \in Seq(Cell) /\ Len(r) \in 1..3
        /\ \A k \in 1..Len(r) : /\ r[k].f = f /\ r[k].op = op
                                /\ r[k].size = 0 <=> k = 1
        /\ Run(r[1]) = r /\ Announced(r[1]) = n
    <3>1. IsFrame(r, f, op, of, n) /\ Run(r[1]) = r /\ Announced(r[1]) = n
      BY <2>2, FrameRun
    <3> QED BY <3>1 DEF IsFrame
  <2> QED BY <2>1, <2>3
<1>5. PICK s \in Seq(Cell) : s = Stream BY StreamType
<1>6. Stream' = s \o r
  <2>1. wire \o chunk \in Seq(Cell) BY <1>1, ConcatProperties
  <2>a. PICK u \in Seq(Cell) : u = wire \o chunk BY <2>1
  <2>b. (u \o wbuf) \o r = u \o (wbuf \o r) BY <1>1, <1>4, Assoc
  <2>2. (wire \o chunk) \o (wbuf \o r) = ((wire \o chunk) \o wbuf) \o r BY <2>a, <2>b
  <2> QED BY <1>3, <1>5, <2>2 DEF Stream
<1>7. Whole(s \o r, frames + 1) /\ (s \o r)[Len(s) + 1].size = 0
  <2>1. Whole(s, frames) BY <1>5
  <2>2. \A k \in 1..Len(r) : frames > 0 => r[k].op \in Opcodes BY <1>4
  <2> QED BY <1>1, <1>4, <2>1, <2>2, WholeAppend
<1>8. Len(s) <= Len(s \o r) /\ \A k \in 1..Len(s) : (s \o r)[k] = s[k]
  <2>1. /\ Len(s \o r) = Len(s) + Len(r)
        /\ \A i \in 1..(Len(s) + Len(r)) : (s \o r)[i] = IF i <= Len(s) THEN s[i] ELSE r[i - Len(s)]
    BY <1>4, ConcatProperties
  <2>2. Len(s) \in Nat /\ Len(r) \in Nat BY <1>4, LenProperties
  <2>3. \A k \in 1..Len(s) : k \in 1..(Len(s) + Len(r)) /\ k <= Len(s) BY <2>2
  <2> QED BY <2>1, <2>2, <2>3
<1>9. Grows(Stream, Stream') BY <1>5, <1>6, <1>7, <1>8 DEF Grows
<1>10. Whole(Stream', frames') BY <1>3, <1>6, <1>7
<1>11. Whole(Stream, frames)' <=> Whole(Stream', frames')
  BY DEF Whole, Run, Announced
<1>12. frames' \in Nat /\ frames' > 0 BY <1>1, <1>3, SMT
<1> QED BY <1>3, <1>9, <1>10, <1>11, <1>12

(* What is written goes behind the stream, and nothing is taken out of it  *)
(* as long as no sendall() fails.                                          *)
LEMMA StreamStep ==
  ASSUME IInv, LengthsFit, StreamInv, [Next]_vars
  PROVE  StreamInv' /\ (~broken' => ~broken /\ Grows(Stream, Stream'))
<1>t. TypeOK /\ ThreadInv BY DEF IInv
<1> DEFINE Goal == StreamInv' /\ (~broken' => ~broken /\ Grows(Stream, Stream'))
<1> SUFFICES Goal OBVIOUS
<1>e. ASSUME Stream' = Stream, frames' = frames, broken' = broken PROVE Goal
  <2>1. Whole(Stream, frames)' <=> Whole(Stream', frames')
    BY DEF Whole, Run, Announced
  <2>2. StreamInv' BY <1>e, <2>1 DEF StreamInv
  <2>3. Len(Stream) \in Nat BY <1>t, StreamType
  <2>4. Grows(Stream, Stream') BY <2>3, <1>e DEF Grows
  <2> QED BY <2>2, <2>4, <1>e
<1>q. ASSUME UNCHANGED outVars PROVE Goal
  <2>1. Stream' = Stream /\ frames' = frames /\ broken' = broken
    BY <1>q DEF Stream, outVars
  <2> QED BY <2>1, <1>e
<1>w. ASSUME NEW op \in Opcodes \cup {Upgraded, Refused}, NEW n \in Nat, n < P64,
             NEW of \in 0..N, NEW done, NEW failed, Write(op, n, of, done, failed),
             op = Upgraded => n = 0, op = Refused => n = 11, at = "upgrading" \/ op \in Opcodes
      PROVE  Goal
  <2>1. broken' = broken BY <1>w DEF Write
  <2>2. CASE broken BY <2>1, <2>2 DEF StreamInv
  <2>3. CASE ~broken
    <3>1. Whole(Stream, frames) BY <2>3 DEF StreamInv
    <3>2. frames = 0 \/ op \in Opcodes
      <4>1. CASE at = "upgrading"
        <5>1. wire = <<>> /\ chunk = <<>> /\ wbuf = <<>> BY <4>1, <1>t DEF ThreadInv
        <5>2. Stream = <<>> BY <5>1 DEF Stream
        <5> QED BY <5>2, <3>1 DEF Whole
      <4> QED BY <4>1, <1>w
    <3>3. Whole(Stream, frames)' /\ Grows(Stream, Stream')
      BY <1>t, <1>w, <3>1, <3>2, StreamWritten
    <3> QED BY <3>3, <2>3 DEF StreamInv
  <2> QED BY <2>2, <2>3
<1> HIDE DEF Goal
<1>n. 0 \in 0..N /\ 0 \in Nat /\ 2 \in Nat /\ 11 \in Nat BY WsAssumption, SMT
<1>1. CASE TakeChunk \/ SendCell
  <2>1. frames' = frames /\ broken' = broken BY <1>1 DEF TakeChunk, SendCell
  <2>2. Stream' = Stream BY <1>1, <1>t, StreamSent
  <2> QED BY <2>1, <2>2, <1>e
<1>2. CASE SendFails BY <1>2 DEF SendFails, StreamInv, Goal
<1>3. CASE WriteEnds BY <1>3, <1>q DEF WriteEnds
<1>4. CASE NoRequest BY <1>4, <1>q DEF NoRequest
<1>5. CASE RefuseUpgrade
  <2>1. at = "upgrading" /\ Write(Refused, 11, 0, "closing", "closing")
    BY <1>5 DEF RefuseUpgrade
  <2> QED BY <2>1, <1>n, <1>w, OpcodesDiffer, ShortLengths
<1>6. CASE Upgrade
  <2>1. PICK place \in {"handler", "finally"} : Write(Upgraded, 0, 0, place, "closing")
    BY <1>6 DEF Upgrade
  <2>2. at = "upgrading" BY <1>6 DEF Upgrade
  <2> QED BY <2>1, <2>2, <1>n, <1>w, OpcodesDiffer, ShortLengths
<1>o. ASSUME NEW op \in Opcodes, NEW n \in Nat, n < P64, NEW of \in 0..N, NEW done, NEW failed,
             Write(op, n, of, done, failed)
      PROVE  Goal
  <2>1. op # Upgraded /\ op # Refused
    BY SMT DEF Opcodes, CONT, TEXT, BIN, CLOSE, PING, PONG, Upgraded, Refused
  <2> QED BY <2>1, <1>o, <1>w
<1>7. CASE HandlerSends
  <2>1. PICK n \in Sizes : Write(TEXT, n, 0, "handler", "finally") BY <1>7 DEF HandlerSends
  <2>2. n \in Nat /\ n < P64 BY WsAssumption DEF LengthsFit
  <2> QED BY <2>1, <2>2, <1>n, <1>o, OpcodesDiffer
<1>8. CASE HandlerCloses
  <2>1. Write(CLOSE, 2, 0, "handler", "finally") BY <1>8 DEF HandlerCloses
  <2> QED BY <2>1, <1>n, <1>o, OpcodesDiffer, ShortLengths
<1>9. CASE HandlerReceives \/ HandlerEnds BY <1>9, <1>q DEF HandlerReceives, HandlerEnds
<1>10. CASE ReceivePing
  <2>1. read < arrived /\ Write(PONG, NextFrame.length, read + 1, "receiving", "finally")
    BY <1>10 DEF ReceivePing, Receiving
  <2>2. PICK n \in Nat : n = NextFrame.length /\ n < P64 BY <2>1, <1>t, FrameRead
  <2>3. PICK of \in 0..N : of = read + 1 BY <2>1, <1>t, FrameRead
  <2>4. Write(PONG, n, of, "receiving", "finally") BY <2>1, <2>2, <2>3
  <2> QED BY <2>2, <2>4, <1>o, OpcodesDiffer
<1>11. CASE ReceiveData BY <1>11, <1>q DEF ReceiveData
<1>12. CASE ReceiveClose
  <2>1. UNCHANGED outVars \/ Write(CLOSE, 2, 0, "handler", "finally") BY <1>12 DEF ReceiveClose
  <2> QED BY <2>1, <1>q, <1>n, <1>o, OpcodesDiffer, ShortLengths
<1>13. CASE ReceiveNothing BY <1>13, <1>q DEF ReceiveNothing
<1>14. CASE Finally
  <2>1. UNCHANGED outVars \/ Write(CLOSE, 2, 0, "closing", "closing") BY <1>14 DEF Finally
  <2> QED BY <2>1, <1>q, <1>n, <1>o, OpcodesDiffer, ShortLengths
<1>15. CASE Close BY <1>15, <1>q DEF Close
<1>16. CASE SendFrame \/ ClientLeaves BY <1>16, <1>q DEF SendFrame, ClientLeaves
<1>17. CASE Finished \/ UNCHANGED vars BY <1>17, <1>q DEF Finished, vars
<1> QED BY <1>1, <1>2, <1>3, <1>4, <1>5, <1>6, <1>7, <1>8, <1>9, <1>10, <1>11, <1>12,
           <1>13, <1>14, <1>15, <1>16, <1>17
        DEF Next, Server, Writing, Handler, Receive, Goal

(* The wire only grows. *)
LEMMA WireGrows ==
  ASSUME TypeOK, [Next]_vars
  PROVE  /\ Len(wire) \in Nat /\ Len(wire') \in Nat /\ Len(wire) <= Len(wire')
         /\ \A k \in 1..Len(wire) : wire'[k] = wire[k]
<1>1. wire \in Seq(Cell) /\ chunk \in Seq(Cell) BY DEF TypeOK
<1>2. Len(wire) \in Nat BY <1>1, LenProperties
<1>3. CASE SendCell
  <2>1. chunk # <<>> /\ wire' = Append(wire, Head(chunk)) BY <1>3 DEF SendCell
  <2>2. PICK h \in Cell : h = Head(chunk) BY <1>1, <2>1, HeadTailProperties
  <2>3. /\ Len(Append(wire, h)) = Len(wire) + 1
        /\ \A k \in 1..Len(wire) : Append(wire, h)[k] = wire[k]
    BY <1>1, <1>2, SMT
  <2> QED BY <1>2, <2>1, <2>2, <2>3
<1>4. CASE UNCHANGED wire BY <1>2, <1>4
<1>5. SendCell \/ UNCHANGED wire
  BY DEF Next, vars, outVars, Server, Writing, Handler, Receive, SendFrame, ClientLeaves,
         TakeChunk, SendFails, WriteEnds, NoRequest, RefuseUpgrade, Upgrade, HandlerSends,
         HandlerCloses, HandlerReceives, HandlerEnds, ReceivePing, ReceiveData, ReceiveClose,
         ReceiveNothing, Finally, Close, Finished, Write
<1> QED BY <1>3, <1>4, <1>5

(* A header as the client reads it. *)
LEMMA HeadRead ==
  ASSUME NEW op \in Opcodes, NEW n \in Nat, n < P64
  PROVE  /\ ClientReads(ServerHead(op, n)).op = op
         /\ ClientReads(ServerHead(op, n)).length = n
         /\ ServerHead(op, n) # <<>>
         /\ Len(ServerHead(op, n)) = 2 + Extended(ServerHead(op, n))
<1>1. op \in 0..15 BY SMT DEF Opcodes, CONT, TEXT, BIN, CLOSE, PING, PONG
<1>2. ClientReads(ServerHead(op, n) \o <<>>) = [op |-> op, length |-> n, head |-> Len(ServerHead(op, n))]
  <2>1. <<>> \in Bytes BY DEF Bytes
  <2> QED BY <1>1, <2>1, ServerFramesRead
<1>3. ServerHead(op, n) \in Seq(Byte) /\ ServerHead(op, n) # <<>> BY HeadBytes
<1>4. PICK h \in Seq(Byte) : h = ServerHead(op, n) BY <1>3
<1>5. h \o <<>> = h BY ConcatEmptySeq
<1>6. ClientReads(h) = [op |-> op, length |-> n, head |-> Len(h)] BY <1>2, <1>4, <1>5
<1>7. ClientReads(h).head = 2 + Extended(h) BY DEF ClientReads
<1>8. ClientReads(h).op = op /\ ClientReads(h).length = n /\ Len(h) = 2 + Extended(h)
  BY <1>6, <1>7
<1> QED BY <1>3, <1>4, <1>8

-----------------------------------------------------------------------------
(* What the client has of the k-th frame behind the 101, from cell p on. *)
AtFrame(k, p) ==
  /\ wire[p].size = 0
  /\ wire[p].f = k + 1
  /\ received[k] = [op |-> wire[p].op, length |-> Announced(wire[p]), f |-> k + 1]

(* It is behind the header, or behind the first of two pieces of the       *)
(* payload.                                                                *)
InPayload(p) ==
  LET n == Announced(wire[p])
  IN /\ received # <<>> /\ AtFrame(Len(received), p)
     /\ \/ p = taken /\ left = n
        \/ p = taken - 1 /\ n > 1 /\ left = n - (n \div 2)

(* Between two frames, or in the payload of the last one. *)
PlaceInv ==
  /\ taken \in 1..Len(wire)
  /\ wire[taken].f = Len(received) + 1
  /\ left = 0 => (taken < Len(Stream) => Stream[taken + 1].size = 0)
  /\ left > 0 => \E p \in 1..taken : InPayload(p)

(* The frames returned were taken from the wire whole. *)
FiledInv ==
  \A k \in 1..Returned : \E p \in 1..taken :
    AtFrame(k, p) /\ p + Len(Run(wire[p])) - 1 <= taken

ReadInv ==
  /\ taken \in 0..Len(wire)
  /\ received \in Seq([op : Opcodes, length : Nat, f : Nat])
  /\ left \in Nat
  /\ reader \in {"shaking", "frames", "ended"}
  /\ reader # "frames" => received = <<>> /\ left = 0
  /\ reader = "frames" => PlaceInv
  /\ FiledInv

ClientInv ==
  /\ reader = "shaking" => dropped = 0
  /\ ~broken /\ dropped = 0 => ReadInv

(* The frame r stands in the stream from cell p on, and another follows. *)
InStream(p, r) ==
  /\ p + Len(r) - 1 <= Len(Stream)
  /\ \A d \in 1..Len(r) : Stream[p + d - 1] = r[d]
  /\ p + Len(r) <= Len(Stream) => Stream[p + Len(r)].size = 0

(* The frame whose first cell is the p-th of the wire. *)
LEMMA FrameAt ==
  ASSUME TypeOK, ~broken, StreamInv, NEW p \in 1..Len(wire), wire[p].size = 0, wire[p].f > 1,
         NEW c, c = wire[p], NEW r, r = Run(c), NEW n, n = Announced(c)
  PROVE  /\ n \in Nat /\ n < P64 /\ c.op \in Opcodes
         /\ c.head = ServerHead(c.op, n)
         /\ IsFrame(r, c.f, c.op, c.of, n) /\ InStream(p, r)
<1>1. p \in 1..Len(Stream) /\ Stream[p] = c /\ c \in Cell BY StreamType
<1>2. Whole(Stream, frames) BY DEF StreamInv
<1>3. n \in Nat /\ n < P64 BY <1>1, <1>2 DEF Whole
<1>4. c.op \in Opcodes BY <1>1, <1>2 DEF Whole
<1>5. InStream(p, r) BY <1>1, <1>2 DEF Whole, InStream
<1>6. c.f \in Nat \ {0} /\ c.op \in Opcodes \cup {Upgraded, Refused} /\ c.of \in 0..N
  BY <1>1 DEF Cell
<1>7. r = CellsOf(c.f, c.op, c.of, n) BY DEF Run
<1>8. c.op # Upgraded /\ c.op # Refused
  BY <1>4, SMT DEF Opcodes, CONT, TEXT, BIN, CLOSE, PING, PONG, Upgraded, Refused
<1>9. IsFrame(r, c.f, c.op, c.of, n)
  <2>1. PICK f \in Nat \ {0} : f = c.f BY <1>6
  <2>2. PICK op \in Opcodes \cup {Upgraded, Refused} : op = c.op BY <1>6
  <2>3. PICK of \in 0..N : of = c.of BY <1>6
  <2>4. /\ r = CellsOf(f, op, of, n) /\ op \in Opcodes /\ op # Upgraded /\ op # Refused
    BY <1>4, <1>7, <1>8, <2>1, <2>2, <2>3
  <2>5. PICK m \in Nat : m = n BY <1>3
  <2>6. m < P64 /\ r = CellsOf(f, op, of, m) BY <1>3, <2>4, <2>5
  <2>7. (op = Upgraded => m = 0) /\ (op = Refused => m = 11) BY <2>4
  <2>8. IsFrame(r, f, op, of, m) BY <2>6, <2>7, FrameRun
  <2> QED BY <2>1, <2>2, <2>3, <2>5, <2>8
<1>10. r[1] = c
  <2>1. 1 \in 1..Len(r) /\ p + 1 - 1 = p BY <1>9 DEF IsFrame
  <2> QED BY <2>1, <1>1, <1>5 DEF InStream
<1>11. c.head = ServerHead(c.op, n) BY <1>4, <1>9, <1>10 DEF IsFrame
<1> QED BY <1>3, <1>4, <1>5, <1>9, <1>11

(* Between two frames the next cell is a header, and the client reads in   *)
(* it what the server has written.                                         *)
LEMMA NextHead ==
  ASSUME TypeOK, ~broken, StreamInv, ReadInv, Waiting, left = 0,
         NEW c, c = NextCell, NEW n, n = Announced(c)
  PROVE  /\ HeadFits /\ taken + 1 \in 1..Len(wire)
         /\ c.size = 0 /\ c.f = Len(received) + 2 /\ c.op \in Opcodes /\ n \in Nat
         /\ ClientReads(c.head).op = c.op /\ ClientReads(c.head).length = n
         /\ n = 0 => Len(Run(c)) = 1 /\ (taken + 1 < Len(Stream) => Stream[taken + 2].size = 0)
<1>1. /\ taken \in 1..Len(wire) /\ wire[taken].f = Len(received) + 1 /\ taken < Len(wire)
      /\ taken < Len(Stream) => Stream[taken + 1].size = 0
      /\ received \in Seq([op : Opcodes, length : Nat, f : Nat]) /\ c = wire[taken + 1]
  BY DEF ReadInv, PlaceInv, Waiting, NextCell
<1>2. /\ Len(wire) \in Nat /\ Len(Stream) \in Nat /\ Len(wire) <= Len(Stream)
      /\ \A k \in 1..Len(wire) : k \in 1..Len(Stream) /\ wire[k] = Stream[k] /\ wire[k] \in Cell
  BY StreamType
<1>3. /\ taken + 1 \in 1..Len(wire) /\ taken < Len(Stream) /\ taken < taken + 1
      /\ taken \in 1..(Len(Stream) - 1) /\ taken + 1 \in 1..Len(Stream)
  BY <1>1, <1>2, SMT
<1>4. c.size = 0 /\ Stream[taken + 1] = c /\ Stream[taken] = wire[taken] BY <1>1, <1>2, <1>3
<1>5. Len(received) \in Nat BY <1>1, LenProperties
<1>6. c.f = Len(received) + 2
  <2>1. Whole(Stream, frames) BY DEF StreamInv
  <2>2. Stream[taken].f < Stream[taken + 1].f
    <3>1. taken \in 1..Len(Stream) BY <1>1, <1>2
    <3> QED BY <2>1, <3>1, <1>3, <1>4 DEF Whole
  <2>3. Stream[taken + 1].f <= Stream[taken].f + 1 BY <2>1, <1>3 DEF Whole
  <2>4. c.f \in Nat BY <1>1, <1>2, <1>3 DEF Cell
  <2> QED BY <2>2, <2>3, <2>4, <1>1, <1>4, <1>5, SMT
<1>7. PICK p \in 1..Len(wire) : p = taken + 1 BY <1>3
<1>8. PICK r : r = Run(c) OBVIOUS
<1>9. /\ n \in Nat /\ n < P64 /\ c.op \in Opcodes
      /\ Len(r) = IF n = 0 THEN 1 ELSE IF n = 1 THEN 2 ELSE 3
      /\ c.head = ServerHead(c.op, n)
      /\ p + Len(r) <= Len(Stream) => Stream[p + Len(r)].size = 0
  <2>1. wire[p] = c /\ wire[p].size = 0 BY <1>1, <1>4, <1>7
  <2>2. wire[p].f > 1 BY <2>1, <1>5, <1>6
  <2>3. /\ n \in Nat /\ n < P64 /\ c.op \in Opcodes /\ c.head = ServerHead(c.op, n)
        /\ IsFrame(r, c.f, c.op, c.of, n) /\ InStream(p, r)
    BY <2>1, <2>2, <1>8, FrameAt
  <2> QED BY <2>3 DEF IsFrame, InStream
<1>10. /\ ClientReads(c.head).op = c.op /\ ClientReads(c.head).length = n
       /\ c.head # <<>> /\ Len(c.head) = 2 + Extended(c.head)
  BY <1>9, HeadRead
<1>11. HeadFits BY <1>10 DEF HeadFits
<1>12. ASSUME n = 0 PROVE Len(r) = 1 /\ (taken + 1 < Len(Stream) => Stream[taken + 2].size = 0)
  <2>1. Len(r) = 1 BY <1>9, <1>12
  <2>2. p + Len(r) = taken + 2 BY <2>1, <1>1, <1>7
  <2>3. taken + 1 < Len(Stream) => taken + 2 <= Len(Stream) BY <1>1, <1>2
  <2> QED BY <2>1, <2>2, <2>3, <1>9
<1> QED BY <1>3, <1>4, <1>6, <1>8, <1>9, <1>10, <1>11, <1>12

(* In a payload the next cell is the next piece of it. *)
LEMMA NextPayload ==
  ASSUME TypeOK, ~broken, StreamInv, ReadInv, Waiting, left > 0, NEW c, c = NextCell
  PROVE  /\ PayloadFits /\ left - c.size \in Nat /\ taken + 1 \in 1..Len(wire)
         /\ c.f = Len(received) + 1 /\ received # <<>>
         /\ left - c.size = 0 =>
              /\ taken + 1 < Len(Stream) => Stream[taken + 2].size = 0
              /\ \E p \in 1..taken : /\ AtFrame(Len(received), p)
                                     /\ p + Len(Run(wire[p])) - 1 <= taken + 1
         /\ left - c.size > 0 =>
              /\ AtFrame(Len(received), taken) /\ Announced(wire[taken]) > 1
              /\ left - c.size = Announced(wire[taken]) - (Announced(wire[taken]) \div 2)
<1>1. /\ taken \in 1..Len(wire) /\ taken < Len(wire) /\ left \in Nat
      /\ received \in Seq([op : Opcodes, length : Nat, f : Nat]) /\ c = wire[taken + 1]
      /\ \E p \in 1..taken : InPayload(p)
  BY DEF ReadInv, PlaceInv, Waiting, NextCell
<1>2. PICK p \in 1..taken : InPayload(p) BY <1>1
<1>3. PICK n : n = Announced(wire[p]) OBVIOUS
<1>4. /\ received # <<>> /\ AtFrame(Len(received), p)
      /\ wire[p].size = 0 /\ wire[p].f = Len(received) + 1
      /\ (p = taken /\ left = n) \/ (p = taken - 1 /\ n > 1 /\ left = n - (n \div 2))
  BY <1>2, <1>3 DEF InPayload, AtFrame
<1>5. Len(received) \in Nat /\ Len(received) > 0 BY <1>1, <1>4, LenProperties, EmptySeq
<1>6. /\ Len(wire) \in Nat /\ Len(Stream) \in Nat /\ Len(wire) <= Len(Stream)
      /\ \A k \in 1..Len(wire) : k \in 1..Len(Stream) /\ wire[k] = Stream[k] /\ wire[k] \in Cell
  BY StreamType
<1>7. p \in 1..Len(wire) /\ taken + 1 \in 1..Len(wire) /\ p \in Nat /\ taken \in Nat
  BY <1>1, <1>6
<1>8. PICK r : r = Run(wire[p]) OBVIOUS
<1>9. /\ n \in Nat
      /\ r \in Seq(Cell) /\ Len(r) = IF n = 0 THEN 1 ELSE IF n = 1 THEN 2 ELSE 3
      /\ \A d \in 1..Len(r) : r[d].f = wire[p].f /\ (d > 1 => r[d].head = <<>>)
      /\ n = 1 => r[2].size = 1
      /\ n > 1 => r[2].size = n \div 2 /\ r[3].size = n - (n \div 2)
      /\ \A d \in 1..Len(r) : Stream[p + d - 1] = r[d]
      /\ p + Len(r) <= Len(Stream) => Stream[p + Len(r)].size = 0
  <2>1. wire[p].f > 1 BY <1>4, <1>5
  <2>2. PICK e : e = wire[p] OBVIOUS
  <2>3. n = Announced(e) /\ r = Run(e) /\ wire[p].size = 0 BY <1>3, <1>4, <1>8, <2>2
  <2>4. n \in Nat /\ IsFrame(r, e.f, e.op, e.of, n) /\ InStream(p, r)
    BY <1>7, <2>1, <2>2, <2>3, FrameAt
  <2> QED BY <2>2, <2>4 DEF IsFrame, InStream
<1>10. Stream[taken + 1] = c BY <1>1, <1>6, <1>7
<1>11. CASE p = taken /\ left = n
  <2>1. 2 \in 1..Len(r) /\ p + 2 - 1 = taken + 1 /\ n > 0 BY <1>7, <1>9, <1>11
  <2>2. c = r[2] BY <2>1, <1>9, <1>10
  <2>3. c.head = <<>> /\ c.f = Len(received) + 1 BY <2>1, <2>2, <1>4, <1>9
  <2>4. CASE n = 1
    <3>1. c.size = 1 /\ left - c.size = 0 BY <2>2, <2>4, <1>9, <1>11
    <3>2. Len(r) = 2 /\ p + Len(r) = taken + 2 /\ p + Len(r) - 1 <= taken + 1
      BY <2>4, <1>7, <1>9, <1>11
    <3>3. taken + 1 < Len(Stream) => taken + 2 <= Len(Stream) BY <1>6, <1>7
    <3>4. taken + 1 < Len(Stream) => Stream[taken + 2].size = 0 BY <3>2, <3>3, <1>9
    <3>5. PayloadFits BY <2>3, <2>4, <3>1, <1>11 DEF PayloadFits
    <3>6. \E q \in 1..taken : AtFrame(Len(received), q) /\ q + Len(Run(wire[q])) - 1 <= taken + 1
      BY <3>2, <1>4, <1>8
    <3> QED BY <2>3, <3>1, <3>4, <3>5, <3>6, <1>4, <1>7
  <2>5. CASE n > 1
    <3>1. c.size = n \div 2 BY <2>2, <2>5, <1>9
    <3>2. n \div 2 <= n /\ n - (n \div 2) \in Nat /\ n - (n \div 2) > 0 BY <2>5, <1>9, SMT
    <3>3. left - c.size = n - (n \div 2) /\ c.size <= left BY <3>1, <3>2, <1>11
    <3>4. PayloadFits BY <2>3, <3>3 DEF PayloadFits
    <3> QED BY <2>3, <2>5, <3>2, <3>3, <3>4, <1>3, <1>4, <1>7, <1>11
  <2> QED BY <2>1, <2>4, <2>5, <1>9
<1>12. CASE p = taken - 1 /\ n > 1 /\ left = n - (n \div 2)
  <2>1. 3 \in 1..Len(r) /\ p + 3 - 1 = taken + 1 /\ Len(r) = 3 BY <1>7, <1>9, <1>12
  <2>2. c = r[3] BY <2>1, <1>9, <1>10
  <2>3. c.head = <<>> /\ c.f = Len(received) + 1 BY <2>1, <2>2, <1>4, <1>9
  <2>4. c.size = left /\ left - c.size = 0 BY <2>2, <1>1, <1>9, <1>12
  <2>5. PayloadFits BY <2>3, <2>4, <1>1 DEF PayloadFits
  <2>6. p + Len(r) = taken + 2 /\ p + Len(r) - 1 <= taken + 1 BY <2>1, <1>7, <1>12
  <2>7. taken + 1 < Len(Stream) => taken + 2 <= Len(Stream) BY <1>6, <1>7
  <2>8. taken + 1 < Len(Stream) => Stream[taken + 2].size = 0 BY <2>6, <2>7, <1>9
  <2> QED BY <2>3, <2>4, <2>5, <2>6, <2>8, <1>4, <1>7, <1>8
<1> QED BY <1>4, <1>11, <1>12

(* A frame that was read stays where it is. *)
LEMMA FrameKept ==
  ASSUME NEW k, NEW p, wire'[p] = wire[p], received'[k] = received[k], AtFrame(k, p)
  PROVE  /\ AtFrame(k, p)'
         /\ Run(wire[p])' = Run(wire[p])
         /\ Announced(wire[p])' = Announced(wire[p])
<1>1. Announced(wire[p])' = Announced(wire'[p]) BY DEF Announced
<1>2. Run(wire[p])' = Run(wire'[p]) BY DEF Run, Announced
<1>3. /\ wire[p].size = 0 /\ wire[p].f = k + 1
      /\ received[k] = [op |-> wire[p].op, length |-> Announced(wire[p]), f |-> k + 1]
  BY DEF AtFrame
<1>4. /\ wire'[p].size = 0 /\ wire'[p].f = k + 1
      /\ received'[k] = [op |-> wire'[p].op, length |-> Announced(wire[p])', f |-> k + 1]
  BY <1>1, <1>3
<1>5. AtFrame(k, p)' BY <1>4 DEF AtFrame
<1> QED BY <1>1, <1>2, <1>5

(* A frame that was not read before. *)
LEMMA FrameNew ==
  ASSUME NEW k, NEW p, wire'[p].size = 0, wire'[p].f = k + 1,
         received'[k] = [op |-> wire'[p].op, length |-> Announced(wire'[p]), f |-> k + 1]
  PROVE  /\ AtFrame(k, p)'
         /\ Run(wire[p])' = Run(wire'[p])
         /\ Announced(wire[p])' = Announced(wire'[p])
<1>1. Announced(wire[p])' = Announced(wire'[p]) BY DEF Announced
<1>2. Run(wire[p])' = Run(wire'[p]) BY DEF Run, Announced
<1>3. received'[k] = [op |-> wire'[p].op, length |-> Announced(wire[p])', f |-> k + 1]
  BY <1>1
<1>4. AtFrame(k, p)' BY <1>3 DEF AtFrame
<1> QED BY <1>1, <1>2, <1>4

LEMMA FiledKept ==
  ASSUME FiledInv, taken \in Nat, taken' \in Nat, taken <= taken',
         \A p \in 1..taken : wire'[p] = wire[p],
         \A k \in 1..Returned : received'[k] = received[k]
  PROVE  \A k \in 1..Returned : \E p \in 1..taken' :
           AtFrame(k, p)' /\ p + Len(Run(wire[p])') - 1 <= taken'
<1> SUFFICES ASSUME NEW k \in 1..Returned
             PROVE  \E p \in 1..taken' : AtFrame(k, p)' /\ p + Len(Run(wire[p])') - 1 <= taken'
  OBVIOUS
<1>1. PICK p \in 1..taken : AtFrame(k, p) /\ p + Len(Run(wire[p])) - 1 <= taken
  BY DEF FiledInv
<1>2. AtFrame(k, p)' /\ Run(wire[p])' = Run(wire[p]) BY <1>1, FrameKept
<1>3. Len(Run(wire[p])) \in Nat
  <2>1. Len(Run(wire[p])) \in 1..3 BY RunLength DEF Run
  <2> QED BY <2>1
<1>4. p \in 1..taken' /\ p + Len(Run(wire[p])) - 1 <= taken'
  <2>1. PICK m \in Nat : m = Len(Run(wire[p])) BY <1>3
  <2>2. p + m - 1 <= taken BY <1>1, <2>1
  <2>3. p + m - 1 <= taken' BY <2>2
  <2> QED BY <2>1, <2>3
<1>5. p + Len(Run(wire[p])') - 1 <= taken' BY <1>2, <1>4
<1> QED BY <1>2, <1>4, <1>5

(* A step of the server. *)
LEMMA ClientWaits ==
  ASSUME IInv, TypeOK', LengthsFit, StreamInv, ClientInv, [Next]_vars, UNCHANGED clientState
  PROVE  ClientInv'
<1>1. /\ reader' = reader /\ taken' = taken /\ dropped' = dropped /\ received' = received
      /\ left' = left
  BY DEF clientState
<1>2. (reader = "shaking" => dropped = 0)' BY <1>1 DEF ClientInv
<1>3. ASSUME ~broken', dropped' = 0 PROVE ReadInv'
  <2>1. TypeOK BY DEF IInv
  <2>2. ~broken /\ Grows(Stream, Stream') BY <1>3, StreamStep
  <2>3. ReadInv BY <2>2, <1>1, <1>3 DEF ClientInv
  <2>4. /\ Len(wire) \in Nat /\ Len(wire') \in Nat /\ Len(wire) <= Len(wire')
        /\ \A k \in 1..Len(wire) : wire'[k] = wire[k]
    BY <2>1, WireGrows
  <2>5. taken \in 0..Len(wire) BY <2>3 DEF ReadInv
  <2>6. taken \in Nat /\ taken' \in 0..Len(wire') /\ \A p \in 1..taken : wire'[p] = wire[p]
    BY <2>4, <2>5, <1>1
  <2>7. FiledInv'
    <3>1. FiledInv BY <2>3 DEF ReadInv
    <3>2. taken' \in Nat /\ taken <= taken' /\ \A k \in 1..Returned : received'[k] = received[k]
      BY <2>6, <1>1
    <3>3. Returned' = Returned BY <1>1 DEF Returned
    <3>4. \A k \in 1..Returned : \E p \in 1..taken' :
            AtFrame(k, p)' /\ p + Len(Run(wire[p])') - 1 <= taken'
      BY <2>6, <3>1, <3>2, FiledKept
    <3> QED BY <3>3, <3>4 DEF FiledInv
  <2>8. ASSUME reader = "frames" PROVE PlaceInv'
    <3>1. PlaceInv BY <2>3, <2>8 DEF ReadInv
    <3>2. taken \in 1..Len(wire) /\ wire[taken].f = Len(received) + 1 BY <3>1 DEF PlaceInv
    <3>3. taken' \in 1..Len(wire') /\ wire'[taken'].f = Len(received') + 1
      BY <3>2, <2>4, <1>1
    <3>4. ASSUME left' = 0, taken' < Len(Stream') PROVE Stream'[taken' + 1].size = 0
      <4>1. Len(Stream) \in Nat /\ Len(wire) <= Len(Stream) BY <2>1, StreamType
      <4>2. taken < Len(Stream) => Stream[taken + 1].size = 0 BY <3>1, <3>4, <1>1 DEF PlaceInv
      <4>3. CASE taken < Len(Stream)
        <5>1. taken + 1 \in 1..Len(Stream) BY <4>1, <4>3, <2>6
        <5>2. Stream'[taken + 1] = Stream[taken + 1] BY <5>1, <2>2 DEF Grows
        <5> QED BY <4>2, <4>3, <5>2, <1>1
      <4>4. CASE ~(taken < Len(Stream))
        <5>1. taken = Len(Stream) BY <4>1, <4>4, <2>4, <2>5
        <5>2. Stream'[Len(Stream) + 1].size = 0 BY <5>1, <3>4, <2>2, <1>1 DEF Grows
        <5> QED BY <5>1, <5>2, <1>1
      <4> QED BY <4>3, <4>4
    <3>5. ASSUME left' > 0 PROVE \E p \in 1..taken' : InPayload(p)'
      <4>1. PICK p \in 1..taken : InPayload(p) BY <3>1, <3>5, <1>1 DEF PlaceInv
      <4>2. AtFrame(Len(received), p) BY <4>1 DEF InPayload
      <4>3. wire'[p] = wire[p] BY <2>6
      <4>4. AtFrame(Len(received), p)' /\ Announced(wire[p])' = Announced(wire[p])
        <5>1. PICK k : k = Len(received) OBVIOUS
        <5>2. received'[k] = received[k] /\ AtFrame(k, p) BY <4>2, <5>1, <1>1
        <5>3. AtFrame(k, p)' /\ Announced(wire[p])' = Announced(wire[p])
          BY <4>3, <5>2, FrameKept
        <5>4. k = Len(received') BY <5>1, <1>1
        <5>5. AtFrame(Len(received), p)' BY <5>3, <5>4 DEF AtFrame
        <5> QED BY <5>3, <5>5
      <4>5. InPayload(p)' BY <4>1, <4>4, <1>1 DEF InPayload
      <4> QED BY <4>5, <1>1
    <3> QED BY <3>3, <3>4, <3>5 DEF PlaceInv
  <2> QED BY <2>3, <2>6, <2>7, <2>8, <1>1 DEF ReadInv
<1> QED BY <1>2, <1>3 DEF ClientInv

LEMMA ClientShakes ==
  ASSUME TypeOK, StreamInv, ClientInv, Shake
  PROVE  ClientInv'
<1>1. /\ reader = "shaking" /\ wire # <<>> /\ taken' \in 1..Len(wire) /\ dropped' = taken' - 1
      /\ reader' = IF wire[1].op = Upgraded THEN "frames" ELSE "ended"
      /\ received' = received /\ left' = left /\ wire' = wire /\ Stream' = Stream
      /\ broken' = broken
  BY DEF Shake, vars, outVars, Stream
<1>2. (reader = "shaking" => dropped = 0)' BY <1>1 DEF ClientInv
<1>3. ASSUME ~broken', dropped' = 0 PROVE ReadInv'
  <2>1. ReadInv BY <1>1, <1>3 DEF ClientInv
  <2>2. received = <<>> /\ left = 0 BY <2>1, <1>1 DEF ReadInv
  <2>3. /\ Len(wire) \in Nat /\ Len(Stream) \in Nat /\ Len(wire) <= Len(Stream)
        /\ \A k \in 1..Len(wire) : k \in 1..Len(Stream) /\ wire[k] = Stream[k] /\ wire[k] \in Cell
    BY StreamType
  <2>4. taken' = 1 /\ 1 \in 1..Len(wire) /\ 1 \in 1..Len(Stream)
    <3>1. PICK t \in 1..Len(wire) : t = taken' BY <1>1
    <3>2. t - 1 = 0 BY <3>1, <1>1, <1>3
    <3>3. t = 1 /\ 1 \in 1..Len(wire) BY <3>2, <2>3
    <3> QED BY <3>1, <3>3, <2>3
  <2>5. Whole(Stream, frames) BY <1>1, <1>3 DEF StreamInv
  <2>6. Stream[1].size = 0 /\ Stream[1].f = 1 /\ Stream[1] = wire[1]
    <3>1. Len(Stream) > 0 BY <2>3, <2>4
    <3>2. Stream # <<>> BY <3>1, EmptySeq
    <3> QED BY <3>2, <2>3, <2>4, <2>5 DEF Whole
  <2>7. ASSUME reader' = "frames" PROVE PlaceInv'
    <3>1. wire[1].op = Upgraded BY <2>7, <1>1
    <3>2. Announced(Stream[1]) = 0
      <4>1. Upgraded \notin Opcodes
        BY SMT DEF Opcodes, CONT, TEXT, BIN, CLOSE, PING, PONG, Upgraded
      <4> QED BY <4>1, <3>1, <2>6 DEF Announced
    <3>3. Len(Run(Stream[1])) = 1 BY <3>2, RunLength DEF Run
    <3>4. 1 < Len(Stream) => Stream[2].size = 0
      <4>1. 1 + Len(Run(Stream[1])) <= Len(Stream) => Stream[1 + Len(Run(Stream[1]))].size = 0
        BY <2>4, <2>5, <2>6 DEF Whole
      <4>2. 1 + Len(Run(Stream[1])) = 2 BY <3>3
      <4>3. 1 < Len(Stream) => 2 <= Len(Stream) BY <2>3
      <4> QED BY <4>1, <4>2, <4>3
    <3>5. Len(received) = 0 BY <2>2, EmptySeq
    <3>6. wire'[taken'].f = Len(received') + 1 BY <3>5, <2>4, <2>6, <1>1
    <3>7. taken' + 1 = 2 BY <2>4
    <3>8. taken' < Len(Stream') => Stream'[taken' + 1].size = 0 BY <3>4, <3>7, <2>4, <1>1
    <3>9. left' = 0 BY <2>2, <1>1
    <3>10. taken' \in 1..Len(wire') BY <2>4, <1>1
    <3>11. ~(left' > 0) BY <3>9
    <3> QED BY <3>6, <3>8, <3>10, <3>11 DEF PlaceInv
  <2>8. FiledInv'
    <3>1. Len(received') = 0 /\ left' = 0 BY <2>2, <1>1, EmptySeq
    <3>2. Returned' = 0 BY <3>1 DEF Returned
    <3>3. \A k \in 1..Returned' : FALSE BY <3>2
    <3> QED BY <3>3 DEF FiledInv
  <2>9. taken' \in 0..Len(wire') BY <2>3, <2>4, <1>1
  <2>10. /\ received' \in Seq([op : Opcodes, length : Nat, f : Nat]) /\ left' \in Nat
         /\ reader' \in {"shaking", "frames", "ended"}
         /\ reader' # "frames" => received' = <<>> /\ left' = 0
    BY <2>1, <2>2, <1>1 DEF ReadInv
  <2> QED BY <2>7, <2>8, <2>9, <2>10 DEF ReadInv
<1> QED BY <1>2, <1>3 DEF ClientInv

LEMMA ClientReadsHead ==
  ASSUME TypeOK, StreamInv, ClientInv, RecvHead
  PROVE  ClientInv'
<1>1. PICK c : c = NextCell OBVIOUS
<1>2. PICK n : n = Announced(c) OBVIOUS
<1>3. /\ reader = "frames" /\ Waiting /\ left = 0 /\ taken' = taken + 1
      /\ received' = Append(received, [op |-> ClientReads(c.head).op,
                                       length |-> ClientReads(c.head).length, f |-> c.f])
      /\ left' = ClientReads(c.head).length
      /\ reader' = reader /\ dropped' = dropped /\ wire' = wire /\ Stream' = Stream
      /\ broken' = broken
  BY <1>1 DEF RecvHead, Waiting, vars, outVars, Stream
<1>4. (reader = "shaking" => dropped = 0)' BY <1>3 DEF ClientInv
<1>5. ASSUME ~broken', dropped' = 0 PROVE ReadInv'
  <2>1. ReadInv /\ ~broken BY <1>3, <1>5 DEF ClientInv
  <2>2. /\ taken + 1 \in 1..Len(wire)
        /\ c.size = 0 /\ c.f = Len(received) + 2 /\ c.op \in Opcodes /\ n \in Nat
        /\ ClientReads(c.head).op = c.op /\ ClientReads(c.head).length = n
        /\ n = 0 => Len(Run(c)) = 1 /\ (taken + 1 < Len(Stream) => Stream[taken + 2].size = 0)
    BY <1>1, <1>2, <1>3, <2>1, NextHead
  <2>3. /\ taken \in 1..Len(wire) /\ received \in Seq([op : Opcodes, length : Nat, f : Nat])
        /\ FiledInv
    BY <2>1, <1>3 DEF ReadInv, PlaceInv
  <2>4. Len(wire) \in Nat BY StreamType
  <2>5. taken \in Nat /\ taken' \in 1..Len(wire) /\ taken' \in Nat /\ taken <= taken'
    BY <2>2, <2>3, <2>4, <1>3
  <2>6. PICK g : g = [op |-> c.op, length |-> n, f |-> c.f] OBVIOUS
  <2>7. received' = Append(received, g) /\ left' = n BY <2>2, <2>6, <1>3
  <2>8. PICK m \in Nat : m = Len(received) BY <2>3, LenProperties
  <2>9. g \in [op : Opcodes, length : Nat, f : Nat] BY <2>2, <2>6, <2>8
  <2>10. /\ received' \in Seq([op : Opcodes, length : Nat, f : Nat]) /\ Len(received') = m + 1
         /\ \A k \in 1..m : received'[k] = received[k]
         /\ received'[m + 1] = g
    BY <2>3, <2>7, <2>8, <2>9, AppendProperties
  <2>11. PICK t \in 1..Len(wire) : t = taken' BY <2>5
  <2>12. wire'[t] = c /\ t = taken + 1 BY <2>11, <1>1, <1>3 DEF NextCell
  <2>13. PICK k \in Nat : k = m + 1 BY <2>8
  <2>14. AtFrame(k, t)' /\ Run(wire[t])' = Run(c) /\ Announced(wire[t])' = n
    <3>1. c.f = k + 1 BY <2>2, <2>8, <2>13
    <3>2. g = [op |-> c.op, length |-> n, f |-> k + 1] BY <3>1, <2>6
    <3>3. received'[k] = g BY <2>10, <2>13
    <3>4. received'[k] = [op |-> wire'[t].op, length |-> Announced(wire'[t]), f |-> k + 1]
      BY <3>2, <3>3, <2>12, <1>2
    <3>5. wire'[t].size = 0 /\ wire'[t].f = k + 1 BY <3>1, <2>2, <2>12
    <3>6. /\ AtFrame(k, t)' /\ Run(wire[t])' = Run(wire'[t])
          /\ Announced(wire[t])' = Announced(wire'[t])
      BY <3>4, <3>5, FrameNew
    <3> QED BY <3>6, <2>12, <1>2
  <2>15. FiledInv'
    <3>1. Returned = m BY <1>3, <2>8 DEF Returned
    <3>2. \A j \in 1..m : \E p \in 1..taken' :
            AtFrame(j, p)' /\ p + Len(Run(wire[p])') - 1 <= taken'
      <4>1. \A p \in 1..taken : wire'[p] = wire[p] BY <1>3
      <4>2. \A j \in 1..Returned : received'[j] = received[j] BY <3>1, <2>10
      <4>3. \A j \in 1..Returned : \E p \in 1..taken' :
              AtFrame(j, p)' /\ p + Len(Run(wire[p])') - 1 <= taken'
        BY <4>1, <4>2, <2>3, <2>5, FiledKept
      <4> QED BY <3>1, <4>3
    <3>3. CASE n = 0
      <4>1. Returned' = k BY <3>3, <2>7, <2>10, <2>13 DEF Returned
      <4>2. t + Len(Run(wire[t])') - 1 <= taken' /\ t \in 1..taken'
        <5>1. Len(Run(wire[t])') = 1 BY <3>3, <2>2, <2>14
        <5>2. t + 1 - 1 <= t /\ t \in 1..t BY <2>4
        <5> QED BY <5>1, <5>2, <2>11
      <4>3. \A j \in 1..k : j \in 1..m \/ j = k BY <2>13
      <4> QED BY <4>1, <4>2, <4>3, <3>2, <2>14 DEF FiledInv
    <3>4. CASE n # 0
      <4>1. Returned' = m
        <5>1. Returned' = Len(received') - 1 BY <3>4, <2>7 DEF Returned
        <5>2. (m + 1) - 1 = m OBVIOUS
        <5> QED BY <5>1, <5>2, <2>10
      <4> QED BY <4>1, <3>2 DEF FiledInv
    <3> QED BY <3>3, <3>4
  <2>16. PlaceInv'
    <3>1. taken' \in 1..Len(wire') BY <2>5, <1>3
    <3>2. wire'[taken'].f = Len(received') + 1
      <4>1. c.f = k + 1 /\ Len(received') = k BY <2>2, <2>8, <2>10, <2>13
      <4> QED BY <4>1, <2>11, <2>12
    <3>3. left' = 0 => (taken' < Len(Stream') => Stream'[taken' + 1].size = 0)
      <4>1. taken' + 1 = taken + 2 BY <2>5, <1>3
      <4> QED BY <4>1, <2>2, <2>7, <1>3
    <3>4. ASSUME left' > 0 PROVE \E p \in 1..taken' : InPayload(p)'
      <4>1. received' # <<>>
        <5>1. Len(received') > 0 BY <2>10
        <5> QED BY <5>1, <2>10, EmptySeq
      <4>2. k = Len(received') BY <2>10, <2>13
      <4>3. AtFrame(Len(received), t)' BY <4>2, <2>14 DEF AtFrame
      <4>4. InPayload(t)' BY <4>1, <4>3, <2>7, <2>11, <2>14 DEF InPayload
      <4>5. t \in 1..taken' BY <2>4, <2>11
      <4> QED BY <4>4, <4>5
    <3> QED BY <3>1, <3>2, <3>3, <3>4 DEF PlaceInv
  <2>17. taken' \in 0..Len(wire') BY <2>4, <2>5, <1>3
  <2>18. left' \in Nat /\ reader' = "frames" BY <2>2, <2>7, <1>3
  <2> QED BY <2>10, <2>15, <2>16, <2>17, <2>18 DEF ReadInv
<1> QED BY <1>4, <1>5 DEF ClientInv

LEMMA ClientReadsPayload ==
  ASSUME TypeOK, StreamInv, ClientInv, RecvPayload
  PROVE  ClientInv'
<1>1. PICK c : c = NextCell OBVIOUS
<1>2. /\ reader = "frames" /\ Waiting /\ left > 0 /\ taken' = taken + 1
      /\ left' = left - c.size /\ received' = received
      /\ reader' = reader /\ dropped' = dropped /\ wire' = wire /\ Stream' = Stream
      /\ broken' = broken
  BY <1>1 DEF RecvPayload, Waiting, vars, outVars, Stream
<1>3. (reader = "shaking" => dropped = 0)' BY <1>2 DEF ClientInv
<1>4. ASSUME ~broken', dropped' = 0 PROVE ReadInv'
  <2>1. ReadInv /\ ~broken BY <1>2, <1>4 DEF ClientInv
  <2>2. PICK m : m = Len(received) OBVIOUS
  <2>3. /\ left' \in Nat /\ taken + 1 \in 1..Len(wire)
        /\ c.f = m + 1 /\ received # <<>>
        /\ left' = 0 =>
             /\ taken + 1 < Len(Stream) => Stream[taken + 2].size = 0
             /\ \E p \in 1..taken : AtFrame(m, p) /\ p + Len(Run(wire[p])) - 1 <= taken + 1
        /\ left' > 0 =>
             /\ AtFrame(m, taken) /\ Announced(wire[taken]) > 1
             /\ left' = Announced(wire[taken]) - (Announced(wire[taken]) \div 2)
    BY <1>1, <1>2, <2>1, <2>2, NextPayload
  <2>4. /\ taken \in 1..Len(wire) /\ received \in Seq([op : Opcodes, length : Nat, f : Nat])
        /\ FiledInv
    BY <2>1, <1>2 DEF ReadInv, PlaceInv
  <2>5. Len(wire) \in Nat BY StreamType
  <2>6. /\ taken \in Nat /\ taken' \in 1..Len(wire) /\ taken' \in Nat /\ taken <= taken'
        /\ taken \in 1..taken'
    BY <2>3, <2>4, <2>5, <1>2
  <2>7. m \in Nat BY <2>2, <2>4, LenProperties
  <2>8. \A p \in 1..taken : p \in 1..taken' /\ wire'[p] = wire[p] BY <2>6, <1>2
  <2>9. FiledInv'
    <3>1. Returned = m - 1 BY <1>2, <2>2 DEF Returned
    <3>2. \A j \in 1..(m - 1) : \E p \in 1..taken' :
            AtFrame(j, p)' /\ p + Len(Run(wire[p])') - 1 <= taken'
      <4>1. \A j \in 1..Returned : received'[j] = received[j] BY <1>2
      <4>2. \A j \in 1..Returned : \E p \in 1..taken' :
              AtFrame(j, p)' /\ p + Len(Run(wire[p])') - 1 <= taken'
        BY <4>1, <2>4, <2>6, <2>8, FiledKept
      <4> QED BY <3>1, <4>2
    <3>3. CASE left' = 0
      <4>1. Returned' = m BY <3>3, <2>2, <1>2 DEF Returned
      <4>2. PICK p \in 1..taken : AtFrame(m, p) /\ p + Len(Run(wire[p])) - 1 <= taken + 1
        BY <3>3, <2>3
      <4>3. AtFrame(m, p)' /\ Run(wire[p])' = Run(wire[p])
        <5>1. wire'[p] = wire[p] /\ received'[m] = received[m] BY <2>8, <1>2
        <5> QED BY <4>2, <5>1, FrameKept
      <4>4. p \in 1..taken' /\ p + Len(Run(wire[p])') - 1 <= taken' BY <4>2, <4>3, <2>8, <1>2
      <4>5. \A j \in 1..m : j \in 1..(m - 1) \/ j = m BY <2>7
      <4> QED BY <4>1, <4>3, <4>4, <4>5, <3>2 DEF FiledInv
    <3>4. CASE left' # 0
      <4>1. Returned' = m - 1 BY <3>4, <2>2, <1>2 DEF Returned
      <4> QED BY <4>1, <3>2 DEF FiledInv
    <3> QED BY <3>3, <3>4
  <2>10. PlaceInv'
    <3>1. taken' \in 1..Len(wire') BY <2>6, <1>2
    <3>2. wire'[taken'].f = Len(received') + 1 BY <2>2, <2>3, <1>1, <1>2 DEF NextCell
    <3>3. left' = 0 => (taken' < Len(Stream') => Stream'[taken' + 1].size = 0)
      <4>1. taken' + 1 = taken + 2 BY <2>6, <1>2
      <4> QED BY <4>1, <2>3, <1>2
    <3>4. ASSUME left' > 0 PROVE \E p \in 1..taken' : InPayload(p)'
      <4>1. PICK t \in 1..taken : t = taken BY <2>6
      <4>2. AtFrame(m, t) /\ wire'[t] = wire[t] /\ received'[m] = received[m]
        BY <4>1, <3>4, <2>3, <2>8, <1>2
      <4>3. AtFrame(m, t)' /\ Announced(wire[t])' = Announced(wire[t]) BY <4>2, FrameKept
      <4>4. m = Len(received') BY <2>2, <1>2
      <4>5. AtFrame(Len(received), t)' BY <4>3, <4>4 DEF AtFrame
      <4>6. t = taken' - 1 /\ t \in 1..taken' BY <4>1, <2>6, <1>2
      <4>7. PICK a : a = Announced(wire[t]) OBVIOUS
      <4>8. a > 1 /\ left' = a - (a \div 2) BY <4>1, <4>7, <3>4, <2>3
      <4>9. Announced(wire[t])' = a BY <4>3, <4>7
      <4>10. received' # <<>> BY <2>3, <1>2
      <4>11. InPayload(t)' BY <4>5, <4>6, <4>8, <4>9, <4>10 DEF InPayload
      <4> QED BY <4>6, <4>11
    <3> QED BY <3>1, <3>2, <3>3, <3>4 DEF PlaceInv
  <2>11. taken' \in 0..Len(wire') BY <2>5, <2>6, <1>2
  <2>12. received' \in Seq([op : Opcodes, length : Nat, f : Nat]) /\ reader' = "frames"
    BY <2>4, <1>2
  <2> QED BY <2>3, <2>9, <2>10, <2>11, <2>12 DEF ReadInv
<1> QED BY <1>3, <1>4 DEF ClientInv

LEMMA ClientNeverLost ==
  ASSUME TypeOK, StreamInv, ClientInv, LoseStep
  PROVE  ClientInv'
<1>1. /\ Waiting /\ (IF left = 0 THEN ~HeadFits ELSE ~PayloadFits) /\ reader' = "lost"
      /\ broken' = broken /\ dropped' = dropped
  BY DEF LoseStep, vars, outVars
<1>2. ASSUME ~broken, dropped = 0 PROVE FALSE
  <2>1. ReadInv BY <1>2 DEF ClientInv
  <2>2. left = 0 => HeadFits BY <1>1, <1>2, <2>1, NextHead
  <2>3. left > 0 => PayloadFits BY <1>1, <1>2, <2>1, NextPayload
  <2>4. left = 0 \/ left > 0 BY <2>1 DEF ReadInv
  <2> QED BY <1>1, <2>2, <2>3, <2>4
<1> QED BY <1>1, <1>2 DEF ClientInv

-----------------------------------------------------------------------------
ReaderInv == IInv /\ StreamInv /\ ClientInv

LEMMA ReaderInit ==
  ASSUME ClientInit
  PROVE  ReaderInv
<1>1. IInv BY InitIInv DEF ClientInit
<1>2. /\ wire = <<>> /\ chunk = <<>> /\ wbuf = <<>> /\ frames = 0
      /\ reader = "shaking" /\ taken = 0 /\ dropped = 0 /\ received = <<>> /\ left = 0
  BY DEF ClientInit, Init
<1>3. StreamInv
  <2>1. Stream = <<>> BY <1>2 DEF Stream
  <2>2. Len(Stream) = 0 BY <2>1
  <2>3. (\A k \in 1..Len(Stream) : FALSE) /\ (\A k \in 1..(Len(Stream) - 1) : FALSE)
    BY <2>2
  <2>4. Whole(Stream, frames) BY <2>1, <2>3, <1>2 DEF Whole
  <2> QED BY <2>4 DEF StreamInv
<1>4. ReadInv
  <2>1. Len(wire) = 0 /\ Len(received) = 0 BY <1>2
  <2>2. Returned = 0 BY <2>1, <1>2 DEF Returned
  <2>3. \A k \in 1..Returned : FALSE BY <2>2
  <2>4. FiledInv BY <2>3 DEF FiledInv
  <2>5. taken \in 0..Len(wire) /\ received \in Seq([op : Opcodes, length : Nat, f : Nat])
    BY <2>1, <1>2
  <2> QED BY <2>4, <2>5, <1>2 DEF ReadInv
<1> QED BY <1>1, <1>2, <1>3, <1>4 DEF ReaderInv, ClientInv

LEMMA ReaderStep ==
  ASSUME LengthsFit, ReaderInv, [ClientNext]_allVars
  PROVE  ReaderInv'
<1>i. IInv /\ StreamInv /\ ClientInv /\ TypeOK BY DEF ReaderInv, IInv
<1>1. [Next]_vars
  BY DEF ClientNext, allVars, Shake, RecvHead, RecvPayload, LoseStep
<1>2. IInv' /\ StreamInv' /\ TypeOK'
  <2>1. IInv' BY <1>i, <1>1, StepIInv
  <2>2. StreamInv' BY <1>i, <1>1, StreamStep
  <2> QED BY <2>1, <2>2 DEF IInv
<1>3. ClientInv'
  <2>1. CASE Shake BY <2>1, <1>i, ClientShakes
  <2>2. CASE RecvHead BY <2>2, <1>i, ClientReadsHead
  <2>3. CASE RecvPayload BY <2>3, <1>i, ClientReadsPayload
  <2>4. CASE LoseStep BY <2>4, <1>i, ClientNeverLost
  <2>5. CASE UNCHANGED clientState BY <2>5, <1>i, <1>1, <1>2, ClientWaits
  <2> QED BY <2>1, <2>2, <2>3, <2>4, <2>5 DEF ClientNext, allVars
<1> QED BY <1>2, <1>3 DEF ReaderInv

(* What was filed is what was written. *)
LEMMA FiledInSync ==
  ASSUME ReaderInv
  PROVE  ClientInSync
<1> SUFFICES ASSUME ~broken, dropped = 0
             PROVE  /\ reader # "lost"
                    /\ \A k \in 1..Returned : \E p \in DOMAIN wire :
                         LET cells == CellsOf(k + 1, received[k].op, wire[p].of, received[k].length)
                             last == p + Len(cells) - 1
                         IN /\ received[k].f = k + 1
                            /\ last <= taken
                            /\ SubSeq(wire, p, last) = cells
                            /\ \A i \in DOMAIN wire : wire[i].f = k + 1 => i \in p..last
  BY DEF ClientInSync
<1>1. TypeOK /\ ReadInv /\ StreamInv BY DEF ReaderInv, ClientInv, IInv
<1>2. reader # "lost" BY <1>1 DEF ReadInv
<1>3. ASSUME NEW k \in 1..Returned
      PROVE  \E p \in DOMAIN wire :
               LET cells == CellsOf(k + 1, received[k].op, wire[p].of, received[k].length)
                   last == p + Len(cells) - 1
               IN /\ received[k].f = k + 1
                  /\ last <= taken
                  /\ SubSeq(wire, p, last) = cells
                  /\ \A i \in DOMAIN wire : wire[i].f = k + 1 => i \in p..last
  <2>1. PICK p \in 1..taken : AtFrame(k, p) /\ p + Len(Run(wire[p])) - 1 <= taken
    BY <1>1 DEF ReadInv, FiledInv
  <2>2. /\ wire \in Seq(Cell) /\ DOMAIN wire = 1..Len(wire)
        /\ Len(wire) \in Nat /\ Len(Stream) \in Nat /\ Len(wire) <= Len(Stream)
        /\ \A i \in 1..Len(wire) : i \in 1..Len(Stream) /\ wire[i] = Stream[i] /\ wire[i] \in Cell
    <3>1. wire \in Seq(Cell) BY <1>1 DEF TypeOK
    <3> QED BY <3>1, <1>1, StreamType, LenProperties
  <2>3. taken \in 0..Len(wire) BY <1>1 DEF ReadInv
  <2>4. p \in 1..Len(wire) /\ p \in Nat /\ p >= 1 /\ taken <= Len(wire) BY <2>2, <2>3
  <2>5. PICK c : c = wire[p] OBVIOUS
  <2>6. PICK n : n = Announced(c) OBVIOUS
  <2>7. PICK r : r = Run(c) OBVIOUS
  <2>8. /\ c.size = 0 /\ c.f = k + 1 /\ received[k] = [op |-> c.op, length |-> n, f |-> k + 1]
    BY <2>1, <2>5, <2>6 DEF AtFrame
  <2>9. received[k].f = k + 1 /\ received[k].op = c.op /\ received[k].length = n BY <2>8
  <2>10. IsFrame(r, c.f, c.op, c.of, n) /\ InStream(p, r)
    <3>1. k \in Nat /\ k > 0
      <4>1. Returned \in Int
        <5>1. Len(received) \in Nat BY <1>1, LenProperties DEF ReadInv
        <5> QED BY <5>1 DEF Returned
      <4> QED BY <4>1
    <3>2. wire[p].f > 1 /\ wire[p].size = 0 BY <3>1, <2>5, <2>8
    <3> QED BY <3>2, <1>1, <2>4, <2>5, <2>6, <2>7, FrameAt
  <2>11. CellsOf(k + 1, received[k].op, wire[p].of, received[k].length) = r
    BY <2>5, <2>6, <2>7, <2>8, <2>9 DEF Run
  <2>12. r \in Seq(Cell) /\ Len(r) \in 1..3 /\ \A d \in 1..Len(r) : r[d].f = k + 1
    BY <2>8, <2>10 DEF IsFrame
  <2>13. PICK last \in Nat : last = p + Len(r) - 1 BY <2>4, <2>12
  <2>14. last <= taken /\ last <= Len(wire) /\ p <= last /\ last \in 1..Len(wire)
    <3>1. last <= taken BY <2>1, <2>5, <2>7, <2>13
    <3>2. \A x, y \in Nat, z \in 1..3 : x >= 1 /\ y = x + z - 1 => x <= y /\ y >= 1
      OBVIOUS
    <3>3. p <= last /\ last >= 1 BY <3>2, <2>4, <2>12, <2>13
    <3>4. PICK m \in Nat : m = Len(wire) BY <2>2
    <3>5. taken \in 0..m BY <3>4, <2>3
    <3>6. last <= m /\ last \in 1..m BY <3>1, <3>3, <3>5
    <3> QED BY <3>1, <3>3, <3>4, <3>6
  <2>15. SubSeq(wire, p, last) = r
    <3>1. PICK u : u = SubSeq(wire, p, last) OBVIOUS
    <3>2. /\ u \in Seq(Cell) /\ Len(u) = Len(r)
          /\ \A d \in 1..Len(r) : u[d] = wire[p + d - 1]
      <4>1. /\ SubSeq(wire, p, last) \in Seq(Cell)
            /\ Len(SubSeq(wire, p, last)) = last - p + 1
            /\ \A d \in 1..(last - p + 1) : SubSeq(wire, p, last)[d] = wire[p + d - 1]
        BY <2>2, <2>4, <2>14, SMT
      <4>2. last - p + 1 = Len(r) BY <2>4, <2>12, <2>13
      <4> QED BY <3>1, <4>1, <4>2
    <3>3. \A d \in 1..Len(r) : u[d] = r[d]
      <4>1. \A d \in 1..Len(r) : p + d - 1 \in 1..Len(wire) BY <2>4, <2>12, <2>13, <2>14
      <4>2. \A d \in 1..Len(r) : Stream[p + d - 1] = r[d] BY <2>10 DEF InStream
      <4> QED BY <3>2, <4>1, <4>2, <2>2
    <3> QED BY <3>1, <3>2, <3>3, <2>12, SeqEqual
  <2>16. ASSUME NEW i \in 1..Len(wire), wire[i].f = k + 1 PROVE i \in p..last
    <3>1. Whole(Stream, frames) BY <1>1 DEF StreamInv
    <3>2. Stream[p] = c /\ p \in 1..Len(Stream) /\ Stream[i] = wire[i] /\ i \in 1..Len(Stream)
      BY <2>2, <2>4, <2>5
    <3>3. wire[i].f \in Nat /\ k + 1 \in Nat
      <4>1. wire[i] \in Cell BY <2>2
      <4> QED BY <4>1, <2>16 DEF Cell
    <3>4. ~(i < p)
      <4>1. SUFFICES ASSUME i < p PROVE FALSE OBVIOUS
      <4>2. Stream[i].f < Stream[p].f BY <3>1, <3>2, <4>1, <2>8 DEF Whole
      <4> QED BY <4>2, <3>2, <3>3, <2>8, <2>16
    <3>5. ~(last < i)
      <4>1. SUFFICES ASSUME last < i PROVE FALSE OBVIOUS
      <4>2. last + 1 \in 1..Len(Stream) /\ last \in 1..Len(Stream) /\ last < last + 1
            /\ last + 1 <= i /\ p + Len(r) = last + 1
        BY <4>1, <3>2, <2>2, <2>4, <2>12, <2>13, <2>14
      <4>3. Stream[last + 1].size = 0
        <5>1. p + Len(r) <= Len(Stream) BY <4>2
        <5> QED BY <5>1, <4>2, <2>10 DEF InStream
      <4>4. Stream[last] = r[Len(r)]
        <5>1. Len(r) \in 1..Len(r) BY <2>12
        <5> QED BY <5>1, <2>10, <2>13 DEF InStream
      <4>5. Stream[last].f = k + 1
        <5>1. Len(r) \in 1..Len(r) BY <2>12
        <5> QED BY <5>1, <4>4, <2>12
      <4>6. Stream[last].f < Stream[last + 1].f BY <3>1, <4>2, <4>3 DEF Whole
      <4>7. Stream[last + 1].f <= Stream[i].f
        <5>1. CASE last + 1 = i
          <6>1. Stream[i] \in Cell BY <2>2, <3>2
          <6>2. Stream[i].f \in Nat BY <6>1 DEF Cell
          <6> QED BY <5>1, <6>2
        <5>2. CASE last + 1 < i BY <5>2, <3>1, <3>2, <4>2 DEF Whole
        <5> QED BY <5>1, <5>2, <4>2
      <4>8. Stream[last + 1].f \in Nat
        <5>1. Stream \in Seq(Cell) BY <1>1, StreamType
        <5>2. Stream[last + 1] \in Cell BY <5>1, <4>2, ElementOfSeq
        <5> QED BY <5>2 DEF Cell
      <4> QED BY <4>5, <4>6, <4>7, <4>8, <3>2, <3>3, <2>16
    <3> QED BY <3>4, <3>5, <2>2, <2>4, <2>16
  <2>17. \A i \in DOMAIN wire : wire[i].f = k + 1 => i \in p..last BY <2>2, <2>16
  <2> HIDE DEF Announced, Run
  <2> QED BY <2>2, <2>4, <2>9, <2>11, <2>13, <2>14, <2>15, <2>17
<1> QED BY <1>2, <1>3

(* The client of examples/ws_client.py reads the frames write_frame() has  *)
(* written, in their order and each with its opcode and its whole payload, *)
(* whatever the sizes of the payloads and wherever sendall() and recv()    *)
(* cut the bytes between two cells.                                        *)
THEOREM ClientReadsFrames ==
  ASSUME LengthsFit
  PROVE  ClientSpec => []ClientInSync
<1>1. ClientInit => ReaderInv BY ReaderInit
<1>2. ReaderInv /\ [ClientNext]_allVars => ReaderInv' BY ReaderStep
<1>3. ReaderInv => ClientInSync BY FiledInSync
<1> QED BY <1>1, <1>2, <1>3, PTL DEF ClientSpec
=============================================================================
