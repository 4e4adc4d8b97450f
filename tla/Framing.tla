------------------------------- MODULE Framing -------------------------------
(***************************************************************************)
(* The binary headers of the program: WebSocket frames, written by the     *)
(* server (write_frame) and by a client (make_client_frame) and read by    *)
(* the server (read_frame) and by the example client (recv_frame), and the *)
(* fixed header of a multiplexing frame (struct format "!IBI").            *)
(*                                                                         *)
(* A byte is a number, a header a sequence of bytes.                       *)
(***************************************************************************)
EXTENDS Integers, Sequences

Byte == 0..255

(* struct.pack("!H", n), "!I" and "!Q". *)
U16(n) == <<n \div 256, n % 256>>
U32(n) == U16(n \div 65536) \o U16(n % 65536)
U64(n) == U32((n \div 65536) \div 65536)
            \o U16((n \div 65536) % 65536) \o U16(n % 65536)

(* struct.unpack of the bytes from position k on. *)
V16(b, k) == b[k] * 256 + b[k + 1]
V32(b, k) == V16(b, k) * 65536 + V16(b, k + 2)
V64(b, k) == (V32(b, k) * 65536 + V16(b, k + 4)) * 65536 + V16(b, k + 6)

-----------------------------------------------------------------------------
(* Mutant: a length of 126 is still written in the second byte, where it   *)
(* announces two bytes of length.                                          *)
ServerHeadLate(op, n) ==
  CASE n < 127   -> <<128 + op, n>>
    [] 127 <= n /\ n < 65536 -> <<128 + op, 126>> \o U16(n)
    [] OTHER     -> <<128 + op, 127>> \o U64(n)

(* write_frame: FIN and opcode, no mask, and the length in its three forms. *)
ServerHead(op, n) ==
  CASE n < 126   -> <<128 + op, n>>
    [] 126 <= n /\ n < 65536 -> <<128 + op, 126>> \o U16(n)
    [] OTHER     -> <<128 + op, 127>> \o U64(n)

(* make_client_frame: the same with the mask bit, and the mask behind it. *)
ClientHead(op, n, mask) ==
  (CASE n < 126   -> <<128 + op, 128 + n>>
     [] 126 <= n /\ n < 65536 -> <<128 + op, 128 + 126>> \o U16(n)
     [] OTHER     -> <<128 + op, 128 + 127>> \o U64(n)) \o mask

(* What a reader makes of the first bytes of b: the opcode, the length of  *)
(* the payload, and how many bytes it has consumed before the payload.     *)
Extended(b) == CASE b[2] % 128 = 126 -> 2
                 [] b[2] % 128 = 127 -> 8
                 [] OTHER            -> 0

PayloadLength(b) == CASE Extended(b) = 2 -> V16(b, 3)
                      [] Extended(b) = 8 -> V64(b, 3)
                      [] OTHER           -> b[2] % 128

(* read_frame *)
ServerReads(b) ==
  [op |-> b[1] % 16, length |-> PayloadLength(b),
   head |-> 2 + Extended(b) + (IF b[2] >= 128 THEN 4 ELSE 0)]

(* recv_frame of the example client, which expects no mask *)
ClientReads(b) ==
  [op |-> b[1] % 16, length |-> PayloadLength(b), head |-> 2 + Extended(b)]

-----------------------------------------------------------------------------
(* encode_frame and MuxConn.recv_frame *)
MuxHead(sid, type, n) == U32(sid) \o <<type>> \o U32(n)

MuxReads(b) == [sid |-> V32(b, 1), type |-> b[5], length |-> V32(b, 6)]
=============================================================================
