---------------------------- MODULE WsFrameCodec ----------------------------
(***************************************************************************)
(* The frame layout of RFC 6455 as this code writes and reads it: two      *)
(* writers (write_frame of WsFrame.h and make_frame_text of the client)    *)
(* and two readers (do_read_loop of the server and read_frame of the       *)
(* client), each written out on its own in the code.                       *)
(*                                                                         *)
(* A frame on a stream is its header, a sequence of bytes, and its         *)
(* payload, of which the length and the four bytes its content is XORed    *)
(* with are kept (byte i with mask[i % 4]).  A masking key is the tuple of  *)
(* its bytes, the most significant first.                                  *)
(***************************************************************************)
EXTENDS Naturals, SequencesExt

Octet == 0 .. 255

NoMask == << 0, 0, 0, 0 >>

\* A frame as it is on the stream.
OnWire(head, n, m) == [head |-> head, len |-> n, mask |-> m]

\* Fault: the byte is not cut off.
Fault_ByteOf(v, i) == IF i > 3 THEN 0 ELSE v \div 256 ^ i

\* (v >> 8 * i) & 0xFF.  The lengths of the model are below 2^31, so the upper
\* four bytes of the 64-bit length are zero.
ByteOf(v, i) ==
    CASE i = 0 -> v % 256
      [] i = 1 -> (v \div 256) % 256
      [] i = 2 -> (v \div (256 * 256)) % 256
      [] i = 3 -> (v \div (256 * 256 * 256)) % 256
      [] OTHER -> 0

\* (key >> 8 * i) & 0xFF
KeyByte(key, i) == key[4 - i]

-----------------------------------------------------------------------------
(* Writers *)

\* Fault: 126 is taken for a length that fits seven bits.
Fault_LengthField(n) ==
    IF n <= 126 THEN << n >>
    ELSE IF n <= 65535 THEN << 126, ByteOf(n, 1), ByteOf(n, 0) >>
    ELSE << 127 >> \o [i \in 1..8 |-> ByteOf(n, 8 - i)]

\* The length in 7, 7 + 16 or 7 + 64 bits, most significant byte first.
LengthField(n) ==
    IF n <= 125 THEN << n >>
    ELSE IF n <= 65535 THEN << 126, ByteOf(n, 1), ByteOf(n, 0) >>
    ELSE << 127 >> \o [i \in 1..8 |-> ByteOf(n, 8 - i)]

Bit(b) == IF b THEN 128 ELSE 0

write_frame(f) ==
    LET field == LengthField(f.len)
        pattern == [i \in 1..4 |-> KeyByte(f.masking_key, 4 - i)]
    IN OnWire(<< Bit(f.fin) + f.opcode, Bit(f.mask) + field[1] >> \o Tail(field)
                  \o (IF f.mask THEN pattern ELSE <<>>),
              f.len, IF f.mask THEN pattern ELSE NoMask)

\* Fault: the length is written least significant byte first.
Fault_make_frame_text(n, mask_bytes) ==
    OnWire(<< 129 >> \o
    (IF n < 126 THEN << 128 + n >>
     ELSE IF n <= 65535 THEN << 128 + 126, ByteOf(n, 0), ByteOf(n, 1) >>
     ELSE << 128 + 127 >> \o [i \in 1..8 |-> ByteOf(n, i - 1)])
    \o mask_bytes, n, mask_bytes)

\* The client's own writer for text: final, masked with fresh bytes.
make_frame_text(n, mask_bytes) ==
    OnWire(<< 129 >> \o
    (IF n < 126 THEN << 128 + n >>
     ELSE IF n <= 65535 THEN << 128 + 126, ByteOf(n, 1), ByteOf(n, 0) >>
     ELSE << 128 + 127 >> \o [i \in 1..8 |-> ByteOf(n, 8 - i)])
    \o mask_bytes, n, mask_bytes)

-----------------------------------------------------------------------------
(* Readers.  The content of a frame is "intact" when the reader took the     *)
(* header and the payload for what they are and undid the mask.              *)

\* (n << 8) | b
Joined(n, b) == 256 * n + b

\* The length in two or in eight bytes.
BigEndian(b) ==
    IF Len(b) = 2 THEN Joined(b[1], b[2])
    ELSE Joined(Joined(Joined(Joined(
            Joined(Joined(Joined(b[1], b[2]), b[3]), b[4]), b[5]), b[6]), b[7]), b[8])

\* Bytes i to j of a header; past its end there is something else.
Take(head, i, j) == [k \in 1 .. j + 1 - i |->
                        IF i + k - 1 <= Len(head) THEN head[i + k - 1] ELSE 0]

\* Of the three RSV bits only read_frame takes notice.
Parsed(w, used, len, key) ==
    [fin |-> w.head[1] >= 128, rsv |-> (w.head[1] \div 16) % 8,
     opcode |-> w.head[1] % 16, len |-> len,
     content |-> IF used = Len(w.head) /\ len = w.len /\ (len > 0 => key = w.mask)
                 THEN "intact" ELSE "garbled"]

\* do_read_loop: two bytes, then the extended length and the key in one read,
\* then the payload.
parse_header(w) ==
    LET len7 == w.head[2] % 128
        mask == w.head[2] >= 128
        ext_len_bytes == IF len7 = 126 THEN 2 ELSE IF len7 = 127 THEN 8 ELSE 0
        p == 2 + ext_len_bytes
        payload_len == IF ext_len_bytes = 0 THEN len7 ELSE BigEndian(Take(w.head, 3, p))
        mask_key == IF mask THEN Take(w.head, p + 1, p + 4) ELSE NoMask
    IN Parsed(w, p + (IF mask THEN 4 ELSE 0), payload_len,
              [i \in 1..4 |-> KeyByte(mask_key, 4 - i)])

KnownOpcode == {0, 1, 2, 8, 9, 10}

\* read_frame of the client, up to its checks.
read_frame_raw(w) ==
    LET len7 == w.head[2] % 128
        masked == w.head[2] >= 128
        ext == IF len7 = 126 THEN 2 ELSE IF len7 = 127 THEN 8 ELSE 0
        len == IF ext = 0 THEN len7 ELSE BigEndian(Take(w.head, 3, 2 + ext))
        key == IF masked THEN Take(w.head, 3 + ext, 6 + ext) ELSE NoMask
    IN Parsed(w, 2 + ext + (IF masked THEN 4 ELSE 0), len, key)
=============================================================================
