---------------------------- MODULE WsLinkProofs ----------------------------
(***************************************************************************)
(* The invariants of WsLink for every set of lengths below 2^31, every set *)
(* of masking keys and every limit.                                        *)
(*                                                                         *)
(* The first half is about the codec: the header that a writer emits is    *)
(* described byte by byte (Encodes), both writers are shown to emit such a *)
(* header in each of the three forms of a length, and both readers to take *)
(* such a header for what it is.  The second half is about the streams:    *)
(* every frame sent has been read, was lost, or is on its stream at the    *)
(* place that its number gives it (UpStream, DownStream), the stream to    *)
(* the client as long as the handshake did not cut a frame in two.         *)
(***************************************************************************)
EXTENDS WsLink, SequenceTheorems, TLAPS

\* A length whose upper four bytes, and whose sign bit, are zero.
Short(n) == n \in Nat /\ n \div (256 * 256 * 256) < 128
Key == [1..4 -> Octet]

\* The number of bytes of the extended length.
Ext(n) == IF n <= 125 THEN 0 ELSE IF n <= 65535 THEN 2 ELSE 8
Len7(n) == IF n <= 125 THEN n ELSE IF n <= 65535 THEN 126 ELSE 127

\* The header and the mask of a frame of n bytes, byte by byte.
Encodes(w, first, masked, n, key) ==
    /\ w.head \in Seq(Octet) /\ w.len = n /\ w.mask = IF masked THEN key ELSE NoMask
    /\ Len(w.head) = 2 + Ext(n) + (IF masked THEN 4 ELSE 0)
    /\ w.head[1] = first
    /\ w.head[2] = (IF masked THEN 128 ELSE 0) + Len7(n)
    /\ \A i \in 1 .. Ext(n) : w.head[2 + i] = ByteOf(n, Ext(n) - i)
    /\ masked => \A i \in 1 .. 4 : w.head[2 + Ext(n) + i] = key[i]

-----------------------------------------------------------------------------
(* The bytes of a length *)

\* ByteOf yields a byte.
LEMMA Bytes == ASSUME NEW n, Short(n), NEW i \in Nat PROVE ByteOf(n, i) \in Octet
  BY DEF ByteOf, Octet, Short

\* The two lower bytes make up a length of the 16-bit form.
LEMMA TwoBytes ==
    ASSUME NEW n \in Nat, n <= 65535
    PROVE  256 * ByteOf(n, 1) + ByteOf(n, 0) = n
<1>1. ByteOf(n, 1) = (n \div 256) % 256 /\ ByteOf(n, 0) = n % 256
  BY DEF ByteOf
<1>2. n \div 256 \in Nat /\ n \div 256 < 256 /\ 256 * (n \div 256) + (n % 256) = n
  OBVIOUS
<1>3. (n \div 256) % 256 = n \div 256
  BY <1>2
<1> QED BY <1>1, <1>2, <1>3

\* The four lower bytes make up a length of the 64-bit form.
LEMMA FourBytes ==
    ASSUME NEW n, Short(n)
    PROVE  256 * (256 * (256 * ByteOf(n, 3) + ByteOf(n, 2)) + ByteOf(n, 1)) + ByteOf(n, 0) = n
<1> DEFINE a == n \div 256
           b == a \div 256
           c == b \div 256
<1>1. a \in Nat /\ b \in Nat /\ c \in Nat
  BY DEF Short
<1>2. n \div (256 * 256) = b
  BY DEF Short
<1>3. n \div (256 * 256 * 256) = c
  BY DEF Short
<1>4. /\ ByteOf(n, 0) = n % 256 /\ ByteOf(n, 1) = a % 256
      /\ ByteOf(n, 2) = b % 256 /\ ByteOf(n, 3) = c % 256
  BY <1>2, <1>3 DEF ByteOf
<1>5. 256 * a + (n % 256) = n /\ 256 * b + (a % 256) = a /\ 256 * c + (b % 256) = b
  BY <1>1 DEF Short
<1>6. c % 256 = c
  BY <1>1, <1>3 DEF Short
<1>7. n \in Nat /\ n % 256 \in Nat /\ a % 256 \in Nat /\ b % 256 \in Nat
  BY <1>1 DEF Short
<1> HIDE DEF a, b, c
<1>8. 256 * ByteOf(n, 3) + ByteOf(n, 2) = b
  BY <1>4, <1>5, <1>6
<1>9. 256 * b + ByteOf(n, 1) = a /\ 256 * a + ByteOf(n, 0) = n
  BY <1>4, <1>5
<1> QED BY <1>8, <1>9

-----------------------------------------------------------------------------
(* What the writers emit *)

\* A masking key is a sequence of four bytes.
LEMMA KeyIsSeq == ASSUME NEW key \in Key PROVE key \in Seq(Octet) /\ Len(key) = 4
<1>1. key \in Seq(Octet)
  BY SeqDef DEF Key
<1>2. DOMAIN key = 1 .. 4
  BY DEF Key
<1> QED BY <1>1, <1>2, LenProperties

\* Three byte sequences one after the other.
LEMMA Joins ==
    ASSUME NEW a \in Seq(Octet), NEW b \in Seq(Octet), NEW c \in Seq(Octet)
    PROVE  /\ a \o b \o c \in Seq(Octet) /\ Len(a \o b \o c) = Len(a) + Len(b) + Len(c)
           /\ \A i \in 1 .. Len(a) : (a \o b \o c)[i] = a[i]
           /\ \A i \in 1 .. Len(b) : (a \o b \o c)[Len(a) + i] = b[i]
           /\ \A i \in 1 .. Len(c) : (a \o b \o c)[Len(a) + Len(b) + i] = c[i]
  OBVIOUS

\* The bytes that follow the second one of a header.
Extended(n) == [i \in 1 .. Ext(n) |-> ByteOf(n, Ext(n) - i)]

\* The extended length is 0, 2 or 8 bytes.
LEMMA ExtendedIsSeq ==
    ASSUME NEW n, Short(n)
    PROVE  /\ Extended(n) \in Seq(Octet) /\ Len(Extended(n)) = Ext(n) /\ Ext(n) \in {0, 2, 8}
           /\ Len7(n) \in 0 .. 127
<1>1. Ext(n) \in {0, 2, 8} /\ Len7(n) \in 0 .. 127
  BY DEF Ext, Len7, Short
<1>2. \A i \in 1 .. Ext(n) : ByteOf(n, Ext(n) - i) \in Octet
  BY <1>1, Bytes
<1> QED BY <1>1, <1>2 DEF Extended

\* A frame made of these parts.
Wire(first, masked, n, key) ==
    OnWire(<< first, (IF masked THEN 128 ELSE 0) + Len7(n) >> \o Extended(n)
               \o (IF masked THEN key ELSE <<>>),
           n, IF masked THEN key ELSE NoMask)

\* A frame put together of these parts is laid out as Encodes says.
LEMMA HeaderParts ==
    ASSUME NEW n, Short(n), NEW first \in Octet, NEW masked \in BOOLEAN, NEW key \in Key
    PROVE  Encodes(Wire(first, masked, n, key), first, masked, n, key)
<1> DEFINE w == Wire(first, masked, n, key)
           second == (IF masked THEN 128 ELSE 0) + Len7(n)
           two == << first, second >>
           last == IF masked THEN key ELSE <<>>
           head == two \o Extended(n) \o last
<1>1. two \in Seq(Octet) /\ Len(two) = 2 /\ two[1] = first /\ two[2] = second
  <2>1. second \in Octet
    <3>1. Len7(n) \in 0 .. 127
      BY ExtendedIsSeq
    <3>2. CASE masked BY <3>1, <3>2 DEF Octet
    <3>3. CASE ~masked BY <3>1, <3>3 DEF Octet
    <3> QED BY <3>2, <3>3
  <2> HIDE DEF second
  <2> QED BY <2>1
<1>2. last \in Seq(Octet) /\ Len(last) = (IF masked THEN 4 ELSE 0) /\ (masked => last = key)
  <2>1. CASE masked BY <2>1, KeyIsSeq
  <2>2. CASE ~masked BY <2>2
  <2> QED BY <2>1, <2>2
<1>3. Extended(n) \in Seq(Octet) /\ Len(Extended(n)) = Ext(n) /\ Ext(n) \in {0, 2, 8}
  BY ExtendedIsSeq
<1>4. w.head = head /\ w.len = n /\ w.mask = IF masked THEN key ELSE NoMask
  BY DEF OnWire, Wire
<1> HIDE DEF two, last, second, w
<1>7. /\ head \in Seq(Octet) /\ Len(head) = 2 + Ext(n) + Len(last)
      /\ \A i \in 1 .. 2 : head[i] = two[i]
      /\ \A i \in 1 .. Ext(n) : head[2 + i] = Extended(n)[i]
      /\ \A i \in 1 .. Len(last) : head[2 + Ext(n) + i] = last[i]
  <2> DEFINE mid == Extended(n)
  <2>1. /\ two \o mid \o last \in Seq(Octet)
        /\ Len(two \o mid \o last) = Len(two) + Len(mid) + Len(last)
        /\ \A i \in 1 .. Len(two) : (two \o mid \o last)[i] = two[i]
        /\ \A i \in 1 .. Len(mid) : (two \o mid \o last)[Len(two) + i] = mid[i]
        /\ \A i \in 1 .. Len(last) : (two \o mid \o last)[Len(two) + Len(mid) + i] = last[i]
    <3> HIDE DEF mid, head
    <3>1. two \in Seq(Octet) /\ mid \in Seq(Octet) /\ last \in Seq(Octet)
      BY <1>1, <1>2, <1>3 DEF mid
    <3> QED BY ONLY <3>1, Joins
  <2>2. Len(two) = 2 /\ Len(mid) = Ext(n)
    BY <1>1, <1>3
  <2> HIDE DEF mid
  <2>3. head = two \o mid \o last
    BY DEF mid
  <2> HIDE DEF head
  <2> QED BY <2>1, <2>2, <2>3 DEF mid
<1> HIDE DEF head
<1>8. \A i \in 1 .. Ext(n) : head[2 + i] = ByteOf(n, Ext(n) - i)
  BY <1>7 DEF Extended
<1>9. head[1] = first /\ head[2] = second
  BY <1>7, <1>1
<1>10. masked => \A i \in 1 .. 4 : head[2 + Ext(n) + i] = key[i]
  BY <1>7, <1>2
<1>11. Len(head) = 2 + Ext(n) + (IF masked THEN 4 ELSE 0)
  BY <1>7, <1>2
<1>12. Encodes(w, first, masked, n, key)
  BY <1>4, <1>7, <1>8, <1>9, <1>10, <1>11 DEF Encodes, second
<1> QED BY <1>12 DEF w

\* Two bytes one after the other.
LEMMA Pairs == ASSUME NEW x \in Octet, NEW y \in Octet PROVE << y >> \o << x >> = << y, x >>
<1>1. << y >> \o << x >> \in Seq(Octet) /\ << y, x >> \in Seq(Octet)
  OBVIOUS
<1>2. Len(<< y >> \o << x >>) = 2 /\ Len(<< y, x >>) = 2
  OBVIOUS
<1>3. \A i \in 1 .. 2 : (<< y >> \o << x >>)[i] = << y, x >>[i]
  OBVIOUS
<1> QED BY <1>1, <1>2, <1>3, SeqEqual

\* A byte and the two bytes of a 16-bit length.
LEMMA Triples ==
    ASSUME NEW x \in Octet, NEW y \in Octet, NEW z \in Octet
    PROVE  << x >> \o << y, z >> = << x, y, z >>
<1>1. << x >> \o << y, z >> \in Seq(Octet) /\ << x, y, z >> \in Seq(Octet)
  OBVIOUS
<1>2. Len(<< x >> \o << y, z >>) = 3 /\ Len(<< x, y, z >>) = 3
  OBVIOUS
<1>3. \A i \in 1 .. 3 : (<< x >> \o << y, z >>)[i] = << x, y, z >>[i]
  OBVIOUS
<1> QED BY <1>1, <1>2, <1>3, SeqEqual

\* A byte in front of a byte sequence.
LEMMA ConsParts ==
    ASSUME NEW x \in Octet, NEW e \in Seq(Octet)
    PROVE  /\ Tail(<< x >> \o e) = e /\ (<< x >> \o e)[1] = x
           /\ \A y \in Octet : << y >> \o (<< x >> \o e) = << y, x >> \o e
<1>1. Tail(<< x >> \o e) = e /\ (<< x >> \o e)[1] = x
  <2> DEFINE s == << x >> \o e
  <2>1. s \in Seq(Octet) /\ Len(s) = 1 + Len(e) /\ s[1] = x /\ s # <<>>
        /\ \A i \in 1 .. Len(e) : s[1 + i] = e[i]
    OBVIOUS
  <2>2. Tail(s) \in Seq(Octet) /\ Len(Tail(s)) = Len(s) - 1
        /\ \A i \in 1 .. Len(Tail(s)) : Tail(s)[i] = s[i + 1]
    BY <2>1, HeadTailProperties
  <2> HIDE DEF s
  <2>3. Len(e) \in Nat
    OBVIOUS
  <2>4. Len(Tail(s)) = Len(e) /\ \A i \in 1 .. Len(e) : Tail(s)[i] = e[i]
    BY <2>1, <2>2, <2>3
  <2>5. Tail(s) = e
    BY <2>2, <2>4, SeqEqual
  <2> QED BY <2>1, <2>5 DEF s
<1>2. ASSUME NEW y \in Octet PROVE << y >> \o (<< x >> \o e) = << y, x >> \o e
  <2>1. << y >> \in Seq(Octet) /\ << x >> \in Seq(Octet) /\ << y >> \o << x >> = << y, x >>
    BY Pairs
  <2>2. (<< y >> \o << x >>) \o e = << y >> \o (<< x >> \o e)
    BY <2>1, ConcatAssociative
  <2> QED BY <2>1, <2>2
<1> QED BY <1>1, <1>2

\* The three forms of a length.
LEMMA LengthForms ==
    ASSUME NEW n, Short(n)
    PROVE  /\ n <= 125 => Extended(n) = <<>> /\ Len7(n) = n
           /\ n > 125 /\ n <= 65535 => Extended(n) = << ByteOf(n, 1), ByteOf(n, 0) >> /\ Len7(n) = 126
           /\ n > 65535 => Extended(n) = [i \in 1..8 |-> ByteOf(n, 8 - i)] /\ Len7(n) = 127
           /\ n \in Nat
<1>1. n \in Nat
  BY DEF Short
<1>2. CASE n <= 125
  BY <1>1, <1>2 DEF Extended, Ext, Len7
<1>3. CASE n > 125 /\ n <= 65535
  BY <1>1, <1>3 DEF Extended, Ext, Len7
<1>4. CASE n > 65535
  BY <1>1, <1>4 DEF Extended, Ext, Len7
<1> QED BY <1>1, <1>2, <1>3, <1>4

\* The client's own writer lays a text frame out as Encodes says.
LEMMA TextEncodes ==
    ASSUME NEW n, Short(n), NEW key \in Key
    PROVE  /\ Encodes(make_frame_text(n, key), 129, TRUE, n, key)
           /\ make_frame_text(n, key) = Wire(129, TRUE, n, key)
<1> DEFINE mid == IF n < 126 THEN << 128 + n >>
                  ELSE IF n <= 65535 THEN << 128 + 126, ByteOf(n, 1), ByteOf(n, 0) >>
                  ELSE << 128 + 127 >> \o [i \in 1..8 |-> ByteOf(n, 8 - i)]
<1>1. mid = << 128 + Len7(n) >> \o Extended(n)
  <2>0. n \in Nat
    BY LengthForms
  <2>1. CASE n <= 125
    <3>1. mid = << 128 + n >> /\ Extended(n) = <<>> /\ Len7(n) = n
      BY <2>1, <2>0, LengthForms
    <3>2. << 128 + n >> \in Seq(Nat)
      BY <2>0
    <3> QED BY <3>1, <3>2, ConcatEmptySeq
  <2>2. CASE n > 125 /\ n <= 65535
    <3>1. mid = << 128 + 126, ByteOf(n, 1), ByteOf(n, 0) >>
      BY <2>2, <2>0
    <3>2. Extended(n) = << ByteOf(n, 1), ByteOf(n, 0) >> /\ Len7(n) = 126
      BY <2>2, LengthForms
    <3>3. 128 + 126 \in Octet
      BY DEF Octet
    <3>4. ByteOf(n, 1) \in Octet /\ ByteOf(n, 0) \in Octet
      BY Bytes
    <3> HIDE DEF mid
    <3> QED BY <3>1, <3>2, <3>3, <3>4, Triples
  <2>3. CASE n > 65535
    <3> DEFINE eight == [i \in 1..8 |-> ByteOf(n, 8 - i)]
    <3>1. mid = << 128 + 127 >> \o eight
      BY <2>3, <2>0
    <3>2. Extended(n) = eight /\ Len7(n) = 127
      BY <2>3, LengthForms
    <3> HIDE DEF mid, eight
    <3> QED BY <3>1, <3>2
  <2> HIDE DEF mid
  <2> QED BY <2>0, <2>1, <2>2, <2>3
<1>2. make_frame_text(n, key) = OnWire(<< 129 >> \o mid \o key, n, key)
  BY DEF make_frame_text
<1> HIDE DEF mid
<1>3. 128 + Len7(n) \in Octet /\ 129 \in Octet /\ Extended(n) \in Seq(Octet)
  <2>1. Len7(n) \in 0 .. 127 /\ Extended(n) \in Seq(Octet)
    BY ExtendedIsSeq
  <2>2. 128 + Len7(n) \in Octet /\ 129 \in Octet
    <3> HIDE DEF mid
    <3>1. Len7(n) \in 0 .. 127
      BY <2>1
    <3> QED BY ONLY <3>1 DEF Octet
  <2> QED BY <2>1, <2>2
<1>4. << 129 >> \o mid = << 129, 128 + Len7(n) >> \o Extended(n)
  BY <1>1, <1>3, ConsParts
<1>5. make_frame_text(n, key) = Wire(129, TRUE, n, key)
  BY <1>2, <1>4 DEF Wire
<1> QED BY <1>3, <1>5, HeaderParts

\* write_frame lays a final frame out as Encodes says, masked or not.
LEMMA FrameEncodes ==
    ASSUME NEW f, Short(f.len), f.masking_key \in Key, f.mask \in BOOLEAN,
           f.opcode \in 0 .. 15, f.fin = TRUE
    PROVE  Encodes(write_frame(f), 128 + f.opcode, f.mask, f.len, f.masking_key)
<1> DEFINE field == LengthField(f.len)
           pattern == [i \in 1..4 |-> KeyByte(f.masking_key, 4 - i)]
<1>1. field[1] = Len7(f.len) /\ Tail(field) = Extended(f.len)
  <2>1. CASE f.len <= 125
    BY <2>1, LengthForms DEF LengthField
  <2>2. CASE f.len > 125 /\ f.len <= 65535
    BY <2>2, LengthForms DEF LengthField
  <2>3. CASE f.len > 65535
    <3>1. Extended(f.len) \in Seq(Octet) /\ 127 \in Octet
      BY ExtendedIsSeq DEF Octet
    <3>2. field = << 127 >> \o Extended(f.len)
      <4>1. f.len \in Nat /\ ~(f.len <= 125) /\ ~(f.len <= 65535)
        BY <2>3, LengthForms
      <4> DEFINE eight == [i \in 1..8 |-> ByteOf(f.len, 8 - i)]
      <4>2. field = << 127 >> \o eight
        BY <4>1 DEF LengthField
      <4>3. Extended(f.len) = eight
        BY <2>3, LengthForms
      <4> HIDE DEF field, eight
      <4> QED BY <4>2, <4>3
    <3> HIDE DEF field
    <3>3. Len7(f.len) = 127
      BY <2>3, LengthForms
    <3> QED BY <3>1, <3>2, <3>3, ConsParts
  <2> QED BY <2>1, <2>2, <2>3, LengthForms
<1>2. pattern = f.masking_key
  BY DEF KeyByte, Key
<1>3. write_frame(f) = Wire(128 + f.opcode, f.mask, f.len, f.masking_key)
  BY <1>1, <1>2 DEF write_frame, Bit, Wire
<1>4. 128 + f.opcode \in Octet
  BY DEF Octet
<1> QED BY <1>3, <1>4, HeaderParts

-----------------------------------------------------------------------------
(* What the readers make of such a frame *)

\* Reading the extended length gives the length back.
LEMMA BigEndianOf ==
    ASSUME NEW n, Short(n), n > 125
    PROVE  BigEndian(Extended(n)) = n
<1>0. n \in Nat
  BY DEF Short
<1>1. CASE n <= 65535
  <2>1. Extended(n) = << ByteOf(n, 1), ByteOf(n, 0) >>
    BY <1>1, LengthForms
  <2>2. BigEndian(Extended(n)) = 256 * ByteOf(n, 1) + ByteOf(n, 0)
    BY <2>1 DEF BigEndian, Joined
  <2> QED BY <2>2, <1>0, <1>1, TwoBytes
<1>2. CASE n > 65535
  <2> DEFINE e == Extended(n)
  <2>1. Len(e) = 8 /\ e = [i \in 1..8 |-> ByteOf(n, 8 - i)]
    BY <1>0, <1>2, LengthForms, ExtendedIsSeq DEF Ext
  <2>2. /\ e[1] = ByteOf(n, 7) /\ e[2] = ByteOf(n, 6) /\ e[3] = ByteOf(n, 5) /\ e[4] = ByteOf(n, 4)
        /\ e[5] = ByteOf(n, 3) /\ e[6] = ByteOf(n, 2) /\ e[7] = ByteOf(n, 1) /\ e[8] = ByteOf(n, 0)
    BY <2>1
  <2>3. ByteOf(n, 7) = 0 /\ ByteOf(n, 6) = 0 /\ ByteOf(n, 5) = 0 /\ ByteOf(n, 4) = 0
    BY DEF ByteOf
  <2>4. \A i \in 0 .. 3 : ByteOf(n, i) \in Nat
    BY Bytes DEF Octet
  <2> HIDE DEF e
  <2>5. BigEndian(e) = Joined(Joined(Joined(Joined(Joined(Joined(Joined(
                 e[1], e[2]), e[3]), e[4]), e[5]), e[6]), e[7]), e[8])
    BY <2>1 DEF BigEndian
  <2>6. Joined(Joined(Joined(e[1], e[2]), e[3]), e[4]) = 0
    BY <2>2, <2>3 DEF Joined
  <2>7. Joined(0, e[5]) = ByteOf(n, 3)
    BY <2>2, <2>4 DEF Joined
  <2>8. BigEndian(e) = Joined(Joined(Joined(ByteOf(n, 3), ByteOf(n, 2)), ByteOf(n, 1)), ByteOf(n, 0))
    BY <2>2, <2>5, <2>6, <2>7
  <2>9. BigEndian(e) = n
    BY <2>8, FourBytes DEF Joined
  <2> QED BY <2>9 DEF e
<1> QED BY <1>0, <1>1, <1>2

\* do_read_loop and read_frame both read a frame that is laid out so.
LEMMA BothRead ==
    ASSUME NEW w, NEW op \in 0 .. 15, NEW masked \in BOOLEAN, NEW n, Short(n), NEW key \in Key,
           Encodes(w, 128 + op, masked, n, key)
    PROVE  parse_header(w) = Sent(op, n) /\ read_frame_raw(w) = Sent(op, n)
<1> DEFINE h == w.head
           e == Ext(n)
           k == IF masked THEN 4 ELSE 0
<1>0. n \in Nat /\ e \in {0, 2, 8} /\ Len7(n) \in 0 .. 127
  BY ExtendedIsSeq DEF Short
<1>1. /\ h \in Seq(Octet) /\ w.len = n /\ w.mask = (IF masked THEN key ELSE NoMask)
      /\ Len(h) = 2 + e + k /\ h[1] = 128 + op /\ h[2] = (IF masked THEN 128 ELSE 0) + Len7(n)
      /\ \A i \in 1 .. e : h[2 + i] = ByteOf(n, e - i)
      /\ masked => \A i \in 1 .. 4 : h[2 + e + i] = key[i]
  BY DEF Encodes
<1> HIDE DEF h
<1>2. h[2] % 128 = Len7(n) /\ (h[2] >= 128 <=> masked)
  <2>0. \A l \in 0 .. 127 : /\ (128 + l) % 128 = l /\ 128 + l >= 128
                           /\ (0 + l) % 128 = l /\ ~(0 + l >= 128)
    OBVIOUS
  <2>1. CASE masked
    <3>1. h[2] = 128 + Len7(n)
      BY <1>1, <2>1
    <3> QED BY <1>0, <2>0, <2>1, <3>1
  <2>2. CASE ~masked
    <3>1. h[2] = 0 + Len7(n)
      BY <1>1, <2>2
    <3> QED BY <1>0, <2>0, <2>2, <3>1
  <2> QED BY <2>1, <2>2
<1>3. (IF Len7(n) = 126 THEN 2 ELSE IF Len7(n) = 127 THEN 8 ELSE 0) = e
  BY <1>0 DEF Len7, Ext
<1>4. Take(h, 3, 2 + e) = Extended(n)
  <2>1. 2 + e + 1 - 3 = e
    BY <1>0
  <2>2. ASSUME NEW j \in 1 .. e
        PROVE  3 + j - 1 = 2 + j /\ 3 + j - 1 <= Len(h) /\ h[3 + j - 1] = ByteOf(n, e - j)
    <3>1. 3 + j - 1 = 2 + j /\ 3 + j - 1 <= Len(h)
      BY <1>0, <1>1
    <3> QED BY <3>1, <1>1
  <2> HIDE DEF e
  <2>3. Take(h, 3, 2 + e) = [j \in 1 .. e |-> ByteOf(n, e - j)]
    BY <2>1, <2>2 DEF Take
  <2> QED BY <2>3 DEF Extended, e
<1>5. (IF e = 0 THEN Len7(n) ELSE BigEndian(Take(h, 3, 2 + e))) = n
  <2>1. CASE n <= 125
    BY <2>1, <1>0 DEF Ext, Len7
  <2>2. CASE n > 125
    BY <2>2, <1>0, <1>4, BigEndianOf DEF Ext
  <2> QED BY <2>1, <2>2, <1>0
<1>6. masked => Take(h, 3 + e, 6 + e) = key
  <2> SUFFICES ASSUME masked PROVE Take(h, 3 + e, 6 + e) = key
    OBVIOUS
  <2>1. (6 + e) + 1 - (3 + e) = 4
    BY <1>0
  <2>2. ASSUME NEW j \in 1 .. 4
        PROVE  (3 + e) + j - 1 <= Len(h) /\ h[(3 + e) + j - 1] = key[j]
    <3>1. (3 + e) + j - 1 = 2 + e + j /\ (3 + e) + j - 1 <= Len(h)
      BY <1>0, <1>1
    <3> QED BY <3>1, <1>1
  <2>3. key = [j \in 1 .. 4 |-> key[j]]
    BY DEF Key
  <2> HIDE DEF e
  <2>4. Take(h, 3 + e, 6 + e) = [j \in 1 .. 4 |-> key[j]]
    BY <2>1, <2>2 DEF Take
  <2> QED BY <2>3, <2>4
<1>7. h[1] >= 128 /\ h[1] % 16 = op /\ (h[1] \div 16) % 8 = 0
  <2>1. h[1] = 128 + op /\ (128 + op) % 16 = op /\ (128 + op) \div 16 = 8 /\ 8 % 8 = 0
    BY <1>1
  <2> QED BY <2>1
<1> DEFINE mkey == IF masked THEN Take(h, 3 + e, 6 + e) ELSE NoMask
<1>8. mkey = w.mask /\ mkey \in Key
  <2>1. NoMask \in Key
    BY DEF NoMask, Key, Octet
  <2>2. CASE masked
    BY <1>1, <1>6, <2>2
  <2>3. CASE ~masked
    BY <1>1, <2>1, <2>3
  <2> QED BY <2>2, <2>3
<1>9. Parsed(w, 2 + e + k, n, mkey) = Sent(op, n)
  BY <1>1, <1>7, <1>8 DEF Parsed, Sent, h
<1>10. [i \in 1..4 |-> KeyByte(mkey, 4 - i)] = mkey
  <2> HIDE DEF mkey
  <2> QED BY <1>8 DEF KeyByte, Key
<1>11. parse_header(w) = Sent(op, n)
  <2>1. (2 + e) + 1 = 3 + e /\ (2 + e) + 4 = 6 + e /\ (2 + e) + k = 2 + e + k
    BY <1>0
  <2> HIDE DEF e
  <2>2. parse_header(w) = Parsed(w, 2 + e + k, n, [i \in 1..4 |-> KeyByte(mkey, 4 - i)])
    BY <1>2, <1>3, <1>5, <2>1 DEF parse_header, h
  <2> QED BY <2>2, <1>9, <1>10
<1>12. read_frame_raw(w) = Sent(op, n)
  <2> HIDE DEF e
  <2>2. read_frame_raw(w) = Parsed(w, 2 + e + k, n, mkey)
    BY <1>2, <1>3, <1>5 DEF read_frame_raw, h
  <2> QED BY <2>2, <1>9
<1> QED BY <1>11, <1>12

-----------------------------------------------------------------------------
(* The inductive invariant *)

\* What either side sends: whole messages and Close frames, which are short.
SentFrames ==
    {f \in [fin : {TRUE}, rsv : {0}, opcode : {1, 2, 8}, len : Nat, content : {"intact"}] :
        Short(f.len) /\ (f.opcode = 8 => f.len <= 125)}

FrameTypes ==
    /\ csent \in Seq(SentFrames) /\ ssent \in Seq(SentFrames)
    /\ sgot \in Seq(SentFrames) /\ cgot \in Seq(SentFrames) /\ lost \in Nat

\* The frames the client sent are the ones the server has read and the ones on
\* the stream.
UpStream ==
    /\ Len(csent) = Len(sgot) + Len(c2s)
    /\ \A i \in 1 .. Len(sgot) : sgot[i] = csent[i]
    /\ \A i \in 1 .. Len(c2s) : parse_header(c2s[i]) = csent[Len(sgot) + i]

OnItsWay(f) == write_frame(Unmasked(f.opcode, f.len))

\* The frames the server sent are the lost ones, the ones the client has read
\* and the ones on the stream.
DownStream ==
    /\ Len(ssent) = lost + Len(cgot) + Len(s2c)
    /\ \A i \in 1 .. Len(cgot) : cgot[i] = ssent[lost + i]
    /\ \A i \in 1 .. Len(s2c) : s2c[i] = OnItsWay(ssent[lost + Len(cgot) + i])
    /\ ~connected => lost = 0 /\ cgot = <<>>

\* What holds of the client that started on the boundary of a frame.
InStep == (~cut => DownStream) /\ (~connected => ~cut)

\* Why the client stopped, told by the last frame it read.
Cause ==
    /\ ~stopped => why = "none"
    /\ why \in {"close", "refused"} => cgot # <<>>
    /\ why = "close" => cgot[Len(cgot)].opcode = 8
    /\ why = "refused" => cgot[Len(cgot)].len > MAX_FRAME_PAYLOAD

Reasoned ==
    /\ ~cut => Cause
    /\ ~stopped => why = "none"
    /\ why = "lost" => srv = "closed"

LinkInv == TypeOK /\ FrameTypes /\ UpStream /\ InStep /\ Reasoned

-----------------------------------------------------------------------------
(* The writers keep their promises *)

\* The frames either side sends.
LEMMA IsSentFrame ==
    ASSUME NEW op \in {1, 2, 8}, NEW n, Short(n), op = 8 => n <= 125
    PROVE  /\ Sent(op, n) \in SentFrames
           /\ Sent(op, n).opcode = op /\ Sent(op, n).len = n
  BY DEF Sent, SentFrames, Short

\* A length of seven bits is short.
LEMMA SmallIsShort == ASSUME NEW n \in 0 .. 125 PROVE Short(n)
  BY DEF Short

\* A text frame of the client is bytes, and the server reads it.
LEMMA TextWritten ==
    ASSUME NEW n, Short(n), NEW key \in Key
    PROVE  make_frame_text(n, key) \in WireFrame /\ parse_header(make_frame_text(n, key)) = Sent(1, n)
<1> DEFINE w == make_frame_text(n, key)
<1>1. Encodes(w, 129, TRUE, n, key)
  BY TextEncodes
<1>2. PICK h : w = [head |-> h, len |-> n, mask |-> key]
  <2>1. w = Wire(129, TRUE, n, key)
    BY TextEncodes
  <2> HIDE DEF w
  <2> QED BY <2>1 DEF Wire, OnWire
<1> HIDE DEF w
<1>3. w.head = h /\ h \in Seq(Octet) /\ n \in Nat
  BY <1>1, <1>2 DEF Encodes, Short
<1>4. w \in WireFrame
  BY <1>2, <1>3 DEF WireFrame, Key
<1>5. parse_header(w) = Sent(1, n)
  <2>1. 128 + 1 = 129
    OBVIOUS
  <2>2. Encodes(w, 128 + 1, TRUE, n, key)
    BY <1>1, <2>1, Zenon
  <2>3. 1 \in 0 .. 15 /\ TRUE \in BOOLEAN
    OBVIOUS
  <2> QED BY <2>2, <2>3, BothRead
<1> QED BY <1>4, <1>5 DEF w

\* A frame of write_frame is bytes, and both readers read it.
LEMMA FrameWritten ==
    ASSUME NEW f, NEW op \in 0 .. 15, NEW n, Short(n), NEW key \in Key, NEW masked \in BOOLEAN,
           f = [fin |-> TRUE, opcode |-> op, mask |-> masked, masking_key |-> key, len |-> n]
    PROVE  /\ write_frame(f) \in WireFrame
           /\ parse_header(write_frame(f)) = Sent(op, n)
           /\ read_frame_raw(write_frame(f)) = Sent(op, n)
<1> DEFINE w == write_frame(f)
<1>0. f.fin = TRUE /\ f.opcode = op /\ f.mask = masked /\ f.masking_key = key /\ f.len = n
  OBVIOUS
<1>1. Encodes(w, 128 + op, masked, n, key)
  BY <1>0, FrameEncodes
<1>2. PICK h, m : w = [head |-> h, len |-> f.len, mask |-> m]
  BY DEF write_frame, OnWire
<1> HIDE DEF w
<1>3. w.head = h /\ h \in Seq(Octet) /\ n \in Nat /\ w.mask = m /\ m = IF masked THEN key ELSE NoMask
  BY <1>1, <1>2 DEF Encodes, Short
<1>4. NoMask \in Key
  BY DEF NoMask, Key, Octet
<1>5. m \in Key
  BY <1>3, <1>4
<1>6. w \in WireFrame
  BY <1>0, <1>2, <1>3, <1>5 DEF WireFrame, Key
<1>7. parse_header(w) = Sent(op, n) /\ read_frame_raw(w) = Sent(op, n)
  BY <1>1, BothRead
<1> QED BY <1>6, <1>7 DEF w

\* The payload of a Close frame fits a control frame.
LEMMA ClosePayload ==
    ASSUME NEW r \in Nat
    PROVE  build_close_payload(r) \in 0 .. 125
  BY DEF build_close_payload

-----------------------------------------------------------------------------
(* The streams *)

\* A frame added to the stream to the server.
LEMMA UpAppend ==
    ASSUME UpStream, FrameTypes, c2s \in Seq(WireFrame), NEW w \in WireFrame, NEW f \in SentFrames,
           parse_header(w) = f,
           c2s' = Append(c2s, w), csent' = Append(csent, f), sgot' = sgot
    PROVE  UpStream' /\ csent' \in Seq(SentFrames) /\ c2s' \in Seq(WireFrame)
<1>0. /\ csent \in Seq(SentFrames) /\ Len(csent) \in Nat /\ Len(c2s) \in Nat /\ Len(sgot) \in Nat
  BY DEF FrameTypes
<1>1. /\ csent' \in Seq(SentFrames) /\ Len(csent') = Len(csent) + 1
      /\ csent'[Len(csent) + 1] = f /\ \A i \in 1 .. Len(csent) : csent'[i] = csent[i]
  BY <1>0, AppendProperties
<1>2. /\ c2s' \in Seq(WireFrame) /\ Len(c2s') = Len(c2s) + 1
      /\ c2s'[Len(c2s) + 1] = w /\ \A i \in 1 .. Len(c2s) : c2s'[i] = c2s[i]
  BY AppendProperties
<1>3. Len(csent') = Len(sgot') + Len(c2s')
  BY <1>0, <1>1, <1>2 DEF UpStream
<1>4. \A i \in 1 .. Len(sgot') : sgot'[i] = csent'[i]
  BY <1>0, <1>1 DEF UpStream
<1>5. ASSUME NEW i \in 1 .. Len(c2s') PROVE parse_header(c2s'[i]) = csent'[Len(sgot') + i]
  <2>1. CASE i \in 1 .. Len(c2s)
    <3>1. Len(sgot) + i \in 1 .. Len(csent)
      BY <1>0, <2>1 DEF UpStream
    <3> QED BY <3>1, <2>1, <1>1, <1>2 DEF UpStream
  <2>2. CASE i = Len(c2s) + 1
    <3>1. Len(sgot) + i = Len(csent) + 1
      BY <1>0, <2>2 DEF UpStream
    <3> QED BY <3>1, <2>2, <1>1, <1>2
  <2>3. i \in 1 .. Len(c2s) \/ i = Len(c2s) + 1
    BY <1>0, <1>2
  <2> QED BY <2>1, <2>2, <2>3
<1>6. UpStream'
  BY <1>3, <1>4, <1>5 DEF UpStream
<1> QED BY <1>1, <1>2, <1>6

\* A frame taken off the stream to the server.
LEMMA UpRead ==
    ASSUME UpStream, FrameTypes, c2s \in Seq(WireFrame), c2s # <<>>,
           c2s' = Tail(c2s), sgot' = Append(sgot, parse_header(Head(c2s))), csent' = csent
    PROVE  /\ UpStream' /\ sgot' \in Seq(SentFrames) /\ c2s' \in Seq(WireFrame)
           /\ parse_header(Head(c2s)) \in SentFrames
<1> DEFINE f == parse_header(Head(c2s))
<1>0. /\ csent \in Seq(SentFrames) /\ sgot \in Seq(SentFrames)
      /\ Len(csent) \in Nat /\ Len(c2s) \in Nat \ {0} /\ Len(sgot) \in Nat
  BY EmptySeq DEF FrameTypes
<1>1. /\ c2s' \in Seq(WireFrame) /\ Len(c2s') = Len(c2s) - 1 /\ Head(c2s) = c2s[1]
      /\ \A i \in 1 .. Len(c2s') : c2s'[i] = c2s[i + 1]
  BY HeadTailProperties
<1>2. f = csent[Len(sgot) + 1] /\ Len(sgot) + 1 \in 1 .. Len(csent)
  BY <1>0, <1>1 DEF UpStream
<1>3. f \in SentFrames
  BY <1>0, <1>2, ElementOfSeq
<1> HIDE DEF f
<1>4. sgot' = Append(sgot, f)
  BY DEF f
<1>5. /\ sgot' \in Seq(SentFrames) /\ Len(sgot') = Len(sgot) + 1
      /\ sgot'[Len(sgot) + 1] = f /\ \A i \in 1 .. Len(sgot) : sgot'[i] = sgot[i]
  BY <1>0, <1>3, <1>4, AppendProperties
<1>6. Len(csent') = Len(sgot') + Len(c2s')
  <2>1. Len(csent) = Len(sgot) + Len(c2s)
    BY DEF UpStream
  <2> QED BY <1>0, <1>1, <1>5, <2>1
<1>7. \A i \in 1 .. Len(sgot') : sgot'[i] = csent'[i]
  BY <1>0, <1>2, <1>5 DEF UpStream
<1>8. ASSUME NEW i \in 1 .. Len(c2s') PROVE parse_header(c2s'[i]) = csent'[Len(sgot') + i]
  <2>1. i + 1 \in 1 .. Len(c2s) /\ Len(sgot') + i = Len(sgot) + (i + 1)
    BY <1>0, <1>1, <1>5
  <2> QED BY <1>1, <2>1 DEF UpStream
<1>9. UpStream'
  BY <1>6, <1>7, <1>8 DEF UpStream
<1> QED BY <1>1, <1>3, <1>5, <1>9 DEF f

\* A frame on its way to the client is read as it was sent.
LEMMA OnItsWayRead ==
    ASSUME NEW f \in SentFrames
    PROVE  OnItsWay(f) \in WireFrame /\ read_frame_raw(OnItsWay(f)) = f
<1>1. f.opcode \in 0 .. 15 /\ Short(f.len) /\ f = Sent(f.opcode, f.len)
  <2>1. f \in [fin : {TRUE}, rsv : {0}, opcode : {1, 2, 8}, len : Nat, content : {"intact"}] /\ Short(f.len)
    BY DEF SentFrames
  <2>2. f.opcode \in 0 .. 15
    BY <2>1
  <2>3. f = [fin |-> TRUE, rsv |-> 0, opcode |-> f.opcode, len |-> f.len, content |-> "intact"]
    BY <2>1
  <2> QED BY <2>1, <2>2, <2>3 DEF Sent
<1>2. NoMask \in Key /\ FALSE \in BOOLEAN
  BY DEF NoMask, Key, Octet
<1>3. PICK op, n : op = f.opcode /\ n = f.len
  OBVIOUS
<1>4. PICK u : u = Unmasked(op, n)
  OBVIOUS
<1>5. u = [fin |-> TRUE, opcode |-> op, mask |-> FALSE, masking_key |-> NoMask, len |-> n]
  BY <1>4 DEF Unmasked
<1>6. op \in 0 .. 15 /\ Short(n)
  BY <1>1, <1>3
<1>7. write_frame(u) \in WireFrame /\ read_frame_raw(write_frame(u)) = Sent(op, n)
  BY ONLY <1>2, <1>5, <1>6, FrameWritten
<1> QED BY <1>1, <1>3, <1>4, <1>7 DEF OnItsWay

\* A frame added to the stream to the client.
LEMMA DownAppend ==
    ASSUME DownStream, FrameTypes, s2c \in Seq(WireFrame), NEW f \in SentFrames,
           s2c' = Append(s2c, OnItsWay(f)), ssent' = Append(ssent, f),
           cgot' = cgot, lost' = lost, connected' = connected
    PROVE  DownStream' /\ ssent' \in Seq(SentFrames) /\ s2c' \in Seq(WireFrame)
<1>0. /\ ssent \in Seq(SentFrames) /\ Len(ssent) \in Nat /\ Len(s2c) \in Nat /\ Len(cgot) \in Nat
      /\ lost \in Nat
  BY DEF FrameTypes
<1>1. Len(ssent) = lost + Len(cgot) + Len(s2c)
  BY DEF DownStream
<1>2. /\ ssent' \in Seq(SentFrames) /\ Len(ssent') = Len(ssent) + 1
      /\ ssent'[Len(ssent) + 1] = f /\ \A i \in 1 .. Len(ssent) : ssent'[i] = ssent[i]
  BY <1>0, AppendProperties
<1>3. /\ s2c' \in Seq(WireFrame) /\ Len(s2c') = Len(s2c) + 1
      /\ s2c'[Len(s2c) + 1] = OnItsWay(f) /\ \A i \in 1 .. Len(s2c) : s2c'[i] = s2c[i]
  BY OnItsWayRead, AppendProperties
<1>4. Len(ssent') = lost' + Len(cgot') + Len(s2c')
  BY <1>0, <1>1, <1>2, <1>3
<1>5. ASSUME NEW i \in 1 .. Len(cgot') PROVE cgot'[i] = ssent'[lost' + i]
  <2>1. lost + i \in 1 .. Len(ssent)
    BY <1>0, <1>1
  <2> QED BY <2>1, <1>2 DEF DownStream
<1>6. ASSUME NEW i \in 1 .. Len(s2c') PROVE s2c'[i] = OnItsWay(ssent'[lost' + Len(cgot') + i])
  <2>1. CASE i \in 1 .. Len(s2c)
    <3>1. lost + Len(cgot) + i \in 1 .. Len(ssent)
      BY <1>0, <1>1, <2>1
    <3> QED BY <3>1, <2>1, <1>2, <1>3 DEF DownStream
  <2>2. CASE i = Len(s2c) + 1
    <3>1. lost + Len(cgot) + i = Len(ssent) + 1
      BY <1>0, <1>1, <2>2
    <3> QED BY <3>1, <2>2, <1>2, <1>3
  <2>3. i \in 1 .. Len(s2c) \/ i = Len(s2c) + 1
    BY <1>0, <1>3
  <2> QED BY <2>1, <2>2, <2>3
<1>7. ~connected' => lost' = 0 /\ cgot' = <<>>
  BY DEF DownStream
<1>8. DownStream'
  BY <1>4, <1>5, <1>6, <1>7 DEF DownStream
<1> QED BY <1>2, <1>3, <1>8

\* A frame taken off the stream to the client.
LEMMA DownRead ==
    ASSUME DownStream, FrameTypes, s2c \in Seq(WireFrame), s2c # <<>>, connected,
           s2c' = Tail(s2c), cgot' = Append(cgot, read_frame_raw(Head(s2c))),
           ssent' = ssent, lost' = lost, connected' = connected
    PROVE  /\ DownStream' /\ cgot' \in Seq(SentFrames) /\ s2c' \in Seq(WireFrame)
           /\ read_frame_raw(Head(s2c)) \in SentFrames
           /\ cgot' # <<>> /\ cgot'[Len(cgot')] = read_frame_raw(Head(s2c))
<1> DEFINE f == read_frame_raw(Head(s2c))
<1>0. /\ ssent \in Seq(SentFrames) /\ cgot \in Seq(SentFrames) /\ lost \in Nat
      /\ Len(ssent) \in Nat /\ Len(s2c) \in Nat \ {0} /\ Len(cgot) \in Nat
  BY EmptySeq DEF FrameTypes
<1>1. Len(ssent) = lost + Len(cgot) + Len(s2c)
  BY DEF DownStream
<1>2. /\ s2c' \in Seq(WireFrame) /\ Len(s2c') = Len(s2c) - 1 /\ Head(s2c) = s2c[1]
      /\ \A i \in 1 .. Len(s2c') : s2c'[i] = s2c[i + 1]
  BY HeadTailProperties
<1>3. f = ssent[lost + Len(cgot) + 1] /\ f \in SentFrames
  <2>1. lost + Len(cgot) + 1 \in 1 .. Len(ssent) /\ 1 \in 1 .. Len(s2c)
    BY <1>0, <1>1
  <2>2. Head(s2c) = OnItsWay(ssent[lost + Len(cgot) + 1])
    BY <2>1, <1>2 DEF DownStream
  <2>3. ssent[lost + Len(cgot) + 1] \in SentFrames
    BY <1>0, <2>1, ElementOfSeq
  <2> QED BY <2>2, <2>3, OnItsWayRead
<1> HIDE DEF f
<1>4. cgot' = Append(cgot, f)
  BY DEF f
<1>5. /\ cgot' \in Seq(SentFrames) /\ Len(cgot') = Len(cgot) + 1 /\ cgot' # <<>>
      /\ cgot'[Len(cgot) + 1] = f /\ \A i \in 1 .. Len(cgot) : cgot'[i] = cgot[i]
  BY <1>0, <1>3, <1>4, AppendProperties
<1>6. Len(ssent') = lost' + Len(cgot') + Len(s2c')
  BY <1>0, <1>1, <1>2, <1>5
<1>7. ASSUME NEW i \in 1 .. Len(cgot') PROVE cgot'[i] = ssent'[lost' + i]
  <2>1. i \in 1 .. Len(cgot) \/ i = Len(cgot) + 1
    BY <1>0, <1>5
  <2>2. lost + (Len(cgot) + 1) = lost + Len(cgot) + 1
    BY <1>0
  <2> QED BY <1>3, <1>5, <2>1, <2>2 DEF DownStream
<1>8. ASSUME NEW i \in 1 .. Len(s2c') PROVE s2c'[i] = OnItsWay(ssent'[lost' + Len(cgot') + i])
  <2>1. i + 1 \in 1 .. Len(s2c) /\ lost' + Len(cgot') + i = lost + Len(cgot) + (i + 1)
    BY <1>0, <1>2, <1>5
  <2> QED BY <1>2, <2>1 DEF DownStream
<1>9. DownStream'
  BY <1>6, <1>7, <1>8 DEF DownStream
<1> QED BY <1>2, <1>3, <1>5, <1>9 DEF f

\* The frames lost with the buffer of the handshake's answer.
LEMMA DownLose ==
    ASSUME DownStream, FrameTypes, s2c \in Seq(WireFrame), ~connected,
           NEW extra \in 0 .. Len(s2c), NEW part, read_http_headers(extra, part),
           cgot' = cgot, ssent' = ssent, connected' = TRUE
    PROVE  DownStream' /\ s2c' \in Seq(WireFrame) /\ lost' \in Nat /\ lost' <= Len(ssent')
<1>0. /\ ssent \in Seq(SentFrames) /\ lost = 0 /\ cgot = <<>> /\ Len(cgot) = 0
      /\ Len(ssent) \in Nat /\ Len(s2c) \in Nat /\ extra \in Nat /\ lost' = extra
  BY DEF FrameTypes, DownStream, read_http_headers
<1>1. Len(ssent) = Len(s2c) /\ \A i \in 1 .. Len(s2c) : s2c[i] = OnItsWay(ssent[i])
  BY <1>0 DEF DownStream
<1>2. /\ s2c' \in Seq(WireFrame) /\ Len(s2c') = Len(s2c) - extra
      /\ \A i \in 1 .. Len(s2c) - extra : s2c'[i] = s2c[extra + i]
  <2>1. s2c' = SubSeq(s2c, 1 + extra, Len(s2c))
    BY DEF read_http_headers
  <2> QED BY <1>0, <2>1
<1>3. Len(ssent') = lost' + Len(cgot') + Len(s2c')
  BY <1>0, <1>1, <1>2
<1>4. \A i \in 1 .. Len(cgot') : cgot'[i] = ssent'[lost' + i]
  BY <1>0
<1>5. ASSUME NEW i \in 1 .. Len(s2c') PROVE s2c'[i] = OnItsWay(ssent'[lost' + Len(cgot') + i])
  <2>1. extra + i \in 1 .. Len(s2c) /\ lost' + Len(cgot') + i = extra + i
    BY <1>0, <1>2
  <2> QED BY <1>1, <1>2, <2>1
<1>6. DownStream'
  BY <1>3, <1>4, <1>5 DEF DownStream
<1> QED BY <1>0, <1>1, <1>2, <1>6

-----------------------------------------------------------------------------
(* The steps *)

\* IsPrefix, element by element.
LEMMA PrefixOf ==
    ASSUME NEW s \in Seq(SentFrames), NEW t \in Seq(SentFrames), Len(s) <= Len(t),
           \A i \in 1 .. Len(s) : s[i] = t[i]
    PROVE  IsPrefix(s, t)
<1>1. Len(s) \in Nat /\ Len(t) \in Nat
  OBVIOUS
<1> DEFINE u == SubSeq(s, 1, Len(s))
           v == SubSeq(t, 1, Len(s))
<1>2. u \in Seq(SentFrames) /\ Len(u) = Len(s) /\ \A i \in 1 .. Len(s) : u[i] = s[i]
  BY <1>1
<1>3. v \in Seq(SentFrames) /\ Len(v) = Len(s) /\ \A i \in 1 .. Len(s) : v[i] = t[i]
  BY <1>1
<1> HIDE DEF u, v
<1>4. u = v
  BY <1>2, <1>3, SeqEqual
<1> QED BY <1>1, <1>4 DEF IsPrefix, u, v

\* The rest of a sequence, element by element.
LEMMA SuffixOf ==
    ASSUME NEW s \in Seq(SentFrames), NEW k \in Nat, k <= Len(s)
    PROVE  /\ SubSeq(s, k + 1, Len(s)) \in Seq(SentFrames)
           /\ Len(SubSeq(s, k + 1, Len(s))) = Len(s) - k
           /\ \A i \in 1 .. Len(s) - k : SubSeq(s, k + 1, Len(s))[i] = s[k + i]
<1>1. Len(s) \in Nat /\ \A i \in k + 1 .. Len(s) : s[i] \in SentFrames
  OBVIOUS
<1>2. Len(SubSeq(s, k + 1, Len(s))) = Len(s) - k /\ SubSeq(s, k + 1, Len(s)) \in Seq(SentFrames)
  BY <1>1
<1>3. ASSUME NEW i \in 1 .. Len(s) - k PROVE SubSeq(s, k + 1, Len(s))[i] = s[k + i]
  BY <1>1
<1> QED BY <1>2, <1>3

\* The invariant holds when the answer 101 has been written.
LEMMA LinkStart == Init => LinkInv
<1> SUFFICES ASSUME Init PROVE LinkInv
  OBVIOUS
<1>1. /\ <<>> \in Seq(SentFrames) /\ <<>> \in Seq(WireFrame) /\ Len(<<>>) = 0
  BY EmptySeq
<1>2. TypeOK
  <2>1. lost \in 0 .. Len(ssent)
    BY <1>1 DEF Init
  <2> QED BY <1>1, <2>1 DEF Init, TypeOK
<1>5. FrameTypes
  BY <1>1 DEF Init, FrameTypes
<1>3. UpStream /\ InStep
  BY <1>1 DEF Init, UpStream, DownStream, InStep
<1>4. Reasoned
  BY DEF Init, Cause, Reasoned
<1> QED BY <1>2, <1>3, <1>4, <1>5 DEF LinkInv

\* The client sends a frame that the server's reader takes for what it is.
LEMMA ClientSendStep ==
    ASSUME LinkInv, NEW op \in {1, 2, 8}, NEW n, Short(n), op = 8 => n <= 125,
           NEW w \in WireFrame, parse_header(w) = Sent(op, n), ClientSends(op, n, w)
    PROVE  LinkInv'
<1>1. Sent(op, n) \in SentFrames
  BY IsSentFrame
<1>2. UpStream' /\ csent' \in Seq(SentFrames) /\ c2s' \in Seq(WireFrame)
  BY <1>1, UpAppend DEF LinkInv, TypeOK, ClientSends
<1>3. TypeOK' /\ FrameTypes'
  BY <1>2 DEF LinkInv, TypeOK, FrameTypes, ClientSends
<1>4. InStep' /\ Reasoned'
  BY DEF LinkInv, InStep, DownStream, Cause, Reasoned, ClientSends
<1> QED BY <1>2, <1>3, <1>4 DEF LinkInv

\* The client's send_text, send_binary and send_close.
LEMMA ClientStep ==
    ASSUME LinkInv, NEW key \in MaskKeys,
           (\E n \in Lengths : send_text(n, key) \/ send_binary(n, key)) \/ send_close(key)
    PROVE  LinkInv'
<1>0. key \in Key /\ TRUE \in BOOLEAN /\ \A n \in Lengths : Short(n)
  BY LinkAssumption DEF Key, Short
<1>1. CASE send_close(key)
  <2>1. Short(2) /\ 8 \in 0 .. 15
    BY SmallIsShort
  <2>2. Masked(8, 2, key) = [fin |-> TRUE, opcode |-> 8, mask |-> TRUE, masking_key |-> key, len |-> 2]
    BY DEF Masked
  <2>3. /\ write_frame(Masked(8, 2, key)) \in WireFrame
        /\ parse_header(write_frame(Masked(8, 2, key))) = Sent(8, 2)
    BY ONLY <1>0, <2>1, <2>2, FrameWritten
  <2>4. ClientSends(8, 2, write_frame(Masked(8, 2, key)))
    BY <1>1 DEF send_close
  <2>5. 8 \in {1, 2, 8} /\ (8 = 8 => 2 <= 125)
    OBVIOUS
  <2> QED BY <2>1, <2>3, <2>4, <2>5, ClientSendStep
<1>2. ASSUME NEW n \in Lengths, send_text(n, key) PROVE LinkInv'
  <2>1. make_frame_text(n, key) \in WireFrame /\ parse_header(make_frame_text(n, key)) = Sent(1, n)
    BY <1>0, TextWritten
  <2>2. ClientSends(1, n, make_frame_text(n, key))
    BY <1>2 DEF send_text
  <2>3. 1 \in {1, 2, 8} /\ (1 = 8 => n <= 125)
    OBVIOUS
  <2> QED BY <1>0, <2>1, <2>2, <2>3, ClientSendStep
<1>3. ASSUME NEW n \in Lengths, send_binary(n, key) PROVE LinkInv'
  <2>1. Masked(2, n, key) = [fin |-> TRUE, opcode |-> 2, mask |-> TRUE, masking_key |-> key, len |-> n]
    BY DEF Masked
  <2>2. 2 \in 0 .. 15 /\ 2 \in {1, 2, 8} /\ (2 = 8 => n <= 125)
    OBVIOUS
  <2>3. /\ write_frame(Masked(2, n, key)) \in WireFrame
        /\ parse_header(write_frame(Masked(2, n, key))) = Sent(2, n)
    BY ONLY <1>0, <2>1, <2>2, FrameWritten
  <2>4. ClientSends(2, n, write_frame(Masked(2, n, key)))
    BY <1>3 DEF send_binary
  <2> QED BY <1>0, <2>2, <2>3, <2>4, ClientSendStep
<1> QED BY <1>1, <1>2, <1>3

\* What ServerSends does to the stream to the client.
LEMMA ServerSendStep ==
    ASSUME LinkInv, NEW op \in {1, 2, 8}, NEW n, Short(n), op = 8 => n <= 125,
           ServerSends(op, n), UNCHANGED << cgot, lost, connected, cut >>
    PROVE  /\ InStep' /\ ssent' \in Seq(SentFrames) /\ s2c' \in Seq(WireFrame)
           /\ Len(ssent') = Len(ssent) + 1 /\ Len(ssent) \in Nat
<1>1. Sent(op, n) \in SentFrames /\ Sent(op, n).opcode = op /\ Sent(op, n).len = n
  BY IsSentFrame
<1> DEFINE f == Sent(op, n)
<1>2. s2c' = Append(s2c, OnItsWay(f)) /\ ssent' = Append(ssent, f)
  BY <1>1 DEF ServerSends, OnItsWay
<1> HIDE DEF f
<1>3. FrameTypes /\ s2c \in Seq(WireFrame) /\ f \in SentFrames
  BY <1>1 DEF LinkInv, TypeOK, f
<1>4. ssent' \in Seq(SentFrames) /\ s2c' \in Seq(WireFrame)
  BY <1>2, <1>3, OnItsWayRead, AppendProperties DEF FrameTypes
<1>6. InStep'
  <2>1. CASE cut
    BY <2>1 DEF LinkInv, InStep
  <2>2. CASE ~cut
    <3>1. DownStream
      BY <2>2 DEF LinkInv, InStep
    <3>2. DownStream'
      BY <1>2, <1>3, <3>1, DownAppend
    <3> QED BY <2>2, <3>2 DEF InStep
  <2> QED BY <2>1, <2>2
<1>5. Len(ssent') = Len(ssent) + 1 /\ Len(ssent) \in Nat
  BY <1>2, <1>3, AppendProperties DEF FrameTypes
<1> QED BY <1>4, <1>5, <1>6

\* The server's send_text, send_binary and close_async.
LEMMA ServerStep ==
    ASSUME LinkInv, (\E n \in Lengths, op \in {1, 2} : server_send(op, n))
                    \/ (\E r \in Reasons : server_close(r))
    PROVE  LinkInv'
<1>0. LinkInv /\ lost \in 0 .. Len(ssent)
  BY DEF LinkInv, TypeOK
<1>1. ASSUME NEW n \in Lengths, NEW op \in {1, 2}, server_send(op, n) PROVE LinkInv'
  <2>0. Short(n) /\ op \in {1, 2, 8} /\ (op = 8 => n <= 125)
    BY LinkAssumption DEF Short
  <2>1. ServerSends(op, n) /\ UNCHANGED << cgot, lost, connected, cut >>
    BY <1>1 DEF server_send
  <2>2. /\ InStep' /\ ssent' \in Seq(SentFrames) /\ s2c' \in Seq(WireFrame)
        /\ Len(ssent') = Len(ssent) + 1 /\ Len(ssent) \in Nat
    BY <2>0, <2>1, ServerSendStep
  <2>3. lost' \in 0 .. Len(ssent')
    BY <1>0, <2>1, <2>2
  <2>4. TypeOK' /\ FrameTypes'
    BY <1>1, <2>2, <2>3 DEF LinkInv, TypeOK, FrameTypes, server_send
  <2>5. UpStream' /\ Reasoned'
    BY <1>1 DEF LinkInv, UpStream, Cause, Reasoned, server_send
  <2> QED BY <2>2, <2>4, <2>5 DEF LinkInv
<1>2. ASSUME NEW r \in Reasons, server_close(r) PROVE LinkInv'
  <2> DEFINE n == build_close_payload(r)
  <2>0. n \in 0 .. 125
    BY LinkAssumption, ClosePayload
  <2>1. /\ ServerSends(8, n) \/ UNCHANGED << s2c, ssent >>
        /\ srv' = "closed" /\ UNCHANGED << cgot, lost, connected, cut >>
    BY <1>2 DEF server_close, CloseAfter
  <2> HIDE DEF n
  <2>2. Short(n) /\ 8 \in {1, 2, 8} /\ (8 = 8 => n <= 125)
    BY <2>0, SmallIsShort
  <2>3. InStep' /\ ssent' \in Seq(SentFrames) /\ s2c' \in Seq(WireFrame) /\ lost' \in 0 .. Len(ssent')
    <3>1. CASE ServerSends(8, n)
      BY <1>0, <2>1, <2>2, <3>1, ServerSendStep
    <3>2. CASE UNCHANGED << s2c, ssent >>
      BY <1>0, <2>1, <3>2 DEF LinkInv, TypeOK, FrameTypes, InStep, DownStream
    <3> QED BY <2>1, <3>1, <3>2
  <2>5. TypeOK' /\ FrameTypes'
    BY <1>2, <2>1, <2>3 DEF LinkInv, TypeOK, FrameTypes, server_close
  <2>6. UpStream' /\ Reasoned'
    BY <1>2, <2>1 DEF LinkInv, UpStream, Cause, Reasoned, server_close
  <2> QED BY <2>3, <2>5, <2>6 DEF LinkInv
<1> QED BY <1>1, <1>2

\* A turn of do_read_loop, with the Close frame it may answer with.
LEMMA ServerReadStep == ASSUME LinkInv, server_read PROVE LinkInv'
<1> DEFINE f == parse_header(Head(c2s))
<1>0. /\ UpStream /\ FrameTypes /\ c2s \in Seq(WireFrame) /\ c2s # <<>>
      /\ c2s' = Tail(c2s) /\ sgot' = Append(sgot, f) /\ csent' = csent
      /\ lost \in 0 .. Len(ssent) /\ srv = "open"
      /\ UNCHANGED << stopped, connected, lost, cut, csent, cgot, why >>
  BY DEF LinkInv, TypeOK, server_read
<1>1. UpStream' /\ sgot' \in Seq(SentFrames) /\ c2s' \in Seq(WireFrame) /\ f \in SentFrames
  BY <1>0, UpRead
<1>2. Reasoned'
  <2>1. why # "lost"
    BY <1>0 DEF LinkInv, Reasoned
  <2> QED BY <1>0, <2>1 DEF LinkInv, Cause, Reasoned
<1>3. CASE UNCHANGED << s2c, ssent >> /\ srv' \in {"open", "closed"}
  BY <1>0, <1>1, <1>2, <1>3 DEF LinkInv, TypeOK, FrameTypes, InStep, DownStream
<1>4. ASSUME NEW r \in Nat, ServerSends(8, build_close_payload(r)), srv' \in {"open", "closed"}
      PROVE  LinkInv'
  <2> DEFINE n == build_close_payload(r)
  <2>0. n \in 0 .. 125
    BY ClosePayload
  <2>1. ServerSends(8, n)
    BY <1>4
  <2> HIDE DEF n
  <2>2. Short(n) /\ 8 \in {1, 2, 8} /\ (8 = 8 => n <= 125)
    BY <2>0, SmallIsShort
  <2>3. /\ InStep' /\ ssent' \in Seq(SentFrames) /\ s2c' \in Seq(WireFrame)
        /\ Len(ssent') = Len(ssent) + 1 /\ Len(ssent) \in Nat
    BY <1>0, <2>1, <2>2, ServerSendStep
  <2>4. lost' \in 0 .. Len(ssent')
    BY <1>0, <2>3
  <2>5. TypeOK' /\ FrameTypes'
    BY <1>0, <1>1, <1>4, <2>3, <2>4 DEF LinkInv, TypeOK, FrameTypes
  <2> QED BY <1>1, <1>2, <2>3, <2>5 DEF LinkInv
<1>5. f.len \in Nat
  BY <1>1 DEF SentFrames
<1>6. \/ ServerSends(8, build_close_payload(IF f.len >= 2 THEN f.len - 2 ELSE 0)) /\ srv' = "closed"
      \/ ServerSends(8, build_close_payload(TooBigReason)) /\ srv' = srv
      \/ UNCHANGED << s2c, ssent >> /\ srv' \in {srv, "closed"}
  BY DEF server_read, CloseAfter
<1> HIDE DEF f
<1>7. (IF f.len >= 2 THEN f.len - 2 ELSE 0) \in Nat /\ TooBigReason \in Nat
  BY <1>5 DEF TooBigReason
<1> QED BY <1>0, <1>3, <1>4, <1>6, <1>7

\* The client reads the answer to its handshake.
LEMMA ConnectStep == ASSUME LinkInv, connect PROVE LinkInv'
<1>1. PICK extra \in 0 .. Len(s2c), part \in BOOLEAN : read_http_headers(extra, part)
  BY DEF connect
<1>0. DownStream
  BY DEF LinkInv, InStep, connect
<1>2. /\ DownStream /\ FrameTypes /\ s2c \in Seq(WireFrame) /\ ~connected
      /\ cgot' = cgot /\ ssent' = ssent /\ connected' = TRUE /\ cut' \in BOOLEAN
  BY <1>0, <1>1 DEF LinkInv, TypeOK, connect, read_http_headers
<1>3. DownStream' /\ s2c' \in Seq(WireFrame) /\ lost' \in Nat /\ lost' <= Len(ssent')
  BY <1>1, <1>2, DownLose
<1>4. Len(ssent') \in Nat
  BY <1>2 DEF FrameTypes
<1>5. lost' \in 0 .. Len(ssent')
  BY <1>3, <1>4
<1>6. TypeOK' /\ FrameTypes'
  BY <1>2, <1>3, <1>5 DEF LinkInv, TypeOK, FrameTypes, connect
<1>7. UpStream' /\ Reasoned'
  <2>1. ~cut
    BY <1>2 DEF LinkInv, InStep
  <2> QED BY <2>1 DEF LinkInv, UpStream, Cause, Reasoned, connect
<1>8. InStep'
  BY <1>2, <1>3 DEF InStep
<1> QED BY <1>6, <1>7, <1>8 DEF LinkInv

\* A turn of the client's receive_loop.
LEMMA ClientReadStep == ASSUME LinkInv, receive_loop PROVE LinkInv'
<1> DEFINE f == read_frame_raw(Head(s2c))
<1>0. /\ DownStream /\ FrameTypes /\ s2c \in Seq(WireFrame) /\ s2c # <<>> /\ connected
      /\ s2c' = Tail(s2c) /\ cgot' = Append(cgot, f)
      /\ ssent' = ssent /\ lost' = lost /\ connected' = connected /\ ~cut /\ ~cut'
  BY DEF LinkInv, InStep, TypeOK, receive_loop
<1>1. /\ DownStream' /\ cgot' \in Seq(SentFrames) /\ s2c' \in Seq(WireFrame)
      /\ f \in SentFrames /\ cgot' # <<>> /\ cgot'[Len(cgot')] = f
  BY <1>0, DownRead
<1>2. \/ Refused(f) /\ Stop("refused")
      \/ ~Refused(f) /\ f.opcode = 8 /\ Stop("close")
      \/ UNCHANGED << stopped, why >>
  BY DEF receive_loop, Receive
<1>3. Refused(f) => f.len > MAX_FRAME_PAYLOAD
  BY <1>1 DEF Refused, KnownOpcode, SentFrames
<1>4. stopped = FALSE /\ why = "none"
  BY DEF LinkInv, TypeOK, Reasoned, receive_loop
<1> HIDE DEF f
<1>5. Reasoned' /\ stopped' \in BOOLEAN /\ why' \in {"none", "close", "refused", "lost"}
  <2>1. CASE Refused(f) /\ Stop("refused")
    BY <1>1, <1>3, <2>1 DEF Cause, Reasoned, Stop
  <2>2. CASE f.opcode = 8 /\ Stop("close")
    BY <1>1, <2>2 DEF Cause, Reasoned, Stop
  <2>3. CASE UNCHANGED << stopped, why >>
    BY <1>4, <2>3 DEF Cause, Reasoned
  <2> QED BY <1>2, <2>1, <2>2, <2>3
<1>6. TypeOK' /\ FrameTypes'
  BY <1>1, <1>5 DEF LinkInv, TypeOK, FrameTypes, receive_loop
<1>7. UpStream'
  BY DEF LinkInv, UpStream, receive_loop
<1>8. InStep'
  BY <1>0, <1>1 DEF InStep
<1> QED BY <1>5, <1>6, <1>7, <1>8 DEF LinkInv

\* A turn of receive_loop out of step.
LEMMA DebrisStep == ASSUME LinkInv, receive_debris PROVE LinkInv'
<1>1. PICK used \in 0 .. Len(s2c) : s2c' = SubSeq(s2c, 1 + used, Len(s2c))
  BY DEF receive_debris
<1>2. /\ s2c \in Seq(WireFrame) /\ cut /\ connected /\ ~stopped /\ why = "none"
      /\ UNCHANGED << c2s, srv, connected, lost, cut, csent, ssent, sgot, cgot >>
  BY DEF LinkInv, TypeOK, Reasoned, receive_debris
<1>3. s2c' \in Seq(WireFrame)
  BY <1>1, <1>2
<1>4. Stop("refused") \/ Stop("close") \/ UNCHANGED << stopped, why >>
  BY DEF receive_debris, Receive
<1>5. /\ Reasoned' /\ stopped' \in BOOLEAN /\ why' \in {"none", "close", "refused", "lost"}
  BY <1>2, <1>4 DEF LinkInv, TypeOK, Reasoned, Stop
<1>6. TypeOK' /\ FrameTypes' /\ UpStream' /\ InStep'
  BY <1>2, <1>3, <1>5 DEF LinkInv, TypeOK, FrameTypes, UpStream, InStep
<1> QED BY <1>5, <1>6 DEF LinkInv

\* Every step keeps the invariant.
LEMMA LinkNext == LinkInv /\ [Next]_vars => LinkInv'
<1> SUFFICES ASSUME LinkInv, [Next]_vars PROVE LinkInv'
  OBVIOUS
<1>1. CASE connect
  BY <1>1, ConnectStep
<1>2. CASE server_read
  BY <1>2, ServerReadStep
<1>3. CASE receive_loop
  BY <1>3, ClientReadStep
<1>4. CASE read_fails
  BY <1>4 DEF LinkInv, TypeOK, FrameTypes, UpStream, InStep, DownStream, Cause, Reasoned,
              read_fails, Stop
<1>5. CASE \E n \in Lengths, key \in MaskKeys : send_text(n, key) \/ send_binary(n, key)
  BY <1>5, ClientStep
<1>6. CASE \E key \in MaskKeys : send_close(key)
  BY <1>6, ClientStep
<1>7. CASE \E n \in Lengths, op \in {1, 2} : server_send(op, n)
  BY <1>7, ServerStep
<1>8. CASE \E r \in Reasons : server_close(r)
  BY <1>8, ServerStep
<1>9. CASE UNCHANGED vars
  BY <1>9 DEF LinkInv, TypeOK, FrameTypes, UpStream, InStep, DownStream, Cause, Reasoned, vars
<1>10. CASE receive_debris
  BY <1>10, DebrisStep
<1> QED BY <1>10, <1>1, <1>2, <1>3, <1>4, <1>5, <1>6, <1>7, <1>8, <1>9 DEF Next

-----------------------------------------------------------------------------
(* The theorems *)

\* LinkInv holds in every state of the two ends of a connection: every frame is
\* read or lost with the handshake's answer, or is on its stream, in the order it
\* was sent, unless the handshake cut a frame of the server in two.
THEOREM LinkInvariance == Spec => []LinkInv
  BY LinkStart, LinkNext, PTL DEF Spec

\* Type correctness: whatever lengths are sent, write_frame and make_frame_text
\* put bytes on the streams and nothing else.
THEOREM LinkTypeCorrect == Spec => []TypeOK
<1>1. LinkInv => TypeOK
  BY DEF LinkInv
<1> QED BY <1>1, LinkInvariance, PTL

\* What parse_header of do_read_loop yields is a prefix of what the client sent,
\* for every length below 2^31, every masking key and every number of frames.
THEOREM ServerReadsClient == Spec => []ServerReads
<1>1. LinkInv => ServerReads
  <2> SUFFICES ASSUME LinkInv PROVE ServerReads
    OBVIOUS
  <2>1. /\ sgot \in Seq(SentFrames) /\ csent \in Seq(SentFrames)
        /\ Len(sgot) \in Nat /\ Len(csent) \in Nat /\ Len(c2s) \in Nat
    BY DEF LinkInv, FrameTypes, TypeOK
  <2>2. Len(csent) = Len(sgot) + Len(c2s) /\ \A i \in 1 .. Len(sgot) : sgot[i] = csent[i]
    BY DEF LinkInv, UpStream
  <2>3. Len(sgot) <= Len(csent)
    BY <2>1, <2>2
  <2> QED BY <2>1, <2>2, <2>3, PrefixOf DEF ServerReads
<1> QED BY <1>1, LinkInvariance, PTL

\* The client's read_frame stays in step with write_frame of the server when it
\* started on the boundary of a frame: the frames it misses are the ones read_http_headers threw away, and the stream
\* holds exactly the encodings of the frames it has not read yet.
THEOREM ClientStaysInStep == Spec => []ClientInStep
<1>1. LinkInv => ClientInStep
  <2> SUFFICES ASSUME LinkInv, ~cut PROVE ClientInStep
    BY DEF ClientInStep
  <2>1. /\ ssent \in Seq(SentFrames) /\ cgot \in Seq(SentFrames) /\ s2c \in Seq(WireFrame)
        /\ Len(ssent) \in Nat /\ Len(cgot) \in Nat /\ Len(s2c) \in Nat /\ lost \in Nat
    BY DEF LinkInv, FrameTypes, TypeOK
  <2>2. /\ Len(ssent) = lost + Len(cgot) + Len(s2c)
        /\ \A i \in 1 .. Len(cgot) : cgot[i] = ssent[lost + i]
        /\ \A i \in 1 .. Len(s2c) : s2c[i] = OnItsWay(ssent[lost + Len(cgot) + i])
    BY DEF LinkInv, InStep, DownStream
  <2>3. IsPrefix(cgot, SubSeq(ssent, lost + 1, Len(ssent)))
    <3> DEFINE t == SubSeq(ssent, lost + 1, Len(ssent))
    <3>1. /\ t \in Seq(SentFrames) /\ Len(t) = Len(ssent) - lost
          /\ \A i \in 1 .. Len(ssent) - lost : t[i] = ssent[lost + i]
      <4>1. lost <= Len(ssent)
        BY <2>1, <2>2
      <4> QED BY <2>1, <4>1, SuffixOf
    <3> HIDE DEF t
    <3>2. Len(cgot) <= Len(t) /\ \A i \in 1 .. Len(cgot) : cgot[i] = t[i]
      BY <2>1, <2>2, <3>1
    <3>3. IsPrefix(cgot, t)
      BY <2>1, <3>1, <3>2, PrefixOf
    <3> QED BY <3>3 DEF t
  <2>4. s2c = [i \in 1 .. Len(Pending) |-> write_frame(Unmasked(Pending[i].opcode, Pending[i].len))]
    <3>1. /\ Len(Pending) = Len(s2c)
          /\ \A i \in 1 .. Len(s2c) : Pending[i] = ssent[lost + Len(cgot) + i]
      BY <2>1, <2>2 DEF Pending
    <3>2. s2c = [i \in 1 .. Len(s2c) |-> s2c[i]]
      BY <2>1, LenProperties
    <3>3. \A i \in 1 .. Len(s2c) : s2c[i] = write_frame(Unmasked(Pending[i].opcode, Pending[i].len))
      BY <2>2, <3>1 DEF OnItsWay
    <3> QED BY <3>1, <3>2, <3>3, Zenon
  <2> QED BY <2>3, <2>4 DEF ClientInStep
<1> QED BY <1>1, LinkInvariance, PTL

\* When read_http_headers stopped on the boundary of a frame, receive_loop ends on
\* a Close frame, on a frame over MAX_FRAME_PAYLOAD or on a closed socket; a frame
\* that read_frame garbled would end it for no cause.
THEOREM StopsForCause == Spec => []ClientStopsForCause
<1>1. LinkInv => ClientStopsForCause
  <2> SUFFICES ASSUME LinkInv PROVE ClientStopsForCause
    OBVIOUS
  <2>0. why = "lost" => srv = "closed"
    BY DEF LinkInv, Reasoned
  <2>1. ~cut /\ cgot # <<>> => cgot[Len(cgot)] = ssent[lost + Len(cgot)]
    <3> SUFFICES ASSUME ~cut, cgot # <<>> PROVE cgot[Len(cgot)] = ssent[lost + Len(cgot)]
      OBVIOUS
    <3>1. Len(cgot) \in 1 .. Len(cgot)
      BY EmptySeq DEF LinkInv, FrameTypes
    <3> QED BY <3>1 DEF LinkInv, InStep, DownStream
  <2>2. ~cut /\ why \in {"close", "refused"} => cgot # <<>>
    BY DEF LinkInv, Cause, Reasoned
  <2>3. /\ ~cut /\ why = "close" => cgot[Len(cgot)].opcode = 8
        /\ ~cut /\ why = "refused" => cgot[Len(cgot)].len > MAX_FRAME_PAYLOAD
    BY DEF LinkInv, Cause, Reasoned
  <2> QED BY <2>0, <2>1, <2>2, <2>3 DEF ClientStopsForCause
<1> QED BY <1>1, LinkInvariance, PTL

\* No Close frame of the server carries more than 125 bytes, however long the
\* reason given to close_async or found in the client's Close frame.
THEOREM CloseAlwaysFits == Spec => []CloseFits
<1>1. LinkInv => CloseFits
  <2> SUFFICES ASSUME LinkInv, NEW i \in 1 .. Len(ssent), ssent[i].opcode = 8
               PROVE  ssent[i].len <= 125
    BY DEF CloseFits
  <2>1. ssent[i] \in SentFrames
    BY ElementOfSeq DEF LinkInv, FrameTypes
  <2> QED BY <2>1 DEF SentFrames
<1> QED BY <1>1, LinkInvariance, PTL
=============================================================================
