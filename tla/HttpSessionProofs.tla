------------------------- MODULE HttpSessionProofs -------------------------
(***************************************************************************)
(* The types, the order of the answers and their framing, for every set of *)
(* requests and of file sizes and every number of requests.                *)
(*                                                                         *)
(* Answers come in order because headers do: those on their way, those in  *)
(* the buffer and the current request are numbered upwards (InOrder).  An  *)
(* answer is as long as announced because what it lacks while it is being  *)
(* written is what is left to send, and the next one begins only when      *)
(* nothing is left or the session has given up on the file (Measured).     *)
(***************************************************************************)
EXTENDS HttpSession, SequenceTheorems, FiniteSetTheorems, WellFoundedInduction, TLAPS

-----------------------------------------------------------------------------
(* Cells and sequences of them *)

Cells == [id : Nat, part : {"line", "fields", "body", "head"}, n : Nat]

\* The first of some positions.
LEMMA LeastExists ==
    ASSUME NEW T, T \subseteq Nat, T # {}
    PROVE  \E x \in T : \A y \in T : x <= y
<1> DEFINE R == {ss \in Nat \X Nat : ss[1] < ss[2]}
<1>1. R = OpToRel(<, Nat)
  BY DEF OpToRel
<1>2. IsWellFoundedOn(R, Nat)
  BY <1>1, NatLessThanWellFounded
<1> HIDE DEF R
<1>3. PICK x \in T : \A y \in T : ~(<< y, x >> \in R)
  BY <1>2, WFMin
<1>4. ASSUME NEW y \in T PROVE x <= y
  <2>1. ~(<< y, x >> \in R) /\ x \in Nat /\ y \in Nat
    BY <1>3
  <2> QED BY <2>1 DEF R
<1> QED BY <1>4

\* A sequence cut in two.
LEMMA Cut ==
    ASSUME NEW s \in Seq(Cells), NEW k \in 0 .. Len(s)
    PROVE  /\ SubSeq(s, 1, k) \in Seq(Cells) /\ Len(SubSeq(s, 1, k)) = k
           /\ \A i \in 1 .. k : SubSeq(s, 1, k)[i] = s[i]
           /\ SubSeq(s, k + 1, Len(s)) \in Seq(Cells) /\ Len(SubSeq(s, k + 1, Len(s))) = Len(s) - k
           /\ \A i \in 1 .. Len(s) - k : SubSeq(s, k + 1, Len(s))[i] = s[k + i]
<1>1. Len(s) \in Nat /\ \A i \in 1 .. Len(s) : s[i] \in Cells
  OBVIOUS
<1>2. SubSeq(s, 1, k) \in Seq(Cells) /\ Len(SubSeq(s, 1, k)) = k
  BY <1>1
<1>3. ASSUME NEW i \in 1 .. k PROVE SubSeq(s, 1, k)[i] = s[i]
  BY <1>1
<1>4. SubSeq(s, k + 1, Len(s)) \in Seq(Cells) /\ Len(SubSeq(s, k + 1, Len(s))) = Len(s) - k
  BY <1>1
<1>5. ASSUME NEW i \in 1 .. Len(s) - k PROVE SubSeq(s, k + 1, Len(s))[i] = s[k + i]
  BY <1>1
<1> QED BY <1>2, <1>3, <1>4, <1>5

\* Two sequences put together.
LEMMA Glue ==
    ASSUME NEW s \in Seq(Cells), NEW t \in Seq(Cells)
    PROVE  /\ s \o t \in Seq(Cells) /\ Len(s \o t) = Len(s) + Len(t)
           /\ Len(s) \in Nat /\ Len(t) \in Nat
           /\ \A i \in 1 .. Len(s) : (s \o t)[i] = s[i]
           /\ \A i \in 1 .. Len(t) : (s \o t)[Len(s) + i] = t[i]
           /\ \A i \in 1 .. Len(s) + Len(t) :
                 i \in 1 .. Len(s) \/ (i - Len(s) \in 1 .. Len(t) /\ (s \o t)[i] = t[i - Len(s)])
  OBVIOUS

\* The bytes of a body.
LEMMA BytesOf ==
    ASSUME NEW id \in Nat, NEW a \in Nat, NEW b \in Nat, a <= b
    PROVE  /\ Bytes(id, a, b) \in Seq(Cells) /\ Len(Bytes(id, a, b)) = b - a
           /\ \A i \in 1 .. b - a : Bytes(id, a, b)[i] = Cell(id, "body", a + i)
           /\ \A i \in 1 .. b - a : Bytes(id, a, b)[i].part = "body"
<1>1. \A i \in 1 .. b - a : Cell(id, "body", a + i) \in Cells
  BY DEF Cell, Cells
<1>2. b - a \in Nat
  OBVIOUS
<1>3. Bytes(id, a, b) \in Seq(Cells) /\ Len(Bytes(id, a, b)) = b - a
  BY <1>1, <1>2 DEF Bytes
<1>4. \A i \in 1 .. b - a : Bytes(id, a, b)[i] = Cell(id, "body", a + i)
  BY DEF Bytes
<1>5. \A i \in 1 .. b - a : Cell(id, "body", a + i).part = "body"
  BY DEF Cell
<1> QED BY <1>3, <1>4, <1>5

\* A request on the wire.
LEMMA WireOf ==
    ASSUME NEW id \in Nat, NEW q \in Requests
    PROVE  /\ Wire(id, q) \in Seq(Cells) /\ Len(Wire(id, q)) = 2 + q.body /\ q.body \in Nat
           /\ Wire(id, q)[1] = Cell(id, "line", 0) /\ Wire(id, q)[2] = Cell(id, "fields", 0)
           /\ \A i \in 1 .. q.body : Wire(id, q)[2 + i] = Cell(id, "body", i)
           /\ \A i \in 1 .. 2 + q.body : Wire(id, q)[i].part = "fields" => i = 2
<1> DEFINE two == << Cell(id, "line", 0), Cell(id, "fields", 0) >>
           rest == Bytes(id, 0, q.body)
<1>1. q.body \in Nat
  BY HttpAssumption DEF Request
<1>2. two \in Seq(Cells) /\ Len(two) = 2 /\ two[1] = Cell(id, "line", 0) /\ two[2] = Cell(id, "fields", 0)
  <2>1. Cell(id, "line", 0) \in Cells /\ Cell(id, "fields", 0) \in Cells
    BY DEF Cell, Cells
  <2> QED BY <2>1
<1>3. /\ rest \in Seq(Cells) /\ Len(rest) = q.body
      /\ \A i \in 1 .. q.body : rest[i] = Cell(id, "body", i)
  <2>1. 0 <= q.body /\ q.body - 0 = q.body /\ \A i \in 1 .. q.body : 0 + i = i
    BY <1>1
  <2>2. /\ rest \in Seq(Cells) /\ Len(rest) = q.body - 0
        /\ \A i \in 1 .. q.body - 0 : rest[i] = Cell(id, "body", 0 + i)
    BY <1>1, <2>1, BytesOf
  <2> HIDE DEF rest
  <2> QED BY <2>1, <2>2
<1>4. Wire(id, q) = two \o rest
  BY DEF Wire
<1> HIDE DEF two, rest
<1>5. /\ two \o rest \in Seq(Cells) /\ Len(two \o rest) = 2 + q.body
      /\ \A i \in 1 .. 2 : (two \o rest)[i] = two[i]
      /\ \A i \in 1 .. q.body : (two \o rest)[2 + i] = rest[i]
  <2>1. /\ two \o rest \in Seq(Cells) /\ Len(two \o rest) = Len(two) + Len(rest)
        /\ \A i \in 1 .. Len(two) : (two \o rest)[i] = two[i]
        /\ \A i \in 1 .. Len(rest) : (two \o rest)[Len(two) + i] = rest[i]
    <3>1. two \in Seq(Cells) /\ rest \in Seq(Cells)
      BY <1>2, <1>3
    <3> QED BY ONLY <3>1, Glue
  <2>2. Len(two) = 2 /\ Len(rest) = q.body
    BY <1>2, <1>3
  <2> QED BY ONLY <2>1, <2>2
<1>6. ASSUME NEW i \in 1 .. 2 + q.body, Wire(id, q)[i].part = "fields" PROVE i = 2
  <2>1. CASE i = 1
    BY <1>2, <1>4, <1>5, <1>6, <2>1 DEF Cell
  <2>2. CASE i > 2
    <3>1. i - 2 \in 1 .. q.body /\ i = 2 + (i - 2)
      BY <1>1, <2>2
    <3>2. Wire(id, q)[i] = Cell(id, "body", i - 2)
      BY <1>3, <1>4, <1>5, <3>1
    <3> QED BY <1>6, <3>2 DEF Cell
  <2> QED BY <1>1, <2>1, <2>2
<1> QED BY <1>1, <1>2, <1>3, <1>4, <1>5, <1>6

-----------------------------------------------------------------------------
(* Types *)

Afters == {"headers", "ws", "ended"}
Sending == {"sendfile_open", "sendfile", "stream"}

Kinds ==
    /\ up \in Seq(Cells) /\ buf \in Seq(Cells) /\ body \in Seq(Cells) /\ down \in Seq(Cells)
    /\ cur \in [id : Nat, path : BOOLEAN, whole : BOOLEAN]
    /\ resp \in [len : Nat, file : BOOLEAN, after : Afters]
    /\ pc \notin {"headers", "ended"} => cur.id > 0
    /\ pc \in {"sendfile", "stream"} => disk # Absent
    /\ pc \in Sending => left <= resp.len

\* A header that has not been read belongs to a request that was sent.
HeadersSent ==
    /\ \A i \in 1 .. Len(up) : up[i].part = "fields" => up[i].id \in 1 .. Len(sent)
    /\ \A i \in 1 .. Len(buf) : buf[i].part = "fields" => buf[i].id \in 1 .. Len(sent)

TInv == TypeOK /\ Kinds /\ HeadersSent

\* The answer to the current request has not been begun.
Unanswered == {"body", "handle", "write", "stream_open"}

\* Headers come in the order of the requests, all of them after the current
\* one, and the heads of the answers before it.
InOrder ==
    /\ \A i \in 1 .. Len(up) : up[i].part = "fields" => up[i].id > cur.id
    /\ \A i \in 1 .. Len(buf) : buf[i].part = "fields" => buf[i].id > cur.id
    /\ \A i \in 1 .. Len(buf), j \in 1 .. Len(up) :
          buf[i].part = "fields" /\ up[j].part = "fields" => buf[i].id < up[j].id
    /\ \A i, j \in 1 .. Len(up) :
          i < j /\ up[i].part = "fields" /\ up[j].part = "fields" => up[i].id < up[j].id
    /\ \A i \in Heads : /\ down[i].id # 0 /\ down[i].id <= cur.id
                        /\ pc \in Unanswered => down[i].id < cur.id
    /\ AnswersInOrder

-----------------------------------------------------------------------------
(* Framing *)

\* The answer that begins at i: over a plain connection, its file was not
\* given up.  It ends before any later head; a head follows it; it is the last
\* one; it is k bytes short.
Good(i) == tls \/ down[i].id \notin abandoned
Spaced(i) == \A j \in Heads : i < j => i + down[i].n < j
Followed(i) == i + down[i].n + 1 \in Heads
Last(i) == \A j \in Heads : j <= i
Lacks(i, k) == i + down[i].n = Len(down) + k

\* An answer that is being written lacks as many bytes as are left, and an
\* earlier one none.
Measured ==
    /\ pc \in {"sendfile_open", "sendfile"} => ~tls
    /\ pc \in Sending => \E h \in Heads : down[h].id = cur.id
    /\ open => \A i \in Heads : Good(i) =>
          /\ Spaced(i)
          /\ \/ Followed(i)
             \/ /\ Last(i)
                /\ pc \in Sending => Lacks(i, left)
                /\ pc \notin Sending \cup {"ended"} => Lacks(i, 0)

-----------------------------------------------------------------------------
(* Cells added to the answers *)

HeadsOf(d) == {i \in 1 .. Len(d) : d[i].part = "head"}

\* A head written after the cells d is one more head.
LEMMA HeadAdded ==
    ASSUME NEW d \in Seq(Cells), NEW c \in Cells, c.part = "head"
    PROVE  /\ d \o << c >> \in Seq(Cells) /\ Len(d) \in Nat /\ Len(d \o << c >>) = Len(d) + 1
           /\ HeadsOf(d \o << c >>) = HeadsOf(d) \cup {Len(d) + 1}
           /\ \A i \in 1 .. Len(d) : (d \o << c >>)[i] = d[i]
           /\ (d \o << c >>)[Len(d) + 1] = c
<1> DEFINE e == d \o << c >>
<1>3. /\ << c >> \in Seq(Cells) /\ Len(<< c >>) = 1 /\ << c >>[1] = c
  OBVIOUS
<1>4. /\ e \in Seq(Cells) /\ Len(e) = Len(d) + 1 /\ Len(d) \in Nat
      /\ \A i \in 1 .. Len(d) : e[i] = d[i]
      /\ e[Len(d) + 1] = c
  BY <1>3, Glue
<1> HIDE DEF e
<1>5. HeadsOf(e) = HeadsOf(d) \cup {Len(d) + 1}
  <2>1. 1 .. Len(e) = (1 .. Len(d)) \cup {Len(d) + 1}
    BY <1>4
  <2> QED BY <1>4, <2>1 DEF HeadsOf
<1> QED BY <1>4, <1>5 DEF e

\* Bytes written after the cells d are no heads.
LEMMA BytesAdded ==
    ASSUME NEW d \in Seq(Cells), NEW s \in Seq(Cells), \A i \in 1 .. Len(s) : s[i].part = "body"
    PROVE  /\ d \o s \in Seq(Cells) /\ Len(d) \in Nat /\ Len(d \o s) = Len(d) + Len(s)
           /\ HeadsOf(d \o s) = HeadsOf(d)
           /\ \A i \in 1 .. Len(d) : (d \o s)[i] = d[i]
<1> DEFINE e == d \o s
<1>3. /\ e \in Seq(Cells) /\ Len(e) = Len(d) + Len(s) /\ Len(d) \in Nat /\ Len(s) \in Nat
      /\ \A i \in 1 .. Len(d) : e[i] = d[i]
      /\ \A i \in 1 .. Len(d) + Len(s) :
            i \in 1 .. Len(d) \/ (i - Len(d) \in 1 .. Len(s) /\ e[i] = s[i - Len(d)])
  BY Glue
<1> HIDE DEF e
<1>5. ASSUME NEW i \in 1 .. Len(e), e[i].part = "head" PROVE i \in 1 .. Len(d)
  BY <1>3, <1>5
<1>6. 1 .. Len(d) \subseteq 1 .. Len(e)
  BY <1>3
<1>7. HeadsOf(e) = HeadsOf(d)
  BY <1>3, <1>5, <1>6 DEF HeadsOf
<1> QED BY <1>3, <1>7 DEF e

-----------------------------------------------------------------------------
(* What keeps InOrder and Measured *)

\* The order of headers and heads does not depend on anything else.
LEMMA OrderKept ==
    ASSUME InOrder, UNCHANGED << up, buf, cur, down >>, pc' \in Unanswered => pc \in Unanswered
    PROVE  InOrder'
  BY DEF InOrder, AnswersInOrder, Heads

\* The head of the answer to the current request.
LEMMA OrderHead ==
    ASSUME TInv, InOrder, UNCHANGED << up, buf, cur >>, pc \in {"write", "stream_open"},
           pc' \notin Unanswered, Len(down) \in Nat,
           Heads' = Heads \cup {Len(down) + 1},
           \A i \in 1 .. Len(down) : down'[i] = down[i],
           down'[Len(down) + 1].id = cur.id
    PROVE  InOrder'
<1>1. cur.id \in Nat /\ cur.id # 0
  BY DEF TInv, Kinds
<1>2. \A i \in Heads : /\ i \in 1 .. Len(down) /\ down[i].id < cur.id
                     /\ down[i].id \in Nat /\ down[i].id # 0
  <2>1. down \in Seq(Cells) /\ Heads \subseteq 1 .. Len(down)
    BY DEF TInv, Kinds, Heads
  <2>2. \A i \in Heads : down[i] \in Cells
    BY <2>1, ElementOfSeq
  <2>3. \A i \in Heads : down[i].id \in Nat
    BY <2>2 DEF Cells
  <2>4. \A i \in Heads : down[i].id < cur.id /\ down[i].id # 0
    BY DEF InOrder, Unanswered
  <2> QED BY <2>1, <2>3, <2>4
<1>3. \A i, j \in Heads : i < j => down[i].id < down[j].id
  BY DEF InOrder, AnswersInOrder
<1>4. AnswersInOrder'
  <2> SUFFICES ASSUME NEW i \in Heads', NEW j \in Heads', i < j PROVE down'[i].id < down'[j].id
    BY DEF AnswersInOrder
  <2>1. CASE i \in Heads /\ j \in Heads
    BY <1>2, <1>3, <2>1
  <2>2. CASE j = Len(down) + 1
    BY <1>2, <2>2
  <2>3. CASE i = Len(down) + 1
    BY <1>2, <2>3
  <2> QED BY <2>1, <2>2, <2>3
<1>5. \A i \in Heads' : /\ down'[i].id # 0 /\ down'[i].id <= cur'.id
                        /\ pc' \in Unanswered => down'[i].id < cur'.id
  BY <1>1, <1>2
<1> QED BY <1>4, <1>5 DEF InOrder

\* Bytes of a body do not disturb it either.
LEMMA OrderBytes ==
    ASSUME InOrder, UNCHANGED << up, buf, cur >>, pc' \in Unanswered => pc \in Unanswered,
           Heads' = Heads, \A i \in 1 .. Len(down) : down'[i] = down[i]
    PROVE  InOrder'
<1>1. \A i \in Heads : i \in 1 .. Len(down)
  BY DEF Heads
<1> QED BY <1>1 DEF InOrder, AnswersInOrder

\* Some of what is on its way leaves the network.
LEMMA OrderCut ==
    ASSUME TInv, InOrder, NEW k \in 1 .. Len(up), up' = SubSeq(up, k + 1, Len(up))
    PROVE  /\ up' \in Seq(Cells) /\ Len(up') = Len(up) - k /\ Len(up) \in Nat
           /\ SubSeq(up, 1, k) \in Seq(Cells) /\ Len(SubSeq(up, 1, k)) = k
           /\ \A i \in 1 .. k : SubSeq(up, 1, k)[i] = up[i]
           /\ \A i \in 1 .. Len(up') : up'[i] = up[k + i] /\ k + i \in 1 .. Len(up)
<1>1. up \in Seq(Cells) /\ Len(up) \in Nat /\ k \in 0 .. Len(up)
  BY DEF TInv, Kinds
<1>2. /\ SubSeq(up, 1, k) \in Seq(Cells) /\ Len(SubSeq(up, 1, k)) = k
      /\ \A i \in 1 .. k : SubSeq(up, 1, k)[i] = up[i]
  BY <1>1, Cut
<1>3. /\ up' \in Seq(Cells) /\ Len(up') = Len(up) - k
      /\ \A i \in 1 .. Len(up) - k : up'[i] = up[k + i]
  BY <1>1, Cut
<1>4. \A i \in 1 .. Len(up) - k : k + i \in 1 .. Len(up)
  BY <1>1
<1> QED BY <1>1, <1>2, <1>3, <1>4

\* Nor does the framing depend on what is being read.
LEMMA MeasuredKept ==
    ASSUME Measured, UNCHANGED << tls, open, down, left, abandoned >>,
           \/ pc' = pc /\ (pc \in Sending => cur' = cur)
           \/ pc \notin Sending /\ pc # "ended" /\ pc' \notin Sending
           \/ pc' = "ended"
    PROVE  Measured'
<1>1. Heads' = Heads
  BY DEF Heads
<1>2. \A i \in Heads : /\ Good(i)' = Good(i) /\ Spaced(i)' = Spaced(i) /\ Followed(i)' = Followed(i)
                      /\ Last(i)' = Last(i) /\ Lacks(i, left)' = Lacks(i, left)
                      /\ Lacks(i, 0)' = Lacks(i, 0)
  BY <1>1 DEF Good, Spaced, Followed, Last, Lacks
<1>3. CASE pc' = pc /\ (pc \in Sending => cur' = cur)
  BY <1>1, <1>2, <1>3 DEF Measured
<1>4. CASE pc \notin Sending /\ pc # "ended" /\ pc' \notin Sending
  BY <1>1, <1>2, <1>4 DEF Measured, Sending
<1>5. CASE pc' = "ended"
  BY <1>1, <1>2, <1>5 DEF Measured, Sending
<1> QED BY <1>3, <1>4, <1>5

-----------------------------------------------------------------------------
(* The steps of the session *)

Basic == TInv /\ InOrder /\ Measured

\* async_read_until moves cells from the network to the buffer.
LEMMA ReadSomeStep == ASSUME Basic, ReadSome PROVE Basic'
<1>1. PICK k \in 1 .. Len(up) : buf' = buf \o SubSeq(up, 1, k) /\ up' = SubSeq(up, k + 1, Len(up))
  BY DEF ReadSome
<1>2. TInv /\ InOrder /\ buf \in Seq(Cells)
  BY DEF Basic, TInv, Kinds
<1>3. /\ up' \in Seq(Cells) /\ Len(up') = Len(up) - k /\ Len(up) \in Nat
      /\ SubSeq(up, 1, k) \in Seq(Cells) /\ Len(SubSeq(up, 1, k)) = k
      /\ \A i \in 1 .. k : SubSeq(up, 1, k)[i] = up[i]
      /\ \A i \in 1 .. Len(up') : up'[i] = up[k + i] /\ k + i \in 1 .. Len(up)
  BY <1>1, <1>2, OrderCut
<1>4. /\ buf' \in Seq(Cells) /\ Len(buf') = Len(buf) + k /\ Len(buf) \in Nat
      /\ \A i \in 1 .. Len(buf') : \/ i \in 1 .. Len(buf) /\ buf'[i] = buf[i]
                                   \/ i - Len(buf) \in 1 .. k /\ buf'[i] = up[i - Len(buf)]
  <2> DEFINE s == SubSeq(up, 1, k)
  <2>1. /\ buf \o s \in Seq(Cells) /\ Len(buf \o s) = Len(buf) + Len(s) /\ Len(buf) \in Nat
        /\ \A i \in 1 .. Len(buf) : (buf \o s)[i] = buf[i]
        /\ \A i \in 1 .. Len(buf) + Len(s) :
              i \in 1 .. Len(buf) \/ (i - Len(buf) \in 1 .. Len(s) /\ (buf \o s)[i] = s[i - Len(buf)])
    BY <1>2, <1>3, Glue
  <2>2. Len(s) = k /\ \A i \in 1 .. k : s[i] = up[i]
    BY <1>3
  <2>3. buf' = buf \o s
    BY <1>1
  <2> HIDE DEF s
  <2> QED BY <2>1, <2>2, <2>3
<1>5. \A i \in 1 .. k : i \in 1 .. Len(up) /\ \A j \in 1 .. Len(up') : i < k + j
  BY <1>3
<1>6. TInv'
  <2>1. HeadersSent'
    <3>1. HeadersSent /\ sent' = sent
      BY DEF Basic, TInv, ReadSome
    <3> QED BY <1>3, <1>4, <1>5, <3>1 DEF HeadersSent
  <2>2. Kinds'
    BY <1>3, <1>4 DEF Basic, TInv, Kinds, ReadSome
  <2>3. TypeOK'
    BY DEF Basic, TInv, TypeOK, ReadSome, fileVars, clientVars, content_length
  <2> QED BY <2>1, <2>2, <2>3 DEF TInv
<1>7. InOrder'
  <2>0. UNCHANGED << cur, pc, down >>
    BY DEF ReadSome
  <2>1. \A i \in 1 .. Len(up') : up'[i].part = "fields" => up'[i].id > cur'.id
    BY <1>2, <1>3, <2>0 DEF InOrder
  <2>2. \A i \in 1 .. Len(buf') : buf'[i].part = "fields" => buf'[i].id > cur'.id
    BY <1>2, <1>4, <1>5, <2>0 DEF InOrder
  <2>3. ASSUME NEW i \in 1 .. Len(buf'), NEW j \in 1 .. Len(up'),
               buf'[i].part = "fields", up'[j].part = "fields"
        PROVE  buf'[i].id < up'[j].id
    <3>1. CASE i \in 1 .. Len(buf) /\ buf'[i] = buf[i]
      BY <1>2, <1>3, <2>3, <3>1 DEF InOrder
    <3>2. CASE i - Len(buf) \in 1 .. k /\ buf'[i] = up[i - Len(buf)]
      BY <1>2, <1>3, <1>5, <2>3, <3>2 DEF InOrder
    <3> QED BY <1>4, <3>1, <3>2
  <2>4. ASSUME NEW i \in 1 .. Len(up'), NEW j \in 1 .. Len(up'), i < j,
               up'[i].part = "fields", up'[j].part = "fields"
        PROVE  up'[i].id < up'[j].id
    <3>1. k + i < k + j
      BY <1>3, <2>4
    <3> QED BY <1>2, <1>3, <2>4, <3>1 DEF InOrder
  <2>5. AnswersInOrder' /\ \A i \in Heads' :
            /\ down'[i].id # 0 /\ down'[i].id <= cur'.id
            /\ pc' \in Unanswered => down'[i].id < cur'.id
    BY <1>2, <2>0 DEF InOrder, AnswersInOrder, Heads
  <2> QED BY <2>1, <2>2, <2>3, <2>4, <2>5 DEF InOrder
<1>8. Measured'
  BY MeasuredKept DEF Basic, ReadSome, fileVars
<1> QED BY <1>6, <1>7, <1>8 DEF Basic

\* The header text ends with the first empty line, and its fields tell which
\* request it is.
LEMMA HeaderRead ==
    ASSUME TInv, HeaderEnds(buf) # {}, NEW end,
           end = CHOOSE i \in HeaderEnds(buf) : \A j \in HeaderEnds(buf) : i <= j
    PROVE  /\ end \in 1 .. Len(buf) /\ buf[end].part = "fields" /\ Len(buf) \in Nat
           /\ \A j \in HeaderEnds(buf) : end <= j
           /\ SubSeq(buf, 1, end) \in Seq(Cells) /\ Len(SubSeq(buf, 1, end)) = end
           /\ \A i \in 1 .. end : SubSeq(buf, 1, end)[i] = buf[i]
           /\ parse_http_request(SubSeq(buf, 1, end)).id = buf[end].id
           /\ parse_http_request(SubSeq(buf, 1, end)) \in [id : Nat, path : BOOLEAN, whole : BOOLEAN]
           /\ buf[end].id \in 1 .. Len(sent) /\ buf[end].id \in Nat
<1>1. buf \in Seq(Cells) /\ Len(buf) \in Nat
  BY DEF TInv, Kinds
<1>2. HeaderEnds(buf) \subseteq Nat
  BY <1>1 DEF HeaderEnds
<1>3. \E i \in HeaderEnds(buf) : \A j \in HeaderEnds(buf) : i <= j
  BY <1>2, LeastExists
<1>4. end \in HeaderEnds(buf) /\ \A j \in HeaderEnds(buf) : end <= j
  BY <1>3
<1>5. end \in 1 .. Len(buf) /\ buf[end].part = "fields"
  BY <1>4 DEF HeaderEnds
<1>6. buf[end].id \in 1 .. Len(sent) /\ buf[end].id \in Nat
  <2>1. buf[end].id \in 1 .. Len(sent)
    BY <1>5 DEF TInv, HeadersSent
  <2> QED BY <2>1
<1> DEFINE text == SubSeq(buf, 1, end)
<1>7. /\ text \in Seq(Cells) /\ Len(text) = end /\ \A i \in 1 .. end : text[i] = buf[i]
  <2>1. end \in 0 .. Len(buf)
    BY <1>1, <1>5
  <2> QED BY <1>1, <2>1, Cut
<1> HIDE DEF text
<1>8. text[Len(text)].id = buf[end].id
  BY <1>5, <1>7
<1>9. /\ parse_http_request(text).id = buf[end].id
      /\ parse_http_request(text) \in [id : Nat, path : BOOLEAN, whole : BOOLEAN]
  BY <1>6, <1>8 DEF parse_http_request
<1> QED BY <1>1, <1>4, <1>5, <1>6, <1>7, <1>9 DEF text

\* The length a request announces is a number.
LEMMA LengthIsNat ==
    ASSUME TInv, NEW id \in 1 .. Len(sent)
    PROVE  /\ content_length(id) \in Nat
           /\ sent[id] \in Requests /\ sent[id].body \in Nat
<1>1. sent[id] \in Requests
  BY ElementOfSeq DEF TInv, TypeOK
<1>2. sent[id].body \in Nat /\ sent[id].says \in Nat
  BY <1>1, HttpAssumption DEF Request
<1> QED BY <1>1, <1>2 DEF content_length

\* A piece of a sequence.
LEMMA Slice ==
    ASSUME NEW s \in Seq(Cells), NEW a \in Nat, NEW k \in Nat, a + k <= Len(s)
    PROVE  /\ SubSeq(s, a + 1, a + k) \in Seq(Cells) /\ Len(SubSeq(s, a + 1, a + k)) = k
           /\ \A i \in 1 .. k : SubSeq(s, a + 1, a + k)[i] = s[a + i]
<1>1. Len(s) \in Nat /\ \A i \in a + 1 .. a + k : s[i] \in Cells
  OBVIOUS
<1>2. SubSeq(s, a + 1, a + k) \in Seq(Cells) /\ Len(SubSeq(s, a + 1, a + k)) = k
  BY <1>1
<1>3. ASSUME NEW i \in 1 .. k PROVE SubSeq(s, a + 1, a + k)[i] = s[a + i]
  BY <1>1
<1> QED BY <1>2, <1>3

\* What co_read_headers does, in terms of the header it read.
LEMMA HeadersTaken ==
    ASSUME TInv, co_read_headers
    PROVE  \E end \in 1 .. Len(buf), already \in Nat :
              /\ already = Lesser(content_length(buf[end].id), Len(buf) - end)
              /\ buf[end].part = "fields" /\ buf[end].id \in 1 .. Len(sent)
              /\ \A j \in HeaderEnds(buf) : end <= j
              /\ cur' = parse_http_request(SubSeq(buf, 1, end)) /\ cur'.id = buf[end].id
              /\ cur' \in [id : Nat, path : BOOLEAN, whole : BOOLEAN]
              /\ already <= content_length(buf[end].id) /\ already <= Len(buf) - end
              /\ body' = SubSeq(buf, end + 1, end + already)
              /\ body' \in Seq(Cells) /\ Len(body') = already
              /\ \A i \in 1 .. already : body'[i] = buf[end + i]
              /\ pc' \in {"ended", "handle", "body"}
              /\ pc' = CASE sent[buf[end].id].length = "huge" -> "ended"
                         [] already = content_length(buf[end].id) -> "handle"
                         [] OTHER -> "body"
<1> DEFINE end == CHOOSE i \in HeaderEnds(buf) : \A j \in HeaderEnds(buf) : i <= j
           req == parse_http_request(SubSeq(buf, 1, end))
           already == Lesser(content_length(req.id), Len(buf) - end)
<1>1. HeaderEnds(buf) # {}
  BY DEF co_read_headers
<1>2. /\ cur' = req /\ body' = SubSeq(buf, end + 1, end + already)
      /\ pc' = CASE sent[req.id].length = "huge" -> "ended"
                 [] already = content_length(req.id) -> "handle"
                 [] OTHER -> "body"
  BY DEF co_read_headers
<1>3. /\ end \in 1 .. Len(buf) /\ buf[end].part = "fields" /\ Len(buf) \in Nat
      /\ \A j \in HeaderEnds(buf) : end <= j
      /\ req.id = buf[end].id /\ req \in [id : Nat, path : BOOLEAN, whole : BOOLEAN]
      /\ buf[end].id \in 1 .. Len(sent)
  BY <1>1, HeaderRead
<1> HIDE DEF end
<1>4. content_length(buf[end].id) \in Nat
  BY <1>3, LengthIsNat
<1>5. /\ already \in Nat /\ already <= content_length(buf[end].id) /\ already <= Len(buf) - end
      /\ end + already <= Len(buf)
  BY <1>3, <1>4 DEF Lesser
<1>6. body' \in Seq(Cells) /\ Len(body') = already /\ \A i \in 1 .. already : body'[i] = buf[end + i]
  <2>1. buf \in Seq(Cells)
    BY DEF TInv, Kinds
  <2>2. body' = SubSeq(buf, end + 1, end + already)
    BY <1>2
  <2> HIDE DEF already, req
  <2> QED BY <1>3, <1>5, <2>1, <2>2, Slice
<1>7. pc' \in {"ended", "handle", "body"}
  <2> HIDE DEF already, req
  <2> QED BY <1>2
<1>8. already = Lesser(content_length(buf[end].id), Len(buf) - end)
  BY <1>3
<1>9. cur' = parse_http_request(SubSeq(buf, 1, end))
  BY <1>2
<1> HIDE DEF req, already
<1>10. end \in 1 .. Len(buf) /\ already \in Nat
  BY <1>3, <1>5
<1> USE <1>10
<1> WITNESS end \in 1 .. Len(buf), already \in Nat
<1> QED BY <1>2, <1>3, <1>5, <1>6, <1>7, <1>8, <1>9

\* co_read_headers: the next request becomes the current one.
LEMMA HeadersStep == ASSUME Basic, co_read_headers PROVE Basic'
<1>0. TInv /\ InOrder /\ Measured /\ pc = "headers" /\ buf' = <<>>
      /\ UNCHANGED << mode, tls, open, sent, up, down, seen, resp, left, disk, abandoned,
                      call, from, stopped, returned >>
  BY DEF Basic, co_read_headers, fileVars, clientVars
<1>1. PICK end \in 1 .. Len(buf), already \in Nat :
              /\ buf[end].part = "fields" /\ buf[end].id \in 1 .. Len(sent)
              /\ cur'.id = buf[end].id
              /\ cur' \in [id : Nat, path : BOOLEAN, whole : BOOLEAN]
              /\ already <= content_length(buf[end].id)
              /\ body' \in Seq(Cells) /\ Len(body') = already
              /\ pc' \in {"ended", "handle", "body"}
  BY <1>0, HeadersTaken
<1>2. buf' \in Seq(Cells) /\ Len(buf') = 0
  BY <1>0
<1>3. cur.id \in Nat /\ buf[end].id > cur.id /\ cur'.id \in Nat /\ cur'.id > cur.id /\ cur'.id > 0
  <2>1. cur.id \in Nat
    BY <1>0 DEF TInv, Kinds
  <2>2. buf[end].id > cur.id
    BY <1>0, <1>1 DEF InOrder
  <2> QED BY <1>1, <2>1, <2>2
<1>4. TypeOK'
  <2>1. cur'.id \in 0 .. Len(sent')
    BY <1>0, <1>1
  <2>2. Len(body') <= content_length(cur'.id)
    BY <1>1
  <2>3. content_length(cur'.id) = content_length(cur.id)'
    BY <1>0 DEF content_length
  <2> QED BY <1>0, <1>1, <2>1, <2>2, <2>3 DEF TInv, TypeOK
<1>5. Kinds'
  BY <1>0, <1>1, <1>2, <1>3 DEF TInv, Kinds, Sending
<1>6. HeadersSent'
  BY <1>0, <1>2 DEF TInv, HeadersSent
<1>7. InOrder'
  <2>1. \A i \in 1 .. Len(up') : up'[i].part = "fields" => up'[i].id > cur'.id
    BY <1>0, <1>1, <1>3 DEF InOrder
  <2>2. ASSUME NEW i \in Heads'
        PROVE  down'[i].id # 0 /\ down'[i].id < cur'.id /\ down'[i].id <= cur'.id
    <3>1. i \in Heads /\ down'[i] = down[i] /\ i \in 1 .. Len(down)
      BY <1>0 DEF Heads
    <3>2. down[i].id \in Nat
      <4>1. down[i] \in Cells
        BY <1>0, <3>1, ElementOfSeq DEF TInv, Kinds
      <4> QED BY <4>1 DEF Cells
    <3>3. down[i].id # 0 /\ down[i].id <= cur.id
      BY <1>0, <3>1 DEF InOrder
    <3> QED BY <1>3, <3>1, <3>2, <3>3
  <2>3. AnswersInOrder'
    BY <1>0 DEF InOrder, AnswersInOrder, Heads
  <2> QED BY <1>0, <1>2, <2>1, <2>2, <2>3 DEF InOrder
<1>8. Measured'
  <2>1. pc \notin Sending /\ pc # "ended" /\ pc' \notin Sending
    BY <1>0, <1>1 DEF Sending
  <2> QED BY <1>0, <2>1, MeasuredKept
<1> QED BY <1>4, <1>5, <1>6, <1>7, <1>8 DEF Basic, TInv

\* co_read_body: some more of the body.
LEMMA BodyStep == ASSUME Basic, co_read_body PROVE Basic'
<1>0. TInv /\ InOrder /\ Measured /\ pc = "body" /\ pc' \in {"handle", "body"}
      /\ UNCHANGED << mode, tls, open, sent, down, buf, cur, seen, resp, left, disk, abandoned,
                      call, from, stopped, returned >>
  BY DEF Basic, co_read_body, fileVars, clientVars
<1>1. PICK k \in 1 .. Lesser(Len(up), content_length(cur.id) - Len(body)) :
        body' = body \o SubSeq(up, 1, k) /\ up' = SubSeq(up, k + 1, Len(up))
  BY DEF co_read_body
<1>2. cur.id \in 1 .. Len(sent) /\ content_length(cur.id) \in Nat /\ Len(body) \in Nat /\ Len(up) \in Nat
  <2>1. cur.id \in 1 .. Len(sent)
    BY <1>0 DEF TInv, TypeOK, Kinds
  <2> QED BY <1>0, <2>1, LengthIsNat DEF TInv, Kinds
<1>3. k \in 1 .. Len(up) /\ Len(body) + k <= content_length(cur.id)
  BY <1>1, <1>2 DEF Lesser
<1>4. /\ up' \in Seq(Cells) /\ Len(up') = Len(up) - k
      /\ SubSeq(up, 1, k) \in Seq(Cells) /\ Len(SubSeq(up, 1, k)) = k
      /\ \A i \in 1 .. Len(up') : up'[i] = up[k + i] /\ k + i \in 1 .. Len(up)
  BY <1>0, <1>1, <1>3, OrderCut
<1>5. body' \in Seq(Cells) /\ Len(body') = Len(body) + k
  <2>1. body \in Seq(Cells)
    BY <1>0 DEF TInv, Kinds
  <2> QED BY <1>1, <1>4, <2>1, Glue
<1>6. TypeOK'
  <2>1. content_length(cur.id)' = content_length(cur.id)
    BY <1>0 DEF content_length
  <2>2. Len(body') <= content_length(cur.id)'
    BY <1>2, <1>3, <1>5, <2>1
  <2> QED BY <1>0, <2>2 DEF TInv, TypeOK
<1>7. Kinds'
  BY <1>0, <1>4, <1>5 DEF TInv, Kinds, Sending
<1>8. HeadersSent'
  BY <1>0, <1>4 DEF TInv, HeadersSent
<1>9. InOrder'
  <2>1. \A i \in 1 .. Len(up') : up'[i].part = "fields" => up'[i].id > cur'.id
    BY <1>0, <1>4 DEF InOrder
  <2>2. \A i \in 1 .. Len(buf'), j \in 1 .. Len(up') :
          buf'[i].part = "fields" /\ up'[j].part = "fields" => buf'[i].id < up'[j].id
    BY <1>0, <1>4 DEF InOrder
  <2>3. ASSUME NEW i \in 1 .. Len(up'), NEW j \in 1 .. Len(up'), i < j,
               up'[i].part = "fields", up'[j].part = "fields"
        PROVE  up'[i].id < up'[j].id
    <3>1. k + i < k + j
      BY <1>2, <1>4, <2>3
    <3> QED BY <1>0, <1>4, <2>3, <3>1 DEF InOrder
  <2>4. \A i \in Heads' : /\ down'[i].id # 0 /\ down'[i].id <= cur'.id
                          /\ pc' \in Unanswered => down'[i].id < cur'.id
    BY <1>0 DEF InOrder, Heads, Unanswered
  <2>5. AnswersInOrder' /\ \A i \in 1 .. Len(buf') : buf'[i].part = "fields" => buf'[i].id > cur'.id
    BY <1>0 DEF InOrder, AnswersInOrder, Heads
  <2> QED BY <2>1, <2>2, <2>3, <2>4, <2>5 DEF InOrder
<1>10. Measured'
  <2>1. pc \notin Sending /\ pc # "ended" /\ pc' \notin Sending
    BY <1>0 DEF Sending
  <2> QED BY <1>0, <2>1, MeasuredKept
<1> QED BY <1>6, <1>7, <1>8, <1>9, <1>10 DEF Basic, TInv

\* The session ends: nothing else changes.
LEMMA EndStep ==
    ASSUME Basic, pc' = "ended",
           UNCHANGED << mode, tls, open, sent, up, down, buf, cur, body, seen, resp, left, disk,
                        abandoned, call, from, stopped, returned >>
    PROVE  Basic'
<1>1. TypeOK'
  BY DEF Basic, TInv, TypeOK
<1>2. Kinds' /\ HeadersSent'
  BY DEF Basic, TInv, Kinds, HeadersSent, Sending
<1>3. InOrder'
  BY OrderKept DEF Basic, Unanswered
<1>4. Measured'
  BY MeasuredKept DEF Basic
<1> QED BY <1>1, <1>2, <1>3, <1>4 DEF Basic, TInv

\* The handler of the request, or its upgrade.
LEMMA HandleStep == ASSUME Basic, process_session PROVE Basic'
<1>0. TInv /\ InOrder /\ Measured /\ pc = "handle" /\ pc' \in {"ended", "write"} /\ body' = <<>>
      /\ UNCHANGED << mode, tls, open, sent, up, down, buf, cur, left, disk, abandoned,
                      call, from, stopped, returned >>
  BY DEF Basic, process_session, fileVars, clientVars
<1>1. resp' \in [len : Nat, file : BOOLEAN, after : Afters]
  <2> DEFINE q == sent[cur.id]
  <2>1. disk = Absent \/ disk \in Nat
    BY <1>0, HttpAssumption DEF TInv, TypeOK
  <2>2. TextSize \in Nat /\ 0 \in Nat /\ keep_alive(q) \in Afters /\ "ws" \in Afters /\ "ended" \in Afters
    BY HttpAssumption DEF keep_alive, Afters
  <2>3. resp' = IF q.target \in Upgrades THEN upgrade(q) ELSE handle_request(q)
    BY DEF process_session
  <2> HIDE DEF q
  <2>4. upgrade(q) \in [len : Nat, file : {FALSE}, after : Afters]
    BY <2>2 DEF upgrade, Text
  <2>5. CASE cur.whole /\ q.target = "file" /\ disk # Absent
    <3>1. handle_request(q) = [len |-> disk, file |-> TRUE, after |-> keep_alive(q)]
      BY <2>5 DEF handle_request, File
    <3>2. handle_request(q) \in [len : Nat, file : BOOLEAN, after : Afters]
      BY <2>1, <2>2, <2>5, <3>1
    <3> QED BY <2>3, <2>4, <3>2
  <2>6. CASE ~(cur.whole /\ q.target = "file" /\ disk # Absent)
    <3>1. handle_request(q) = [len |-> TextSize, file |-> FALSE, after |-> keep_alive(q)]
      BY <2>6 DEF handle_request, Text
    <3>2. handle_request(q) \in [len : Nat, file : {FALSE}, after : Afters]
      BY <2>2, <3>1
    <3> QED BY <2>3, <2>4, <3>2
  <2> QED BY <2>5, <2>6
<1>2. TypeOK'
  BY <1>0 DEF TInv, TypeOK
<1>3. Kinds' /\ HeadersSent'
  <2>1. body' \in Seq(Cells)
    BY <1>0
  <2> QED BY <1>0, <1>1, <2>1 DEF TInv, Kinds, HeadersSent, Sending
<1>4. InOrder'
  BY <1>0, OrderKept DEF Unanswered
<1>5. Measured'
  <2>1. pc \notin Sending /\ pc # "ended" /\ pc' \notin Sending
    BY <1>0 DEF Sending
  <2> QED BY <1>0, <2>1, MeasuredKept
<1> QED BY <1>2, <1>3, <1>4, <1>5 DEF Basic, TInv

\* A head and the first m bytes after it are written: the answers before it
\* are complete, and it lacks the rest.
LEMMA FrameHead ==
    ASSUME TInv, Measured, pc \in {"write", "stream_open"}, open, UNCHANGED << tls, abandoned >>,
           NEW n \in Nat, NEW m \in 0 .. n,
           Len(down') = Len(down) + 1 + m, Heads' = Heads \cup {Len(down) + 1},
           \A i \in 1 .. Len(down) : down'[i] = down[i], down'[Len(down) + 1].n = n,
           NEW i \in Heads', Good(i)'
    PROVE  Spaced(i)' /\ (Followed(i)' \/ (Last(i)' /\ Lacks(i, n - m)'))
<1>1. down \in Seq(Cells) /\ Len(down) \in Nat /\ Heads \subseteq 1 .. Len(down)
  BY DEF TInv, Kinds, Heads
<1>2. \A j \in Heads : down[j].n \in Nat /\ down'[j] = down[j] /\ j \in Nat /\ j <= Len(down)
  <2>1. \A j \in Heads : down[j] \in Cells
    BY <1>1, ElementOfSeq
  <2> QED BY <1>1, <2>1 DEF Cells
<1>3. CASE i \in Heads
  <2>1. Good(i)
    BY <1>2, <1>3 DEF Good
  <2>2. Spaced(i) /\ (Followed(i) \/ (Last(i) /\ Lacks(i, 0)))
    BY <1>3, <2>1 DEF Measured, Sending
  <2>3. i + down[i].n <= Len(down)
    <3>1. CASE Followed(i)
      BY <1>2, <1>3, <3>1 DEF Followed
    <3>2. CASE Lacks(i, 0)
      BY <1>1, <3>2 DEF Lacks
    <3> QED BY <2>2, <3>1, <3>2
  <2>4. Spaced(i)'
    BY <1>1, <1>2, <1>3, <2>2, <2>3 DEF Spaced
  <2>5. Followed(i)'
    <3>1. CASE Followed(i)
      BY <1>2, <1>3, <3>1 DEF Followed
    <3>2. CASE Lacks(i, 0)
      BY <1>1, <1>2, <1>3, <3>2 DEF Followed, Lacks
    <3> QED BY <2>2, <3>1, <3>2
  <2> QED BY <2>4, <2>5
<1>4. CASE i = Len(down) + 1
  BY <1>1, <1>2, <1>4 DEF Spaced, Last, Lacks
<1> QED BY <1>3, <1>4

WriteKeeps == UNCHANGED << mode, tls, open, sent, up, buf, cur, body, seen, disk,
                           call, from, stopped, returned >>

\* What no step of do_write changes.
LEMMA UnreadIs == ASSUME Unread PROVE WriteKeeps
  BY DEF Unread, WriteKeeps, readVars, clientVars

\* The types after a write.
LEMMA WriteTypes ==
    ASSUME TInv, WriteKeeps, down' \in Seq(Cells), left' \in Nat,
           resp' \in [len : Nat, file : BOOLEAN, after : Afters],
           pc' \in {"headers", "write", "sendfile_open", "sendfile", "stream_open", "stream", "ws", "ended"},
           pc \notin {"headers", "ended"},
           pc' \in {"sendfile", "stream"} => disk # Absent,
           pc' \in Sending => left' <= resp'.len,
           abandoned' = abandoned \/ GivesUp
    PROVE  TInv'
<1>1. TypeOK'
  <2>1. abandoned' \subseteq 1 .. Len(sent)
    <3>1. abandoned \subseteq 1 .. Len(sent) /\ cur.id \in 0 .. Len(sent) /\ cur.id > 0
      BY DEF TInv, TypeOK, Kinds
    <3>2. cur.id \in 1 .. Len(sent)
      BY <3>1
    <3> QED BY <3>1, <3>2, Zenon DEF GivesUp
  <2> QED BY <2>1 DEF TInv, TypeOK, WriteKeeps
<1>2. Kinds'
  BY DEF TInv, Kinds, WriteKeeps
<1>3. HeadersSent'
  BY DEF TInv, HeadersSent, WriteKeeps
<1> QED BY <1>1, <1>2, <1>3 DEF TInv

\* Heads, as a function of the cells written.
LEMMA HeadsAre == Heads = HeadsOf(down) /\ Heads' = HeadsOf(down')
  BY DEF Heads, HeadsOf

\* write_regular_response: a head and all bytes of its body.
LEMMA RegularStep == ASSUME Basic, write_regular_response PROVE Basic'
<1>0. TInv /\ InOrder /\ Measured /\ pc = "write" /\ ~resp.file /\ pc' = resp.after
      /\ resp' = resp /\ left' = left /\ abandoned' = abandoned /\ WriteKeeps
  BY UnreadIs DEF Basic, write_regular_response
<1>1. /\ down \in Seq(Cells) /\ cur.id \in Nat /\ resp.len \in Nat /\ resp.after \in Afters
      /\ left \in Nat /\ resp \in [len : Nat, file : BOOLEAN, after : Afters]
  BY <1>0 DEF TInv, Kinds, TypeOK
<1> DEFINE e == down \o << Cell(cur.id, "head", resp.len) >>
           s == Bytes(cur.id, 0, resp.len)
<1>2. down' = e \o s
  BY DEF write_regular_response, prepare_headers
<1>9. /\ s \in Seq(Cells) /\ Len(s) = resp.len - 0 /\ \A i \in 1 .. resp.len - 0 : s[i].part = "body"
  <2>1. ASSUME NEW x \in Nat, NEW y \in Nat
        PROVE  /\ Bytes(x, 0, y) \in Seq(Cells) /\ Len(Bytes(x, 0, y)) = y - 0
               /\ \A i \in 1 .. y - 0 : Bytes(x, 0, y)[i].part = "body"
    <3>1. 0 \in Nat /\ 0 <= y
      OBVIOUS
    <3> QED BY ONLY <3>1, BytesOf, x \in Nat, y \in Nat
  <2> QED BY <1>1, <2>1, Zenon
<1>3. /\ e \in Seq(Cells) /\ Len(down) \in Nat /\ Len(e) = Len(down) + 1
      /\ HeadsOf(e) = HeadsOf(down) \cup {Len(down) + 1}
      /\ \A i \in 1 .. Len(down) : e[i] = down[i]
      /\ e[Len(down) + 1].id = cur.id /\ e[Len(down) + 1].n = resp.len
  <2> DEFINE c == Cell(cur.id, "head", resp.len)
  <2>1. c \in Cells /\ c.part = "head" /\ c.id = cur.id /\ c.n = resp.len
    BY <1>1 DEF Cell, Cells
  <2> HIDE DEF c
  <2>2. e = down \o << c >>
    BY DEF c
  <2> HIDE DEF e
  <2> QED BY <1>1, <2>1, <2>2, HeadAdded
<1> HIDE DEF e, s
<1>4. /\ down' \in Seq(Cells) /\ Len(down') = Len(e) + (resp.len - 0) /\ HeadsOf(down') = HeadsOf(e)
      /\ \A i \in 1 .. Len(e) : down'[i] = e[i]
  <2>1. \A i \in 1 .. Len(s) : s[i].part = "body"
    BY <1>9
  <2>2. e \in Seq(Cells) /\ s \in Seq(Cells)
    BY <1>3, <1>9
  <2>3. /\ e \o s \in Seq(Cells) /\ Len(e \o s) = Len(e) + Len(s) /\ HeadsOf(e \o s) = HeadsOf(e)
        /\ \A i \in 1 .. Len(e) : (e \o s)[i] = e[i]
    BY ONLY <2>1, <2>2, BytesAdded
  <2>4. Len(s) = resp.len - 0
    BY <1>9
  <2> QED BY ONLY <1>2, <2>3, <2>4
<1>5. /\ Heads' = Heads \cup {Len(down) + 1} /\ Len(down') = Len(down) + 1 + resp.len
      /\ \A i \in 1 .. Len(down) : down'[i] = down[i]
      /\ down'[Len(down) + 1].id = cur.id /\ down'[Len(down) + 1].n = resp.len
  <2>1. Len(e) + (resp.len - 0) = Len(down) + 1 + resp.len /\ Len(down) + 1 \in 1 .. Len(e)
        /\ \A i \in 1 .. Len(down) : i \in 1 .. Len(e)
    BY <1>1, <1>3
  <2>2. Heads' = Heads \cup {Len(down) + 1}
    BY <1>3, <1>4, HeadsAre
  <2>3. \A i \in 1 .. Len(down) : down'[i] = down[i]
    BY <1>3, <1>4, <2>1
  <2>4. down'[Len(down) + 1] = e[Len(down) + 1]
    BY <1>4, <2>1
  <2> QED BY <1>3, <1>4, <2>1, <2>2, <2>3, <2>4
<1>6. TInv'
  <2>1. pc' \in {"headers", "ws", "ended"}
    BY <1>0, <1>1 DEF Afters
  <2>2. left' \in Nat /\ resp' \in [len : Nat, file : BOOLEAN, after : Afters] /\ pc' \notin Sending
    BY <1>0, <1>1, <2>1 DEF Sending
  <2> QED BY <1>0, <1>4, <2>1, <2>2, WriteTypes
<1>7. InOrder'
  BY <1>0, <1>1, <1>3, <1>5, OrderHead DEF WriteKeeps, Unanswered, Afters
<1>8. Measured'
  <2>1. ASSUME open, NEW i \in Heads', Good(i)'
        PROVE  Spaced(i)' /\ (Followed(i)' \/ (Last(i)' /\ Lacks(i, 0)'))
    <3>1. resp.len \in 0 .. resp.len /\ resp.len - resp.len = 0 /\ UNCHANGED << tls, abandoned >>
      BY <1>0, <1>1 DEF WriteKeeps
    <3>2. Spaced(i)' /\ (Followed(i)' \/ (Last(i)' /\ Lacks(i, resp.len - resp.len)'))
      BY <1>0, <1>1, <1>5, <2>1, <3>1, FrameHead
    <3> QED BY <1>0, <3>1, <3>2 DEF Lacks
  <2> QED BY <1>0, <1>1, <2>1 DEF Measured, WriteKeeps, Sending, Afters
<1> QED BY <1>6, <1>7, <1>8 DEF Basic

\* The head of a file is written, and the file is to follow.
LEMMA FileHead ==
    ASSUME Basic, WriteKeeps, abandoned' = abandoned, pc \in {"write", "stream_open"}, NEW n \in Nat,
           down' = down \o prepare_headers(n), left' = n, pc' \in {"sendfile_open", "stream"},
           resp' = [resp EXCEPT !.len = n], pc' = "sendfile_open" => ~tls,
           pc' = "stream" => disk = n
    PROVE  Basic'
<1>0. TInv /\ InOrder /\ Measured
  BY DEF Basic
<1>1. /\ down \in Seq(Cells) /\ cur.id \in Nat /\ resp \in [len : Nat, file : BOOLEAN, after : Afters]
  BY <1>0 DEF TInv, Kinds
<1>2. resp' \in [len : Nat, file : BOOLEAN, after : Afters] /\ resp'.len = n
  BY <1>1
<1>3. /\ down' \in Seq(Cells) /\ Len(down) \in Nat /\ Len(down') = Len(down) + 1
      /\ Heads' = Heads \cup {Len(down) + 1}
      /\ \A i \in 1 .. Len(down) : down'[i] = down[i]
      /\ down'[Len(down) + 1].id = cur.id /\ down'[Len(down) + 1].n = n
  <2> DEFINE c == Cell(cur.id, "head", n)
  <2>1. c \in Cells /\ c.part = "head" /\ c.id = cur.id /\ c.n = n
    BY <1>1 DEF Cell, Cells
  <2>2. down' = down \o << c >>
    BY DEF prepare_headers
  <2> HIDE DEF c
  <2> QED BY <1>1, <2>1, <2>2, HeadAdded, HeadsAre
<1>4. n # Absent
  BY HttpAssumption
<1>5. TInv'
  BY <1>0, <1>2, <1>3, <1>4, WriteTypes DEF Sending
<1>6. InOrder'
  BY <1>0, <1>1, <1>3, OrderHead DEF WriteKeeps, Unanswered
<1>7. Measured'
  <2>1. ASSUME open, NEW i \in Heads', Good(i)'
        PROVE  Spaced(i)' /\ (Followed(i)' \/ (Last(i)' /\ Lacks(i, left)'))
    <3>1. 0 \in 0 .. n /\ n - 0 = n /\ Len(down') = Len(down) + 1 + 0 /\ UNCHANGED << tls, abandoned >>
      BY <1>3 DEF WriteKeeps
    <3>2. Spaced(i)' /\ (Followed(i)' \/ (Last(i)' /\ Lacks(i, n - 0)'))
      BY <1>0, <1>1, <1>3, <2>1, <3>1, FrameHead
    <3> QED BY <3>1, <3>2 DEF Lacks
  <2>2. \E h \in Heads' : down'[h].id = cur'.id
    BY <1>3 DEF WriteKeeps
  <2> QED BY <1>0, <2>1, <2>2 DEF Measured, WriteKeeps, Sending
<1> QED BY <1>5, <1>6, <1>7 DEF Basic

\* The answer to the current request is the last one, so giving up on its file
\* concerns no other.
LEMMA LastIsCurrent ==
    ASSUME TInv, InOrder, NEW i \in Heads, Last(i), \E h \in Heads : down[h].id = cur.id
    PROVE  down[i].id = cur.id
<1>1. PICK h \in Heads : down[h].id = cur.id
  OBVIOUS
<1>2. h <= i /\ h \in Nat /\ i \in Nat
  BY DEF Last, Heads
<1>3. down[i].id \in Nat /\ cur.id \in Nat
  <2>1. down \in Seq(Cells) /\ i \in 1 .. Len(down)
    BY DEF TInv, Kinds, Heads
  <2>2. down[i] \in Cells
    BY <2>1, ElementOfSeq
  <2> QED BY <2>2 DEF Cells, TInv, Kinds
<1>4. down[i].id <= cur.id /\ (h < i => down[h].id < down[i].id)
  BY DEF InOrder, AnswersInOrder
<1> QED BY <1>1, <1>2, <1>3, <1>4

\* A step of do_write that writes nothing.
LEMMA PlaceStep ==
    ASSUME Basic, WriteKeeps, UNCHANGED << down, resp, left >>,
           pc \in {"write", "sendfile_open", "sendfile", "stream_open", "stream"},
           abandoned' = abandoned \/ GivesUp,
           \/ pc' = "ended"
           \/ pc' \in Afters /\ (pc \in Sending => left = 0 \/ (~tls /\ GivesUp))
           \/ pc = "write" /\ pc' = "stream_open"
           \/ pc = "sendfile_open" /\ disk # Absent /\ pc' = "sendfile"
    PROVE  Basic'
<1>0. TInv /\ InOrder /\ Measured
  BY DEF Basic
<1>1. /\ down \in Seq(Cells) /\ left \in Nat /\ resp \in [len : Nat, file : BOOLEAN, after : Afters]
      /\ Len(down) \in Nat
  BY <1>0 DEF TInv, Kinds, TypeOK
<1>2. pc' \in {"headers", "ws", "ended", "stream_open", "sendfile"}
  BY DEF Afters
<1>3. TInv'
  <2>1. pc' \in Sending => pc \in Sending
    BY DEF Sending, Afters
  <2>2. pc \in Sending => left <= resp.len
    BY <1>0 DEF TInv, Kinds
  <2>3. pc' \in {"sendfile", "stream"} => disk # Absent
    BY DEF Afters
  <2> QED BY <1>0, <1>1, <1>2, <2>1, <2>2, <2>3, WriteTypes
<1>4. InOrder'
  BY <1>0, OrderKept DEF WriteKeeps, Unanswered, Afters
<1>5. Measured'
  <2>1. Heads' = Heads /\ UNCHANGED << tls, open, cur >>
    BY DEF Heads, WriteKeeps
  <2>2. \A i \in Heads : /\ Good(i)' => Good(i) /\ (~tls /\ GivesUp => down[i].id # cur.id)
                        /\ Spaced(i)' = Spaced(i) /\ Followed(i)' = Followed(i)
                        /\ Last(i)' = Last(i) /\ Lacks(i, left)' = Lacks(i, left)
                        /\ Lacks(i, 0)' = Lacks(i, 0)
    BY <2>1 DEF Good, Spaced, Followed, Last, Lacks, GivesUp
  <2>3. pc' \in Sending => pc = "sendfile_open" /\ pc' = "sendfile"
    BY DEF Sending, Afters
  <2>4. /\ pc' \in {"sendfile_open", "sendfile"} => ~tls'
        /\ pc' \in Sending => \E h \in Heads' : down'[h].id = cur'.id
    BY <1>0, <1>2, <2>1, <2>3 DEF Measured, Sending
  <2>5. ASSUME open', NEW i \in Heads', Good(i)'
        PROVE  /\ Spaced(i)'
               /\ \/ Followed(i)'
                  \/ /\ Last(i)'
                     /\ pc' \in Sending => Lacks(i, left)'
                     /\ pc' \notin Sending \cup {"ended"} => Lacks(i, 0)'
    <3>1. i \in Heads /\ Good(i) /\ open
      BY <2>1, <2>2, <2>5
    <3>2. Spaced(i) /\ (Followed(i) \/ Last(i))
      BY <1>0, <3>1 DEF Measured
    <3>3. CASE Followed(i)
      BY <2>2, <3>1, <3>2, <3>3
    <3>4. CASE Last(i) /\ ~Followed(i)
      <4>1. pc' \in Sending => Lacks(i, left)
        BY <1>0, <2>3, <3>1, <3>4 DEF Measured, Sending
      <4>2. ASSUME pc' \notin Sending \cup {"ended"} PROVE Lacks(i, 0)
        <5>1. CASE pc \notin Sending
          BY <1>0, <3>1, <3>4, <5>1 DEF Measured, Sending
        <5>2. CASE pc \in Sending
          <6>1. left = 0 \/ (~tls /\ GivesUp)
            BY <4>2, <5>2 DEF Sending
          <6>2. ~(~tls /\ GivesUp)
            <7>1. \E h \in Heads : down[h].id = cur.id
              BY <1>0, <5>2 DEF Measured
            <7>2. down[i].id = cur.id
              BY <1>0, <3>1, <3>4, <7>1, LastIsCurrent
            <7> QED BY <2>2, <2>5, <3>1, <7>2
          <6>3. Lacks(i, left)
            BY <1>0, <3>1, <3>4, <5>2 DEF Measured
          <6> QED BY <6>1, <6>2, <6>3 DEF Lacks
        <5> QED BY <5>1, <5>2
      <4> QED BY <2>2, <3>1, <3>2, <3>4, <4>1, <4>2
    <3> QED BY <3>2, <3>3, <3>4
  <2> QED BY <2>4, <2>5 DEF Measured
<1> QED BY <1>3, <1>4, <1>5 DEF Basic

\* write_file_response: over a plain connection the head goes first.
LEMMA FileStep == ASSUME Basic, write_file_response PROVE Basic'
<1>0. TInv /\ Measured /\ pc = "write" /\ resp' = resp /\ abandoned' = abandoned /\ WriteKeeps
  BY UnreadIs DEF Basic, write_file_response
<1>1. resp \in [len : Nat, file : BOOLEAN, after : Afters]
  BY <1>0 DEF TInv, Kinds
<1>2. CASE ~tls /\ resp.len > 0
  <2>1. /\ down' = down \o prepare_headers(resp.len) /\ pc' = "sendfile_open" /\ left' = resp.len
    BY <1>2 DEF write_file_response
  <2>2. resp' = [resp EXCEPT !.len = resp.len] /\ resp.len \in Nat
    BY <1>0, <1>1
  <2> QED BY <1>0, <1>2, <2>1, <2>2, FileHead
<1>3. CASE ~(~tls /\ resp.len > 0)
  <2>1. pc' = "stream_open" /\ UNCHANGED << down, left >>
    BY <1>3 DEF write_file_response
  <2> QED BY <1>0, <2>1, PlaceStep
<1> QED BY <1>2, <1>3

\* stream_open: the head announces the size the file has now.
LEMMA StreamOpenStep == ASSUME Basic, stream_open PROVE Basic'
<1>0. TInv /\ Measured /\ pc = "stream_open" /\ WriteKeeps /\ resp.after \in Afters
  BY UnreadIs DEF Basic, stream_open, TInv, Kinds, Measured
<1>1. CASE pc' = resp.after /\ GivesUp /\ UNCHANGED << down, resp, left >>
  <2>2. pc \notin Sending
    BY <1>0 DEF Sending
  <2> QED BY <1>0, <1>1, <2>2, PlaceStep
<1>2. CASE /\ disk # Absent
           /\ down' = down \o prepare_headers(disk)
           /\ pc' = "stream" /\ left' = disk /\ resp' = [resp EXCEPT !.len = disk]
           /\ UNCHANGED abandoned
  <2>2. disk \in Nat
    BY <1>0, <1>2, HttpAssumption DEF TInv, TypeOK
  <2> QED BY <1>0, <1>2, <2>2, FileHead
<1> QED BY <1>1, <1>2 DEF stream_open

\* sendfile_open, SendEnds, StreamEnds and WriteFails write nothing; the answer
\* is complete unless the file was given up or the session ends.
LEMMA EndsStep ==
    ASSUME Basic, sendfile_open \/ SendEnds \/ StreamEnds \/ WriteFails
    PROVE  Basic'
<1>0. TInv /\ Measured /\ WriteKeeps /\ resp.after \in Afters /\ UNCHANGED << down, resp, left >>
  BY UnreadIs DEF Basic, sendfile_open, SendEnds, StreamEnds, WriteFails, TInv, Kinds
<1>1. CASE sendfile_open
  <2>1. pc = "sendfile_open" /\ ~tls
    BY <1>0, <1>1 DEF sendfile_open, Measured
  <2>2. CASE pc' = "sendfile" /\ disk # Absent /\ UNCHANGED abandoned
    BY <1>0, <2>1, <2>2, PlaceStep
  <2>3. CASE pc' = resp.after /\ GivesUp
    BY <1>0, <2>1, <2>3, PlaceStep
  <2> QED BY <1>1, <2>2, <2>3 DEF sendfile_open
<1>2. CASE SendEnds
  <2>1. /\ pc = "sendfile" /\ pc' = resp.after /\ ~tls
        /\ (left = 0 /\ UNCHANGED abandoned) \/ GivesUp
    BY <1>0, <1>2 DEF SendEnds, Measured
  <2> QED BY <1>0, <2>1, PlaceStep
<1>3. CASE StreamEnds
  <2>1. /\ pc = "stream"
        /\ (left = 0 /\ pc' = resp.after /\ UNCHANGED abandoned) \/ (pc' = "ended" /\ GivesUp)
    BY <1>3 DEF StreamEnds
  <2> QED BY <1>0, <2>1, PlaceStep
<1>4. CASE WriteFails
  BY <1>0, <1>4, PlaceStep DEF WriteFails
<1> QED BY <1>1, <1>2, <1>3, <1>4

\* SendPiece: as many bytes more are written as are fewer left.
LEMMA PieceStep == ASSUME Basic, SendPiece PROVE Basic'
<1>0. TInv /\ InOrder /\ Measured /\ WriteKeeps /\ pc \in {"sendfile", "stream"}
      /\ pc' = pc /\ resp' = resp /\ abandoned' = abandoned
  BY UnreadIs DEF Basic, SendPiece
<1>1. PICK k \in 1 .. left :
          /\ down' = down \o Bytes(cur.id, resp.len - left, resp.len - left + k)
          /\ left' = left - k
  BY DEF SendPiece
<1>2. /\ down \in Seq(Cells) /\ cur.id \in Nat /\ resp.len \in Nat /\ left \in Nat /\ left <= resp.len
      /\ resp \in [len : Nat, file : BOOLEAN, after : Afters] /\ k \in Nat
      /\ Len(down) \in Nat
  BY <1>0, <1>1 DEF TInv, Kinds, TypeOK, Sending
<1> DEFINE s == Bytes(cur.id, resp.len - left, resp.len - left + k)
<1>3. s \in Seq(Cells) /\ Len(s) = k /\ \A i \in 1 .. Len(s) : s[i].part = "body"
  <2>1. ASSUME NEW x \in Nat, NEW a \in Nat, NEW m \in Nat
        PROVE  /\ Bytes(x, a, a + m) \in Seq(Cells) /\ Len(Bytes(x, a, a + m)) = m
               /\ \A i \in 1 .. Len(Bytes(x, a, a + m)) : Bytes(x, a, a + m)[i].part = "body"
    <3>1. a + m \in Nat /\ a <= a + m /\ (a + m) - a = m
      OBVIOUS
    <3>2. /\ Bytes(x, a, a + m) \in Seq(Cells) /\ Len(Bytes(x, a, a + m)) = (a + m) - a
          /\ \A i \in 1 .. (a + m) - a : Bytes(x, a, a + m)[i].part = "body"
      BY ONLY <3>1, BytesOf, x \in Nat, a \in Nat
    <3> QED BY <3>1, <3>2
  <2> DEFINE b == resp.len - left
  <2>2. b \in Nat
    BY <1>2
  <2>3. s = Bytes(cur.id, b, b + k)
    OBVIOUS
  <2> HIDE DEF b, s
  <2>4. /\ Bytes(cur.id, b, b + k) \in Seq(Cells) /\ Len(Bytes(cur.id, b, b + k)) = k
        /\ \A i \in 1 .. Len(Bytes(cur.id, b, b + k)) : Bytes(cur.id, b, b + k)[i].part = "body"
    <3>1. cur.id \in Nat /\ b \in Nat /\ k \in Nat
      BY <1>2, <2>2
    <3> QED BY ONLY <2>1, <3>1, Zenon
  <2> QED BY <2>3, <2>4
<1>4. down' = down \o s
  BY <1>1
<1> HIDE DEF s
<1>5. /\ down' \in Seq(Cells) /\ Len(down') = Len(down) + k /\ Heads' = Heads
      /\ \A i \in 1 .. Len(down) : down'[i] = down[i]
  BY <1>2, <1>3, <1>4, BytesAdded, HeadsAre
<1>6. TInv'
  <2>1. left' \in Nat /\ left' <= resp'.len
    BY <1>0, <1>1, <1>2
  <2>2. disk # Absent
    BY <1>0 DEF TInv, Kinds
  <2> QED BY <1>0, <1>2, <1>5, <2>1, <2>2, WriteTypes
<1>7. InOrder'
  BY <1>0, <1>5, OrderBytes DEF WriteKeeps
<1>8. Measured'
  <2>1. Len(down') + left' = Len(down) + left
    <3>1. Len(down') = Len(down) + k /\ left' = left - k
      BY <1>1, <1>5
    <3> QED BY <1>2, <3>1
  <2>2. \A i \in Heads : down'[i] = down[i]
    BY <1>5 DEF Heads
  <2>3. ASSUME NEW i \in Heads
        PROVE  /\ Good(i)' = Good(i) /\ Spaced(i)' = Spaced(i) /\ Followed(i)' = Followed(i)
               /\ Last(i)' = Last(i) /\ (Lacks(i, left) => Lacks(i, left)')
    BY <1>0, <1>5, <2>1, <2>2 DEF Good, Spaced, Followed, Last, Lacks, WriteKeeps
  <2>4. pc \in Sending
    BY <1>0 DEF Sending
  <2>5. UNCHANGED << tls, open, cur, pc >>
    BY <1>0 DEF WriteKeeps
  <2>6. ASSUME open', NEW i \in Heads', Good(i)'
        PROVE  /\ Spaced(i)'
               /\ \/ Followed(i)'
                  \/ /\ Last(i)'
                     /\ pc' \in Sending => Lacks(i, left)'
                     /\ pc' \notin Sending \cup {"ended"} => Lacks(i, 0)'
    <3>1. i \in Heads /\ Good(i) /\ open
      BY <1>5, <2>3, <2>5, <2>6
    <3>2. Spaced(i) /\ (Followed(i) \/ (Last(i) /\ Lacks(i, left)))
      BY <1>0, <2>4, <3>1 DEF Measured
    <3> QED BY <2>3, <2>4, <2>5, <3>1, <3>2
  <2>7. /\ pc' \in {"sendfile_open", "sendfile"} => ~tls'
        /\ pc' \in Sending => \E h \in Heads' : down'[h].id = cur'.id
    BY <1>0, <1>5, <2>2, <2>5 DEF Measured
  <2> QED BY <2>6, <2>7 DEF Measured
<1> QED BY <1>6, <1>7, <1>8 DEF Basic

-----------------------------------------------------------------------------
(* The steps of the client *)

\* What a new request does to the requests sent and to the cells on their way.
LEMMA PutFacts ==
    ASSUME TInv, NEW q \in Requests, Put(q)
    PROVE  /\ sent \in Seq(Requests) /\ Len(sent) \in Nat /\ Len(sent') = Len(sent) + 1
           /\ sent' \in Seq(Requests) /\ Len(sent') <= MaxRequests
           /\ \A i \in 1 .. Len(sent) : sent'[i] = sent[i]
           /\ sent'[Len(sent) + 1] = q
           /\ up' = up \o Wire(Len(sent) + 1, q) /\ Wire(Len(sent) + 1, q) \in Seq(Cells)
           /\ up' \in Seq(Cells) /\ Len(up) \in Nat /\ Len(up') = Len(up) + (2 + q.body) /\ q.body \in Nat
           /\ \A i \in 1 .. Len(up) : up'[i] = up[i]
           /\ \A i \in 1 .. 2 + q.body : up'[Len(up) + i] = Wire(Len(sent) + 1, q)[i]
           /\ \A i \in 1 .. Len(up') : up'[i].part = "fields" =>
                 \/ i \in 1 .. Len(up) /\ up'[i] = up[i]
                 \/ i = Len(up) + 2 /\ up'[i].id = Len(sent) + 1
<1>1. /\ sent \in Seq(Requests) /\ Len(sent) \in Nat /\ up \in Seq(Cells)
      /\ Len(sent) < MaxRequests /\ MaxRequests \in Nat
      /\ sent' = Append(sent, q) /\ up' = up \o Wire(Len(sent) + 1, q)
  BY HttpAssumption DEF TInv, TypeOK, Kinds, Put
<1>2. /\ sent' \in Seq(Requests) /\ Len(sent') = Len(sent) + 1 /\ Len(sent') <= MaxRequests
      /\ \A i \in 1 .. Len(sent) : sent'[i] = sent[i]
      /\ sent'[Len(sent) + 1] = q
  BY <1>1, AppendProperties
<1> DEFINE w == Wire(Len(sent) + 1, q)
<1>3. /\ w \in Seq(Cells) /\ Len(w) = 2 + q.body /\ q.body \in Nat
      /\ w[2] = Cell(Len(sent) + 1, "fields", 0)
      /\ \A i \in 1 .. 2 + q.body : w[i].part = "fields" => i = 2
  <2>1. Len(sent) + 1 \in Nat
    BY <1>1
  <2> QED BY <2>1, WireOf
<1>4. up' = up \o w
  BY <1>1
<1> HIDE DEF w
<1>5. /\ up' \in Seq(Cells) /\ Len(up') = Len(up) + (2 + q.body) /\ Len(up) \in Nat
      /\ \A i \in 1 .. Len(up) : up'[i] = up[i]
      /\ \A i \in 1 .. 2 + q.body : up'[Len(up) + i] = w[i]
      /\ \A i \in 1 .. Len(up) + (2 + q.body) :
            i \in 1 .. Len(up) \/ (i - Len(up) \in 1 .. 2 + q.body /\ up'[i] = w[i - Len(up)])
  <2>1. up \in Seq(Cells) /\ w \in Seq(Cells)
    BY <1>1, <1>3
  <2>2. /\ up \o w \in Seq(Cells) /\ Len(up \o w) = Len(up) + Len(w) /\ Len(up) \in Nat
        /\ \A i \in 1 .. Len(up) : (up \o w)[i] = up[i]
        /\ \A i \in 1 .. Len(w) : (up \o w)[Len(up) + i] = w[i]
        /\ \A i \in 1 .. Len(up) + Len(w) :
              i \in 1 .. Len(up) \/ (i - Len(up) \in 1 .. Len(w) /\ (up \o w)[i] = w[i - Len(up)])
    BY ONLY <2>1, Glue
  <2>3. Len(w) = 2 + q.body
    BY <1>3
  <2> QED BY ONLY <1>4, <2>2, <2>3
<1>6. ASSUME NEW i \in 1 .. Len(up'), up'[i].part = "fields"
      PROVE  \/ i \in 1 .. Len(up) /\ up'[i] = up[i]
             \/ i = Len(up) + 2 /\ up'[i].id = Len(sent) + 1
  <2>1. CASE i \in 1 .. Len(up)
    BY <1>5, <2>1
  <2>2. CASE i - Len(up) \in 1 .. 2 + q.body /\ up'[i] = w[i - Len(up)]
    <3>1. i - Len(up) = 2
      BY <1>3, <1>6, <2>2
    <3>2. i = Len(up) + 2
      BY <1>5, <3>1
    <3>3. up'[i] = Cell(Len(sent) + 1, "fields", 0)
      BY <1>3, <2>2, <3>1
    <3> QED BY <3>2, <3>3 DEF Cell
  <2> QED BY <1>5, <2>1, <2>2
<1> QED BY <1>1, <1>2, <1>3, <1>5, <1>6 DEF w

\* A client sends a request: its header comes after all others.
LEMMA PutStep ==
    ASSUME Basic, NEW q \in Requests, Put(q), call' \in {"idle", "reading", "failed"},
           UNCHANGED << mode, tls, open, down, pc, buf, cur, body, seen, resp, left, disk, abandoned,
                        stopped, returned >>
    PROVE  Basic'
<1>0. TInv /\ InOrder /\ Measured
  BY DEF Basic
<1>1. /\ sent \in Seq(Requests) /\ Len(sent) \in Nat /\ Len(sent') = Len(sent) + 1
      /\ sent' \in Seq(Requests) /\ Len(sent') <= MaxRequests
      /\ \A i \in 1 .. Len(sent) : sent'[i] = sent[i]
      /\ up' \in Seq(Cells) /\ Len(up) \in Nat
      /\ \A i \in 1 .. Len(up) : up'[i] = up[i]
      /\ \A i \in 1 .. Len(up') : up'[i].part = "fields" =>
            \/ i \in 1 .. Len(up) /\ up'[i] = up[i]
            \/ i = Len(up) + 2 /\ up'[i].id = Len(sent) + 1
  BY <1>0, PutFacts
<1>2. TypeOK'
  <2>1. cur.id \in 0 .. Len(sent) /\ cur.id \in 0 .. Len(sent')
    BY <1>0, <1>1 DEF TInv, TypeOK
  <2>2. pc \in {"body", "handle"} => content_length(cur.id)' = content_length(cur.id)
    <3>1. pc \in {"body", "handle"} => cur.id \in 1 .. Len(sent)
      BY <1>0, <2>1 DEF TInv, Kinds
    <3> QED BY <1>1, <3>1 DEF content_length
  <2> QED BY <1>0, <1>1, <2>1, <2>2 DEF TInv, TypeOK
<1>3. Kinds'
  <2>1. Kinds /\ up' \in Seq(Cells)
    BY <1>0, <1>1 DEF TInv
  <2> QED BY ONLY <2>1, UNCHANGED << down, pc, buf, cur, body, resp, left, disk >> DEF Kinds
<1>4. HeadersSent'
  <2>1. HeadersSent /\ buf' = buf
    BY <1>0 DEF TInv
  <2>2. ASSUME NEW i \in 1 .. Len(up'), up'[i].part = "fields" PROVE up'[i].id \in 1 .. Len(sent')
    <3>1. CASE i \in 1 .. Len(up) /\ up'[i] = up[i]
      <4>1. up[i].id \in 1 .. Len(sent)
        BY <2>1, <2>2, <3>1 DEF HeadersSent
      <4> QED BY <1>1, <3>1, <4>1
    <3>2. CASE up'[i].id = Len(sent) + 1
      BY <1>1, <3>2
    <3> QED BY <1>1, <2>2, <3>1, <3>2
  <2>3. \A i \in 1 .. Len(buf') : buf'[i].part = "fields" => buf'[i].id \in 1 .. Len(sent')
    BY <1>1, <2>1 DEF HeadersSent
  <2> QED BY <2>2, <2>3 DEF HeadersSent
<1>5. InOrder'
  <2>0. /\ \A i \in 1 .. Len(up) : up[i].part = "fields" => up[i].id \in 1 .. Len(sent)
        /\ \A i \in 1 .. Len(buf) : buf[i].part = "fields" => buf[i].id \in 1 .. Len(sent)
        /\ cur.id \in 0 .. Len(sent)
    BY <1>0 DEF TInv, HeadersSent, TypeOK
  <2>1. ASSUME NEW i \in 1 .. Len(up'), up'[i].part = "fields" PROVE up'[i].id > cur'.id
    <3>1. CASE i \in 1 .. Len(up) /\ up'[i] = up[i]
      BY <1>0, <2>1, <3>1 DEF InOrder
    <3>2. CASE up'[i].id = Len(sent) + 1
      BY <1>1, <2>0, <3>2
    <3> QED BY <1>1, <2>1, <3>1, <3>2
  <2>2. ASSUME NEW i \in 1 .. Len(buf'), NEW j \in 1 .. Len(up'),
               buf'[i].part = "fields", up'[j].part = "fields"
        PROVE  buf'[i].id < up'[j].id
    <3>1. CASE j \in 1 .. Len(up) /\ up'[j] = up[j]
      BY <1>0, <2>2, <3>1 DEF InOrder
    <3>2. CASE up'[j].id = Len(sent) + 1
      <4>1. buf'[i].id \in 1 .. Len(sent)
        BY <2>0, <2>2
      <4> QED BY <1>1, <3>2, <4>1
    <3> QED BY <1>1, <2>2, <3>1, <3>2
  <2>3. ASSUME NEW i \in 1 .. Len(up'), NEW j \in 1 .. Len(up'), i < j,
               up'[i].part = "fields", up'[j].part = "fields"
        PROVE  up'[i].id < up'[j].id
    <3>1. CASE i \in 1 .. Len(up) /\ j \in 1 .. Len(up)
      BY <1>0, <1>1, <2>3, <3>1 DEF InOrder
    <3>2. CASE i \in 1 .. Len(up) /\ j = Len(up) + 2 /\ up'[j].id = Len(sent) + 1
      BY <1>1, <2>0, <2>3, <3>2
    <3>3. CASE i = Len(up) + 2
      BY <1>1, <2>3, <3>3
    <3> QED BY <1>1, <2>3, <3>1, <3>2, <3>3
  <2>4. AnswersInOrder' /\ \A i \in Heads' :
            /\ down'[i].id # 0 /\ down'[i].id <= cur'.id
            /\ pc' \in Unanswered => down'[i].id < cur'.id
    BY <1>0 DEF InOrder, AnswersInOrder, Heads
  <2>5. \A i \in 1 .. Len(buf') : buf'[i].part = "fields" => buf'[i].id > cur'.id
    BY <1>0 DEF InOrder
  <2> QED BY <2>1, <2>2, <2>3, <2>4, <2>5 DEF InOrder
<1>6. Measured'
  BY <1>0, MeasuredKept
<1> QED BY <1>2, <1>3, <1>4, <1>5, <1>6 DEF Basic, TInv

\* The connection is closed, or a call of HttpClient goes on: the session is
\* not concerned.
LEMMA AsideStep ==
    ASSUME Basic, open' \in BOOLEAN, open' => open, call' \in {"idle", "reading", "failed"},
           stopped' \in BOOLEAN,
           UNCHANGED << mode, tls, sent, up, down, pc, buf, cur, body, seen, resp, left, disk, abandoned >>
    PROVE  Basic'
<1>1. TypeOK'
  BY DEF Basic, TInv, TypeOK, content_length
<1>2. Kinds' /\ HeadersSent'
  BY DEF Basic, TInv, Kinds, HeadersSent
<1>3. InOrder'
  BY OrderKept DEF Basic
<1>4. Measured'
  <2>1. Heads' = Heads
    BY DEF Heads
  <2>2. \A i \in Heads : /\ Good(i)' = Good(i) /\ Spaced(i)' = Spaced(i) /\ Followed(i)' = Followed(i)
                        /\ Last(i)' = Last(i) /\ Lacks(i, left)' = Lacks(i, left)
                        /\ Lacks(i, 0)' = Lacks(i, 0)
    BY <2>1 DEF Good, Spaced, Followed, Last, Lacks
  <2> QED BY <2>1, <2>2 DEF Basic, Measured
<1> QED BY <1>1, <1>2, <1>3, <1>4 DEF Basic, TInv

\* ChangeFile: what has been announced and written does not depend on the file.
LEMMA FileChangeStep == ASSUME Basic, ChangeFile PROVE Basic'
<1>0. UNCHANGED << mode, tls, open, sent, up, down, pc, buf, cur, body, seen, resp, left, abandoned,
                   call, from, stopped, returned >>
      /\ disk' \in Sizes \cup {Absent} /\ (disk' = Absent => pc \notin {"sendfile", "stream"})
  BY DEF ChangeFile, readVars, clientVars
<1>1. TypeOK'
  BY <1>0 DEF Basic, TInv, TypeOK, content_length
<1>2. Kinds' /\ HeadersSent'
  BY <1>0 DEF Basic, TInv, Kinds, HeadersSent
<1>3. InOrder'
  BY <1>0, OrderKept DEF Basic
<1>4. Measured'
  BY <1>0, MeasuredKept DEF Basic
<1> QED BY <1>1, <1>2, <1>3, <1>4 DEF Basic, TInv

\* A connection starts with nothing read or written.
LEMMA BasicStart == Init => Basic
<1> SUFFICES ASSUME Init PROVE Basic
  OBVIOUS
<1>0. /\ mode \in {"waits", "pipelines", "HttpClient"} /\ tls \in BOOLEAN
      /\ open = TRUE /\ sent = <<>> /\ up = <<>> /\ down = <<>>
      /\ pc = "headers" /\ buf = <<>> /\ cur = [id |-> 0, path |-> FALSE, whole |-> FALSE]
      /\ body = <<>> /\ seen = <<>>
      /\ resp = [len |-> 0, file |-> FALSE, after |-> "headers"] /\ left = 0
      /\ disk \in Sizes /\ abandoned = {}
      /\ call = "idle" /\ from = 0 /\ stopped = FALSE /\ returned = <<>>
  BY DEF Init
<1>1. <<>> \in Seq(Cells) /\ <<>> \in Seq(Requests) /\ Len(<<>>) = 0 /\ 0 <= MaxRequests
  BY EmptySeq, HttpAssumption
<1>2. TypeOK
  <2>1. Len(sent) = 0 /\ cur.id \in 0 .. Len(sent)
    BY <1>0, <1>1
  <2> QED BY <1>0, <1>1, <2>1 DEF TypeOK
<1>3. Kinds
  BY <1>0, <1>1 DEF Kinds, Sending, Afters
<1>4. HeadersSent
  BY <1>0, <1>1 DEF HeadersSent
<1>5. Heads = {}
  BY <1>0, <1>1 DEF Heads
<1>6. InOrder
  BY <1>0, <1>1, <1>5 DEF InOrder, AnswersInOrder
<1>7. Measured
  BY <1>0, <1>1, <1>5 DEF Measured, Sending
<1> QED BY <1>2, <1>3, <1>4, <1>6, <1>7 DEF Basic, TInv

\* One case for each action of the session, its client and the file system.
LEMMA BasicNext == Basic /\ [Next]_vars => Basic'
<1> SUFFICES ASSUME Basic, [Next]_vars PROVE Basic'
  OBVIOUS
<1>1. CASE do_read
  <2>1. CASE ReadFails
    BY <2>1, EndStep DEF ReadFails, readVars, fileVars, clientVars
  <2> QED BY <1>1, <2>1, ReadSomeStep, HeadersStep, BodyStep DEF do_read
<1>2. CASE process_session
  BY <1>2, HandleStep
<1>3. CASE do_write
  BY <1>3, RegularStep, FileStep, StreamOpenStep, EndsStep, PieceStep DEF do_write
<1>4. ASSUME NEW q \in Requests, Send(q) \/ send_request(q) PROVE Basic'
  <2>1. call \in {"idle", "reading", "failed"}
    BY DEF Basic, TInv, TypeOK
  <2>2. CASE Send(q)
    BY <2>1, <2>2, PutStep DEF Send, readVars, fileVars, clientVars
  <2>3. CASE send_request(q)
    BY <2>3, PutStep DEF send_request, readVars, fileVars
  <2> QED BY <1>4, <2>2, <2>3
<1>5. CASE client \/ Reuse \/ Close
  <2>0. open \in BOOLEAN /\ call \in {"idle", "reading", "failed"} /\ stopped \in BOOLEAN
    BY DEF Basic, TInv, TypeOK
  <2>1. CASE read_response
    BY <2>0, <2>1, AsideStep DEF read_response, Return, readVars, fileVars
  <2>2. CASE WriteThrows
    BY <2>0, <2>2, AsideStep DEF WriteThrows, readVars, fileVars
  <2>3. CASE Reuse
    BY <2>0, <2>3, AsideStep DEF Reuse, readVars, fileVars
  <2>4. CASE Close
    BY <2>0, <2>4, AsideStep DEF Close, readVars, fileVars, clientVars
  <2> QED BY <1>5, <2>1, <2>2, <2>3, <2>4 DEF client
<1>6. CASE ChangeFile
  BY <1>6, FileChangeStep
<1>7. CASE UNCHANGED vars
  <2>0. open \in BOOLEAN /\ call \in {"idle", "reading", "failed"} /\ stopped \in BOOLEAN
    BY DEF Basic, TInv, TypeOK
  <2> QED BY <1>7, <2>0, AsideStep DEF vars, readVars, fileVars, clientVars
<1> QED BY <1>1, <1>2, <1>3, <1>4, <1>5, <1>6, <1>7 DEF Next, server

-----------------------------------------------------------------------------
(* The theorems *)

\* Along every behaviour of a connection the cells read, buffered and written
\* are of their kinds and ordered, and every answer is as long as announced.
THEOREM HttpInvariance == Spec => []Basic
<1> QED BY BasicStart, BasicNext, PTL DEF Spec

\* Every variable of a session holds a value of its kind, and co_read_body
\* never takes more than Content-Length says.
THEOREM HttpTypeCorrect == Spec => []TypeOK
<1>1. Basic => TypeOK
  BY DEF Basic, TInv
<1> QED BY <1>1, HttpInvariance, PTL

\* Whatever is pipelined and however do_read cuts it up, process_session
\* answers requests in the order they were sent and none twice.
THEOREM AnswersOrdered == Spec => []AnswersInOrder
<1>1. Basic => AnswersInOrder
  BY DEF Basic, InOrder
<1> QED BY <1>1, HttpInvariance, PTL

\* do_write puts exactly as many bytes after a head as it announces before the
\* next head: over TLS always, over a plain connection for every answer whose
\* file the session did not give up on.
THEOREM FramedAlways == Spec => []Framed
<1>1. Basic => Framed
  <2> SUFFICES ASSUME Basic, open, NEW i \in Heads, NEW j \in Heads, i < j,
                      tls \/ down[i].id \notin abandoned
               PROVE  i + down[i].n < j /\ i + down[i].n + 1 \in Heads
    BY DEF Framed
  <2>1. Spaced(i) /\ (Followed(i) \/ Last(i))
    BY DEF Basic, Measured, Good
  <2>2. i \in Nat /\ j \in Nat
    BY DEF Heads
  <2>3. ~Last(i)
    BY <2>2 DEF Last
  <2> QED BY <2>1, <2>3 DEF Spaced, Followed
<1> QED BY <1>1, HttpInvariance, PTL
=============================================================================
