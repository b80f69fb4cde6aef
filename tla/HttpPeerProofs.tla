--------------------------- MODULE HttpPeerProofs ---------------------------
(***************************************************************************)
(* What a client that takes turns can rely on: it is understood (InStep),  *)
(* and HttpClient returns its own answer or nothing (OwnAnswerOrNothing).  *)
(*                                                                         *)
(* Both rest on an account of every cell between the client and the        *)
(* session: at most one request is under way, behind what a Content-Length *)
(* that is too small left of the body before it (Flow).  That the client has  *)
(* an answer to all it sent says that the session is past its last         *)
(* request, because answers are numbered upwards (AnsweredAll).            *)
(***************************************************************************)
EXTENDS HttpSessionProofs

-----------------------------------------------------------------------------
(* Counting answers *)

\* The heads of the answers are numbered upwards by the requests they answer:
\* there are no more of them than requests read.
LEMMA HeadsCount ==
    ASSUME TInv, InOrder
    PROVE  /\ Cardinality(Heads) \in Nat /\ Cardinality(Heads) <= cur.id
           /\ pc \in Unanswered => Cardinality(Heads) <= cur.id - 1
<1>1. /\ Heads \subseteq 1 .. Len(down) /\ Len(down) \in Nat /\ cur.id \in Nat
      /\ \A i \in Heads : i \in Int /\ down[i].id \in Nat
  <2>1. down \in Seq(Cells) /\ Heads \subseteq 1 .. Len(down) /\ cur.id \in Nat
    BY DEF TInv, Kinds, Heads
  <2>2. \A i \in Heads : down[i] \in Cells
    BY <2>1, ElementOfSeq
  <2> QED BY <2>1, <2>2 DEF Cells
<1>2. \A i, j \in Heads : i # j => down[i].id # down[j].id
  <2>1. \A i, j \in Heads : i < j => down[i].id < down[j].id
    BY DEF InOrder, AnswersInOrder
  <2>2. \A i, j \in Heads : i # j => i < j \/ j < i
    BY <1>1
  <2> QED BY <1>1, <2>1, <2>2
<1>3. ASSUME NEW n \in Nat, \A i \in Heads : down[i].id \in 1 .. n
      PROVE  Cardinality(Heads) \in Nat /\ Cardinality(Heads) <= n
  <2> DEFINE f == [i \in Heads |-> down[i].id]
  <2>1. f \in Injection(Heads, 1 .. n)
    BY <1>2, <1>3 DEF Injection, IsInjective
  <2>2. IsFiniteSet(1 .. n) /\ Cardinality(1 .. n) = n
    BY FS_Interval
  <2>3. IsFiniteSet(Heads) /\ Cardinality(Heads) <= Cardinality(1 .. n)
    BY <2>1, <2>2, FS_Injection
  <2> QED BY <2>2, <2>3, FS_CardinalityType
<1>4. \A i \in Heads : down[i].id \in 1 .. cur.id
  BY <1>1 DEF InOrder
<1>5. CASE pc \in Unanswered
  <2>1. cur.id - 1 \in Nat
    BY <1>1, <1>5 DEF TInv, Kinds, Unanswered
  <2>2. \A i \in Heads : down[i].id \in 1 .. cur.id - 1
    BY <1>1, <1>5 DEF InOrder
  <2> QED BY <1>1, <1>3, <1>4, <2>1, <2>2
<1> QED BY <1>1, <1>3, <1>4, <1>5

\* A client with an answer to all it sent finds the session past its last
\* request.
LEMMA AnsweredAll ==
    ASSUME TInv, InOrder, AllAnswered
    PROVE  Len(sent) = cur.id /\ pc \notin Unanswered
<1>1. Len(sent) \in Nat /\ cur.id \in 0 .. Len(sent)
  BY DEF TInv, TypeOK
<1> QED BY <1>1, HeadsCount DEF AllAnswered

-----------------------------------------------------------------------------
(* What a client that takes turns has on its way *)

Seen == [id : Nat, whole : BOOLEAN, body : Seq(Cells)]
Reading == {"body", "handle"}
Gone == {"ended", "ws"}

\* All that the session has not yet taken as part of a request.
Pending == buf \o up

\* The first m cells are what a wrong Content-Length left of a body.
Leftover(m) ==
    /\ \A i \in 1 .. m : Pending[i].part = "body"
    /\ cur.id = 0 \/ Valid(sent[cur.id]) => m = 0

\* They are followed by the next request, and by nothing else.
Ahead(m) ==
    LET q == sent[cur.id + 1] IN
    /\ Leftover(m)
    /\ Len(Pending) = m + (2 + q.body)
    /\ \A i \in 1 .. 2 + q.body : Pending[m + i] = Wire(cur.id + 1, q)[i]

\* No request is sent before the last one is answered ...
Turns == Len(sent) = cur.id \/ (Len(sent) = cur.id + 1 /\ pc \notin Unanswered)

\* ... so that nothing but leftovers, or one request, is on its way.
Underway ==
    /\ Len(sent) = cur.id /\ pc # "body" => Leftover(Len(Pending))
    /\ Len(sent) = cur.id + 1 => \E m \in Nat : Ahead(m)

\* The body is read in step with its announced length.
InBody ==
    /\ pc \in Reading => buf = <<>> /\ (cur.id = 1 \/ Valid(sent[cur.id - 1]) => cur.whole)
    /\ pc = "body" => body \o up = Bytes(cur.id, 0, sent[cur.id].body)
    /\ pc = "handle" => /\ body = Bytes(cur.id, 0, content_length(cur.id))
                        /\ ~Overstated(sent[cur.id])

\* One request was handled for each one read.
Counted == Len(seen) = IF pc \in Reading THEN cur.id - 1 ELSE cur.id

Flow == Turns /\ Underway /\ InBody /\ Counted

\* An HttpClient takes turns too: it is in a call until the session has ended.
Steady ==
    /\ seen \in Seq(Seen)
    /\ mode = "HttpClient" => sent = <<>> \/ pc = "ended" \/ call = "reading"
    /\ mode # "pipelines" => Len(seen) <= Len(sent)
    /\ mode # "pipelines" /\ pc \notin Gone => Flow
    /\ InStep

-----------------------------------------------------------------------------
(* The steps of Steady *)

\* What was handled stays in step when nothing is handled.
LEMMA SeenKept ==
    ASSUME TInv, Steady, UNCHANGED << mode, seen >>,
           \A i \in 1 .. Len(sent) : sent'[i] = sent[i]
    PROVE  InStep'
<1> SUFFICES ASSUME mode # "pipelines", NEW i \in 1 .. Len(seen)
             PROVE  /\ seen[i].id = i
                    /\ (i = 1 \/ Valid(sent'[i - 1])) => seen[i].whole
                    /\ ~Overstated(sent'[i])
                    /\ seen[i].body = Bytes(i, 0, content_length(i)')
  BY DEF InStep, Valid, Overstated
<1>1. Len(seen) \in Nat /\ Len(sent) \in Nat /\ Len(seen) <= Len(sent)
  BY DEF Steady, TInv, TypeOK
<1>2. /\ seen[i].id = i
      /\ (i = 1 \/ Valid(sent[i - 1])) => seen[i].whole
      /\ ~Overstated(sent[i]) /\ seen[i].body = Bytes(i, 0, content_length(i))
  BY DEF Steady, InStep
<1>3. sent'[i] = sent[i] /\ (i = 1 \/ sent'[i - 1] = sent[i - 1])
  BY <1>1
<1>4. content_length(i)' = content_length(i)
  BY <1>3 DEF content_length
<1> QED BY <1>2, <1>3, <1>4

\* Steps that read nothing: the answer is written, or the session ends.
LEMMA WriteSteady ==
    ASSUME TInv, Steady, UNCHANGED << mode, sent, up, buf, cur, body, seen, call >>,
           pc \notin Gone, pc' \notin Reading, pc' = "ended" \/ pc \notin Reading,
           pc' \in Unanswered => pc \in Unanswered
    PROVE  Steady'
<1>1. InStep'
  BY SeenKept
<1>2. mode # "pipelines" /\ pc' \notin Gone => Flow'
  <2> SUFFICES ASSUME mode # "pipelines", pc' \notin Gone PROVE Flow'
    OBVIOUS
  <2>1. Flow /\ pc \notin Reading /\ pc # "body" /\ pc' # "body" /\ pc' # "handle"
    BY DEF Steady, Reading, Gone
  <2>2. Turns'
    BY <2>1 DEF Flow, Turns
  <2>3. Underway'
    BY <2>1 DEF Flow, Underway, Leftover, Ahead, Pending, Valid
  <2>4. InBody' /\ Counted'
    BY <2>1 DEF Flow, InBody, Counted
  <2> QED BY <2>2, <2>3, <2>4 DEF Flow
<1>3. mode = "HttpClient" => sent' = <<>> \/ pc' = "ended" \/ call' = "reading"
  BY DEF Steady, Gone
<1> QED BY <1>1, <1>2, <1>3 DEF Steady

\* Concatenation is associative.
LEMMA Regrouped ==
    ASSUME NEW u \in Seq(Cells), NEW v \in Seq(Cells), NEW w \in Seq(Cells)
    PROVE  (u \o v) \o w = u \o (v \o w)
  OBVIOUS

\* A sequence is what its two parts are.
LEMMA Regroup ==
    ASSUME NEW s \in Seq(Cells), NEW t \in Seq(Cells), NEW k \in 1 .. Len(t)
    PROVE  (s \o SubSeq(t, 1, k)) \o SubSeq(t, k + 1, Len(t)) = s \o t
<1>1. /\ Len(t) \in Nat /\ 1 \in 1 .. Len(t) + 1 /\ k \in 1 - 1 .. Len(t)
      /\ Len(t) \in k .. Len(t) /\ k \in 0 .. Len(t)
  OBVIOUS
<1>2. SubSeq(t, 1, k) \o SubSeq(t, k + 1, Len(t)) = SubSeq(t, 1, Len(t))
  BY <1>1, ConcatAdjacentSubSeq
<1>3. SubSeq(t, 1, Len(t)) = t
  BY SubSeqFull
<1>4. SubSeq(t, 1, k) \in Seq(Cells) /\ SubSeq(t, k + 1, Len(t)) \in Seq(Cells)
  BY <1>1, Cut
<1> DEFINE a == SubSeq(t, 1, k)
           b == SubSeq(t, k + 1, Len(t))
<1>5. a \in Seq(Cells) /\ b \in Seq(Cells) /\ a \o b = t
  BY <1>2, <1>3, <1>4
<1> HIDE DEF a, b
<1>6. (s \o a) \o b = s \o (a \o b)
  BY <1>5, Regrouped
<1> QED BY <1>5, <1>6 DEF a, b

\* ReadSome moves cells from the network to the buffer.
LEMMA ReadSomeSteady == ASSUME TInv, Steady, ReadSome PROVE Steady'
<1>0. pc = "headers" /\ UNCHANGED << mode, sent, pc, cur, body, seen, call >>
  BY DEF ReadSome, clientVars
<1>1. PICK k \in 1 .. Len(up) : buf' = buf \o SubSeq(up, 1, k) /\ up' = SubSeq(up, k + 1, Len(up))
  BY DEF ReadSome
<1>2. Pending' = Pending
  <2>1. buf \in Seq(Cells) /\ up \in Seq(Cells)
    BY DEF TInv, Kinds
  <2>2. (buf \o SubSeq(up, 1, k)) \o SubSeq(up, k + 1, Len(up)) = buf \o up
    BY ONLY <2>1, k \in 1 .. Len(up), Regroup
  <2> QED BY <1>1, <2>2 DEF Pending
<1>3. InStep'
  BY <1>0, SeenKept
<1>4. mode # "pipelines" /\ pc' \notin Gone => Flow'
  <2> SUFFICES ASSUME mode # "pipelines" PROVE Flow'
    OBVIOUS
  <2>1. Flow
    BY <1>0 DEF Steady, Gone
  <2>2. Turns' /\ Counted'
    BY <1>0, <2>1 DEF Flow, Turns, Counted
  <2>3. Underway'
    BY <1>0, <1>2, <2>1 DEF Flow, Underway, Leftover, Ahead, Valid
  <2>4. InBody'
    BY <1>0 DEF InBody, Reading
  <2> QED BY <2>2, <2>3, <2>4 DEF Flow
<1> QED BY <1>0, <1>3, <1>4 DEF Steady
\* The first empty line in the buffer ends the header of the next request.
LEMMA NextHeader ==
    ASSUME TInv, Flow, pc = "headers", NEW end \in 1 .. Len(buf), buf[end].part = "fields"
    PROVE  /\ cur.id \in Nat /\ Len(sent) = cur.id + 1 /\ buf[end].id = cur.id + 1
           /\ sent[cur.id + 1] \in Requests /\ sent[cur.id + 1].body \in Nat
           /\ \E m \in Nat : Ahead(m) /\ end = m + 2
<1>1. /\ buf \in Seq(Cells) /\ up \in Seq(Cells) /\ sent \in Seq(Requests)
      /\ Len(buf) \in Nat /\ Len(up) \in Nat /\ Len(sent) \in Nat /\ cur.id \in Nat
  BY DEF TInv, Kinds, TypeOK
<1>2. Len(Pending) = Len(buf) + Len(up) /\ \A i \in 1 .. Len(buf) : Pending[i] = buf[i]
  BY <1>1, Glue DEF Pending
<1>3. Pending[end].part = "fields" /\ end \in 1 .. Len(Pending)
  BY <1>1, <1>2
<1>4. Len(sent) = cur.id + 1
  <2>1. Len(sent) # cur.id
    BY <1>3 DEF Flow, Underway, Leftover
  <2> QED BY <2>1 DEF Flow, Turns
<1> DEFINE n == cur.id + 1
<1>5. n \in 1 .. Len(sent) /\ n \in Nat
  BY <1>1, <1>4
<1>6. sent[n] \in Requests
  BY <1>1, <1>5, ElementOfSeq
<1>7. PICK m \in Nat : Ahead(m)
  BY <1>4 DEF Flow, Underway
<1> HIDE DEF n
<1>8. /\ sent[n].body \in Nat /\ Wire(n, sent[n])[2] = Cell(n, "fields", 0)
      /\ \A i \in 1 .. 2 + sent[n].body : Wire(n, sent[n])[i].part = "fields" => i = 2
  BY <1>5, <1>6, WireOf
<1>9. /\ \A i \in 1 .. m : Pending[i].part = "body"
      /\ Len(Pending) = m + (2 + sent[n].body)
      /\ \A i \in 1 .. 2 + sent[n].body : Pending[m + i] = Wire(n, sent[n])[i]
  BY <1>7 DEF Ahead, Leftover, n
<1>10. end - m \in 1 .. 2 + sent[n].body /\ end = m + (end - m)
  <2>1. ~(end \in 1 .. m)
    BY <1>3, <1>9
  <2>2. end \in 1 .. Len(Pending)
    BY <1>3
  <2>3. sent[n].body \in Nat /\ Len(Pending) = m + (2 + sent[n].body)
    BY <1>8, <1>9
  <2> QED BY ONLY m \in Nat, <2>1, <2>2, <2>3
<1>11. end - m = 2
  BY <1>3, <1>8, <1>9, <1>10
<1>12. end = m + 2 /\ Pending[end] = Cell(n, "fields", 0)
  BY <1>8, <1>9, <1>10, <1>11
<1>13. buf[end].id = n
  BY <1>2, <1>12 DEF Cell
<1> QED BY <1>1, <1>4, <1>6, <1>7, <1>8, <1>12, <1>13 DEF n

\* The cells after that header are the body of the request.
LEMMA AfterHeader ==
    ASSUME TInv, NEW m \in Nat, Ahead(m), NEW n, n = cur.id + 1, n \in Nat,
           sent[n] \in Requests, m + 2 \in 1 .. Len(buf)
    PROVE  /\ Len(buf) \in Nat /\ Len(up) \in Nat
           /\ Len(buf) + Len(up) = m + (2 + sent[n].body) /\ sent[n].body \in Nat
           /\ \A i \in 1 .. Len(buf) - (m + 2) : buf[m + 2 + i] = Cell(n, "body", i)
           /\ \A i \in 1 .. Len(up) : up[i] = Cell(n, "body", Len(buf) - (m + 2) + i)
           /\ buf[m + 1] = Cell(n, "line", 0) /\ buf[m + 2] = Cell(n, "fields", 0)
<1>1. buf \in Seq(Cells) /\ up \in Seq(Cells) /\ Len(buf) \in Nat /\ Len(up) \in Nat
  BY DEF TInv, Kinds
<1>2. /\ Len(Pending) = Len(buf) + Len(up) /\ \A i \in 1 .. Len(buf) : Pending[i] = buf[i]
      /\ \A i \in 1 .. Len(up) : Pending[Len(buf) + i] = up[i]
  BY <1>1, Glue DEF Pending
<1>3. /\ sent[n].body \in Nat
      /\ Wire(n, sent[n])[1] = Cell(n, "line", 0) /\ Wire(n, sent[n])[2] = Cell(n, "fields", 0)
      /\ \A i \in 1 .. sent[n].body : Wire(n, sent[n])[2 + i] = Cell(n, "body", i)
  BY WireOf
<1>4. /\ Len(Pending) = m + (2 + sent[n].body)
      /\ \A i \in 1 .. 2 + sent[n].body : Pending[m + i] = Wire(n, sent[n])[i]
  BY DEF Ahead
<1>5. ASSUME NEW i \in 1 .. sent[n].body PROVE Pending[m + 2 + i] = Cell(n, "body", i)
  <2>1. 2 + i \in 1 .. 2 + sent[n].body /\ m + (2 + i) = m + 2 + i
    BY <1>3
  <2> QED BY <1>3, <1>4, <2>1
<1>6. ASSUME NEW i \in 1 .. Len(buf) - (m + 2) PROVE buf[m + 2 + i] = Cell(n, "body", i)
  <2>1. i \in 1 .. sent[n].body /\ m + 2 + i \in 1 .. Len(buf)
    <3>1. Len(buf) + Len(up) = m + (2 + sent[n].body)
      BY <1>2, <1>4
    <3> QED BY ONLY <1>1, <1>3, <3>1, i \in 1 .. Len(buf) - (m + 2), m \in Nat
  <2> QED BY <1>2, <1>5, <2>1
<1>7. ASSUME NEW i \in 1 .. Len(up) PROVE up[i] = Cell(n, "body", Len(buf) - (m + 2) + i)
  <2> DEFINE j == Len(buf) - (m + 2) + i
  <2>1. j \in 1 .. sent[n].body /\ m + 2 + j = Len(buf) + i
    <3>1. Len(buf) + Len(up) = m + (2 + sent[n].body)
      BY <1>2, <1>4
    <3>2. m + 2 <= Len(buf)
      BY ONLY <1>1, m + 2 \in 1 .. Len(buf)
    <3> QED BY ONLY <1>1, <1>3, <3>1, <3>2, i \in 1 .. Len(up), m \in Nat
  <2> HIDE DEF j
  <2>2. up[i] = Cell(n, "body", j)
    BY <1>2, <1>5, <2>1
  <2> QED BY <2>2 DEF j
<1>8. buf[m + 1] = Cell(n, "line", 0) /\ buf[m + 2] = Cell(n, "fields", 0)
  <2>1. 1 \in 1 .. 2 + sent[n].body /\ 2 \in 1 .. 2 + sent[n].body /\ m + 1 \in 1 .. Len(buf)
    BY <1>1, <1>3
  <2> QED BY <1>2, <1>3, <1>4, <2>1
<1> QED BY <1>1, <1>2, <1>3, <1>4, <1>6, <1>7, <1>8

\* Cells that follow one another are the bytes of a body.
LEMMA AreBytes ==
    ASSUME NEW s \in Seq(Cells), NEW id \in Nat,
           \A i \in 1 .. Len(s) : s[i] = Cell(id, "body", i)
    PROVE  s = Bytes(id, 0, Len(s))
<1>1. Len(s) \in Nat
  OBVIOUS
<1>2. Len(s) - 0 = Len(s) /\ \A i \in 1 .. Len(s) : 0 + i = i
  BY <1>1
<1>3. /\ Bytes(id, 0, Len(s)) \in Seq(Cells) /\ Len(Bytes(id, 0, Len(s))) = Len(s)
      /\ \A i \in 1 .. Len(s) : Bytes(id, 0, Len(s))[i] = Cell(id, "body", i)
  <2>1. /\ Bytes(id, 0, Len(s)) \in Seq(Cells) /\ Len(Bytes(id, 0, Len(s))) = Len(s) - 0
        /\ \A i \in 1 .. Len(s) - 0 : Bytes(id, 0, Len(s))[i] = Cell(id, "body", 0 + i)
    <3>1. 0 \in Nat /\ 0 <= Len(s)
      BY <1>1
    <3> QED BY ONLY <1>1, <3>1, id \in Nat, BytesOf
  <2> QED BY <1>2, <2>1
<1> QED BY <1>3, SeqEqual

\* A request whose Content-Length is valid announces the body it has, and one
\* that announces no more than its body does not overstate it.
LEMMA ValidLength ==
    ASSUME TInv, NEW id \in 1 .. Len(sent)
    PROVE  /\ Valid(sent[id]) => content_length(id) = sent[id].body
           /\ content_length(id) <= sent[id].body => ~Overstated(sent[id])
<1>1. sent[id] \in Requests /\ sent[id].body \in Nat
  BY LengthIsNat
<1>2. /\ sent[id].length \in {"number", "none", "bad", "huge"} /\ sent[id].says \in Nat
      /\ sent[id].body > 0 => sent[id].length # "none"
  BY <1>1, HttpAssumption DEF Request
<1> QED BY <1>1, <1>2 DEF Valid, Overstated, content_length

\* The text of a header with nothing in front of it is a whole one.
LEMMA WholeText ==
    ASSUME NEW s \in Seq(Cells), Len(s) = 2, NEW id,
           s[1] = Cell(id, "line", 0), s[2] = Cell(id, "fields", 0)
    PROVE  parse_http_request(s).whole = TRUE
<1>1. s = << Cell(id, "line", 0), Cell(id, "fields", 0) >>
  OBVIOUS
<1>2. s[Len(s)].id = id
  BY DEF Cell
<1> QED BY <1>1, <1>2 DEF parse_http_request

\* co_read_headers takes one header and as much of its body as is there.
LEMMA HeadersSteady == ASSUME TInv, Steady, co_read_headers PROVE Steady'
<1>0. /\ pc = "headers" /\ buf' = <<>>
      /\ UNCHANGED << mode, sent, up, seen, call >>
  BY DEF co_read_headers, clientVars
<1>1. InStep'
  BY <1>0, SeenKept
<1>2. mode = "HttpClient" => sent' = <<>> \/ call' = "reading"
  BY <1>0 DEF Steady
<1>3. ASSUME mode # "pipelines", pc' \notin Gone PROVE Flow'
  <2>1. PICK end \in 1 .. Len(buf), already \in Nat :
              /\ already = Lesser(content_length(buf[end].id), Len(buf) - end)
              /\ buf[end].part = "fields" /\ buf[end].id \in 1 .. Len(sent)
              /\ cur' = parse_http_request(SubSeq(buf, 1, end)) /\ cur'.id = buf[end].id
              /\ already <= content_length(buf[end].id) /\ already <= Len(buf) - end
              /\ body' \in Seq(Cells) /\ Len(body') = already
              /\ \A i \in 1 .. already : body'[i] = buf[end + i]
              /\ pc' \in {"ended", "handle", "body"}
              /\ pc' = CASE sent[buf[end].id].length = "huge" -> "ended"
                         [] already = content_length(buf[end].id) -> "handle"
                         [] OTHER -> "body"
    BY HeadersTaken
  <2>2. Flow
    BY <1>0, <1>3 DEF Steady, Gone
  <2>3. /\ cur.id \in Nat /\ Len(sent) = cur.id + 1 /\ buf[end].id = cur.id + 1
        /\ sent[cur.id + 1] \in Requests
        /\ \E m \in Nat : Ahead(m) /\ end = m + 2
    BY <1>0, <2>1, <2>2, NextHeader
  <2>4. PICK m \in Nat : Ahead(m) /\ end = m + 2
    BY <2>3
  <2>5. PICK n \in Nat : n = cur.id + 1
    BY <2>3
  <2>6. n \in 1 .. Len(sent) /\ cur'.id = n /\ buf[end].id = n /\ Len(sent) = n /\ sent[n] \in Requests
    BY <2>1, <2>3, <2>5
  <2>7. /\ Len(buf) \in Nat /\ Len(up) \in Nat /\ sent[n].body \in Nat
        /\ Len(buf) + Len(up) = m + (2 + sent[n].body)
        /\ \A i \in 1 .. Len(buf) - end : buf[end + i] = Cell(n, "body", i)
        /\ \A i \in 1 .. Len(up) : up[i] = Cell(n, "body", Len(buf) - end + i)
        /\ buf[m + 1] = Cell(n, "line", 0) /\ buf[m + 2] = Cell(n, "fields", 0)
    BY <2>4, <2>5, <2>6, AfterHeader
  <2>8. /\ content_length(n) \in Nat
        /\ Valid(sent[n]) => content_length(n) = sent[n].body
        /\ content_length(n) <= sent[n].body => ~Overstated(sent[n])
    BY <2>6, LengthIsNat, ValidLength
  <2>9. /\ already <= content_length(n) /\ already <= Len(buf) - end
        /\ already = content_length(n) \/ already = Len(buf) - end
        /\ pc' = "handle" => already = content_length(n)
        /\ pc' = "body" => already # content_length(n) /\ sent[n].length # "huge"
        /\ pc' \in {"handle", "body"}
    BY <1>3, <2>1, <2>6 DEF Lesser, Gone
  <2>10. \A i \in 1 .. already : body'[i] = Cell(n, "body", i)
    <3>1. \A i \in 1 .. already : i \in 1 .. Len(buf) - end
      BY <2>7, <2>9
    <3> QED BY <2>1, <2>7, <3>1
  <2>11. Turns' /\ Counted'
    <3>1. Len(seen) = cur.id
      BY <1>0, <2>2 DEF Flow, Counted, Reading
    <3> QED BY <1>0, <2>3, <2>5, <2>6, <2>9, <3>1 DEF Turns, Counted, Reading
  <2>12. Pending' = up /\ up' = up /\ up \in Seq(Cells)
    <3>1. up \in Seq(Cells)
      BY DEF TInv, Kinds
    <3> QED BY <1>0, <3>1, ConcatEmptySeq DEF Pending
  <2>13. Underway'
    <3>1. Len(sent') # cur'.id + 1
      BY <1>0, <2>6
    <3>2. ASSUME pc' = "handle" PROVE Leftover(Len(Pending))'
      <4>1. ASSUME NEW i \in 1 .. Len(up) PROVE up[i].part = "body"
        <5>1. up[i] = Cell(n, "body", Len(buf) - end + i)
          BY <2>7
        <5> QED BY ONLY <5>1 DEF Cell
      <4>2. Valid(sent[n]) => Len(up) = 0
        <5> SUFFICES ASSUME Valid(sent[n]) PROVE Len(up) = 0
          OBVIOUS
        <5>1. already = sent[n].body
          BY <2>8, <2>9, <3>2
        <5> QED BY <2>1, <2>4, <2>7, <2>9, <5>1
      <4>3. cur'.id # 0
        BY <2>6
      <4> QED BY <1>0, <2>6, <2>12, <4>1, <4>2, <4>3 DEF Leftover, Valid
    <3> QED BY <2>9, <3>1, <3>2 DEF Underway
  <2>14. cur'.id = 1 \/ Valid(sent'[cur'.id - 1]) => cur'.whole
    <3> SUFFICES ASSUME cur'.id = 1 \/ Valid(sent'[cur'.id - 1]) PROVE cur'.whole
      OBVIOUS
    <3>1. cur.id = 0 \/ Valid(sent[cur.id])
      BY <1>0, <2>3, <2>5, <2>6
    <3>2. m = 0
      BY <2>4, <3>1 DEF Ahead, Leftover
    <3>3. end = 2 /\ 2 \in 0 .. Len(buf) /\ buf \in Seq(Cells) /\ m + 1 = 1 /\ m + 2 = 2
      BY <2>4, <3>2 DEF TInv, Kinds
    <3> DEFINE text == SubSeq(buf, 1, 2)
    <3>4. text \in Seq(Cells) /\ Len(text) = 2 /\ \A i \in 1 .. 2 : text[i] = buf[i]
      BY <3>3, Cut
    <3> HIDE DEF text
    <3>5. text[1] = Cell(n, "line", 0) /\ text[2] = Cell(n, "fields", 0)
      BY <2>7, <3>3, <3>4
    <3>6. parse_http_request(text).whole = TRUE
      BY <3>4, <3>5, WholeText
    <3> QED BY <2>1, <3>3, <3>6 DEF text
  <2>15. ASSUME pc' = "handle"
         PROVE  body' = Bytes(n, 0, content_length(n)) /\ ~Overstated(sent[n])
    <3>1. Len(body') = content_length(n)
      BY <2>1, <2>9, <2>15
    <3>2. body' = Bytes(n, 0, Len(body'))
      BY <2>1, <2>10, AreBytes
    <3>3. content_length(n) <= sent[n].body
      <4>1. content_length(n) <= Len(buf) - end /\ end = m + 2 /\ content_length(n) \in Nat
        BY <2>4, <2>8, <2>9, <2>15
      <4>2. /\ Len(buf) \in Nat /\ Len(up) \in Nat /\ sent[n].body \in Nat
            /\ Len(buf) + Len(up) = m + (2 + sent[n].body)
        BY <2>7
      <4> QED BY ONLY <4>1, <4>2, m \in Nat
    <3> QED BY <2>8, <3>1, <3>2, <3>3
  <2>16. ASSUME pc' = "body"
         PROVE  body' \o up = Bytes(n, 0, sent[n].body)
    <3>1. already = Len(buf) - end
      BY <2>9, <2>16
    <3> DEFINE t == body' \o up
    <3>2. /\ t \in Seq(Cells) /\ Len(t) = already + Len(up)
          /\ \A i \in 1 .. already : t[i] = body'[i]
          /\ \A i \in 1 .. already + Len(up) :
                i \in 1 .. already \/ (i - already \in 1 .. Len(up) /\ t[i] = up[i - already])
      <4>1. body' \in Seq(Cells) /\ up \in Seq(Cells)
        BY <2>1, <2>12
      <4>2. /\ t \in Seq(Cells) /\ Len(t) = Len(body') + Len(up)
            /\ \A i \in 1 .. Len(body') : t[i] = body'[i]
            /\ \A i \in 1 .. Len(body') + Len(up) :
                  i \in 1 .. Len(body') \/ (i - Len(body') \in 1 .. Len(up) /\ t[i] = up[i - Len(body')])
        BY ONLY <4>1, Glue
      <4>3. Len(body') = already
        BY <2>1
      <4> HIDE DEF t
      <4> QED BY ONLY <4>2, <4>3
    <3> HIDE DEF t
    <3>3. Len(t) = sent[n].body
      <4>1. /\ Len(buf) \in Nat /\ Len(up) \in Nat /\ sent[n].body \in Nat /\ end = m + 2
            /\ Len(buf) + Len(up) = m + (2 + sent[n].body)
            /\ already = Len(buf) - end /\ Len(t) = already + Len(up)
        BY <2>4, <2>7, <3>1, <3>2
      <4> QED BY ONLY <4>1, m \in Nat
    <3>4. ASSUME NEW i \in 1 .. Len(t) PROVE t[i] = Cell(n, "body", i)
      <4>1. CASE i \in 1 .. already
        BY <2>10, <3>2, <4>1
      <4>2. CASE i - already \in 1 .. Len(up) /\ t[i] = up[i - already]
        <5>1. Len(buf) - end + (i - already) = i
          BY <2>7, <3>1, <4>2
        <5> QED BY <2>7, <4>2, <5>1
      <4> QED BY <3>2, <4>1, <4>2
    <3>5. t = Bytes(n, 0, Len(t))
      BY <3>2, <3>4, AreBytes
    <3> QED BY <3>1, <3>3, <3>5 DEF t
  <2>17. InBody'
    BY <1>0, <2>6, <2>9, <2>14, <2>15, <2>16 DEF InBody, Valid, Overstated, content_length
  <2> QED BY <2>11, <2>13, <2>17 DEF Flow
<1> QED BY <1>0, <1>1, <1>2, <1>3 DEF Steady

\* The first bytes of a body, and the rest.
LEMMA FirstBytes ==
    ASSUME NEW s \in Seq(Cells), NEW t \in Seq(Cells), NEW id \in Nat, NEW n \in Nat,
           s \o t = Bytes(id, 0, n)
    PROVE  /\ s = Bytes(id, 0, Len(s)) /\ Len(s) + Len(t) = n
           /\ \A i \in 1 .. Len(t) : t[i].part = "body"
<1>1. /\ Len(s \o t) = Len(s) + Len(t) /\ Len(s) \in Nat /\ Len(t) \in Nat
      /\ \A i \in 1 .. Len(s) : (s \o t)[i] = s[i]
      /\ \A i \in 1 .. Len(t) : (s \o t)[Len(s) + i] = t[i]
  BY Glue
<1>2. PICK u : u = Bytes(id, 0, n)
  OBVIOUS
<1>3. Len(u) = n /\ \A i \in 1 .. n : u[i] = Cell(id, "body", i)
  <2>1. 0 \in Nat /\ 0 <= n /\ n - 0 = n /\ \A i \in 1 .. n : 0 + i = i
    OBVIOUS
  <2>2. /\ Len(Bytes(id, 0, n)) = n - 0
        /\ \A i \in 1 .. n - 0 : Bytes(id, 0, n)[i] = Cell(id, "body", 0 + i)
    BY ONLY <2>1, id \in Nat, n \in Nat, BytesOf
  <2> QED BY ONLY <1>2, <2>1, <2>2
<1>4. s \o t = u
  BY <1>2
<1>5. Len(s) + Len(t) = n
  BY ONLY <1>1, <1>3, <1>4
<1>6. ASSUME NEW i \in 1 .. Len(s) PROVE s[i] = Cell(id, "body", i)
  <2>1. i \in 1 .. n
    BY <1>1, <1>5
  <2> QED BY ONLY <1>1, <1>3, <1>4, <2>1, i \in 1 .. Len(s)
<1>7. ASSUME NEW i \in 1 .. Len(t) PROVE t[i].part = "body"
  <2>1. Len(s) + i \in 1 .. n
    BY <1>1, <1>5
  <2>2. t[i] = Cell(id, "body", Len(s) + i)
    BY ONLY <1>1, <1>3, <1>4, <2>1, i \in 1 .. Len(t)
  <2> QED BY ONLY <2>2 DEF Cell
<1> QED BY <1>5, <1>6, <1>7, AreBytes

\* co_read_body takes the rest of the body, and nothing after it.
LEMMA BodySteady == ASSUME TInv, Steady, co_read_body PROVE Steady'
<1>0. /\ pc = "body" /\ UNCHANGED << mode, sent, buf, cur, seen, call >>
      /\ pc' = IF Len(body') = content_length(cur.id) THEN "handle" ELSE "body"
  BY DEF co_read_body, clientVars
<1>1. InStep'
  BY <1>0, SeenKept
<1>2. mode = "HttpClient" => sent' = <<>> \/ call' = "reading"
  BY <1>0 DEF Steady
<1>3. ASSUME mode # "pipelines" PROVE Flow'
  <2>1. Flow
    BY <1>0, <1>3 DEF Steady, Gone
  <2>2. cur.id \in 1 .. Len(sent) /\ Len(sent) \in Nat /\ cur.id \in Nat
    BY <1>0 DEF TInv, TypeOK, Kinds
  <2>3. PICK k \in 1 .. Lesser(Len(up), content_length(cur.id) - Len(body)) :
          body' = body \o SubSeq(up, 1, k) /\ up' = SubSeq(up, k + 1, Len(up))
    BY DEF co_read_body
  <2>4. body \in Seq(Cells) /\ up \in Seq(Cells) /\ Len(up) \in Nat /\ Len(body) \in Nat
    BY DEF TInv, Kinds
  <2>5. k \in 1 .. Len(up)
    <3>1. content_length(cur.id) \in Nat
      BY <2>2, LengthIsNat
    <3> QED BY <2>3, <2>4, <3>1 DEF Lesser
  <2>6. body' \o up' = body \o up
    <3>1. (body \o SubSeq(up, 1, k)) \o SubSeq(up, k + 1, Len(up)) = body \o up
      BY ONLY <2>4, <2>5, Regroup
    <3> QED BY <2>3, <3>1
  <2>7. body' \in Seq(Cells) /\ up' \in Seq(Cells)
    <3>1. k \in 0 .. Len(up)
      BY <2>4, <2>5
    <3>2. SubSeq(up, 1, k) \in Seq(Cells) /\ SubSeq(up, k + 1, Len(up)) \in Seq(Cells)
      BY ONLY <2>4, <3>1, Cut
    <3>3. body \o SubSeq(up, 1, k) \in Seq(Cells)
      BY ONLY <2>4, <3>2, Glue
    <3> QED BY <2>3, <3>2, <3>3
  <2>8. /\ body' \o up' = Bytes(cur.id, 0, sent[cur.id].body)
        /\ buf = <<>> /\ (cur.id = 1 \/ Valid(sent[cur.id - 1]) => cur.whole)
        /\ Len(sent) = cur.id
    BY <1>0, <2>1, <2>6 DEF Flow, InBody, Turns, Reading, Unanswered
  <2>9. /\ body' = Bytes(cur.id, 0, Len(body')) /\ Len(body') + Len(up') = sent[cur.id].body
        /\ \A i \in 1 .. Len(up') : up'[i].part = "body"
        /\ Len(body') \in Nat /\ Len(up') \in Nat
    <3>1. cur.id \in Nat /\ sent[cur.id].body \in Nat
      BY <2>2, LengthIsNat
    <3>2. \A x, y \in Nat : body' \o up' = Bytes(x, 0, y) =>
              /\ body' = Bytes(x, 0, Len(body')) /\ Len(body') + Len(up') = y
              /\ \A i \in 1 .. Len(up') : up'[i].part = "body"
      BY ONLY <2>7, FirstBytes
    <3>3. Len(body') \in Nat /\ Len(up') \in Nat
      BY <2>7
    <3> QED BY <2>8, <3>1, <3>2, <3>3, Zenon
  <2>10. Turns' /\ Counted'
    BY <1>0, <2>1, <2>8 DEF Flow, Turns, Counted, Reading
  <2>11. Underway'
    <3>1. Len(sent') # cur'.id + 1
      BY <1>0, <2>2, <2>8
    <3>2. ASSUME pc' = "handle" PROVE Leftover(Len(Pending))'
      <4>1. Pending' = up'
        BY <1>0, <2>7, <2>8, ConcatEmptySeq DEF Pending
      <4>2. Valid(sent[cur.id]) => Len(up') = 0
        <5>1. Valid(sent[cur.id]) => Len(body') = sent[cur.id].body
          BY <1>0, <2>2, <3>2, ValidLength
        <5> QED BY <2>9, <5>1
      <4> QED BY <1>0, <2>2, <2>9, <4>1, <4>2 DEF Leftover, Valid
    <3> QED BY <1>0, <3>1, <3>2 DEF Underway
  <2>12. InBody'
    <3>1. ASSUME pc' = "handle"
          PROVE  body' = Bytes(cur.id, 0, content_length(cur.id)) /\ ~Overstated(sent[cur.id])
      <4>1. Len(body') = content_length(cur.id)
        BY <1>0, <3>1
      <4>2. content_length(cur.id) <= sent[cur.id].body
        BY <2>9, <4>1
      <4> QED BY <2>2, <2>9, <4>1, <4>2, ValidLength
    <3> QED BY <1>0, <2>8, <3>1 DEF InBody, Valid, Overstated, content_length
  <2> QED BY <2>10, <2>11, <2>12 DEF Flow
<1> QED BY <1>0, <1>1, <1>2, <1>3 DEF Steady

\* process_session hands one request on, as it was read.
LEMMA HandleSteady == ASSUME TInv, Steady, process_session PROVE Steady'
<1> DEFINE e == [id |-> cur.id, whole |-> cur.whole, body |-> body]
<1>0. /\ pc = "handle" /\ UNCHANGED << mode, sent, up, buf, cur, call >>
      /\ pc' \in {"write", "ended"} /\ seen' = Append(seen, e)
  BY DEF process_session, clientVars
<1>1. /\ e \in Seen /\ seen \in Seq(Seen) /\ Len(seen) \in Nat
      /\ e.id = cur.id /\ e.whole = cur.whole /\ e.body = body
  BY DEF TInv, Kinds, Steady, Seen
<1> HIDE DEF e
<1>2. /\ seen' \in Seq(Seen) /\ Len(seen') = Len(seen) + 1 /\ seen'[Len(seen) + 1] = e
      /\ \A i \in 1 .. Len(seen) : seen'[i] = seen[i]
  BY <1>0, <1>1, AppendProperties
<1>3. mode = "HttpClient" => sent' = <<>> \/ call' = "reading"
  BY <1>0 DEF Steady
<1>4. CASE mode = "pipelines"
  BY <1>0, <1>2, <1>4 DEF Steady, InStep
<1>5. CASE mode # "pipelines"
  <2>1. Flow
    BY <1>0, <1>5 DEF Steady, Gone
  <2>2. cur.id \in 1 .. Len(sent) /\ Len(sent) \in Nat /\ cur.id \in Nat
    BY <1>0 DEF TInv, TypeOK, Kinds
  <2>3. Len(seen) = cur.id - 1 /\ Len(seen') = cur.id /\ seen'[cur.id] = e /\ Len(sent) = cur.id
    <3>1. Len(seen) = cur.id - 1 /\ Len(sent) = cur.id
      BY <1>0, <2>1 DEF Flow, Counted, Turns, Reading, Unanswered
    <3>2. Len(seen) + 1 = cur.id
      BY <1>1, <2>2, <3>1
    <3> QED BY <1>2, <3>1, <3>2
  <2>4. Turns' /\ Counted' /\ InBody'
    BY <1>0, <2>3 DEF Turns, Counted, InBody, Reading
  <2>5. Underway'
    <3>1. Leftover(Len(Pending))
      BY <1>0, <2>1, <2>3 DEF Flow, Underway
    <3>2. Len(sent') # cur'.id + 1
      BY <1>0, <2>2, <2>3
    <3> QED BY <1>0, <3>1, <3>2 DEF Underway, Leftover, Pending, Valid
  <2>6. InStep'
    <3> SUFFICES ASSUME NEW i \in 1 .. Len(seen')
                 PROVE  /\ seen'[i].id = i
                        /\ (i = 1 \/ Valid(sent[i - 1])) => seen'[i].whole
                        /\ ~Overstated(sent[i])
                        /\ seen'[i].body = Bytes(i, 0, content_length(i))
      BY <1>0 DEF InStep, Valid, Overstated, content_length
    <3>1. CASE i \in 1 .. Len(seen)
      BY <1>2, <1>5, <3>1 DEF Steady, InStep
    <3>2. CASE i = cur.id
      BY <1>0, <1>1, <2>1, <2>3, <3>2 DEF Flow, InBody, Reading
    <3> QED BY <1>1, <1>2, <2>2, <2>3, <3>1, <3>2
  <2> QED BY <1>0, <1>2, <1>3, <2>2, <2>3, <2>4, <2>5, <2>6 DEF Steady, Flow
<1> QED BY <1>4, <1>5

\* A client whose turn it is sends one request after what is left.
LEMMA PutSteady ==
    ASSUME TInv, Steady, NEW q \in Requests, Put(q),
           mode # "pipelines" => pc \in Gone \/ (Len(sent) = cur.id /\ pc \notin Unanswered),
           mode = "HttpClient" => call' = "reading",
           UNCHANGED << mode, pc, buf, cur, body, seen >>
    PROVE  Steady'
<1> DEFINE n == Len(sent) + 1
           w == Wire(n, q)
<1>1. /\ sent \in Seq(Requests) /\ Len(sent) \in Nat /\ Len(sent') = Len(sent) + 1
      /\ \A i \in 1 .. Len(sent) : sent'[i] = sent[i]
      /\ sent'[Len(sent) + 1] = q /\ up' = up \o w /\ w \in Seq(Cells)
  BY PutFacts
<1>2. InStep'
  BY <1>1, SeenKept
<1>3. seen' \in Seq(Seen) /\ (mode # "pipelines" => Len(seen') <= Len(sent'))
  <2>1. seen \in Seq(Seen) /\ (mode # "pipelines" => Len(seen) <= Len(sent)) /\ Len(seen) \in Nat
    BY DEF Steady
  <2> QED BY <1>1, <2>1
<1>4. ASSUME mode # "pipelines", pc \notin Gone PROVE Flow'
  <2>1. Flow /\ Len(sent) = cur.id /\ pc \notin Unanswered /\ cur.id \in Nat
    BY <1>4 DEF Steady, TInv, Kinds
  <2>2. pc \notin Reading /\ pc # "body" /\ pc # "handle"
    BY <2>1 DEF Reading, Unanswered
  <2>3. Turns' /\ Counted' /\ InBody'
    BY <1>1, <2>1, <2>2 DEF Flow, Turns, Counted, InBody
  <2>4. PICK m \in Nat : m = Len(Pending)
    BY DEF TInv, Kinds, Pending
  <2>6. Len(w) = 2 + q.body
    <3>1. n \in Nat
      BY <1>1
    <3> QED BY <3>1, WireOf
  <2> HIDE DEF w
  <2>5. Pending' = Pending \o w /\ Pending \in Seq(Cells)
    <3>1. buf \in Seq(Cells) /\ up \in Seq(Cells)
      BY DEF TInv, Kinds
    <3>2. buf \o (up \o w) = (buf \o up) \o w
      BY ONLY <1>1, <3>1, Regrouped
    <3>3. buf \o up \in Seq(Cells)
      BY <3>1, Glue
    <3> QED BY <1>1, <3>2, <3>3 DEF Pending
  <2>7. /\ Len(Pending') = m + Len(w)
        /\ \A i \in 1 .. m : Pending'[i] = Pending[i]
        /\ \A i \in 1 .. Len(w) : Pending'[m + i] = w[i]
    <3>1. Pending \in Seq(Cells) /\ w \in Seq(Cells)
      BY <1>1, <2>5
    <3>2. /\ Len(Pending \o w) = Len(Pending) + Len(w)
          /\ \A i \in 1 .. Len(Pending) : (Pending \o w)[i] = Pending[i]
          /\ \A i \in 1 .. Len(w) : (Pending \o w)[Len(Pending) + i] = w[i]
      BY ONLY <3>1, Glue
    <3> QED BY ONLY <2>4, <2>5, <3>2
  <2>8. Leftover(m)'
    <3>1. Leftover(m)
      BY <2>1, <2>2, <2>4 DEF Flow, Underway
    <3>2. cur.id # 0 => sent'[cur.id] = sent[cur.id]
      <4>1. cur.id # 0 => cur.id \in 1 .. Len(sent)
        BY ONLY <2>1
      <4> QED BY <1>1, <4>1
    <3> QED BY <2>7, <3>1, <3>2 DEF Leftover, Valid
  <2>9. Ahead(m)'
    <3>1. cur'.id + 1 = n /\ sent'[n] = q
      BY <1>1, <2>1
    <3> HIDE DEF n
    <3>2. w = Wire(n, sent'[n]) /\ Len(w) = 2 + sent'[n].body
      BY <2>6, <3>1 DEF w
    <3> QED BY <2>7, <2>8, <3>1, <3>2 DEF Ahead
  <2>10. Underway'
    <3>1. Len(sent') # cur'.id
      BY <1>1, <2>1
    <3> QED BY <2>9, <3>1 DEF Underway
  <2> QED BY <2>3, <2>10 DEF Flow
<1> QED BY <1>2, <1>3, <1>4 DEF Steady

\* Both ways to send a request wait for the turn of the client.
LEMMA SendSteady ==
    ASSUME TInv, InOrder, Steady, NEW q \in Requests, Send(q) \/ send_request(q) PROVE Steady'
<1>1. CASE Send(q)
  <2>1. Put(q) /\ mode # "HttpClient" /\ UNCHANGED << mode, pc, buf, cur, body, seen >>
    BY <1>1 DEF Send, readVars
  <2>2. mode # "pipelines" => Len(sent) = cur.id /\ pc \notin Unanswered
    <3>1. mode # "pipelines" => mode = "waits"
      BY <2>1 DEF TInv, TypeOK
    <3> QED BY <1>1, <3>1, AnsweredAll DEF Send
  <2> QED BY <2>1, <2>2, PutSteady
<1>2. CASE send_request(q)
  <2>1. /\ Put(q) /\ mode = "HttpClient" /\ call = "idle" /\ call' = "reading"
        /\ UNCHANGED << mode, pc, buf, cur, body, seen >>
    BY <1>2 DEF send_request, readVars
  <2>2. pc \in Gone \/ (Len(sent) = cur.id /\ pc \notin Unanswered)
    <3> SUFFICES ASSUME pc # "ended" PROVE Len(sent) = cur.id /\ pc \notin Unanswered
      BY DEF Gone
    <3>1. sent = <<>> /\ cur.id \in 0 .. Len(sent)
      BY <2>1 DEF Steady, TInv, TypeOK
    <3>2. Len(sent) = 0 /\ cur.id = 0
      BY <3>1
    <3>3. pc = "headers"
      BY <3>2 DEF TInv, Kinds
    <3> QED BY <3>2, <3>3 DEF Unanswered
  <2> QED BY <2>1, <2>2, PutSteady
<1> QED BY <1>1, <1>2

\* The rest does not concern what is read.
LEMMA AsideSteady ==
    ASSUME TInv, Steady, UNCHANGED << mode, sent, up, pc, buf, cur, body, seen >>,
           call' = call \/ pc = "ended"
    PROVE  Steady'
<1>1. InStep'
  BY SeenKept
<1>2. Flow => Flow'
  BY DEF Flow, Turns, Underway, Leftover, Ahead, Pending, InBody, Counted, Valid, Overstated,
         content_length
<1> QED BY <1>1, <1>2 DEF Steady

\* Nothing is sent, read or handled at first.
LEMMA SteadyStart == Init => Steady
<1> SUFFICES ASSUME Init PROVE Steady
  OBVIOUS
<1>1. /\ sent = <<>> /\ up = <<>> /\ buf = <<>> /\ seen = <<>> /\ body = <<>> /\ pc = "headers"
      /\ cur.id = 0
  BY DEF Init
<1>2. Len(sent) = 0 /\ Len(seen) = 0 /\ seen \in Seq(Seen)
  BY <1>1
<1>3. Pending = <<>> /\ Len(Pending) = 0
  BY <1>1 DEF Pending
<1>4. Flow
  BY <1>1, <1>2, <1>3 DEF Flow, Turns, Underway, Leftover, InBody, Counted, Reading, Unanswered
<1>5. InStep
  BY <1>2 DEF InStep
<1> QED BY <1>1, <1>2, <1>4, <1>5 DEF Steady

\* One case for each action.
LEMMA SteadyNext == Basic /\ Steady /\ [Next]_vars => Steady'
<1> SUFFICES ASSUME Basic, Steady, [Next]_vars PROVE Steady'
  OBVIOUS
<1>0. TInv /\ InOrder
  BY DEF Basic
<1>1. CASE do_read
  <2>1. CASE ReadFails
    BY <1>0, <2>1, WriteSteady DEF ReadFails, readVars, clientVars, Gone, Reading, Unanswered
  <2> QED BY <1>0, <1>1, <2>1, ReadSomeSteady, HeadersSteady, BodySteady DEF do_read
<1>2. CASE process_session
  BY <1>0, <1>2, HandleSteady
<1>3. CASE do_write
  <2>0. resp.after \in {"headers", "ws", "ended"}
    BY <1>0 DEF TInv, Kinds, Afters
  <2>1. WriteKeeps /\ pc \notin Gone /\ pc \notin Reading /\ pc' \notin Reading
        /\ (pc' \in Unanswered => pc \in Unanswered)
    <3>1. CASE write_regular_response
      BY <2>0, <3>1, UnreadIs DEF write_regular_response, Gone, Reading, Unanswered
    <3>2. CASE write_file_response
      BY <3>2, UnreadIs DEF write_file_response, Gone, Reading, Unanswered
    <3>3. CASE sendfile_open \/ SendEnds \/ StreamEnds \/ WriteFails
      BY <2>0, <3>3, UnreadIs
         DEF sendfile_open, SendEnds, StreamEnds, WriteFails, Gone, Reading, Unanswered
    <3>4. CASE stream_open
      BY <2>0, <3>4, UnreadIs DEF stream_open, Gone, Reading, Unanswered
    <3>5. CASE SendPiece
      BY <3>5, UnreadIs DEF SendPiece, Gone, Reading, Unanswered
    <3> QED BY <1>3, <3>1, <3>2, <3>3, <3>4, <3>5 DEF do_write
  <2> QED BY <1>0, <2>1, WriteSteady DEF WriteKeeps
<1>4. ASSUME NEW q \in Requests, Send(q) \/ send_request(q) PROVE Steady'
  BY <1>0, <1>4, SendSteady
<1>5. CASE client \/ Reuse \/ Close
  <2>1. CASE read_response
    BY <1>0, <2>1, AsideSteady DEF read_response, Return, readVars
  <2>2. CASE WriteThrows
    BY <1>0, <2>2, AsideSteady DEF WriteThrows, readVars
  <2>3. CASE Reuse
    BY <1>0, <2>3, AsideSteady DEF Reuse, readVars
  <2>4. CASE Close
    BY <1>0, <2>4, AsideSteady DEF Close, readVars, clientVars
  <2> QED BY <1>5, <2>1, <2>2, <2>3, <2>4 DEF client
<1>6. CASE ChangeFile
  BY <1>0, <1>6, AsideSteady DEF ChangeFile, readVars, clientVars
<1>7. CASE UNCHANGED vars
  BY <1>0, <1>7, AsideSteady DEF vars, readVars, clientVars
<1> QED BY <1>1, <1>2, <1>3, <1>4, <1>5, <1>6, <1>7 DEF Next, server

-----------------------------------------------------------------------------
(* A client that takes turns is understood *)

\* Along every behaviour with a client that takes turns, what is under way is
\* a leftover of the last request, or the next one.
THEOREM PeerInvariance == Spec => []Steady
<1> QED BY HttpInvariance, SteadyStart, SteadyNext, PTL DEF Spec

\* do_read hands process_session the requests of such a client one by one,
\* each with as much of its body as its Content-Length says; one that is too
\* small or no number costs the next request its method and nothing more.
THEOREM StaysInStep == Spec => []InStep
<1>1. Steady => InStep
  BY DEF Steady
<1> QED BY <1>1, PeerInvariance, PTL

-----------------------------------------------------------------------------
(* The calls of HttpClient *)

Results == [id : Nat, data : Seq(Cells)]

\* A head, and the bytes of its body one after the other.
OneAnswer ==
    \A i \in 1 .. Len(down) :
        /\ i = 1 => down[i].part = "head" /\ down[i].id = 1
        /\ i > 1 => down[i] = Cell(1, "body", i - 1)

\* The session of an HttpClient reads one request and writes one answer: the
\* client sends another one only after the session has ended.
Alone ==
    /\ pc # "ended" => Len(sent) <= 1
    /\ cur.id <= 1
    /\ sent = <<>> /\ pc = "ended" => ~open
    /\ pc \in Unanswered \/ cur.id = 0 => down = <<>>
    /\ OneAnswer
    /\ pc \in Sending => Len(down) = 1 + (resp.len - left) /\ down[1].n = resp.len

\* The call that sent the first request waits for its answer.
FirstCall == call = "reading" /\ Len(sent) = 1

\* Its first call waits for that answer, from its beginning and with the
\* connection open ...
FirstRead ==
    FirstCall =>
        /\ open /\ from = 0
        /\ 1 \notin abandoned /\ pc \notin Sending => down = <<>> \/ Len(down) = 1 + down[1].n
        /\ pc = "ended" /\ Valid(sent[1]) => up = <<>>

\* ... and a later one for nothing.
LaterCalls == call = "reading" => Len(sent) # 0 /\ (Len(sent) = 1 \/ from = Len(down))

Caller == mode = "HttpClient" => Alone /\ FirstRead /\ LaterCalls

\* What the calls have returned.
Returned ==
    /\ returned \in Seq(Results) /\ from \in Nat
    /\ \A i \in 1 .. Len(returned) : returned[i].id \in 1 .. Len(sent)
    /\ call = "reading" => mode = "HttpClient"
    /\ OwnAnswerOrNothing

\* What was returned is not disturbed by anything that happens later.
LEMMA ReturnedKept ==
    ASSUME TInv, Returned, returned' = returned, from' \in Nat, abandoned \subseteq abandoned',
           Len(sent) <= Len(sent'), Len(sent') \in Nat, \A i \in 1 .. Len(sent) : sent'[i] = sent[i],
           call' = "reading" => mode' = "HttpClient"
    PROVE  Returned'
<1>1. Len(sent) \in Nat
  BY DEF TInv, TypeOK
<1>2. ASSUME NEW i \in 1 .. Len(returned)
      PROVE  returned[i].id \in 1 .. Len(sent') /\ sent'[returned[i].id] = sent[returned[i].id]
  <2>1. returned[i].id \in 1 .. Len(sent)
    BY DEF Returned
  <2> QED BY <1>1, <2>1
<1>3. OwnAnswerOrNothing'
  <2>1. OwnAnswerOrNothing
    BY DEF Returned
  <2> QED BY <1>2, <2>1 DEF OwnAnswerOrNothing, Valid
<1> QED BY <1>2, <1>3 DEF Returned

\* A session that has read its only request, with a valid length, has read
\* everything.
LEMMA Drained ==
    ASSUME TInv, Steady, mode = "HttpClient", Alone, pc \notin Gone, pc # "body", cur.id # 0
    PROVE  cur.id = 1 /\ Len(sent) = 1 /\ sent # <<>> /\ (Valid(sent[1]) => up = <<>>)
<1>1. cur.id \in 0 .. Len(sent) /\ Len(sent) \in Nat /\ Len(sent) <= 1
  BY DEF TInv, TypeOK, Alone, Gone
<1>2. cur.id = 1 /\ Len(sent) = 1 /\ sent # <<>>
  <2>1. cur.id = 1 /\ Len(sent) = 1
    <3>1. PICK x \in Nat : x = Len(sent)
      BY <1>1
    <3>2. PICK y \in Nat : y = cur.id
      BY <1>1
    <3>3. x <= 1 /\ y \in 0 .. x /\ y # 0
      BY <1>1, <3>1, <3>2
    <3>4. x = 1 /\ y = 1
      BY ONLY <3>3, x \in Nat, y \in Nat
    <3> QED BY <3>1, <3>2, <3>4
  <2> QED BY ONLY <2>1
<1>3. Flow
  BY DEF Steady
<1>4. Valid(sent[1]) => Len(Pending) = 0
  BY <1>2, <1>3 DEF Flow, Underway, Leftover
<1>5. Len(Pending) = Len(buf) + Len(up) /\ Len(buf) \in Nat /\ Len(up) \in Nat /\ up \in Seq(Cells)
  BY Glue DEF TInv, Kinds, Pending
<1>6. Len(up) = 0 => up = <<>>
  BY <1>5
<1> QED BY <1>2, <1>4, <1>5, <1>6

\* Steps of the session that write nothing.
LEMMA QuietCaller ==
    ASSUME TInv, Caller, mode = "HttpClient",
           UNCHANGED << mode, open, sent, down, call, from >>, abandoned \subseteq abandoned',
           pc # "ended", pc \notin Sending, pc' \notin Sending,
           cur'.id <= 1, pc' \in Unanswered \/ cur'.id = 0 => down = <<>>,
           pc' = "ended" => ~open \/ (sent # <<>> /\ (Valid(sent[1]) => up' = <<>>))
    PROVE  Caller'
<1>0. Alone /\ FirstRead /\ LaterCalls
  BY DEF Caller
<1>1. Alone'
  BY <1>0 DEF Alone, OneAnswer
<1>2. FirstRead'
  BY <1>0 DEF FirstRead, FirstCall, Valid
<1>3. LaterCalls'
  BY <1>0 DEF LaterCalls
<1> QED BY <1>1, <1>2, <1>3 DEF Caller

\* do_read: the header that is read is that of the only request.
LEMMA ReadCaller ==
    ASSUME Basic, Steady, Caller, mode = "HttpClient", do_read
    PROVE  Caller'
<1>0. TInv /\ InOrder /\ Alone
  BY DEF Basic, Caller
<1>1. CASE ReadSome
  BY <1>0, <1>1, QuietCaller DEF ReadSome, clientVars, fileVars, Alone, Sending
<1>2. CASE co_read_body
  <2>1. /\ pc = "body" /\ pc' \in {"body", "handle"}
        /\ UNCHANGED << mode, open, sent, down, call, from, abandoned, cur >>
    BY <1>2 DEF co_read_body, clientVars, fileVars
  <2> QED BY <1>0, <2>1, QuietCaller DEF Alone, Sending, Unanswered
<1>3. CASE ReadFails
  BY <1>0, <1>3, QuietCaller DEF ReadFails, readVars, clientVars, fileVars, Alone, Sending, Unanswered
<1>4. CASE co_read_headers
  <2>1. pc = "headers" /\ UNCHANGED << mode, open, sent, up, down, call, from, abandoned >>
    BY <1>4 DEF co_read_headers, clientVars, fileVars
  <2>2. PICK end \in 1 .. Len(buf), already \in Nat :
              /\ buf[end].part = "fields" /\ buf[end].id \in 1 .. Len(sent) /\ cur'.id = buf[end].id
              /\ pc' \in {"ended", "handle", "body"}
              /\ pc' = CASE sent[buf[end].id].length = "huge" -> "ended"
                         [] already = content_length(buf[end].id) -> "handle"
                         [] OTHER -> "body"
    BY <1>0, <1>4, HeadersTaken
  <2>3. Len(sent) \in Nat /\ Len(sent) <= 1 /\ cur.id \in Nat /\ buf[end].id > cur.id
    BY <1>0, <2>1, <2>2 DEF TInv, TypeOK, Kinds, Alone, InOrder
  <2>4. cur'.id = 1 /\ cur.id = 0 /\ sent # <<>> /\ buf[end].id = 1
    BY <2>2, <2>3
  <2>5. down = <<>>
    BY <1>0, <2>4 DEF Alone
  <2>6. pc' = "ended" => ~Valid(sent[1])
    BY <2>2, <2>4 DEF Valid
  <2>7. pc # "ended" /\ pc \notin Sending /\ pc' \notin Sending
    BY <2>1, <2>2 DEF Sending
  <2> QED BY <1>0, <2>1, <2>4, <2>5, <2>6, <2>7, QuietCaller
<1> QED BY <1>1, <1>2, <1>3, <1>4 DEF do_read

\* The handler may throw, and then nothing is answered.
LEMMA HandleCaller ==
    ASSUME Basic, Steady, Caller, mode = "HttpClient", process_session
    PROVE  Caller'
<1>0. TInv /\ Alone
  BY DEF Basic, Caller
<1>1. /\ pc = "handle" /\ pc' \in {"write", "ended"}
      /\ UNCHANGED << mode, open, sent, up, down, call, from, abandoned, cur >>
  BY DEF process_session, clientVars, fileVars
<1>2. cur.id # 0 /\ cur.id <= 1 /\ down = <<>>
  BY <1>0, <1>1 DEF TInv, Kinds, Alone, Unanswered
<1>3. sent # <<>> /\ (Valid(sent[1]) => up = <<>>)
  BY <1>0, <1>1, <1>2, Drained DEF Gone
<1> QED BY <1>0, <1>1, <1>2, <1>3, QuietCaller DEF Sending

\* A complete answer, cell by cell.
LEMMA WholeAnswer ==
    ASSUME NEW c \in Cells, NEW n \in Nat
    PROVE  /\ << c >> \o Bytes(1, 0, n) \in Seq(Cells)
           /\ Len(<< c >> \o Bytes(1, 0, n)) = 1 + n
           /\ (<< c >> \o Bytes(1, 0, n))[1] = c
           /\ \A i \in 2 .. 1 + n : (<< c >> \o Bytes(1, 0, n))[i] = Cell(1, "body", i - 1)
<1> DEFINE h == << c >>
           b == Bytes(1, 0, n)
<1>1. h \in Seq(Cells) /\ Len(h) = 1 /\ h[1] = c
  OBVIOUS
<1>2. b \in Seq(Cells) /\ Len(b) = n /\ \A i \in 1 .. n : b[i] = Cell(1, "body", i)
  <2>1. 0 \in Nat /\ 1 \in Nat /\ 0 <= n /\ n - 0 = n /\ \A i \in 1 .. n : 0 + i = i
    OBVIOUS
  <2>2. b \in Seq(Cells) /\ Len(b) = n - 0 /\ \A i \in 1 .. n - 0 : b[i] = Cell(1, "body", 0 + i)
    BY ONLY <2>1, n \in Nat, BytesOf
  <2> HIDE DEF b
  <2> QED BY <2>1, <2>2
<1> HIDE DEF h, b
<1>3. /\ h \o b \in Seq(Cells) /\ Len(h \o b) = Len(h) + Len(b)
      /\ \A i \in 1 .. Len(h) : (h \o b)[i] = h[i]
      /\ \A i \in 1 .. Len(b) : (h \o b)[Len(h) + i] = b[i]
  BY ONLY <1>1, <1>2, Glue
<1>4. /\ h \o b \in Seq(Cells) /\ Len(h \o b) = 1 + n /\ (h \o b)[1] = c
      /\ \A i \in 1 .. n : (h \o b)[1 + i] = b[i]
  BY ONLY <1>1, <1>2, <1>3
<1>5. ASSUME NEW i \in 2 .. 1 + n PROVE (h \o b)[i] = Cell(1, "body", i - 1)
  <2>1. i - 1 \in 1 .. n /\ 1 + (i - 1) = i
    OBVIOUS
  <2> QED BY <1>2, <1>4, <2>1
<1> QED BY <1>4, <1>5 DEF h, b

\* write_regular_response writes the only answer.
LEMMA RegularCaller ==
    ASSUME Basic, Steady, Caller, mode = "HttpClient", write_regular_response
    PROVE  Caller'
<1>0. TInv /\ Alone /\ FirstRead /\ LaterCalls
  BY DEF Basic, Caller
<1>1. pc = "write" /\ pc' = resp.after /\ WriteKeeps
      /\ down' = down \o << Cell(cur.id, "head", resp.len) >> \o Bytes(cur.id, 0, resp.len)
  BY UnreadIs DEF write_regular_response, prepare_headers
<1>2. down = <<>> /\ cur.id # 0 /\ pc' \in {"headers", "ws", "ended"} /\ resp.len \in Nat
  BY <1>0, <1>1 DEF TInv, Kinds, Alone, Unanswered, Afters
<1>3. cur.id = 1 /\ Len(sent) = 1 /\ sent # <<>> /\ (Valid(sent[1]) => up = <<>>)
  BY <1>0, <1>1, <1>2, Drained DEF Gone
<1>4. PICK c \in Cells : c = Cell(1, "head", resp.len)
  BY <1>2 DEF Cell, Cells
<1>5. down' = << c >> \o Bytes(1, 0, resp.len)
  <2>1. << c >> \in Seq(Cells)
    OBVIOUS
  <2>2. <<>> \o << c >> = << c >>
    BY <2>1, ConcatEmptySeq
  <2>3. down' = (<<>> \o << c >>) \o Bytes(1, 0, resp.len)
    BY <1>1, <1>2, <1>3, <1>4
  <2> QED BY <2>2, <2>3
<1>6. /\ Len(down') = 1 + resp.len /\ down'[1] = c
      /\ \A i \in 2 .. 1 + resp.len : down'[i] = Cell(1, "body", i - 1)
  <2>1. \A n \in Nat : /\ Len(<< c >> \o Bytes(1, 0, n)) = 1 + n
                       /\ (<< c >> \o Bytes(1, 0, n))[1] = c
                       /\ \A i \in 2 .. 1 + n : (<< c >> \o Bytes(1, 0, n))[i] = Cell(1, "body", i - 1)
    BY WholeAnswer
  <2>2. resp.len \in Nat
    BY <1>2
  <2> QED BY ONLY <1>5, <2>1, <2>2, Zenon
<1>7. c.part = "head" /\ c.id = 1 /\ c.n = resp.len
  BY <1>4 DEF Cell
<1>8. OneAnswer'
  BY <1>2, <1>6, <1>7 DEF OneAnswer
<1>9. Alone'
  BY <1>0, <1>1, <1>2, <1>3, <1>8 DEF Alone, WriteKeeps, Unanswered, Sending
<1>10. FirstRead'
  BY <1>0, <1>1, <1>3, <1>6, <1>7 DEF FirstRead, FirstCall, WriteKeeps, Valid
<1>11. LaterCalls'
  BY <1>0, <1>1, <1>3 DEF LaterCalls, WriteKeeps
<1> QED BY <1>9, <1>10, <1>11 DEF Caller

\* The head of a file, which follows later.
LEMMA HeadCaller ==
    ASSUME Basic, Steady, Caller, mode = "HttpClient", WriteKeeps, NEW n \in Nat,
           pc \in {"write", "stream_open"}, pc' \in Sending,
           down' = down \o << Cell(cur.id, "head", n) >>, left' = n, resp'.len = n
    PROVE  Caller'
<1>0. TInv /\ Alone /\ FirstRead /\ LaterCalls
  BY DEF Basic, Caller
<1>1. down = <<>> /\ cur.id # 0
  BY <1>0 DEF TInv, Kinds, Alone, Unanswered
<1>2. cur.id = 1 /\ Len(sent) = 1 /\ sent # <<>>
  BY <1>0, <1>1, Drained DEF Gone
<1>3. PICK c \in Cells : c = Cell(1, "head", n)
  BY DEF Cell, Cells
<1>4. down' = << c >>
  <2>1. << c >> \in Seq(Cells)
    OBVIOUS
  <2> QED BY <1>1, <1>2, <1>3, <2>1, ConcatEmptySeq
<1>5. Len(down') = 1 /\ down'[1] = c
  <2>1. Len(<< c >>) = 1 /\ << c >>[1] = c
    OBVIOUS
  <2> QED BY ONLY <1>4, <2>1
<1>6. c.part = "head" /\ c.id = 1 /\ c.n = n
  BY <1>3 DEF Cell
<1>7. OneAnswer'
  BY <1>5, <1>6 DEF OneAnswer
<1>8. Alone'
  BY <1>0, <1>2, <1>5, <1>6, <1>7 DEF Alone, WriteKeeps, Unanswered, Sending
<1>9. FirstRead'
  BY <1>0 DEF FirstRead, FirstCall, WriteKeeps, Valid, Sending
<1>10. LaterCalls'
  BY <1>0, <1>2 DEF LaterCalls, WriteKeeps
<1> QED BY <1>8, <1>9, <1>10 DEF Caller

\* The bytes of a file come one after the other.
LEMMA PieceCaller ==
    ASSUME Basic, Steady, Caller, mode = "HttpClient", SendPiece
    PROVE  Caller'
<1>0. TInv /\ Alone /\ FirstRead /\ LaterCalls
  BY DEF Basic, Caller
<1>1. /\ WriteKeeps /\ pc \in {"sendfile", "stream"} /\ pc' = pc /\ resp' = resp
  BY UnreadIs DEF SendPiece
<1>2. PICK k \in 1 .. left : /\ down' = down \o Bytes(cur.id, resp.len - left, resp.len - left + k)
                             /\ left' = left - k
  BY DEF SendPiece
<1>3. /\ cur.id # 0 /\ resp.len \in Nat /\ left \in Nat /\ left <= resp.len
      /\ Len(down) = 1 + (resp.len - left) /\ down[1].n = resp.len /\ down \in Seq(Cells)
  BY <1>0, <1>1 DEF TInv, TypeOK, Kinds, Alone, Sending
<1>4. cur.id = 1 /\ Len(sent) = 1 /\ sent # <<>>
  BY <1>0, <1>1, <1>3, Drained DEF Gone
<1>5. PICK a \in Nat : a = resp.len - left
  BY <1>3
<1>6. PICK z \in Nat : z = a + k /\ a <= z /\ z - a = k /\ k \in Nat
  <2>1. k \in Nat
    BY <1>3
  <2>2. a + k \in Nat /\ a <= a + k /\ (a + k) - a = k
    BY ONLY <2>1, a \in Nat
  <2> QED BY <2>1, <2>2
<1> DEFINE b == Bytes(1, a, z)
<1>7. b \in Seq(Cells) /\ Len(b) = k /\ \A i \in 1 .. k : b[i] = Cell(1, "body", a + i)
  <2>1. /\ b \in Seq(Cells) /\ Len(b) = z - a
        /\ \A i \in 1 .. z - a : b[i] = Cell(1, "body", a + i)
    <3>1. 1 \in Nat /\ a <= z
      BY <1>6
    <3> QED BY ONLY <3>1, a \in Nat, z \in Nat, BytesOf
  <2> HIDE DEF b
  <2>2. z - a = k
    BY <1>6
  <2> QED BY ONLY <2>1, <2>2
<1>8. down' = down \o b
  BY <1>2, <1>4, <1>5, <1>6
<1> HIDE DEF b
<1>9. /\ Len(down') = Len(down) + Len(b)
      /\ \A i \in 1 .. Len(down) : down'[i] = down[i]
      /\ \A i \in 1 .. Len(down) + Len(b) :
            i \in 1 .. Len(down) \/ (i - Len(down) \in 1 .. Len(b) /\ down'[i] = b[i - Len(down)])
  <2>1. down \in Seq(Cells) /\ b \in Seq(Cells)
    BY <1>3, <1>7
  <2>2. /\ Len(down \o b) = Len(down) + Len(b)
        /\ \A i \in 1 .. Len(down) : (down \o b)[i] = down[i]
        /\ \A i \in 1 .. Len(down) + Len(b) :
              i \in 1 .. Len(down) \/ (i - Len(down) \in 1 .. Len(b) /\ (down \o b)[i] = b[i - Len(down)])
    BY ONLY <2>1, Glue
  <2> QED BY ONLY <1>8, <2>2
<1>10. /\ Len(down) = 1 + a /\ Len(b) = k /\ a \in Nat /\ k \in Nat /\ 1 \in 1 .. Len(down)
       /\ Len(down') = 1 + a + k
  BY <1>3, <1>5, <1>6, <1>7, <1>9
<1>11. OneAnswer'
  <2> SUFFICES ASSUME NEW i \in 1 .. Len(down')
               PROVE  /\ i = 1 => down'[i].part = "head" /\ down'[i].id = 1
                      /\ i > 1 => down'[i] = Cell(1, "body", i - 1)
    BY DEF OneAnswer
  <2>1. CASE i \in 1 .. Len(down)
    BY <1>0, <1>9, <2>1 DEF Alone, OneAnswer
  <2>2. CASE i - Len(down) \in 1 .. Len(b) /\ down'[i] = b[i - Len(down)]
    <3>1. i - Len(down) \in 1 .. k /\ i # 1 /\ a + (i - Len(down)) = i - 1
      BY <1>10, <2>2
    <3> QED BY <1>7, <2>2, <3>1
  <2> QED BY <1>9, <2>1, <2>2
<1>12. Len(down') = 1 + (resp'.len - left') /\ down'[1].n = resp'.len
  <2>1. down'[1] = down[1]
    BY <1>9, <1>10
  <2>2. Len(down') = 1 + (resp.len - (left - k))
    BY <1>3, <1>5, <1>10
  <2> QED BY <1>1, <1>2, <1>3, <2>1, <2>2
<1>13. Alone'
  BY <1>0, <1>1, <1>3, <1>4, <1>11, <1>12 DEF Alone, WriteKeeps, Unanswered
<1>14. FirstRead'
  BY <1>0, <1>1 DEF FirstRead, FirstCall, WriteKeeps, Valid, Sending
<1>15. LaterCalls'
  BY <1>0, <1>1, <1>4 DEF LaterCalls, WriteKeeps
<1> QED BY <1>13, <1>14, <1>15 DEF Caller

\* A file is at its end: it is complete unless the client left or the session
\* gave up on it.
LEMMA EndsCaller ==
    ASSUME Basic, Steady, Caller, mode = "HttpClient", WriteKeeps, UNCHANGED << down, resp, left >>,
           pc \in Sending, pc' \in {"headers", "ws", "ended", "sendfile"}, abandoned \subseteq abandoned',
           pc' # "sendfile" => left = 0 \/ ~open \/ GivesUp
    PROVE  Caller'
<1>0. TInv /\ Alone /\ FirstRead /\ LaterCalls
  BY DEF Basic, Caller
<1>1. /\ cur.id # 0 /\ resp.len \in Nat /\ left \in Nat /\ open \in BOOLEAN
      /\ Len(down) = 1 + (resp.len - left) /\ down[1].n = resp.len
  BY <1>0 DEF TInv, TypeOK, Kinds, Alone, Sending
<1>2. cur.id = 1 /\ Len(sent) = 1 /\ sent # <<>> /\ (Valid(sent[1]) => up = <<>>)
  BY <1>0, <1>1, Drained DEF Gone, Sending
<1>3. Alone'
  BY <1>0, <1>1, <1>2 DEF Alone, OneAnswer, WriteKeeps, Unanswered
<1>4. left = 0 => Len(down) = 1 + down[1].n
  BY <1>1
<1>5. FirstRead'
  <2>1. GivesUp => 1 \in abandoned'
    BY <1>2 DEF GivesUp
  <2> QED BY <1>0, <1>1, <1>2, <1>4, <2>1 DEF FirstRead, FirstCall, WriteKeeps, Valid, Sending
<1>6. LaterCalls'
  BY <1>0, <1>2 DEF LaterCalls, WriteKeeps
<1> QED BY <1>3, <1>5, <1>6 DEF Caller

\* do_write: the answer is written in one way or the other.
LEMMA WriteCaller ==
    ASSUME Basic, Steady, Caller, mode = "HttpClient", do_write
    PROVE  Caller'
<1>0. TInv /\ Measured /\ Alone
  BY DEF Basic, Caller
<1>1. /\ resp.after \in {"headers", "ws", "ended"} /\ resp.len \in Nat /\ left \in Nat
      /\ left <= resp.len \/ pc \notin Sending
      /\ cur.id <= 1 /\ (pc \notin {"headers", "ended"} => cur.id # 0)
      /\ disk \in Sizes \cup {Absent} /\ open \in BOOLEAN
  BY <1>0 DEF TInv, TypeOK, Kinds, Alone, Afters
<1>2. GivesUp => abandoned \subseteq abandoned'
  BY DEF GivesUp
<1>3. CASE write_file_response
  <2>1. WriteKeeps /\ pc = "write" /\ abandoned' = abandoned
    BY <1>3, UnreadIs DEF write_file_response
  <2>2. CASE ~tls /\ resp.len > 0
    BY <1>1, <1>3, <2>1, <2>2, HeadCaller DEF write_file_response, prepare_headers, Sending
  <2>3. CASE ~(~tls /\ resp.len > 0)
    <3>1. pc' = "stream_open" /\ down' = down /\ down = <<>>
      BY <1>0, <1>3, <2>1, <2>3 DEF write_file_response, Alone, Unanswered
    <3> QED BY <1>0, <1>1, <2>1, <3>1, QuietCaller DEF WriteKeeps, Sending
  <2> QED BY <2>2, <2>3
<1>4. CASE stream_open
  <2>1. WriteKeeps /\ pc = "stream_open"
    BY <1>4, UnreadIs DEF stream_open
  <2>2. CASE pc' = resp.after /\ GivesUp /\ UNCHANGED << down, resp, left >>
    <3>1. pc' = resp.after /\ down' = down /\ down = <<>>
      BY <1>0, <2>1, <2>2 DEF Alone, Unanswered
    <3>2. sent # <<>> /\ (Valid(sent[1]) => up = <<>>)
      BY <1>0, <1>1, <2>1, Drained DEF Gone
    <3> QED BY <1>0, <1>1, <1>2, <2>1, <2>2, <3>1, <3>2, QuietCaller DEF WriteKeeps, Sending
  <2>3. CASE /\ disk # Absent /\ down' = down \o prepare_headers(disk)
             /\ pc' = "stream" /\ left' = disk /\ resp' = [resp EXCEPT !.len = disk]
    <3>1. disk \in Nat
      BY <1>1, <2>3, HttpAssumption
    <3>2. /\ pc' = "stream" /\ left' = disk
          /\ down' = down \o << Cell(cur.id, "head", disk) >>
      BY <2>3 DEF prepare_headers
    <3>3. resp'.len = disk
      BY <1>0, <2>3 DEF TInv, Kinds
    <3> QED BY <2>1, <3>1, <3>2, <3>3, HeadCaller DEF Sending
  <2> QED BY <1>4, <2>2, <2>3 DEF stream_open
<1>5. CASE sendfile_open
  <2>1. /\ WriteKeeps /\ pc = "sendfile_open" /\ UNCHANGED << down, resp, left >>
        /\ (pc' = "sendfile" /\ UNCHANGED abandoned) \/ (pc' = resp.after /\ GivesUp)
    BY <1>5, UnreadIs DEF sendfile_open
  <2> QED BY <1>1, <1>2, <2>1, EndsCaller DEF Sending
<1>6. CASE SendEnds \/ StreamEnds
  <2>1. /\ WriteKeeps /\ UNCHANGED << down, resp, left >> /\ pc \in {"sendfile", "stream"}
        /\ pc' \in {resp.after, "ended"}
        /\ (left = 0 /\ UNCHANGED abandoned) \/ GivesUp
    BY <1>6, UnreadIs DEF SendEnds, StreamEnds
  <2> QED BY <1>1, <1>2, <2>1, EndsCaller DEF Sending
<1>7. CASE WriteFails
  <2>1. /\ WriteKeeps /\ UNCHANGED << down, resp, left >> /\ pc \in {"write", "stream_open", "stream"}
        /\ pc' = "ended" /\ ~open /\ abandoned' = abandoned
    BY <1>7, UnreadIs DEF WriteFails
  <2>2. CASE pc = "stream"
    BY <2>1, <2>2, EndsCaller DEF Sending
  <2>3. CASE pc # "stream"
    BY <1>0, <1>1, <2>1, <2>3, QuietCaller DEF WriteKeeps, Sending, Unanswered
  <2> QED BY <2>2, <2>3
<1> QED BY <1>3, <1>4, <1>5, <1>6, <1>7, RegularCaller, PieceCaller DEF do_write

\* send_request: the first request of a connection, or one the session does
\* not see any more.
LEMMA SendCaller ==
    ASSUME Basic, Steady, Caller, NEW q \in Requests, send_request(q)
    PROVE  Caller'
<1>0. TInv /\ mode = "HttpClient" /\ Alone
  BY DEF Basic, Caller, send_request
<1>1. /\ Put(q) /\ open /\ call = "idle" /\ call' = "reading" /\ from' = Len(down)
      /\ UNCHANGED << mode, tls, open, down, pc, buf, cur, body, seen, resp, left, disk, abandoned >>
  BY DEF send_request, readVars, fileVars
<1>2. /\ sent \in Seq(Requests) /\ Len(sent) \in Nat /\ Len(sent') = Len(sent) + 1
  BY <1>0, <1>1, PutFacts
<1>3. sent' # <<>> /\ Len(sent') # 0
  BY <1>2
<1>4. sent = <<>> \/ pc = "ended"
  BY <1>0, <1>1 DEF Steady
<1>5. Alone'
  <2>1. pc # "ended" => Len(sent') <= 1
    BY <1>2, <1>4
  <2> QED BY <1>0, <1>1, <1>3, <2>1 DEF Alone, OneAnswer
<1>6. Len(sent') = 1 => pc = "headers" /\ down = <<>>
  <2> SUFFICES ASSUME Len(sent') = 1 PROVE pc = "headers" /\ down = <<>>
    OBVIOUS
  <2>1. Len(sent) = 0
    <3>1. Len(sent) \in Nat /\ 1 = Len(sent) + 1
      BY <1>2
    <3> QED BY ONLY <3>1
  <2>2. sent = <<>>
    BY <1>2, <2>1
  <2>3. pc # "ended"
    BY <1>0, <1>1, <2>2 DEF Alone
  <2>4. cur.id \in 0 .. 0
    BY <1>0, <2>1 DEF TInv, TypeOK
  <2>5. cur.id = 0
    BY <2>4
  <2> QED BY <1>0, <2>3, <2>5 DEF TInv, Kinds, Alone
<1>7. FirstRead'
  <2>1. Len(<<>>) = 0
    OBVIOUS
  <2> QED BY <1>1, <1>6, <2>1 DEF FirstRead, FirstCall
<1>8. LaterCalls'
  BY <1>1, <1>3 DEF LaterCalls
<1> QED BY <1>5, <1>7, <1>8 DEF Caller

\* read_response returns the answer to the first call, and nothing to others.
LEMMA ReturnStep ==
    ASSUME Basic, Caller, Returned, read_response
    PROVE  Returned'
<1>0. /\ TInv /\ mode = "HttpClient" /\ Alone /\ FirstRead /\ LaterCalls
      /\ call = "reading" /\ pc = "ended"
  BY DEF Basic, Returned, Caller, read_response
<1>1. PICK end \in from .. Len(down) :
        (end = Len(down) \/ up # <<>>) /\ Return(SubSeq(down, from + 1, end))
  BY DEF read_response
<1> DEFINE data == SubSeq(down, from + 1, end)
           r == [id |-> Len(sent), data |-> data]
<1>2. /\ returned' = Append(returned, r) /\ call' = "idle"
      /\ UNCHANGED << sent, down, from, abandoned >>
  BY <1>1 DEF Return, fileVars
<1>3. /\ down \in Seq(Cells) /\ Len(down) \in Nat /\ from \in Nat /\ end \in Nat /\ end <= Len(down)
      /\ from <= end /\ Len(sent) \in Nat /\ Len(sent) # 0
      /\ returned \in Seq(Results) /\ Len(returned) \in Nat
  <2>1. down \in Seq(Cells) /\ from \in Nat /\ Len(sent) \in Nat /\ Len(sent) # 0
        /\ returned \in Seq(Results)
    BY <1>0 DEF TInv, TypeOK, Kinds, Returned, LaterCalls
  <2> QED BY <1>1, <2>1
<1>4. /\ data \in Seq(Cells)
      /\ data # <<>> => /\ Len(sent) = 1 /\ data[1].part = "head" /\ data[1].id = 1
                        /\ 1 \notin abandoned /\ Valid(sent[1]) =>
                             data = << data[1] >> \o Bytes(1, 0, data[1].n)
  <2>1. CASE Len(sent) = 1
    <3>1. from = 0 /\ from + 1 = 1 /\ end \in 0 .. Len(down)
      BY <1>0, <1>3, <2>1 DEF FirstRead, FirstCall
    <3>2. data = SubSeq(down, 1, end)
      BY <3>1
    <3> HIDE DEF data
    <3>3. data \in Seq(Cells) /\ Len(data) = end /\ \A i \in 1 .. end : data[i] = down[i]
      BY ONLY <1>3, <3>1, <3>2, Cut
    <3>4. ASSUME data # <<>>
          PROVE  1 \in 1 .. end /\ 1 \in 1 .. Len(down) /\ data[1] = down[1] /\ data[1] \in Cells
                 /\ data[1].part = "head" /\ data[1].id = 1
      <4>1. end # 0
        BY <3>3, <3>4
      <4>2. 1 \in 1 .. end /\ 1 \in 1 .. Len(down)
        BY <1>3, <4>1
      <4>3. data[1] = down[1] /\ down[1] \in Cells
        BY <1>3, <3>3, <4>2, ElementOfSeq
      <4>4. down[1].part = "head" /\ down[1].id = 1
        BY <1>0, <4>2 DEF Alone, OneAnswer
      <4> QED BY <4>2, <4>3, <4>4
    <3>5. ASSUME data # <<>>, 1 \notin abandoned, Valid(sent[1])
          PROVE  data = << data[1] >> \o Bytes(1, 0, data[1].n)
      <4>1. end = Len(down)
        BY <1>0, <1>1, <2>1, <3>5 DEF FirstRead, FirstCall
      <4>2. PICK c \in Cells : c = data[1] /\ c = down[1]
        BY <3>4, <3>5
      <4>3. c.n \in Nat
        BY DEF Cells
      <4>4. Len(down) = 1 + c.n
        <5>1. down # <<>>
          BY <3>4, <3>5
        <5> QED BY <1>0, <2>1, <3>5, <4>2, <5>1 DEF FirstRead, FirstCall, Sending
      <4> DEFINE t == << c >> \o Bytes(1, 0, c.n)
      <4>5. /\ t \in Seq(Cells) /\ Len(t) = 1 + c.n /\ t[1] = c
            /\ \A i \in 2 .. 1 + c.n : t[i] = Cell(1, "body", i - 1)
        <5>1. \A n \in Nat : /\ << c >> \o Bytes(1, 0, n) \in Seq(Cells)
                             /\ Len(<< c >> \o Bytes(1, 0, n)) = 1 + n
                             /\ (<< c >> \o Bytes(1, 0, n))[1] = c
                             /\ \A i \in 2 .. 1 + n : (<< c >> \o Bytes(1, 0, n))[i] = Cell(1, "body", i - 1)
          BY WholeAnswer
        <5> QED BY ONLY <4>3, <5>1, Zenon
      <4> HIDE DEF t
      <4>6. ASSUME NEW i \in 1 .. Len(data) PROVE data[i] = t[i]
        <5>1. CASE i = 1
          BY <4>2, <4>5, <5>1
        <5>2. CASE i # 1
          <6>1. i \in 2 .. 1 + c.n /\ i \in 1 .. Len(down) /\ i > 1
            BY <3>3, <4>1, <4>3, <4>4, <5>2
          <6>2. down[i] = Cell(1, "body", i - 1)
            BY <1>0, <6>1 DEF Alone, OneAnswer
          <6> QED BY <3>3, <4>1, <4>5, <6>1, <6>2
        <5> QED BY <5>1, <5>2
      <4>7. data = t
        BY <3>3, <4>1, <4>4, <4>5, <4>6, SeqEqual
      <4> QED BY <4>2, <4>7 DEF t
    <3> QED BY <2>1, <3>3, <3>4, <3>5
  <2>2. CASE Len(sent) # 1
    <3>1. from = Len(down) /\ end = Len(down) /\ end < from + 1
      BY <1>0, <1>3, <2>2 DEF LaterCalls
    <3>2. data = <<>>
      BY <1>3, <3>1, SubSeqEmpty
    <3>3. <<>> \in Seq(Cells)
      OBVIOUS
    <3> HIDE DEF data
    <3> QED BY ONLY <3>2, <3>3
  <2> QED BY <2>1, <2>2
<1> HIDE DEF data
<1>5. r \in Results /\ r.id = Len(sent) /\ r.data = data
  BY <1>3, <1>4 DEF Results
<1> HIDE DEF r
<1>6. /\ returned' \in Seq(Results) /\ Len(returned') = Len(returned) + 1
      /\ \A i \in 1 .. Len(returned) : returned'[i] = returned[i]
      /\ returned'[Len(returned) + 1] = r
  BY <1>2, <1>3, <1>5, AppendProperties
<1>7. ASSUME NEW i \in 1 .. Len(returned')
      PROVE  (i \in 1 .. Len(returned) /\ returned'[i] = returned[i]) \/ returned'[i] = r
  <2>1. i \in 1 .. Len(returned) \/ i = Len(returned) + 1
    BY <1>3, <1>6
  <2> QED BY <1>6, <2>1
<1>8. ASSUME NEW i \in 1 .. Len(returned') PROVE returned'[i].id \in 1 .. Len(sent')
  <2>1. r.id \in 1 .. Len(sent)
    BY <1>3, <1>5
  <2> QED BY <1>2, <1>7, <2>1 DEF Returned
<1>9. OwnAnswerOrNothing'
  <2> SUFFICES ASSUME NEW i \in 1 .. Len(returned'), returned'[i].data # <<>>
               PROVE  /\ returned'[i].data[1].part = "head"
                      /\ returned'[i].data[1].id = returned'[i].id
                      /\ returned'[i].id \notin abandoned /\ Valid(sent[returned'[i].id]) =>
                           returned'[i].data = << returned'[i].data[1] >>
                                               \o Bytes(returned'[i].id, 0, returned'[i].data[1].n)
    BY <1>2 DEF OwnAnswerOrNothing, Valid
  <2>1. CASE i \in 1 .. Len(returned) /\ returned'[i] = returned[i]
    BY <2>1 DEF Returned, OwnAnswerOrNothing
  <2>2. CASE returned'[i] = r
    <3>1. data # <<>>
      BY <1>5, <2>2
    <3>2. r.id = 1 /\ r.data = data /\ Len(sent) = 1
      BY <1>4, <1>5, <3>1
    <3> QED BY <1>4, <2>2, <3>1, <3>2
  <2> QED BY <1>7, <2>1, <2>2
<1> QED BY <1>2, <1>3, <1>6, <1>8, <1>9 DEF Returned

\* No call was made at first.
LEMMA OwnStart == Init => Caller /\ Returned
<1> SUFFICES ASSUME Init PROVE Caller /\ Returned
  OBVIOUS
<1>1. /\ sent = <<>> /\ down = <<>> /\ pc = "headers" /\ cur.id = 0 /\ call = "idle" /\ from = 0
      /\ returned = <<>>
  BY DEF Init
<1>2. Len(<<>>) = 0 /\ <<>> \in Seq(Results)
  OBVIOUS
<1>3. Alone
  BY <1>1, <1>2 DEF Alone, OneAnswer, Sending
<1> QED BY <1>1, <1>2, <1>3 DEF Caller, Returned, FirstRead, FirstCall, LaterCalls, OwnAnswerOrNothing

\* One case for each action.
LEMMA OwnNext == Basic /\ Steady /\ Caller /\ Returned /\ [Next]_vars => (Caller /\ Returned)'
<1> SUFFICES ASSUME Basic, Steady, Caller, Returned, [Next]_vars PROVE Caller' /\ Returned'
  OBVIOUS
<1>0. /\ TInv /\ Len(sent) \in Nat /\ sent \in Seq(Requests) /\ from \in Nat
      /\ call = "reading" => mode = "HttpClient"
  BY DEF Basic, TInv, TypeOK, Returned
<1>1. CASE server
  <2>1. UNCHANGED << mode, sent, call, from, returned >> /\ abandoned \subseteq abandoned'
    <3>1. CASE do_read
      BY <3>1 DEF do_read, ReadSome, co_read_headers, co_read_body, ReadFails, fileVars, clientVars
    <3>2. CASE process_session
      BY <3>2 DEF process_session, fileVars, clientVars
    <3>3. CASE do_write
      <4>1. Unread
        BY <3>3 DEF do_write, write_regular_response, write_file_response, sendfile_open, stream_open,
                    SendPiece, SendEnds, StreamEnds, WriteFails
      <4>2. UNCHANGED abandoned \/ GivesUp
        BY <3>3 DEF do_write, write_regular_response, write_file_response, sendfile_open, stream_open,
                    SendPiece, SendEnds, StreamEnds, WriteFails
      <4>3. abandoned \subseteq abandoned'
        BY <4>2 DEF GivesUp
      <4> QED BY <4>1, <4>3, UnreadIs DEF WriteKeeps
    <3> QED BY <1>1, <3>1, <3>2, <3>3 DEF server
  <2>2. Returned'
    BY <1>0, <2>1, ReturnedKept
  <2>3. Caller'
    <3>1. CASE mode = "HttpClient"
      BY <1>1, <3>1, ReadCaller, HandleCaller, WriteCaller DEF server
    <3> QED BY <2>1, <3>1 DEF Caller
  <2> QED BY <2>2, <2>3
<1>2. ASSUME NEW q \in Requests, Send(q) \/ send_request(q) PROVE Caller' /\ Returned'
  <2>1. Put(q) /\ UNCHANGED << mode, abandoned, returned >> /\ from' \in {from, Len(down)}
        /\ (call' = "reading" => mode = "HttpClient")
    BY <1>0, <1>2 DEF Send, send_request, fileVars, clientVars
  <2>2. /\ Len(sent') = Len(sent) + 1 /\ \A i \in 1 .. Len(sent) : sent'[i] = sent[i]
    BY <1>0, <2>1, PutFacts
  <2>3. Len(sent) <= Len(sent') /\ Len(sent') \in Nat
    BY <1>0, <2>2
  <2>4. from' \in Nat
    BY <1>0, <2>1 DEF TInv, Kinds
  <2>5. Returned'
    BY <1>0, <2>1, <2>2, <2>3, <2>4, ReturnedKept
  <2>6. Caller'
    <3>1. CASE Send(q)
      BY <2>1, <3>1 DEF Send, Caller
    <3> QED BY <1>2, <3>1, SendCaller
  <2> QED BY <2>5, <2>6
<1>3. CASE read_response
  <2>1. UNCHANGED << mode, open, sent, up, down, pc, cur, resp, left, abandoned, from >> /\ call' = "idle"
    BY <1>3 DEF read_response, Return, readVars, fileVars
  <2>2. Caller'
    BY <2>1 DEF Caller, Alone, OneAnswer, FirstRead, FirstCall, LaterCalls
  <2> QED BY <1>3, <2>2, ReturnStep
<1>4. CASE WriteThrows \/ Reuse \/ Close \/ ChangeFile \/ UNCHANGED vars
  <2>1. /\ UNCHANGED << mode, sent, up, down, pc, cur, resp, left, from, returned >>
        /\ abandoned' = abandoned
        /\ call' = call \/ call' = "failed"
        /\ open' = open \/ (open' = FALSE /\ call # "reading" /\ call' = call)
    <3>1. CASE WriteThrows
      BY <3>1 DEF WriteThrows, readVars, fileVars
    <3>2. CASE Reuse
      BY <3>2 DEF Reuse, readVars, fileVars
    <3>3. CASE Close
      BY <3>3 DEF Close, readVars, fileVars, clientVars
    <3>4. CASE ChangeFile
      BY <3>4 DEF ChangeFile, readVars, clientVars
    <3>5. CASE UNCHANGED vars
      BY <3>5 DEF vars, readVars, fileVars, clientVars
    <3> QED BY <1>4, <3>1, <3>2, <3>3, <3>4, <3>5
  <2>2. Returned'
    BY <1>0, <2>1, ReturnedKept
  <2>3. Caller'
    <3>1. Alone => Alone'
      BY <2>1 DEF Alone, OneAnswer
    <3>2. FirstRead => FirstRead'
      BY <2>1 DEF FirstRead, FirstCall, Valid
    <3>3. LaterCalls => LaterCalls'
      BY <2>1 DEF LaterCalls
    <3> QED BY <2>1, <3>1, <3>2, <3>3 DEF Caller
  <2> QED BY <2>2, <2>3
<1> QED BY <1>1, <1>2, <1>3, <1>4 DEF Next, client

\* HttpClient::read_response returns the answer to the request of its own
\* call, complete unless the session gave up on a file, or nothing.
THEOREM OwnAnswer == Spec => []OwnAnswerOrNothing
<1>1. Returned => OwnAnswerOrNothing
  BY DEF Returned
<1> QED BY <1>1, HttpInvariance, PeerInvariance, OwnStart, OwnNext, PTL DEF Spec

=============================================================================
