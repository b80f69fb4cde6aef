---------------------------- MODULE HttpSession ----------------------------
(***************************************************************************)
(* One HTTP connection: Server::process_session with the helpers that read *)
(* requests and write responses (server.cpp, io_helpers.h), and a client   *)
(* at the other end, which may be HttpClient (http_client.cpp).            *)
(*                                                                         *)
(* The bytes of the connection are cells.  A request is a request line,    *)
(* the fields with the empty line that ends them, and the bytes of a body; *)
(* a response is a head and the bytes of a body.  TCP may deliver any      *)
(* number of cells at a time.  A body contains no white space, and Host is *)
(* the first field: it is what a lost request line is replaced by.         *)
(***************************************************************************)
EXTENDS Naturals, Sequences, FiniteSets

CONSTANTS
    Requests,     \* the requests a client may send, see Request
    MaxRequests,  \* bound on the requests of one connection
    Sizes,        \* the sizes a served file may have
    TextSize,     \* the size of a response that is not a file
    Absent        \* "size" of a file that does not exist

\* target: what the path leads to; "ws_bad" is an upgrade without a route or
\* with an empty key.  body: the number of bytes of the body.  length:
\* Content-Length is a number, missing, no number, or more than a string can
\* hold (as "-1" is, which wraps around).  says: the number, right or wrong.
Upgrades == {"ws", "ws_bad"}
Targets == {"text", "throws", "file"} \cup Upgrades
Request == [target : Targets, body : Nat, length : {"number", "none", "bad", "huge"},
            says : Nat, close : BOOLEAN]

\* A client that sends a body also says how long it is, rightly or not.
ASSUME HttpAssumption ==
    /\ Requests \subseteq Request /\ MaxRequests \in Nat /\ TextSize \in Nat \ {0}
    /\ Sizes \subseteq Nat /\ Absent \notin Nat
    /\ \A q \in Requests : q.body > 0 => q.length # "none"

VARIABLES
    mode,      \* how the client behaves: it waits for the answer before it
               \* sends again, it pipelines, or it is an HttpClient
    tls,       \* the connection is encrypted
    open,      \* the client has not closed the connection
    sent,      \* the requests sent so far
    up,        \* cells on their way to the server
    down,      \* all cells the server has written
    pc,        \* where the session is
    buf,       \* the streambuf of do_read
    cur,       \* the request being handled
    body,      \* its body, as far as it has been read
    seen,      \* history: what handle_request or the upgrade was given
    resp,      \* the response
    left,      \* bytes of the file still to be sent
    disk,      \* the size of the served file, or Absent
    abandoned, \* history: the requests whose file the session gave up on
    call,      \* the call of HttpClient that is running
    from,      \* the length of down when that call began
    stopped,   \* HttpClient::stopped
    returned   \* what the calls have returned

clientVars == << call, from, stopped, returned >>
fileVars == << disk, abandoned >>
readVars == << buf, cur, body >>
vars == << mode, tls, open, sent, up, down, pc, readVars, seen, resp, left,
           fileVars, clientVars >>

Cell(id, part, n) == [id |-> id, part |-> part, n |-> n]
Bytes(id, a, b) == [i \in 1 .. b - a |-> Cell(id, "body", a + i)]
Lesser(a, b) == IF a <= b THEN a ELSE b

-----------------------------------------------------------------------------
(* What request number id looks like on the wire (Request::to_string). *)
Wire(id, q) ==
    << Cell(id, "line", 0), Cell(id, "fields", 0) >> \o Bytes(id, 0, q.body)

Init ==
    /\ mode \in {"waits", "pipelines", "HttpClient"} /\ tls \in BOOLEAN
    /\ open = TRUE /\ sent = <<>> /\ up = <<>> /\ down = <<>>
    /\ pc = "headers" /\ buf = <<>> /\ cur = [id |-> 0, path |-> FALSE, whole |-> FALSE]
    /\ body = <<>> /\ seen = <<>>
    /\ resp = [len |-> 0, file |-> FALSE, after |-> "headers"] /\ left = 0
    /\ disk \in Sizes /\ abandoned = {}
    /\ call = "idle" /\ from = 0 /\ stopped = FALSE /\ returned = <<>>

-----------------------------------------------------------------------------
(* Reading a request: do_read *)

\* Where the header text in s ends.
HeaderEnds(s) == {i \in 1 .. Len(s) : s[i].part = "fields"}

\* async_read_until reads what has arrived until the empty line is there; it
\* may read more.
ReadSome ==
    /\ pc = "headers" /\ HeaderEnds(buf) = {}
    /\ \E k \in 1 .. Len(up) :
          /\ buf' = buf \o SubSeq(up, 1, k)
          /\ up' = SubSeq(up, k + 1, Len(up))
    /\ UNCHANGED << mode, tls, open, sent, down, pc, cur, body, seen, resp, left,
                    fileVars, clientVars >>

\* The fields survive whatever is in front of them; the path needs its line,
\* and the method a line with nothing in front.
parse_http_request(text) ==
    LET id == text[Len(text)].id
        line == Cell(id, "line", 0) IN
    [id |-> id, path |-> \E i \in 1 .. Len(text) : text[i] = line,
     whole |-> text = << line, Cell(id, "fields", 0) >>]

\* Fault: the field is looked up under another spelling and never found.
Fault_content_length(id) == 0

\* An invalid Content-Length counts as none, and none as 0.
content_length(id) == IF sent[id].length = "number" THEN sent[id].says ELSE 0

\* Fault: the bytes of the body that came with the header are read but not
\* counted.
Fault_co_read_headers ==
    /\ pc = "headers" /\ HeaderEnds(buf) # {}
    /\ LET end == CHOOSE i \in HeaderEnds(buf) : \A j \in HeaderEnds(buf) : i <= j
           req == parse_http_request(SubSeq(buf, 1, end)) IN
       /\ cur' = req /\ body' = <<>>
       /\ pc' = IF content_length(req.id) = 0 THEN "handle" ELSE "body"
    /\ buf' = <<>>
    /\ UNCHANGED << mode, tls, open, sent, up, down, seen, resp, left, fileVars, clientVars >>

\* co_read_headers and the start of co_read_body: the header text leaves the
\* buffer, then as much of the body as is there.  What is left in the buffer
\* when do_read returns is lost with it.  No string for the body, no request:
\* the exception leaves the loop of the session.
co_read_headers ==
    /\ pc = "headers" /\ HeaderEnds(buf) # {}
    /\ LET end == CHOOSE i \in HeaderEnds(buf) : \A j \in HeaderEnds(buf) : i <= j
           req == parse_http_request(SubSeq(buf, 1, end))
           already == Lesser(content_length(req.id), Len(buf) - end) IN
       /\ cur' = req
       /\ body' = SubSeq(buf, end + 1, end + already)
       /\ pc' = CASE sent[req.id].length = "huge" -> "ended"
                  [] already = content_length(req.id) -> "handle"
                  [] OTHER -> "body"
    /\ buf' = <<>>
    /\ UNCHANGED << mode, tls, open, sent, up, down, seen, resp, left, fileVars, clientVars >>

\* Fault: a read takes all that has arrived.
Fault_co_read_body ==
    /\ pc = "body"
    /\ \E k \in 1 .. Len(up) :
          /\ body' = body \o SubSeq(up, 1, k)
          /\ up' = SubSeq(up, k + 1, Len(up))
    /\ pc' = IF Len(body') >= content_length(cur.id) THEN "handle" ELSE "body"
    /\ UNCHANGED << mode, tls, open, sent, down, buf, cur, seen, resp, left,
                    fileVars, clientVars >>

\* The rest of the body comes straight from the socket, and if Content-Length
\* is too large, from the next request.
co_read_body ==
    /\ pc = "body"
    /\ \E k \in 1 .. Lesser(Len(up), content_length(cur.id) - Len(body)) :
          /\ body' = body \o SubSeq(up, 1, k)
          /\ up' = SubSeq(up, k + 1, Len(up))
    /\ pc' = IF Len(body') = content_length(cur.id) THEN "handle" ELSE "body"
    /\ UNCHANGED << mode, tls, open, sent, down, buf, cur, seen, resp, left,
                    fileVars, clientVars >>

\* The client has closed the connection: the exception of a read leaves the loop.
ReadFails ==
    /\ pc \in {"headers", "body"} /\ up = <<>> /\ ~open /\ HeaderEnds(buf) = {}
    /\ pc' = "ended"
    /\ UNCHANGED << mode, tls, open, sent, up, down, readVars, seen, resp, left,
                    fileVars, clientVars >>

do_read == ReadSome \/ co_read_headers \/ co_read_body \/ ReadFails

-----------------------------------------------------------------------------
(* Answering it: process_session, handle_request *)

Text(len, after) == [len |-> len, file |-> FALSE, after |-> after]
File(len, after) == [len |-> len, file |-> TRUE, after |-> after]

\* An upgrade is refused, and the connection closed, unless it has a key and
\* its path a route.
upgrade(q) ==
    IF q.target = "ws" /\ cur.path THEN Text(0, "ws") ELSE Text(TextSize, "ended")

\* Fault: "Connection: close" is not looked at.
Fault_keep_alive(q) == "headers"

\* What the session does once the response is written.
keep_alive(q) == IF q.close THEN "ended" ELSE "headers"

\* A request whose method is unknown finds no handler and no file.
handle_request(q) ==
    IF cur.whole /\ q.target = "file" /\ disk # Absent
    THEN File(disk, keep_alive(q))
    ELSE Text(TextSize, keep_alive(q))

\* A handler that throws ends the session, and so does file_size, which throws
\* for a directory and when the file cannot be examined.
process_session ==
    /\ pc = "handle"
    /\ LET q == sent[cur.id] IN
       /\ resp' = IF q.target \in Upgrades THEN upgrade(q) ELSE handle_request(q)
       /\ \/ pc' = "write" /\ ~(q.target = "throws" /\ cur.whole)
          \/ pc' = "ended" /\ q.target \in {"throws", "file"} /\ cur.whole
    /\ seen' = Append(seen, [id |-> cur.id, whole |-> cur.whole, body |-> body])
    /\ body' = <<>>
    /\ UNCHANGED << mode, tls, open, sent, up, down, buf, cur, left, fileVars, clientVars >>

-----------------------------------------------------------------------------
(* Writing the response: do_write *)

Unread == UNCHANGED << mode, tls, open, sent, up, readVars, seen, disk, clientVars >>

\* The session gives up on the file it serves, for whatever reason.
GivesUp == abandoned' = abandoned \cup {cur.id}

\* prepare_headers announces the size of the body unless the handler did.
prepare_headers(len) == << Cell(cur.id, "head", len) >>

write_regular_response ==
    /\ pc = "write" /\ ~resp.file
    /\ down' = down \o prepare_headers(resp.len) \o Bytes(cur.id, 0, resp.len)
    /\ pc' = resp.after
    /\ UNCHANGED << resp, left, abandoned >> /\ Unread

\* Plain connections: the head announces the size found by serve_static, and
\* sendfile opens the file after the head is written.
write_file_response ==
    /\ pc = "write" /\ resp.file
    /\ IF ~tls /\ resp.len > 0
       THEN /\ down' = down \o prepare_headers(resp.len)
            /\ pc' = "sendfile_open" /\ left' = resp.len
       ELSE pc' = "stream_open" /\ UNCHANGED << down, left >>
    /\ UNCHANGED << resp, abandoned >> /\ Unread

\* The file may be gone, and open may fail with the file in place.  The head
\* has been sent, and the session goes on.
sendfile_open ==
    /\ pc = "sendfile_open"
    /\ \/ pc' = "sendfile" /\ disk # Absent /\ UNCHANGED abandoned
       \/ pc' = resp.after /\ GivesUp
    /\ UNCHANGED << down, resp, left >> /\ Unread

\* Fault: when sendfile has not sent everything the session falls through to
\* the other way of sending a file, as it does on Windows.
Fault_SendEnds ==
    /\ pc = "sendfile"
    /\ \/ left = 0 /\ pc' = resp.after /\ UNCHANGED abandoned
       \/ left > 0 /\ pc' = "stream_open" /\ GivesUp
    /\ UNCHANGED << down, resp, left >> /\ Unread

\* sendfile has sent everything, or it meets the end of the file or fails with
\* any errno but EAGAIN.  The session goes on in any case.
SendEnds ==
    /\ pc = "sendfile"
    /\ \/ left = 0 /\ UNCHANGED abandoned
       \/ left > 0 /\ GivesUp
    /\ pc' = resp.after
    /\ UNCHANGED << down, resp, left >> /\ Unread

\* Encrypted ones, and empty files: the file is opened first, and the head
\* announces the size it has then.  If it cannot be opened or measured there
\* is no response, and the session goes on.
stream_open ==
    /\ pc = "stream_open"
    /\ \/ /\ disk # Absent
          /\ down' = down \o prepare_headers(disk)
          /\ pc' = "stream" /\ left' = disk /\ resp' = [resp EXCEPT !.len = disk]
          /\ UNCHANGED abandoned
       \/ pc' = resp.after /\ GivesUp /\ UNCHANGED << down, resp, left >>
    /\ Unread

\* Fault: an early end leaves the loop like the end of the copy.
Fault_StreamEnds ==
    /\ pc = "stream"
    /\ \/ left = 0 /\ UNCHANGED abandoned
       \/ left > 0 /\ GivesUp
    /\ pc' = resp.after
    /\ UNCHANGED << down, resp, left >> /\ Unread

\* The copy is done, or an early end of the file or an error of reading it is
\* an exception.
StreamEnds ==
    /\ pc = "stream"
    /\ \/ left = 0 /\ pc' = resp.after /\ UNCHANGED abandoned
       \/ left > 0 /\ pc' = "ended" /\ GivesUp
    /\ UNCHANGED << down, resp, left >> /\ Unread

\* A piece of the file, by sendfile or through a buffer.
SendPiece ==
    /\ pc \in {"sendfile", "stream"}
    /\ \E k \in 1 .. left :
          /\ resp.len - left + k <= disk
          /\ down' = down \o Bytes(cur.id, resp.len - left, resp.len - left + k)
          /\ left' = left - k
    /\ UNCHANGED << pc, resp, abandoned >> /\ Unread

\* A write to a client that has gone may fail; the exception ends the session.
WriteFails ==
    /\ pc \in {"write", "stream_open", "stream"} /\ ~open
    /\ pc' = "ended"
    /\ UNCHANGED << down, resp, left, abandoned >> /\ Unread

do_write ==
    \/ write_regular_response \/ write_file_response
    \/ sendfile_open \/ stream_open \/ SendPiece \/ SendEnds \/ StreamEnds \/ WriteFails

server == do_read \/ process_session \/ do_write

-----------------------------------------------------------------------------
(* The client and the file system *)

Heads == {i \in 1 .. Len(down) : down[i].part = "head"}

\* As many responses as requests, and the last one is complete.
AllAnswered ==
    /\ Cardinality(Heads) = Len(sent)
    /\ \A i \in Heads : i + down[i].n <= Len(down)

Put(q) ==
    /\ Len(sent) < MaxRequests
    /\ sent' = Append(sent, q)
    /\ up' = up \o Wire(Len(sent) + 1, q)

Send(q) ==
    /\ mode # "HttpClient" /\ open /\ pc \notin {"ended", "ws"}
    /\ mode = "waits" => AllAnswered
    /\ Put(q)
    /\ UNCHANGED << mode, tls, open, down, pc, readVars, seen, resp, left, fileVars, clientVars >>

\* get and post: nothing happens once stopped is set; otherwise the request is
\* written and read_response waits.  The caller's headers may override the
\* "Connection: close" and the Content-Length that send_request sets.
send_request(q) ==
    /\ mode = "HttpClient" /\ open /\ call = "idle" /\ ~stopped
    /\ Put(q)
    /\ call' = "reading" /\ from' = Len(down)
    /\ UNCHANGED << mode, tls, open, down, pc, readVars, seen, resp, left, fileVars,
                    stopped, returned >>

Return(data) ==
    /\ returned' = Append(returned, [id |-> Len(sent), data |-> data])
    /\ call' = "idle" /\ stopped' = TRUE
    /\ UNCHANGED << mode, tls, open, sent, up, down, pc, readVars, seen, resp, left,
                    fileVars, from >>

\* Fault: read_response returns when it has read the header.
Fault_read_response ==
    /\ call = "reading" /\ Len(down) > from
    /\ Return(SubSeq(down, from + 1, Len(down)))

\* Everything up to the end of the stream, whatever Content-Length says.  When
\* the server has left without reading all that was sent the connection may be
\* reset, and what had arrived by then is returned.
read_response ==
    /\ call = "reading" /\ pc = "ended"
    /\ \E end \in from .. Len(down) :
          /\ end = Len(down) \/ up # <<>>
          /\ Return(SubSeq(down, from + 1, end))

\* The write of a request to a connection the server has closed may throw.
WriteThrows ==
    /\ call = "reading" /\ pc = "ended" /\ up # <<>>
    /\ call' = "failed"
    /\ UNCHANGED << mode, tls, open, sent, up, down, pc, readVars, seen, resp, left,
                    fileVars, from, stopped, returned >>

\* http_client_example.cpp goes on with the same client.
Reuse ==
    /\ stopped /\ call = "idle"
    /\ stopped' = FALSE
    /\ UNCHANGED << mode, tls, open, sent, up, down, pc, readVars, seen, resp, left,
                    fileVars, call, from, returned >>

Close ==
    /\ open /\ call # "reading"
    /\ open' = FALSE
    /\ UNCHANGED << mode, tls, sent, up, down, pc, readVars, seen, resp, left,
                    fileVars, clientVars >>

\* The file is rewritten in place, removed or created.  A change at another
\* time is as good as one right before the request is handled, and the removal
\* of a file that is open is not seen by the session.
Serving ==
    \/ pc \in {"sendfile_open", "sendfile", "stream_open", "stream"}
    \/ (pc = "write" /\ resp.file)

ChangeFile ==
    /\ pc = "handle" \/ Serving
    /\ \E s \in Sizes \cup {Absent} : s # disk /\ disk' = s
    /\ disk' = Absent => pc \notin {"sendfile", "stream"}
    /\ UNCHANGED << mode, tls, open, sent, up, down, pc, readVars, seen, resp, left,
                    abandoned, clientVars >>

client == read_response \/ WriteThrows

Next ==
    \/ server \/ client \/ Reuse \/ Close \/ ChangeFile
    \/ \E q \in Requests : Send(q) \/ send_request(q)

Spec == Init /\ [][Next]_vars

\* The worker runs the session while it has something to do, and a caller of
\* HttpClient is not suspended for ever.  Nothing is assumed of the network
\* beyond that bytes arrive, nor of when clients send or close.
FairSpec == Spec /\ WF_vars(server) /\ WF_vars(client)

-----------------------------------------------------------------------------
(* Properties *)

\* The length of the request is what it says, or more bytes than it has are
\* expected of it.
Valid(q) == q.length = "none" \/ (q.length = "number" /\ q.says = q.body)
Overstated(q) == q.length = "number" /\ q.says > q.body

\* Every variable holds a value of its kind, and no more is read of a body
\* than its Content-Length says.
TypeOK ==
    /\ mode \in {"waits", "pipelines", "HttpClient"} /\ tls \in BOOLEAN /\ open \in BOOLEAN
    /\ sent \in Seq(Requests) /\ Len(sent) <= MaxRequests
    /\ pc \in {"headers", "body", "handle", "write", "sendfile_open", "sendfile",
               "stream_open", "stream", "ws", "ended"}
    /\ cur.id \in 0 .. Len(sent) /\ left \in Nat
    /\ pc \in {"body", "handle"} => Len(body) <= content_length(cur.id)
    /\ disk \in Sizes \cup {Absent} /\ abandoned \subseteq 1 .. Len(sent)
    /\ call \in {"idle", "reading", "failed"} /\ stopped \in BOOLEAN

\* Requests are answered in the order they were sent and none twice, however
\* the client pipelines, however its bytes are cut up, and whatever its
\* Content-Length says.
AnswersInOrder ==
    \A i, j \in Heads : i < j => down[i].id < down[j].id

\* A client that waits for its answers is understood: its i-th request is the
\* i-th one handled, with as much of its body as Content-Length says and no
\* byte of another request.  A Content-Length that is too small, or no number,
\* costs the next request its method, and nothing after that; a request whose
\* Content-Length is too large is never handled.
InStep ==
    mode # "pipelines" =>
        \A i \in 1 .. Len(seen) :
            /\ seen[i].id = i
            /\ (i = 1 \/ Valid(sent[i - 1])) => seen[i].whole
            /\ ~Overstated(sent[i]) /\ seen[i].body = Bytes(i, 0, content_length(i))

\* The head of a response is followed by exactly as many bytes as it announces
\* and then by the next head, as long as the client is there.  The only
\* exception is a file over a plain connection that cannot be opened, ends
\* early or cannot be read: its short body, and no other, runs into the next
\* response.  A file that grows or is replaced does no harm.
Framed ==
    open =>
        \A i, j \in Heads :
            i < j /\ (tls \/ down[i].id \notin abandoned) =>
                i + down[i].n < j /\ i + down[i].n + 1 \in Heads

\* HttpClient never hands a caller the answer to another request.  If the
\* length of the request was right and the session did not give up on a file,
\* it returns the complete response to the request, or nothing: never part of
\* one.
OwnAnswerOrNothing ==
    \A i \in 1 .. Len(returned) :
        LET r == returned[i] IN
        r.data # <<>> =>
            /\ r.data[1].part = "head" /\ r.data[1].id = r.id
            /\ r.id \notin abandoned /\ Valid(sent[r.id]) =>
                  r.data = << r.data[1] >> \o Bytes(r.id, 0, r.data[1].n)

\* A request of a client that waits is answered completely, or the connection
\* is closed or handed to a WebSocket.  It leaves the client waiting on an open
\* connection only if it announces more than it has, or if the session gives
\* up on the file it asks for.
Answered ==
    mode = "waits" /\ ~AllAnswered /\ ~Overstated(sent[Len(sent)])
        ~> (AllAnswered \/ pc \in {"ended", "ws"} \/ Len(sent) \in abandoned)

\* A call of HttpClient that keeps the "Connection: close" of send_request
\* returns, whatever happens to the response: read_response waits for the end
\* of the stream and the session ends after one response.  It does not if the
\* headers of the caller make the request an upgrade, which is handed to a
\* WebSocket, or announce a longer body than there is.
CallReturns ==
    call = "reading" /\ sent[Len(sent)].close /\ ~Overstated(sent[Len(sent)])
        ~> (call # "reading" \/ pc = "ws")
=============================================================================
