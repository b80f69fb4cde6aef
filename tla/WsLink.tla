------------------------------- MODULE WsLink -------------------------------
(***************************************************************************)
(* A WebSocketClient and a WebSocket of the server at the two ends of a    *)
(* TCP connection, from the answer to the handshake to the end of the      *)
(* connection.  Both directions are streams of frames, written by          *)
(* one end's writer and taken apart by the other end's reader              *)
(* (WsFrameCodec).  The server's write queue delivers in order (WsConn),   *)
(* so a send puts its frame on the stream at once; a frame still on the    *)
(* queue when the socket is closed is one that was never sent.             *)
(*                                                                         *)
(* A client that threw the beginning of a frame away with the answer to    *)
(* its handshake reads headers from the middle of that frame.  The         *)
(* contents of frames are not modelled, so what it makes of those bytes is *)
(* any frame of the set Debris.                                            *)
(***************************************************************************)
EXTENDS WsFrameCodec

CONSTANTS
    Lengths,            \* the lengths of the messages
    Reasons,            \* the lengths of the reasons of Close frames
    MaskKeys,           \* the masking keys the client may draw
    Debris,             \* what read_frame may make of the middle of a frame
    maxMsgSize,         \* the server's limit on a message
    MAX_FRAME_PAYLOAD,  \* the client's limit on a frame
    MaxClient,          \* bound on the frames the client sends
    MaxServer           \* bound on the frames the server's user sends

ASSUME LinkAssumption ==
    /\ Lengths \subseteq Nat /\ Reasons \subseteq Nat
    /\ \A n \in Lengths : n \div (256 * 256 * 256) < 128   \* below 2^31, see ByteOf
    /\ MaskKeys \subseteq [1..4 -> Octet]
    /\ \A f \in Debris : f.rsv \in 0..7 /\ f.opcode \in 0..15 /\ f.len \in Nat
    /\ maxMsgSize \in Nat /\ MAX_FRAME_PAYLOAD \in Nat
    /\ MaxClient \in Nat /\ MaxServer \in Nat

VARIABLES
    c2s, s2c,    \* the two streams
    srv,         \* the server's end, "open" or "closed"
    stopped,     \* the client's flag
    connected,   \* the client has read the answer to its handshake
    lost,        \* history: the number of frames that went with the answer
    cut,         \* history: the beginning of a frame went with the answer, too
    csent, ssent,  \* history: the frames sent by either side
    sgot, cgot,    \* the frames either side has read, the client while not cut
    why          \* why the client stopped

vars == << c2s, s2c, srv, stopped, connected, lost, cut, csent, ssent, sgot, cgot, why >>

\* What the reader of a frame should see.
Sent(op, n) ==
    [fin |-> TRUE, rsv |-> 0, opcode |-> op, len |-> n, content |-> "intact"]

-----------------------------------------------------------------------------
(* The answer 101 has been written. *)
Init ==
    /\ c2s = <<>> /\ s2c = <<>>
    /\ srv = "open" /\ stopped = FALSE /\ connected = FALSE
    /\ lost = 0 /\ cut = FALSE
    /\ csent = <<>> /\ ssent = <<>> /\ sgot = <<>> /\ cgot = <<>>
    /\ why = "none"

\* read_http_headers reads into a buffer of its own, and what its reads returned
\* beyond the headers goes away with the buffer: some whole frames and possibly
\* part of the next one, of which the rest stays on the stream.
read_http_headers(extra, part) ==
    /\ s2c' = SubSeq(s2c, 1 + extra, Len(s2c))
    /\ lost' = extra /\ cut' = part

connect ==
    /\ ~connected
    /\ \E extra \in 0 .. Len(s2c), part \in BOOLEAN :
          (part => extra < Len(s2c)) /\ read_http_headers(extra, part)
    /\ connected' = TRUE
    /\ UNCHANGED << c2s, srv, stopped, csent, ssent, sgot, cgot, why >>

ClientMaySend == connected /\ ~stopped /\ Len(csent) < MaxClient

ClientSends(op, n, bytes) ==
    /\ c2s' = Append(c2s, bytes)
    /\ csent' = Append(csent, Sent(op, n))
    /\ UNCHANGED << s2c, srv, stopped, connected, lost, cut, ssent, sgot, cgot, why >>

send_text(n, key) ==
    ClientMaySend /\ ClientSends(1, n, make_frame_text(n, key))

Masked(op, n, key) ==
    [fin |-> TRUE, opcode |-> op, mask |-> TRUE, masking_key |-> key, len |-> n]

send_binary(n, key) ==
    ClientMaySend /\ ClientSends(2, n, write_frame(Masked(2, n, key)))

send_close(key) ==
    ClientMaySend /\ ClientSends(8, 2, write_frame(Masked(8, 2, key)))

-----------------------------------------------------------------------------
(* The server *)

Unmasked(op, n) ==
    [fin |-> TRUE, opcode |-> op, mask |-> FALSE, masking_key |-> NoMask, len |-> n]

ServerSends(op, n) ==
    /\ s2c' = Append(s2c, write_frame(Unmasked(op, n)))
    /\ ssent' = Append(ssent, Sent(op, n))

\* send_text and send_binary of the server.
server_send(op, n) ==
    /\ srv = "open" /\ Len(ssent) < MaxServer
    /\ ServerSends(op, n)
    /\ UNCHANGED << c2s, srv, stopped, connected, lost, cut, csent, sgot, cgot, why >>

\* Fault: the reason is not cut.
Fault_build_close_payload(reason) == 2 + reason

\* The length of a Close payload: the code and at most 123 bytes of reason.
build_close_payload(reason) == 2 + (IF reason < 125 - 2 THEN reason ELSE 125 - 2)

\* A Close frame, then close().  do_write returns at once when another write is
\* in flight, and the socket is then closed with the frame still on the queue.
CloseAfter(n) ==
    /\ ServerSends(8, n) \/ UNCHANGED << s2c, ssent >>
    /\ srv' = "closed"

\* close_async.
server_close(reason) ==
    /\ srv = "open" /\ Len(ssent) < MaxServer
    /\ CloseAfter(build_close_payload(reason))
    /\ UNCHANGED << c2s, stopped, connected, lost, cut, csent, sgot, cgot, why >>

TooBigReason == 15   \* the length of "Message too big"

\* One turn of do_read_loop.  A message over the limit is answered with a Close
\* frame and the loop goes on; a Close frame is answered with its own code and
\* reason and the socket is closed.
server_read ==
    /\ srv = "open" /\ c2s # <<>>
    /\ c2s' = Tail(c2s)
    /\ LET f == parse_header(Head(c2s)) IN
       /\ sgot' = Append(sgot, f)
       /\ \/ f.opcode = 8
             /\ CloseAfter(build_close_payload(IF f.len >= 2 THEN f.len - 2 ELSE 0))
          \/ f.opcode # 8 /\ f.len > maxMsgSize
             /\ ServerSends(8, build_close_payload(TooBigReason))
             /\ srv' = srv
          \/ f.opcode # 8 /\ f.len <= maxMsgSize
             /\ UNCHANGED << s2c, ssent, srv >>
    /\ UNCHANGED << stopped, connected, lost, cut, csent, cgot, why >>

-----------------------------------------------------------------------------
(* The client reads *)

Stop(reason) == stopped' = TRUE /\ why' = reason

\* Fault: the limit is that of the 16-bit length.
Fault_Refused(f) ==
    f.rsv # 0 \/ f.opcode \notin KnownOpcode \/ f.len > 65535

\* The checks of read_frame that throw before the payload is read.
Refused(f) ==
    f.rsv # 0 \/ f.opcode \notin KnownOpcode \/ f.len > MAX_FRAME_PAYLOAD

\* What read_frame and receive_loop do with a frame.
Receive(f) ==
    \/ Refused(f) /\ Stop("refused")
    \/ ~Refused(f) /\ f.opcode = 8 /\ Stop("close")
    \/ ~Refused(f) /\ f.opcode # 8 /\ UNCHANGED << stopped, why >>

\* One turn of receive_loop: read_message returns with the next data frame (a
\* frame of the server is always a whole message) or read_frame throws, which
\* ends the loop.
receive_loop ==
    /\ connected /\ ~stopped /\ ~cut /\ s2c # <<>>
    /\ s2c' = Tail(s2c)
    /\ LET f == read_frame_raw(Head(s2c)) IN
       cgot' = Append(cgot, f) /\ Receive(f)
    /\ UNCHANGED << c2s, srv, connected, lost, cut, csent, ssent, sgot >>

\* The same turn out of step: two bytes from the middle of a frame are taken for
\* a header, and the payload it announces may swallow frames that follow.  After
\* a frame that is not final, read_message throws on a data frame.
receive_debris ==
    /\ connected /\ ~stopped /\ cut /\ s2c # <<>>
    /\ \E used \in 0 .. Len(s2c) : s2c' = SubSeq(s2c, 1 + used, Len(s2c))
    /\ \E f \in Debris : Receive(f) \/ (f.opcode \in {1, 2} /\ Stop("refused"))
    /\ UNCHANGED << c2s, srv, connected, lost, cut, csent, ssent, sgot, cgot >>

\* The read fails once the server has closed its socket: at the end of the
\* stream, or before it when the close resets the connection.
read_fails ==
    /\ connected /\ ~stopped /\ srv = "closed"
    /\ Stop("lost")
    /\ UNCHANGED << c2s, s2c, srv, connected, lost, cut, csent, ssent, sgot, cgot >>

-----------------------------------------------------------------------------
Next ==
    \/ connect \/ server_read \/ receive_loop \/ receive_debris \/ read_fails
    \/ \E n \in Lengths, key \in MaskKeys : send_text(n, key) \/ send_binary(n, key)
    \/ \E key \in MaskKeys : send_close(key)
    \/ \E n \in Lengths, op \in {1, 2} : server_send(op, n)
    \/ \E r \in Reasons : server_close(r)

Spec == Init /\ [][Next]_vars

-----------------------------------------------------------------------------
(* Properties *)

WireFrame == [head : Seq(Octet), len : Nat, mask : [1..4 -> Octet]]

\* The streams carry frames whose headers are bytes: no writer emits a value
\* that does not fit.
TypeOK ==
    /\ c2s \in Seq(WireFrame) /\ s2c \in Seq(WireFrame)
    /\ srv \in {"open", "closed"} /\ stopped \in BOOLEAN /\ connected \in BOOLEAN
    /\ lost \in 0 .. Len(ssent) /\ cut \in BOOLEAN
    /\ why \in {"none", "close", "refused", "lost"}

\* The server reads what the client wrote, frame by frame, whichever of the
\* client's two writers made the frame and whichever of the three forms its
\* length takes: type, length and unmasked content agree at every boundary.
ServerReads == IsPrefix(sgot, csent)

\* The frames the client should still see, after the ones lost or read.
Pending == SubSeq(ssent, lost + Len(cgot) + 1, Len(ssent))

\* A client that starts on the boundary of a frame stays in step with the
\* server: it misses the frames that came with the answer to its handshake and
\* no other, what it has read are the frames sent after those, and what is on
\* the stream is always the encoding of exactly the ones it has not read yet.
ClientInStep ==
    connected /\ ~cut =>
        /\ IsPrefix(cgot, SubSeq(ssent, lost + 1, Len(ssent)))
        /\ s2c = [i \in 1..Len(Pending) |->
                     write_frame(Unmasked(Pending[i].opcode, Pending[i].len))]

\* A client that starts on the boundary of a frame only ever gives up on a
\* Close frame or on a frame over its limit, and any client gives a lost
\* connection as its reason only when the server has closed.
ClientStopsForCause ==
    LET last == ssent[lost + Len(cgot)] IN
    /\ why = "close" /\ ~cut => last.opcode = 8
    /\ why = "refused" /\ ~cut => last.len > MAX_FRAME_PAYLOAD
    /\ why = "lost" => srv = "closed"

\* A Close frame is a control frame: its payload fits 125 bytes however long
\* the reason is, the reason that a peer's Close frame carried included.
CloseFits ==
    \A i \in 1..Len(ssent) : ssent[i].opcode = 8 => ssent[i].len <= 125
=============================================================================
