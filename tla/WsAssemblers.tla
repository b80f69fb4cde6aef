---------------------------- MODULE WsAssemblers ----------------------------
(***************************************************************************)
(* The other message assembler of the library, that of WebSocketClient     *)
(* (websocket_client.cpp: read_message over read_frame), next to the       *)
(* server's: both are given the same frames, so that the two can be        *)
(* compared with each other and with the reference reassembly.  Payloads   *)
(* are within the client's limit on a frame, which is part of WsLink.      *)
(***************************************************************************)
EXTENDS WsReceiver

VARIABLES
    assembling_,      \* the fields of WebSocketClient
    assembling_buf_,
    stopped,
    messages          \* the messages read_message has returned

clientVars == << assembling_, assembling_buf_, stopped, messages >>

ClientInit ==
    /\ assembling_ = FALSE /\ assembling_buf_ = <<>>
    /\ stopped = FALSE /\ messages = <<>>

\* A message grows by a payload; the final frame makes read_message return.
Grow(so_far, f) ==
    /\ assembling_' = ~f.fin
    /\ assembling_buf_' = IF f.fin THEN <<>> ELSE so_far \o f.payload
    /\ messages' = IF f.fin THEN Append(messages, so_far \o f.payload) ELSE messages
    /\ UNCHANGED stopped

\* An exception out of read_frame ends receive_loop, and so does the one of
\* read_message for a new message in the middle of another.
Throw == stopped' = TRUE /\ UNCHANGED << assembling_, assembling_buf_, messages >>

Interrupted ==
    /\ stopped' = TRUE /\ assembling_' = FALSE /\ assembling_buf_' = <<>>
    /\ UNCHANGED messages

\* Fault: a continuation with nothing to continue starts a message.
Fault_read_message(f) ==
    \/ stopped /\ UNCHANGED clientVars
    \/ /\ ~stopped
       /\ CASE f.opcode \in {"CLOSE", "RSV"} -> Throw
            [] f.opcode \in {"PING", "PONG"} -> UNCHANGED clientVars
            [] f.opcode = "CONT" -> Grow(assembling_buf_, f)
            [] f.opcode \in DataOp -> IF assembling_ THEN Interrupted ELSE Grow(<<>>, f)

\* One frame in read_frame and read_message.  Whether a control frame is final
\* is not looked at, and nothing is sent in answer.
read_message(f) ==
    \/ stopped /\ UNCHANGED clientVars
    \/ /\ ~stopped
       /\ CASE f.opcode \in {"CLOSE", "RSV"} -> Throw
            [] f.opcode \in {"PING", "PONG"} -> UNCHANGED clientVars
            [] f.opcode = "CONT" ->
                  IF assembling_ THEN Grow(assembling_buf_, f) ELSE UNCHANGED clientVars
            [] f.opcode \in DataOp -> IF assembling_ THEN Interrupted ELSE Grow(<<>>, f)

BothNext ==
    \/ \E f \in Frames : ReadFrame(f) /\ read_message(f)
    \/ (LeaveLoop \/ ReadFails) /\ UNCHANGED clientVars

BothInit == Init /\ ClientInit

BothSpec == BothInit /\ [][BothNext]_<< vars, clientVars >>

-----------------------------------------------------------------------------
\* The client returns exactly the messages that the fragments make up, also
\* between frames that break the protocol, until it meets one it gives up on;
\* there, unlike the server, it stops for good.  It has no limit on a message,
\* so nothing is said once the server's has been passed.
ClientFaithful ==
    (\A i \in 1 .. Len(errors) : errors[i] # 1009) =>
        \/ ~stopped /\ messages = rx.done
        \/ stopped /\ messages = SubSeq(rx.done, 1, Len(messages))
=============================================================================
