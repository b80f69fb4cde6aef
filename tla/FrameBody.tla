----------------------------- MODULE FrameBody -----------------------------
(***************************************************************************)
(* The message assembler of the server side of a WebSocket connection      *)
(* (struct FrameBody, ws_helpers.h) and the frame dispatcher that drives   *)
(* it (WebSocket::handle_parsed_frame, WebSocket.h).  Everything here is a  *)
(* pure operator; WsReceiver and WsConn turn it into actions.              *)
(***************************************************************************)
EXTENDS Naturals, Sequences

CONSTANTS
    Byte,      \* the values of a payload byte
    max_size   \* FrameBody::max_size, 0 meaning "no limit"

ASSUME MaxSizeAssumption == max_size \in Nat

\* The opcodes the dispatcher knows.  "RSV" stands for every other value of
\* the 4-bit field, which no branch of the dispatcher matches.
DataOp == {"TEXT", "BINARY"}
ControlOp == {"CLOSE", "PING", "PONG"}
Opcode == DataOp \cup ControlOp \cup {"CONT", "RSV"}

\* A parsed frame: what is left of a WsFrame once it is unmasked.
Frame == [opcode : Opcode, fin : BOOLEAN, payload : Seq(Byte)]

Body == [assembling : BOOLEAN, opcode : DataOp \cup {"NONE"}, msg : Seq(Byte)]

-----------------------------------------------------------------------------
(* The methods of FrameBody. *)

\* FrameBody::reset, which is also the state the constructor leaves.
reset == [assembling |-> FALSE, opcode |-> "NONE", msg |-> <<>>]

start(op) == [assembling |-> TRUE, opcode |-> op, msg |-> <<>>]

\* Fault: the limit is applied to each fragment on its own.
Fault_would_exceed(fb, extra) == max_size # 0 /\ extra > max_size

would_exceed(fb, extra) == max_size # 0 /\ Len(fb.msg) + extra > max_size

\* What append leaves behind when it returns true.
append(fb, bytes) == [fb EXCEPT !.msg = @ \o bytes]

-----------------------------------------------------------------------------
(***************************************************************************)
(* What one call of handle_parsed_frame does:                              *)
(*   fb     the assembler afterwards,                                      *)
(*   errs   the close codes of the protocol errors it reports, in order;   *)
(*          each is a Close frame written and then a call of on_close,     *)
(*   msgs   the messages given to on_message (at most one),                *)
(*   reply  the control handler it awaits: handle_ping_frame ("pong"),     *)
(*          handle_close_frame ("close") or none.                          *)
(***************************************************************************)
Outcome(fb, errs, msgs, reply) ==
    [fb |-> fb, errs |-> errs, msgs |-> msgs, reply |-> reply]

\* Fault: the assembler is not reset after a message is delivered.
Fault_accumulate(fb, f, errs) ==
    IF would_exceed(fb, Len(f.payload))
    THEN Outcome(reset, Append(errs, 1009), <<>>, "none")
    ELSE LET grown == append(fb, f.payload) IN
         Outcome(grown, errs, IF f.fin THEN << grown.msg >> ELSE <<>>, "none")

\* The common tail of the data branches: append or too_big, then on_message
\* and reset when the frame is final.  errs holds what was reported before.
accumulate(fb, f, errs) ==
    IF would_exceed(fb, Len(f.payload))
    THEN Outcome(reset, Append(errs, 1009), <<>>, "none")
    ELSE LET grown == append(fb, f.payload) IN
         IF f.fin
         THEN Outcome(reset, errs, << grown.msg >>, "none")
         ELSE Outcome(grown, errs, <<>>, "none")

\* Fault: a fragmented control frame is reported with the code of a refused
\* data type.
Fault_handle_control(fb, f) ==
    Outcome(fb, IF f.fin THEN <<>> ELSE << 1003 >>, <<>>, "none")

\* Ping, pong and close: none of them touches the assembler.
handle_control(fb, f) ==
    IF ~f.fin THEN Outcome(fb, << 1002 >>, <<>>, "none")
    ELSE Outcome(fb, <<>>, <<>>,
                 CASE f.opcode = "PING"  -> "pong"
                   [] f.opcode = "CLOSE" -> "close"
                   [] f.opcode = "PONG"  -> "none")

\* Fault: a new message may start in the middle of another.
Fault_handle_data(fb, f) == accumulate(start(f.opcode), f, <<>>)

handle_data(fb, f) ==
    IF fb.assembling
    THEN Outcome(fb, << 1002 >>, <<>>, "none")
    ELSE accumulate(start(f.opcode), f, <<>>)

\* A continuation with nothing to continue is reported, but the code does not
\* return: it goes on to append the payload, and to deliver it if it is final.
handle_cont(fb, f) ==
    accumulate(fb, f, IF fb.assembling THEN <<>> ELSE << 1002 >>)

handle_parsed_frame(f, fb) ==
    CASE f.opcode \in ControlOp -> handle_control(fb, f)
      [] f.opcode \in DataOp    -> handle_data(fb, f)
      [] f.opcode = "CONT"      -> handle_cont(fb, f)
      [] f.opcode = "RSV"       -> Outcome(fb, <<>>, <<>>, "none")
=============================================================================
