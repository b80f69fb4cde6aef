---------------------------- MODULE WsReceiver ----------------------------
(***************************************************************************)
(* The reader of one WebSocket connection (WebSocket::do_read_loop) facing *)
(* a peer that may send any sequence of frames, well formed or not.  The   *)
(* handler of a frame runs as one step here: nothing else touches the      *)
(* assembler.  How its writes and its close() interleave with the other    *)
(* users of the connection is the subject of WsConn.                       *)
(*                                                                         *)
(* rx is a history variable: the reassembly of RFC 6455 section 5.4 for a  *)
(* receiver that drops the frames it may not accept.                       *)
(***************************************************************************)
EXTENDS FrameBody

CONSTANTS
    Frames,     \* the frames the peer may send
    MaxFrames   \* bound on the number of frames of a behaviour

ASSUME FramesAssumption == Frames \subseteq Frame /\ MaxFrames \in Nat

VARIABLES
    state_,     \* WS_OPEN or WS_CLOSED
    reading,    \* the reader coroutine has not ended
    fb,         \* the FrameBody local to do_read_loop
    delivered,  \* the messages given to on_message, in order
    errors,     \* the codes of the protocol errors reported, in order
    pongs,      \* the number of pongs written
    nframes,    \* the number of frames read
    rx          \* history: the reference reassembly

vars == << state_, reading, fb, delivered, errors, pongs, nframes, rx >>

-----------------------------------------------------------------------------
(* The reference reassembly: open is TRUE between an initial fragment and  *)
(* the final one, cur is the message so far, done the completed messages.  *)

IsData(f) == f.opcode \in DataOp \cup {"CONT"}

\* A fragment is acceptable if it starts a message when none is open, or
\* continues one when one is.
Acceptable(f) == IsData(f) /\ (rx.open <=> f.opcode = "CONT")

Partial(f) == IF rx.open THEN rx.cur \o f.payload ELSE f.payload

TooBig(f) == max_size # 0 /\ Len(Partial(f)) > max_size

rxNext(f) ==
    IF ~Acceptable(f) THEN rx
    ELSE IF TooBig(f) THEN [open |-> FALSE, cur |-> <<>>, done |-> rx.done]
    ELSE IF f.fin THEN [open |-> FALSE, cur |-> <<>>,
                        done |-> Append(rx.done, Partial(f))]
    ELSE [open |-> TRUE, cur |-> Partial(f), done |-> rx.done]

-----------------------------------------------------------------------------
Init ==
    /\ state_ = "OPEN"
    /\ reading = TRUE
    /\ fb = reset
    /\ delivered = <<>>
    /\ errors = <<>>
    /\ pongs = 0
    /\ nframes = 0
    /\ rx = [open |-> FALSE, cur |-> <<>>, done |-> <<>>]

\* One turn of the loop: a frame is read in full and dispatched.
ReadFrame(f) ==
    /\ reading /\ state_ = "OPEN" /\ nframes < MaxFrames
    /\ LET out == handle_parsed_frame(f, fb) IN
       /\ fb' = out.fb
       /\ errors' = errors \o out.errs
       /\ delivered' = delivered \o out.msgs
       /\ pongs' = IF out.reply = "pong" THEN pongs + 1 ELSE pongs
       /\ state_' = IF out.reply = "close" THEN "CLOSED" ELSE state_
    /\ nframes' = nframes + 1
    /\ rx' = rxNext(f)
    /\ UNCHANGED reading

\* The loop condition fails after handle_close_frame has closed the socket.
LeaveLoop ==
    /\ reading /\ state_ # "OPEN"
    /\ reading' = FALSE
    /\ UNCHANGED << state_, fb, delivered, errors, pongs, nframes, rx >>

\* A read fails (end of file, reset): the exception ends the coroutine and
\* drops a message that was being assembled.
ReadFails ==
    /\ reading /\ state_ = "OPEN"
    /\ reading' = FALSE
    /\ UNCHANGED << state_, fb, delivered, errors, pongs, nframes, rx >>

Next ==
    \/ \E f \in Frames : ReadFrame(f)
    \/ LeaveLoop
    \/ ReadFails

Spec == Init /\ [][Next]_vars

-----------------------------------------------------------------------------
(* Properties. *)

ErrorCodes == Seq({1002, 1009})

Reassembly == [open : BOOLEAN, cur : Seq(Byte), done : Seq(Seq(Byte))]

\* Every field holds a value of its kind, and the dispatcher reports no other
\* error than "protocol error" and "message too big".
TypeOK ==
    /\ state_ \in {"OPEN", "CLOSED"}
    /\ reading \in BOOLEAN
    /\ fb \in Body
    /\ delivered \in Seq(Seq(Byte))
    /\ errors \in ErrorCodes
    /\ pongs \in Nat
    /\ nframes \in Nat
    /\ rx \in Reassembly

\* Until the first protocol error is reported, what on_message received is
\* exactly the messages the peer's fragments make up: control frames between
\* fragments, empty fragments and fragment boundaries change nothing.
FaithfulUntilError == errors = <<>> => delivered = rx.done

\* Whatever the peer sends, no message longer than max_size reaches
\* on_message and the assembler never holds more than max_size bytes: the
\* limit cannot be got round by fragmenting, nor by continuations that have
\* no initial frame, whose bytes the assembler also keeps.
SizeBounded ==
    max_size # 0 =>
        /\ Len(fb.msg) <= max_size
        /\ \A i \in 1..Len(delivered) : Len(delivered[i]) <= max_size

\* Errors never damage a good message: also after protocol errors, a message
\* completed by acceptable fragments within the limit is delivered whole by
\* the very frame that completes it, and the only other message ever delivered
\* is the tail left by a stray continuation, reported as an error by the same
\* call.
IntactOrReported ==
    [][ /\ rx'.done # rx.done =>
              delivered' = Append(delivered, rx'.done[Len(rx'.done)])
        /\ delivered' # delivered /\ rx'.done = rx.done =>
              errors' = Append(errors, 1002) ]_vars
=============================================================================
