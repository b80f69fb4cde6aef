------------------------- MODULE WsAssemblersProofs -------------------------
(***************************************************************************)
(* The client's assembler against the reference, for every byte set, limit *)
(* and set of frames.  The invariant adds what the client holds in the     *)
(* middle of a message to ClientFaithful; that the server's limit was not  *)
(* passed is known from its reports (LimitReported), through the server's  *)
(* own invariant.                                                          *)
(***************************************************************************)
EXTENDS WsAssemblers, WsReceiverProofs

ClientTypeOK ==
    /\ assembling_ \in BOOLEAN /\ assembling_buf_ \in Seq(Byte)
    /\ stopped \in BOOLEAN /\ messages \in Seq(Seq(Byte))

NoLimit == \A i \in 1 .. Len(errors) : errors[i] # 1009

\* A client that goes on holds what the reference holds.
Running ==
    /\ ~stopped /\ messages = rx.done /\ assembling_ = rx.open
    /\ rx.open => assembling_buf_ = rx.cur

\* A client that has stopped has returned the first of the messages.
Behind ==
    /\ stopped /\ Len(messages) <= Len(rx.done)
    /\ messages = SubSeq(rx.done, 1, Len(messages))

ClientInv == ClientTypeOK /\ (NoLimit => Running \/ Behind)

-----------------------------------------------------------------------------
\* A message over the limit is reported with code 1009 by the very call that
\* drops it (accumulate after would_exceed).
LEMMA LimitReported ==
    ASSUME TypeOK, Link, NEW f \in Frame, Acceptable(f), TooBig(f)
    PROVE  handle_parsed_frame(f, fb).errs = << 1009 >>
<1>t. /\ fb \in Body /\ f.payload \in Seq(Byte) /\ fb.msg \in Seq(Byte)
      /\ fb.assembling \in BOOLEAN /\ rx.open \in BOOLEAN /\ rx.cur \in Seq(Byte)
  BY DEF TypeOK, Frame, Body, Reassembly
<1>1. CASE f.opcode = "CONT"
  <2>1. rx.open /\ fb.assembling /\ fb.msg = rx.cur
    BY <1>1 DEF Acceptable, Link
  <2>2. Len(Partial(f)) = Len(fb.msg) + Len(f.payload)
    BY <2>1, <1>t DEF Partial
  <2>3. would_exceed(fb, Len(f.payload))
    BY <2>2 DEF TooBig, would_exceed
  <2>4. handle_parsed_frame(f, fb) = accumulate(fb, f, <<>>)
    BY <1>1, <2>1 DEF handle_parsed_frame, handle_cont, DataOp, ControlOp
  <2> QED BY <2>3, <2>4 DEF accumulate, Outcome
<1>2. CASE f.opcode # "CONT"
  <2>1. f.opcode \in DataOp /\ ~rx.open /\ ~fb.assembling
    BY <1>2, <1>t DEF Acceptable, IsData, Link
  <2>2. would_exceed(start(f.opcode), Len(f.payload))
    BY <2>1, <1>t DEF TooBig, Partial, would_exceed, start
  <2>3. handle_parsed_frame(f, fb) = accumulate(start(f.opcode), f, <<>>)
    BY <2>1 DEF handle_parsed_frame, handle_data, DataOp, ControlOp
  <2> QED BY <2>2, <2>3 DEF accumulate, Outcome
<1> QED BY <1>1, <1>2

\* While no 1009 has been reported the reference has not dropped a message for
\* its size, now or before.
LEMMA NoLimitStep ==
    ASSUME IInv, NEW f \in Frames, ReadFrame(f), NoLimit'
    PROVE  NoLimit /\ ~(Acceptable(f) /\ TooBig(f)) /\ rx' = rxNext(f)
<1> DEFINE out == handle_parsed_frame(f, fb)
<1>1. f \in Frame /\ TypeOK /\ Link /\ SizeBounded
  BY FramesAssumption DEF IInv
<1>2. out.errs \in ErrorCodes
  BY <1>1, Dispatch DEF Good
<1>3. errors' = errors \o out.errs /\ rx' = rxNext(f)
  BY DEF ReadFrame
<1>4. errors \in ErrorCodes
  BY <1>1 DEF TypeOK
<1>5. Acceptable(f) /\ TooBig(f) => out.errs = << 1009 >>
  BY <1>1, LimitReported
<1> HIDE DEF out
<1>6. /\ Len(errors') = Len(errors) + Len(out.errs)
      /\ \A i \in 1 .. Len(errors) : errors'[i] = errors[i]
      /\ \A i \in 1 .. Len(out.errs) : errors'[Len(errors) + i] = out.errs[i]
  BY <1>2, <1>3, <1>4 DEF ErrorCodes
<1>7. Len(errors) \in Nat /\ Len(out.errs) \in Nat
  BY <1>2, <1>4 DEF ErrorCodes
<1>8. NoLimit
  BY <1>6, <1>7 DEF NoLimit
<1>9. ~(Acceptable(f) /\ TooBig(f))
  <2> SUFFICES ASSUME out.errs = << 1009 >> PROVE FALSE
    BY <1>5
  <2>1. Len(out.errs) = 1 /\ out.errs[1] = 1009
    OBVIOUS
  <2>2. errors'[Len(errors) + 1] = 1009 /\ Len(errors') = Len(errors) + 1
    BY <2>1, <1>6
  <2>3. Len(errors) + 1 \in 1 .. Len(errors')
    BY <2>2, <1>7
  <2> QED BY <2>2, <2>3 DEF NoLimit
<1> QED BY <1>3, <1>8, <1>9

\* The messages of a client that has stopped stay the first of the messages.
LEMMA BehindStays ==
    ASSUME NEW S, NEW d \in Seq(S), NEW m \in Seq(S), NEW x \in S,
           Len(m) <= Len(d), m = SubSeq(d, 1, Len(m))
    PROVE  /\ Len(m) <= Len(Append(d, x))
           /\ m = SubSeq(Append(d, x), 1, Len(m))
  OBVIOUS

\* A sequence is the first part of itself.
LEMMA Whole ==
    ASSUME NEW S, NEW d \in Seq(S)
    PROVE  Len(d) <= Len(d) /\ d = SubSeq(d, 1, Len(d))
  OBVIOUS

-----------------------------------------------------------------------------
\* One frame, given to both assemblers, preserves the client's invariant.
LEMMA ClientStep ==
    ASSUME IInv, ClientInv, NEW f \in Frames, ReadFrame(f), read_message(f)
    PROVE  ClientInv'
<1>t. /\ f \in Frame /\ f.payload \in Seq(Byte) /\ f.fin \in BOOLEAN /\ f.opcode \in Opcode
      /\ rx.open \in BOOLEAN /\ rx.cur \in Seq(Byte) /\ rx.done \in Seq(Seq(Byte))
      /\ ClientTypeOK
  BY FramesAssumption DEF IInv, TypeOK, Frame, Reassembly, ClientInv
<1>p. Partial(f) \in Seq(Byte)
  BY <1>t DEF Partial
\* What is left to prove: the types, and one of the two relations to rx.
<1>s. ASSUME ClientTypeOK',
             NoLimit /\ (Running \/ Behind) /\ ~(Acceptable(f) /\ TooBig(f))
                /\ rx' = rxNext(f) => (Running \/ Behind)'
      PROVE  ClientInv'
  <2> SUFFICES ASSUME NoLimit' PROVE (Running \/ Behind)'
    BY <1>s DEF ClientInv
  <2>1. NoLimit /\ ~(Acceptable(f) /\ TooBig(f)) /\ rx' = rxNext(f)
    BY NoLimitStep
  <2> QED BY <2>1, <1>s DEF ClientInv
<1>1. CASE stopped
  <2>1. UNCHANGED clientVars
    BY <1>1 DEF read_message
  <2>2. UNCHANGED << assembling_, assembling_buf_, stopped, messages >>
    BY <2>1 DEF clientVars
  <2>3. ClientTypeOK'
    BY <2>2, <1>t DEF ClientTypeOK
  <2>4. ASSUME Running \/ Behind, ~(Acceptable(f) /\ TooBig(f)), rx' = rxNext(f)
        PROVE  Behind'
    <3>1. Behind
      BY <1>1, <2>4 DEF Running
    <3>2. CASE rx'.done = rx.done
      BY <3>1, <3>2, <2>2 DEF Behind
    <3>3. CASE rx'.done = Append(rx.done, Partial(f))
      <4>1. /\ Len(messages) <= Len(Append(rx.done, Partial(f)))
            /\ messages = SubSeq(Append(rx.done, Partial(f)), 1, Len(messages))
        BY <3>1, <1>t, <1>p, BehindStays DEF Behind, ClientTypeOK
      <4> QED BY <4>1, <3>3, <2>2, <1>1 DEF Behind
    <3>4. rx'.done = rx.done \/ rx'.done = Append(rx.done, Partial(f))
      BY <2>4 DEF rxNext
    <3> QED BY <3>2, <3>3, <3>4
  <2> QED BY <1>s, <2>3, <2>4
\* The cases below are those of a client that has not stopped.
<1>n. ASSUME ~stopped, Running \/ Behind PROVE Running
  BY <1>n DEF Behind
\* A frame that changes neither.
<1>i. ASSUME ~stopped, UNCHANGED clientVars, ~Acceptable(f) PROVE ClientInv'
  <2>1. UNCHANGED << assembling_, assembling_buf_, stopped, messages >>
    BY <1>i DEF clientVars
  <2>2. ClientTypeOK'
    BY <2>1, <1>t DEF ClientTypeOK
  <2>3. ASSUME Running \/ Behind, rx' = rxNext(f) PROVE Running'
    <3>1. rx' = rx
      BY <1>i, <2>3 DEF rxNext
    <3> QED BY <1>n, <1>i, <2>1, <2>3, <3>1 DEF Running
  <2> QED BY <1>s, <2>2, <2>3
\* A frame on which the client gives up.
<1>g. ASSUME ~stopped, stopped' = TRUE, messages' = messages, ~Acceptable(f),
             assembling_' \in BOOLEAN, assembling_buf_' \in Seq(Byte)
      PROVE  ClientInv'
  <2>1. ClientTypeOK'
    BY <1>g, <1>t DEF ClientTypeOK
  <2>2. ASSUME Running \/ Behind, rx' = rxNext(f) PROVE Behind'
    <3>1. rx' = rx /\ messages = rx.done
      BY <1>n, <1>g, <2>2 DEF rxNext, Running
    <3>2. Len(rx.done) <= Len(rx.done) /\ rx.done = SubSeq(rx.done, 1, Len(rx.done))
      BY <1>t, Whole
    <3> QED BY <1>g, <3>1, <3>2 DEF Behind
  <2> QED BY <1>s, <2>1, <2>2
\* A fragment that both accept.
<1>f. ASSUME ~stopped, NEW so_far \in Seq(Byte), Grow(so_far, f),
             Running => Acceptable(f) /\ Partial(f) = so_far \o f.payload
      PROVE  ClientInv'
  <2>1. so_far \o f.payload \in Seq(Byte)
    BY <1>t
  <2>2. ClientTypeOK'
    BY <1>f, <1>t, <2>1 DEF Grow, ClientTypeOK
  <2>3. ASSUME Running \/ Behind, ~(Acceptable(f) /\ TooBig(f)), rx' = rxNext(f)
        PROVE  Running'
    <3>1. Running /\ Acceptable(f) /\ ~TooBig(f) /\ Partial(f) = so_far \o f.payload
      BY <1>n, <1>f, <2>3
    <3>2. CASE f.fin
      <4>1. rx' = [open |-> FALSE, cur |-> <<>>, done |-> Append(rx.done, Partial(f))]
        BY <2>3, <3>1, <3>2 DEF rxNext
      <4> QED BY <1>f, <3>1, <3>2, <4>1 DEF Grow, Running
    <3>3. CASE ~f.fin
      <4>1. rx' = [open |-> TRUE, cur |-> Partial(f), done |-> rx.done]
        BY <2>3, <3>1, <3>3 DEF rxNext
      <4> QED BY <1>f, <3>1, <3>3, <4>1 DEF Grow, Running
    <3> QED BY <3>2, <3>3
  <2> QED BY <1>s, <2>2, <2>3
<1>2. CASE ~stopped /\ f.opcode \in {"CLOSE", "RSV"}
  <2>1. Throw
    BY <1>2 DEF read_message, DataOp
  <2>2. ~Acceptable(f)
    BY <1>2 DEF Acceptable, IsData, DataOp
  <2> QED BY <1>2, <2>1, <2>2, <1>t, <1>g DEF Throw, ClientTypeOK
<1>3. CASE ~stopped /\ f.opcode \in {"PING", "PONG"}
  <2>1. UNCHANGED clientVars
    BY <1>3 DEF read_message, DataOp
  <2>2. ~Acceptable(f)
    BY <1>3 DEF Acceptable, IsData, DataOp
  <2> QED BY <1>3, <2>1, <2>2, <1>i
<1>4. CASE ~stopped /\ f.opcode = "CONT" /\ assembling_
  <2>1. Grow(assembling_buf_, f)
    BY <1>4 DEF read_message, DataOp
  <2>2. Running => Acceptable(f) /\ Partial(f) = assembling_buf_ \o f.payload
    BY <1>4 DEF Running, Acceptable, IsData, Partial
  <2>3. assembling_buf_ \in Seq(Byte)
    BY <1>t DEF ClientTypeOK
  <2> QED BY <1>4, <2>1, <2>2, <2>3, <1>f
<1>5. CASE ~stopped /\ f.opcode = "CONT" /\ ~assembling_
  <2>1. UNCHANGED clientVars
    BY <1>5 DEF read_message, DataOp
  <2>2. UNCHANGED << assembling_, assembling_buf_, stopped, messages >>
    BY <2>1 DEF clientVars
  <2>3. ClientTypeOK'
    BY <2>2, <1>t DEF ClientTypeOK
  <2>4. ASSUME Running \/ Behind, rx' = rxNext(f) PROVE Running'
    <3>1. Running /\ ~rx.open
      BY <1>n, <1>5, <2>4 DEF Running
    <3>2. ~Acceptable(f)
      BY <1>5, <3>1 DEF Acceptable
    <3>3. rx' = rx
      BY <2>4, <3>2 DEF rxNext
    <3> QED BY <3>1, <3>3, <2>2 DEF Running
  <2> QED BY <1>s, <2>3, <2>4
<1>6. CASE ~stopped /\ f.opcode \in DataOp /\ ~assembling_
  <2>1. Grow(<<>>, f)
    BY <1>6 DEF read_message, DataOp
  <2>2. Running => Acceptable(f) /\ Partial(f) = <<>> \o f.payload
    BY <1>6, <1>t DEF Running, Acceptable, IsData, Partial, DataOp
  <2>3. <<>> \in Seq(Byte)
    OBVIOUS
  <2> QED BY <1>6, <2>1, <2>2, <2>3, <1>f
<1>7. CASE ~stopped /\ f.opcode \in DataOp /\ assembling_
  <2>1. Interrupted
    BY <1>7 DEF read_message, DataOp
  <2>0. <<>> \in Seq(Byte)
    OBVIOUS
  <2>2. ClientTypeOK'
    BY <2>0, <2>1, <1>t, Zenon DEF Interrupted, ClientTypeOK
  <2>3. ASSUME Running \/ Behind, rx' = rxNext(f) PROVE Behind'
    <3>1. Running /\ rx.open
      BY <1>n, <1>7, <2>3 DEF Running
    <3>2. ~Acceptable(f)
      BY <1>7, <3>1 DEF Acceptable, DataOp
    <3>3. rx' = rx /\ messages = rx.done
      BY <2>3, <3>1, <3>2 DEF rxNext, Running
    <3>4. Len(rx.done) <= Len(rx.done) /\ rx.done = SubSeq(rx.done, 1, Len(rx.done))
      BY <1>t, Whole
    <3> QED BY <2>1, <3>3, <3>4 DEF Behind, Interrupted
  <2> QED BY <1>s, <2>2, <2>3
<1> QED
  BY <1>1, <1>2, <1>3, <1>4, <1>5, <1>6, <1>7, <1>t DEF Opcode, ControlOp, ClientTypeOK

\* The client's initial state is that of the reference.
LEMMA ClientStart == Init /\ ClientInit => ClientInv
<1> SUFFICES ASSUME Init, ClientInit PROVE ClientInv
  OBVIOUS
<1>0. <<>> \in Seq(Byte) /\ <<>> \in Seq(Seq(Byte))
  OBVIOUS
<1>1. ClientTypeOK
  BY <1>0, Zenon DEF ClientInit, ClientTypeOK
<1>2. Running
  BY DEF Init, ClientInit, Running
<1> QED BY <1>1, <1>2 DEF ClientInv

\* A step that is not a frame leaves both alone.
LEMMA ClientIdle ==
    ASSUME ClientInv, UNCHANGED << errors, rx >>, UNCHANGED clientVars
    PROVE  ClientInv'
  BY DEF ClientInv, ClientTypeOK, NoLimit, Running, Behind, clientVars

-----------------------------------------------------------------------------
\* The server's side of the pair is the receiver the theorems of
\* WsReceiverProofs are about: the client at its side changes nothing.
THEOREM BothReceive == BothSpec => Spec
<1>1. [BothNext]_<< vars, clientVars >> => [Next]_vars
  BY DEF BothNext, Next, vars
<1> QED BY <1>1, PTL DEF BothSpec, BothInit, Spec

\* WebSocketClient::read_message returns exactly the messages that the frames
\* make up, until it meets a frame it gives up on, for every byte set, frame
\* set and number of frames.
THEOREM ClientAssembles == BothSpec => []ClientFaithful
<1>1. IInv /\ ClientInv /\ [BothNext]_<< vars, clientVars >> => ClientInv'
  <2> SUFFICES ASSUME IInv, ClientInv, [BothNext]_<< vars, clientVars >> PROVE ClientInv'
    OBVIOUS
  <2>1. ASSUME NEW f \in Frames, ReadFrame(f), read_message(f) PROVE ClientInv'
    BY <2>1, ClientStep
  <2>2. CASE (LeaveLoop \/ ReadFails) /\ UNCHANGED clientVars
    <3>1. UNCHANGED << errors, rx >>
      BY <2>2 DEF LeaveLoop, ReadFails
    <3> QED BY <3>1, <2>2, ClientIdle
  <2>3. CASE UNCHANGED << vars, clientVars >>
    <3>1. UNCHANGED << errors, rx >> /\ UNCHANGED clientVars
      BY <2>3 DEF vars
    <3> QED BY <3>1, ClientIdle
  <2> QED BY <2>1, <2>2, <2>3 DEF BothNext
<1>2. ClientInv => ClientFaithful
  BY DEF ClientInv, ClientFaithful, NoLimit, Running, Behind
<1> QED BY <1>1, <1>2, ClientStart, BothReceive, Invariance, PTL DEF BothSpec, BothInit
=============================================================================
