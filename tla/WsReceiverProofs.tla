------------------------- MODULE WsReceiverProofs -------------------------
(***************************************************************************)
(* Theorems about WsReceiver, for every byte set, every limit, every set   *)
(* of frames and every number of them.  The inductive invariant adds Link  *)
(* to the properties: the assembler is open exactly when the reference is, *)
(* and then both hold the same bytes.                                      *)
(***************************************************************************)
EXTENDS WsReceiver, TLAPS

\* The assembler and the reference reassembly agree while a message is open.
Link ==
    /\ fb.assembling = rx.open
    /\ rx.open => fb.msg = rx.cur

IInv == TypeOK /\ Link /\ FaithfulUntilError /\ SizeBounded

-----------------------------------------------------------------------------
\* What FrameBody::append leaves is a body, and it is no longer than the
\* limit when would_exceed did not say so.
LEMMA AppendFits ==
    ASSUME NEW g \in Body, NEW p \in Seq(Byte), ~would_exceed(g, Len(p))
    PROVE  /\ append(g, p) \in Body
           /\ append(g, p).msg = g.msg \o p
           /\ append(g, p).assembling = g.assembling
           /\ max_size # 0 => Len(append(g, p).msg) <= max_size
<1>1. g.msg \o p \in Seq(Byte) /\ Len(g.msg \o p) = Len(g.msg) + Len(p)
  BY DEF Body
<1>2. append(g, p) = [g EXCEPT !.msg = g.msg \o p]
  BY DEF append
<1>3. append(g, p).msg = g.msg \o p /\ append(g, p).assembling = g.assembling
  BY <1>2 DEF Body
<1>4. append(g, p) \in Body
  BY <1>1, <1>2 DEF Body
<1>5. max_size # 0 => Len(append(g, p).msg) <= max_size
  BY <1>1, <1>3, MaxSizeAssumption DEF would_exceed, Body
<1> QED BY <1>3, <1>4, <1>5

\* The possible effects of a call on what the application has received,
\* compared with the reference: nothing is delivered, or the message the
\* reference completes, or a stray tail reported with code 1002.
Effect(out, ref) ==
    \/ out.msgs = <<>> /\ ref.done = rx.done
    \/ \E m \in Seq(Byte) :
          /\ out.msgs = << m >>
          /\ max_size # 0 => Len(m) <= max_size
          /\ \/ out.errs = <<>> /\ ref.done = Append(rx.done, m)
             \/ out.errs = << 1002 >> /\ ref.done = rx.done

\* The facts about one call of handle_parsed_frame the invariant needs.
Good(out, ref) ==
    /\ out.fb \in Body
    /\ out.errs \in ErrorCodes
    /\ max_size # 0 => Len(out.fb.msg) <= max_size
    /\ ref \in Reassembly
    /\ out.fb.assembling = ref.open
    /\ ref.open => out.fb.msg = ref.cur
    /\ Effect(out, ref)

\* handle_parsed_frame keeps the assembler and the reference together,
\* whichever branch it takes.
LEMMA Dispatch ==
    ASSUME TypeOK, Link, SizeBounded, NEW f \in Frame
    PROVE  Good(handle_parsed_frame(f, fb), rxNext(f))
<1> DEFINE out == handle_parsed_frame(f, fb)
           ref == rxNext(f)
<1>s. <<>> \in ErrorCodes /\ << 1002 >> \in ErrorCodes
      /\ << 1009 >> \in ErrorCodes
      /\ Append(<< 1002 >>, 1009) \in ErrorCodes
  BY DEF ErrorCodes
<1> SUFFICES Good(out, ref)
  OBVIOUS
<1> HIDE DEF out, ref
<1>t. /\ fb \in Body /\ f.payload \in Seq(Byte) /\ f.fin \in BOOLEAN
      /\ f.opcode \in Opcode /\ fb.msg \in Seq(Byte) /\ fb.assembling \in BOOLEAN
      /\ rx \in Reassembly /\ rx.open \in BOOLEAN /\ rx.cur \in Seq(Byte)
      /\ rx.done \in Seq(Seq(Byte))
      /\ Len(fb.msg) \in Nat /\ Len(f.payload) \in Nat
  BY DEF TypeOK, Frame, Body, Reassembly
<1>r. reset \in Body /\ Len(reset.msg) = 0 /\ reset.assembling = FALSE
  BY DEF reset, Body
<1>l. max_size # 0 => Len(fb.msg) <= max_size
  BY DEF SizeBounded
<1>n. ASSUME out.fb = fb, out.msgs = <<>>, out.errs \in ErrorCodes,
             ~Acceptable(f)
      PROVE  Good(out, ref)
  <2>1. ref = rx
    BY <1>n DEF rxNext, ref
  <2> QED BY <1>n, <1>t, <1>l, <2>1 DEF Good, Effect, Link
<1>d. ASSUME out.fb = reset, out.msgs = <<>>, out.errs \in ErrorCodes,
             ref \in Reassembly, ref.open = FALSE, ref.done = rx.done
      PROVE  Good(out, ref)
  <2>1. Effect(out, ref)
    BY <1>d DEF Effect
  <2>2. out.fb \in Body /\ out.fb.assembling = ref.open
    BY <1>d, <1>r
  <2>3. max_size # 0 => Len(out.fb.msg) <= max_size
    BY <1>d, <1>r, MaxSizeAssumption
  <2> QED BY <1>d, <2>1, <2>2, <2>3 DEF Good
<1>k. ASSUME out.fb \in Body, max_size # 0 => Len(out.fb.msg) <= max_size,
             out.msgs = <<>>, out.errs \in ErrorCodes,
             ref \in Reassembly, ref.done = rx.done,
             out.fb.assembling = ref.open, ref.open => out.fb.msg = ref.cur
      PROVE  Good(out, ref)
  BY <1>k DEF Good, Effect
<1>m. ASSUME NEW m \in Seq(Byte), max_size # 0 => Len(m) <= max_size,
             out.fb = reset, out.msgs = << m >>,
             ref \in Reassembly, ref.open = FALSE,
             \/ out.errs = <<>> /\ ref.done = Append(rx.done, m)
             \/ out.errs = << 1002 >> /\ ref.done = rx.done
      PROVE  Good(out, ref)
  <2>1. Effect(out, ref)
    BY <1>m DEF Effect
  <2>2. out.errs \in ErrorCodes
    <3>1. out.errs = <<>> \/ out.errs = << 1002 >>
      BY <1>m
    <3> QED BY <3>1, <1>s
  <2>3. out.fb \in Body /\ out.fb.assembling = ref.open
    <3>1. out.fb = reset /\ ref.open = FALSE
      BY <1>m
    <3> QED BY <3>1, <1>r
  <2>4. max_size # 0 => Len(out.fb.msg) <= max_size
    BY <1>m, <1>r, MaxSizeAssumption
  <2> QED BY <1>m, <2>1, <2>2, <2>3, <2>4 DEF Good
<1>c. ASSUME NEW g \in Body, g.assembling = TRUE, Acceptable(f),
             Partial(f) = g.msg \o f.payload,
             would_exceed(g, Len(f.payload)) <=> TooBig(f),
             out = accumulate(g, f, <<>>)
      PROVE  Good(out, ref)
  <2>1. CASE TooBig(f)
    <3>1. out.fb = reset /\ out.errs = << 1009 >> /\ out.msgs = <<>>
      BY <1>c, <2>1 DEF accumulate, Outcome
    <3>2. ref = [open |-> FALSE, cur |-> <<>>, done |-> rx.done]
      BY <1>c, <2>1 DEF rxNext, ref
    <3>3. ref \in Reassembly /\ ref.open = FALSE /\ ref.done = rx.done
      BY <3>2, <1>t DEF Reassembly
    <3>4. out.errs \in ErrorCodes
      BY <3>1, <1>s
    <3> QED BY <3>1, <3>3, <3>4, <1>d
  <2>2. CASE ~TooBig(f) /\ f.fin
    <3> DEFINE m == append(g, f.payload).msg
    <3>1. /\ m = Partial(f) /\ m \in Seq(Byte)
          /\ max_size # 0 => Len(m) <= max_size
      BY <1>c, <1>t, <2>2, AppendFits DEF Body
    <3>2. out.fb = reset /\ out.errs = <<>> /\ out.msgs = << m >>
      BY <1>c, <2>2 DEF accumulate, Outcome
    <3>3. ref = [open |-> FALSE, cur |-> <<>>, done |-> Append(rx.done, m)]
      BY <1>c, <2>2, <3>1 DEF rxNext, ref
    <3> HIDE DEF m
    <3>4. /\ ref \in Reassembly /\ ref.open = FALSE
          /\ ref.done = Append(rx.done, m)
      BY <3>1, <3>3, <1>t DEF Reassembly
    <3> QED BY <3>1, <3>2, <3>4, <1>m
  <2>3. CASE ~TooBig(f) /\ ~f.fin
    <3>1. /\ out.fb = append(g, f.payload) /\ out.errs = <<>>
          /\ out.msgs = <<>>
      BY <1>c, <2>3 DEF accumulate, Outcome
    <3>2. /\ out.fb \in Body /\ out.fb.msg = Partial(f)
          /\ out.fb.assembling = TRUE
          /\ max_size # 0 => Len(out.fb.msg) <= max_size
      BY <3>1, <1>c, <1>t, <2>3, AppendFits
    <3>3. Partial(f) \in Seq(Byte)
      BY <3>2 DEF Body
    <3>4. ref = [open |-> TRUE, cur |-> Partial(f), done |-> rx.done]
      BY <1>c, <2>3 DEF rxNext, ref
    <3>5. /\ ref \in Reassembly /\ ref.open = TRUE /\ ref.done = rx.done
          /\ ref.cur = Partial(f)
      BY <3>3, <3>4, <1>t DEF Reassembly
    <3>6. out.errs \in ErrorCodes
      BY <3>1, <1>s
    <3>7. out.fb.assembling = ref.open /\ out.fb.msg = ref.cur
      BY <3>2, <3>5
    <3> QED BY <3>1, <3>2, <3>5, <3>6, <3>7, <1>k
  <2> QED BY <2>1, <2>2, <2>3, <1>t
<1>1. CASE f.opcode \in ControlOp
  <2>1. out = handle_control(fb, f)
    BY <1>1 DEF out, handle_parsed_frame, ControlOp, DataOp
  <2>2. out.fb = fb /\ out.msgs = <<>>
        /\ (out.errs = <<>> \/ out.errs = << 1002 >>)
    BY <2>1 DEF handle_control, Outcome
  <2>3. ~Acceptable(f)
    BY <1>1 DEF Acceptable, IsData, DataOp, ControlOp
  <2>4. out.errs \in ErrorCodes
    BY <1>s, <2>2
  <2> QED BY <1>n, <2>2, <2>3, <2>4
<1>2. CASE f.opcode = "RSV"
  <2>1. out = Outcome(fb, <<>>, <<>>, "none")
    BY <1>2 DEF out, handle_parsed_frame, ControlOp, DataOp
  <2>2. out.fb = fb /\ out.msgs = <<>> /\ out.errs = <<>>
    BY <2>1 DEF Outcome
  <2>3. ~Acceptable(f)
    BY <1>2 DEF Acceptable, IsData, DataOp
  <2> QED BY <1>n, <1>s, <2>2, <2>3
<1>3. CASE f.opcode \in DataOp
  <2>0. out = handle_data(fb, f)
    BY <1>3 DEF out, handle_parsed_frame, DataOp, ControlOp
  <2>1. CASE fb.assembling
    <3>1. out.fb = fb /\ out.msgs = <<>> /\ out.errs = << 1002 >>
      BY <2>0, <2>1 DEF handle_data, Outcome
    <3>2. ~Acceptable(f)
      BY <1>3, <2>1 DEF Acceptable, Link, DataOp
    <3> QED BY <1>n, <1>s, <3>1, <3>2
  <2>2. CASE ~fb.assembling
    <3> DEFINE g == start(f.opcode)
    <3>1. g \in Body /\ g.msg = <<>> /\ g.assembling = TRUE
      BY <1>3 DEF start, Body
    <3>2. out = accumulate(g, f, <<>>)
      BY <2>0, <2>2 DEF handle_data
    <3>3. Acceptable(f) /\ Partial(f) = f.payload /\ ~rx.open
      BY <1>3, <1>t, <2>2 DEF Acceptable, IsData, Link, Partial, DataOp
    <3>4. g.msg \o f.payload = f.payload
      BY <3>1, <1>t
    <3>5. would_exceed(g, Len(f.payload)) <=> TooBig(f)
      BY <3>1, <3>3, <1>t, MaxSizeAssumption DEF would_exceed, TooBig
    <3> HIDE DEF g
    <3> QED BY <3>1, <3>2, <3>3, <3>4, <3>5, <1>c
  <2> QED BY <2>1, <2>2, <1>t
<1>4. CASE f.opcode = "CONT"
  <2>1. CASE fb.assembling
    <3>1. out = accumulate(fb, f, <<>>)
      BY <1>4, <2>1 DEF out, handle_parsed_frame, handle_cont, DataOp, ControlOp
    <3>2. Acceptable(f) /\ Partial(f) = fb.msg \o f.payload
      BY <1>4, <1>t, <2>1 DEF Acceptable, IsData, Link, Partial
    <3>3. Len(Partial(f)) = Len(fb.msg) + Len(f.payload)
      BY <3>2, <1>t
    <3>4. would_exceed(fb, Len(f.payload)) <=> TooBig(f)
      BY <3>3, <1>t, MaxSizeAssumption DEF would_exceed, TooBig
    <3> QED BY <3>1, <3>2, <3>4, <1>t, <2>1, <1>c
  <2>2. CASE ~fb.assembling
    <3>1. out = accumulate(fb, f, << 1002 >>)
      BY <1>4, <2>2 DEF out, handle_parsed_frame, handle_cont, DataOp, ControlOp
    <3>2. ref = rx /\ ref.open = FALSE
      BY <1>4, <1>t, <2>2 DEF Acceptable, Link, rxNext, ref
    <3>3. CASE would_exceed(fb, Len(f.payload))
      <4>1. /\ out.fb = reset /\ out.errs = Append(<< 1002 >>, 1009)
            /\ out.msgs = <<>>
        BY <3>1, <3>3 DEF accumulate, Outcome
      <4>2. out.errs \in ErrorCodes /\ ref \in Reassembly /\ ref.done = rx.done
        BY <4>1, <3>2, <1>s, <1>t
      <4> QED BY <4>1, <4>2, <3>2, <1>d
    <3>4. CASE ~would_exceed(fb, Len(f.payload)) /\ f.fin
      <4> DEFINE m == append(fb, f.payload).msg
      <4>1. out.fb = reset /\ out.errs = << 1002 >> /\ out.msgs = << m >>
        BY <3>1, <3>4 DEF accumulate, Outcome
      <4>2. m \in Seq(Byte) /\ (max_size # 0 => Len(m) <= max_size)
        BY <3>4, <1>t, AppendFits DEF Body
      <4> HIDE DEF m
      <4> QED BY <4>1, <4>2, <3>2, <1>t, <1>m
    <3>5. CASE ~would_exceed(fb, Len(f.payload)) /\ ~f.fin
      <4>1. /\ out.fb = append(fb, f.payload) /\ out.errs = << 1002 >>
            /\ out.msgs = <<>>
        BY <3>1, <3>5 DEF accumulate, Outcome
      <4>2. /\ out.fb \in Body /\ out.fb.assembling = FALSE
            /\ max_size # 0 => Len(out.fb.msg) <= max_size
        BY <4>1, <3>5, <1>t, <2>2, AppendFits
      <4>3. out.errs \in ErrorCodes /\ ref \in Reassembly /\ ref.done = rx.done
        BY <4>1, <3>2, <1>s, <1>t
      <4> QED BY <4>1, <4>2, <4>3, <3>2, <1>k
    <3> QED BY <3>3, <3>4, <3>5, <1>t
  <2> QED BY <2>1, <2>2, <1>t
<1> QED BY <1>1, <1>2, <1>3, <1>4, <1>t DEF Opcode

-----------------------------------------------------------------------------
\* A call of handle_parsed_frame preserves the inductive invariant.
LEMMA ReadFramePreserves ==
    ASSUME IInv, NEW f \in Frames, ReadFrame(f)
    PROVE  IInv'
<1> DEFINE out == handle_parsed_frame(f, fb)
           ref == rxNext(f)
<1>1. Good(out, ref)
  BY Dispatch, FramesAssumption DEF IInv
<1>2. /\ fb' = out.fb /\ errors' = errors \o out.errs
      /\ delivered' = delivered \o out.msgs /\ rx' = ref
  BY DEF ReadFrame
<1>3. state_' \in {"OPEN", "CLOSED"} /\ reading' \in BOOLEAN
      /\ pongs' \in Nat /\ nframes' \in Nat
  BY DEF ReadFrame, IInv, TypeOK
<1> HIDE DEF out, ref
<1>4. /\ fb' \in Body /\ rx' \in Reassembly
      /\ fb'.assembling = rx'.open /\ (rx'.open => fb'.msg = rx'.cur)
      /\ (max_size # 0 => Len(fb'.msg) <= max_size)
  BY <1>1, <1>2 DEF Good
<1>5. errors' \in ErrorCodes /\ (errors' = <<>> => errors = <<>> /\ out.errs = <<>>)
  BY <1>1, <1>2 DEF Good, IInv, TypeOK, ErrorCodes
<1>6. /\ delivered' \in Seq(Seq(Byte))
      /\ max_size # 0 => \A i \in 1..Len(delivered') : Len(delivered'[i]) <= max_size
      /\ errors' = <<>> => delivered' = rx'.done
  <2>1. /\ delivered \in Seq(Seq(Byte)) /\ (errors = <<>> => delivered = rx.done)
        /\ max_size # 0 => \A i \in 1..Len(delivered) : Len(delivered[i]) <= max_size
    BY DEF IInv, TypeOK, FaithfulUntilError, SizeBounded
  <2>2. CASE out.msgs = <<>> /\ ref.done = rx.done
    <3>1. delivered' = delivered
      BY <1>2, <2>1, <2>2
    <3> QED BY <3>1, <2>1, <2>2, <1>2, <1>5
  <2>3. CASE \E m \in Seq(Byte) :
               /\ out.msgs = << m >>
               /\ max_size # 0 => Len(m) <= max_size
               /\ \/ out.errs = <<>> /\ ref.done = Append(rx.done, m)
                  \/ out.errs = << 1002 >> /\ ref.done = rx.done
    <3>1. PICK m \in Seq(Byte) :
               /\ out.msgs = << m >>
               /\ max_size # 0 => Len(m) <= max_size
               /\ \/ out.errs = <<>> /\ ref.done = Append(rx.done, m)
                  \/ out.errs = << 1002 >> /\ ref.done = rx.done
      BY <2>3
    <3>2. delivered' = Append(delivered, m)
      BY <1>2, <2>1, <3>1
    <3>3. delivered' \in Seq(Seq(Byte))
      BY <3>2, <2>1
    <3>4. max_size # 0 => \A i \in 1..Len(delivered') : Len(delivered'[i]) <= max_size
      BY <3>2, <2>1, <3>1
    <3>5. errors' = <<>> => delivered' = rx'.done
      <4> SUFFICES ASSUME errors' = <<>> PROVE delivered' = rx'.done
        OBVIOUS
      <4>1. out.errs = <<>> /\ delivered = rx.done
        BY <1>5, <2>1
      <4>2. ref.done = Append(rx.done, m)
        BY <3>1, <4>1
      <4> QED BY <3>2, <4>1, <4>2, <1>2
    <3> QED BY <3>3, <3>4, <3>5
  <2> QED BY <1>1, <2>2, <2>3 DEF Good, Effect
<1>7. TypeOK'
  BY <1>3, <1>4, <1>5, <1>6 DEF TypeOK
<1>8. Link' /\ FaithfulUntilError' /\ SizeBounded'
  BY <1>4, <1>6 DEF Link, FaithfulUntilError, SizeBounded
<1> QED BY <1>7, <1>8 DEF IInv

LEMMA InitIInv == Init => IInv
<1> SUFFICES ASSUME Init PROVE IInv
  OBVIOUS
<1>1. TypeOK
  BY DEF Init, TypeOK, reset, Body, ErrorCodes, Reassembly
<1>2. Link /\ FaithfulUntilError
  BY DEF Init, Link, FaithfulUntilError, reset
<1>3. SizeBounded
  BY MaxSizeAssumption DEF Init, SizeBounded, reset
<1> QED BY <1>1, <1>2, <1>3 DEF IInv

LEMMA NextIInv == IInv /\ [Next]_vars => IInv'
<1> SUFFICES ASSUME IInv, [Next]_vars PROVE IInv'
  OBVIOUS
<1>1. CASE \E f \in Frames : ReadFrame(f)
  BY <1>1, ReadFramePreserves
<1>2. CASE LeaveLoop \/ ReadFails \/ UNCHANGED vars
  <2>1. /\ UNCHANGED << state_, fb, delivered, errors, pongs, nframes, rx >>
        /\ reading' \in BOOLEAN
    BY <1>2 DEF LeaveLoop, ReadFails, vars, IInv, TypeOK
  <2> QED BY <2>1 DEF IInv, TypeOK, Link, FaithfulUntilError, SizeBounded
<1> QED BY <1>1, <1>2 DEF Next

-----------------------------------------------------------------------------
\* Every state reached satisfies the inductive invariant.
THEOREM Invariance == Spec => []IInv
BY InitIInv, NextIInv, PTL DEF Spec

\* Type correctness, for every byte set, limit, frame set and length.
THEOREM TypeCorrect == Spec => []TypeOK
BY Invariance, PTL DEF IInv

\* Until the first protocol error the application receives exactly the
\* messages the fragments make up (do_read_loop with FrameBody).
THEOREM Faithful == Spec => []FaithfulUntilError
BY Invariance, PTL DEF IInv

\* Neither the assembler nor a delivered message ever exceeds max_size,
\* whatever the peer sends (FrameBody::append guards every growth).
THEOREM Bounded == Spec => []SizeBounded
BY Invariance, PTL DEF IInv

\* No protocol error damages a good message, and the only extra messages are
\* stray tails, each reported by the call that delivers it.
THEOREM Intact == Spec => IntactOrReported
<1> DEFINE A == /\ rx'.done # rx.done =>
                      delivered' = Append(delivered, rx'.done[Len(rx'.done)])
                /\ delivered' # delivered /\ rx'.done = rx.done =>
                      errors' = Append(errors, 1002)
<1>1. IInv /\ [Next]_vars => [A]_vars
  <2> SUFFICES ASSUME IInv, Next PROVE A
    BY DEF vars
  <2>1. CASE LeaveLoop \/ ReadFails
    BY <2>1 DEF LeaveLoop, ReadFails
  <2>2. ASSUME NEW f \in Frames, ReadFrame(f) PROVE A
    <3> DEFINE out == handle_parsed_frame(f, fb)
               ref == rxNext(f)
    <3>1. Good(out, ref)
      BY Dispatch, FramesAssumption DEF IInv
    <3>2. /\ errors' = errors \o out.errs /\ rx' = ref
          /\ delivered' = delivered \o out.msgs
      BY <2>2 DEF ReadFrame
    <3>3. /\ delivered \in Seq(Seq(Byte)) /\ errors \in Seq({1002, 1009})
          /\ rx.done \in Seq(Seq(Byte))
      BY DEF IInv, TypeOK, ErrorCodes, Reassembly
    <3> HIDE DEF out, ref
    <3>4. CASE out.msgs = <<>> /\ ref.done = rx.done
      BY <3>2, <3>3, <3>4
    <3>5. ASSUME NEW m \in Seq(Byte), out.msgs = << m >>,
                 out.errs = <<>>, ref.done = Append(rx.done, m)
          PROVE  A
      BY <3>2, <3>3, <3>5
    <3>6. ASSUME NEW m \in Seq(Byte), out.msgs = << m >>,
                 out.errs = << 1002 >>, ref.done = rx.done
          PROVE  A
      BY <3>2, <3>3, <3>6
    <3> QED BY <3>1, <3>4, <3>5, <3>6 DEF Good, Effect
  <2> QED BY <2>1, <2>2 DEF Next
<1> QED BY <1>1, Invariance, PTL DEF Spec, IntactOrReported
=============================================================================
