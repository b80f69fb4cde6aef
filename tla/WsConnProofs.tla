---------------------------- MODULE WsConnProofs ----------------------------
(***************************************************************************)
(* Theorems about WsConn.                                                  *)
(*                                                                         *)
(* For every set of senders and closers, every number of threads and every *)
(* input: type correctness, CloseOnce and SendOrder.  The write queue is   *)
(* exclusive and first-in first-out (OneWriter, WireIsFifo) and the        *)
(* connection implements Outbox when there is one worker thread (the       *)
(* theorems OneThread...), and on any number of threads as long as the     *)
(* reader writes nothing (the theorems Strand...).  With two threads and a *)
(* reader that answers, the three are false, as a run shows.               *)
(***************************************************************************)
EXTENDS WsConn, FiniteSetTheorems, SequenceTheorems, TLAPS

Kinds == {"write_close", "write_pong", "error", "message", "close"}

\* handle_parsed_frame returns an assembler and a short list of effects.
LEMMA DispatchType ==
    ASSUME NEW g \in Body, NEW f \in Frame
    PROVE  LET o == handle_parsed_frame(f, g) IN
           /\ o.fb \in Body
           /\ Len(o.errs) \in {0, 1, 2}
           /\ o.reply \in {"none", "pong", "close"}
<1> DEFINE o == handle_parsed_frame(f, g)
<1>t. /\ f.payload \in Seq(Byte) /\ f.fin \in BOOLEAN /\ f.opcode \in Opcode
      /\ g.assembling \in BOOLEAN
  BY DEF Frame, Body
<1>r. reset \in Body
  BY DEF reset, Body
<1>a. ASSUME NEW h \in Body, NEW e, e = <<>> \/ e = << 1002 >>
      PROVE  /\ accumulate(h, f, e).fb \in Body
             /\ Len(accumulate(h, f, e).errs) \in {0, 1, 2}
             /\ accumulate(h, f, e).reply = "none"
  <2>1. /\ h.msg \o f.payload \in Seq(Byte)
        /\ append(h, f.payload) = [h EXCEPT !.msg = h.msg \o f.payload]
    BY <1>t DEF Body, append
  <2>2. append(h, f.payload) \in Body
    BY <2>1 DEF Body
  <2>3. Len(e) \in {0, 1} /\ Len(Append(e, 1009)) \in {1, 2}
    <3>1. CASE e = <<>>
      BY <3>1
    <3>2. CASE e = << 1002 >>
      BY <3>2
    <3> QED BY <1>a, <3>1, <3>2
  <2> QED BY <1>t, <1>r, <2>2, <2>3 DEF accumulate, Outcome
<1> SUFFICES /\ o.fb \in Body /\ Len(o.errs) \in {0, 1, 2}
             /\ o.reply \in {"none", "pong", "close"}
  OBVIOUS
<1> HIDE DEF o
<1>1. CASE f.opcode \in ControlOp
  <2>1. o = handle_control(g, f)
    BY <1>1 DEF o, handle_parsed_frame, ControlOp, DataOp
  <2>2. Len(<< 1002 >>) = 1 /\ Len(<<>>) = 0
    OBVIOUS
  <2> QED BY <1>1, <1>t, <2>1, <2>2 DEF handle_control, Outcome, ControlOp
<1>2. CASE f.opcode \in DataOp
  <2>1. o = handle_data(g, f)
    BY <1>2 DEF o, handle_parsed_frame, ControlOp, DataOp
  <2>2. start(f.opcode) \in Body
    BY <1>2 DEF start, Body
  <2>3. CASE g.assembling
    <3>1. o.fb = g /\ o.errs = << 1002 >> /\ o.reply = "none"
      BY <2>1, <2>3 DEF handle_data, Outcome
    <3> QED BY <3>1
  <2>4. CASE ~g.assembling
    <3>1. o = accumulate(start(f.opcode), f, <<>>)
      BY <2>1, <2>4 DEF handle_data
    <3> QED BY <3>1, <2>2, <1>a
  <2> QED BY <1>t, <2>3, <2>4
<1>3. CASE f.opcode = "CONT"
  <2>1. o = accumulate(g, f, <<>>) \/ o = accumulate(g, f, << 1002 >>)
    BY <1>3 DEF o, handle_parsed_frame, handle_cont, ControlOp, DataOp
  <2> QED BY <2>1, <1>a
<1>4. CASE f.opcode = "RSV"
  <2>1. o.fb = g /\ o.errs = <<>> /\ o.reply = "none"
    BY <1>4 DEF o, handle_parsed_frame, Outcome, ControlOp, DataOp
  <2> QED BY <2>1
<1> QED BY <1>1, <1>2, <1>3, <1>4, <1>t DEF Opcode

\* The effects of a frame are a sequence of effects.
LEMMA EffectsType ==
    ASSUME NEW o, Len(o.errs) \in {0, 1, 2}, o.reply \in {"none", "pong", "close"}
    PROVE  Effects(o) \in Seq(Kinds)
<1> DEFINE n == 2 * Len(o.errs)
           e == [i \in 1..n |-> IF i % 2 = 1 THEN "write_close" ELSE "error"]
           m == IF o.msgs = <<>> THEN <<>> ELSE << "message" >>
           r == CASE o.reply = "none"  -> <<>>
                  [] o.reply = "pong"  -> << "write_pong" >>
                  [] o.reply = "close" -> << "write_close", "close" >>
<1>1. n \in Nat /\ e \in [1..n -> Kinds]
  BY DEF Kinds
<1>2. e \in Seq(Kinds)
  BY <1>1
<1>3. m \in Seq(Kinds) /\ r \in Seq(Kinds)
  <2> DEFINE S == Seq(Kinds)
  <2>1. <<>> \in S
    OBVIOUS
  <2>2. << "message" >> \in S
    BY DEF Kinds
  <2>3. << "write_pong" >> \in S
    BY DEF Kinds
  <2>4. << "write_close", "close" >> \in S
    BY DEF Kinds
  <2> HIDE DEF S
  <2>5. m \in S /\ r \in S
    BY <2>1, <2>2, <2>3, <2>4
  <2> QED BY <2>5 DEF S
<1>5. Effects(o) = (e \o m) \o r
  BY DEF Effects
<1> HIDE DEF n, e, m, r
<1> QED BY <1>2, <1>3, <1>5

-----------------------------------------------------------------------------
(* Type correctness. *)

Labels == Running \cup Suspended

\* The labels the actions use are labels.
LEMMA LabelsFacts ==
    /\ Running \subseteq Labels /\ Suspended \subseteq Labels
    /\ \A p : Return(p) \in {"effect", "cas", "ended"}
    /\ {"effect", "cas", "ended", "top", "check"} \subseteq Labels
    /\ InWrite \subseteq Labels /\ InClose \subseteq Labels
BY DEF Labels, Running, Suspended, Return, InWrite, InClose

\* Moving one actor to a label keeps the type of pc.
LEMMA GotoType ==
    ASSUME NEW p \in Actors, NEW l \in Labels, pc \in [Actors -> Labels], Goto(p, l)
    PROVE  /\ pc' \in [Actors -> Labels]
           /\ pc'[p] = l
           /\ \A q \in Actors : q # p => pc'[q] = pc[q]
BY DEF Goto

LEMMA ActorsFacts ==
    /\ reader \in Actors /\ stopper \in Actors /\ Jobs \subseteq Actors
    /\ Senders \subseteq Jobs /\ Closers \subseteq Jobs
    /\ reader \notin Jobs /\ stopper \notin Jobs /\ reader # stopper
BY ConnAssumption DEF Actors, Jobs

\* Counting one more call of a callback keeps the type, and counts one.
LEMMA CallsType ==
    ASSUME NEW c \in Calls
    PROVE  /\ [c EXCEPT !.close = c.close + 1] \in Calls
           /\ [c EXCEPT !.cleanup = c.cleanup + 1] \in Calls
           /\ [c EXCEPT !.error = c.error + 1] \in Calls
           /\ [c EXCEPT !.message = c.message + 1] \in Calls
<1>1. /\ c.close + 1 \in Nat /\ c.cleanup + 1 \in Nat
      /\ c.error + 1 \in Nat /\ c.message + 1 \in Nat
  BY DEF Calls
<1>2. [c EXCEPT !.close = c.close + 1] \in Calls
  BY <1>1 DEF Calls
<1>3. [c EXCEPT !.cleanup = c.cleanup + 1] \in Calls
  BY <1>1 DEF Calls
<1>4. [c EXCEPT !.error = c.error + 1] \in Calls
  BY <1>1 DEF Calls
<1>5. [c EXCEPT !.message = c.message + 1] \in Calls
  BY <1>1 DEF Calls
<1> QED BY <1>2, <1>3, <1>4, <1>5

\* The frame an actor pushes is a frame.
LEMMA OutFrameType ==
    ASSUME TypeOK, NEW p \in Actors, p = reader => reply # "none"
    PROVE  OutFrame(p) \in OutFrames
<1>1. Op(p) \in {"data", "close", "pong"}
  BY DEF TypeOK, Op
<1>2. Len(pushed) + 1 \in Nat \ {0}
  BY DEF TypeOK
<1> QED BY <1>1, <1>2 DEF OutFrame, OutFrames

\* Where each kind of actor can be, and that the reader has chosen what to
\* write before it pushes.
Places ==
    /\ pc[reader] = "push" => reply # "none"
    /\ pc[stopper] \in {"idle", "ended"} \cup InClose
    /\ pc[reader] \notin {"idle", "ready", "check"}
    /\ \A p \in Jobs : pc[p] \notin {"top", "effect", "reading", "got", "lost"}

TInv == TypeOK /\ Places

LEMMA InitTInv == Init => TInv
<1> SUFFICES ASSUME Init PROVE TInv
  OBVIOUS
<1>1. TypeOK
  <2>1. pc \in [Actors -> Running \cup Suspended]
    BY DEF Init, Running, Suspended
  <2>2. fb \in Body
    BY DEF Init, reset, Body
  <2>3. calls \in Calls
    BY DEF Init, Calls
  <2>4. out \in [Actors -> Seq(OutFrames)]
    BY DEF Init
  <2>5. /\ write_queue_ \in Seq(OutFrames) /\ wire \in Seq(OutFrames)
        /\ pushed \in Seq(OutFrames) /\ strand \in Seq(Jobs)
        /\ spawned \in Seq(Jobs)
    BY DEF Init
  <2>6. todo \in Seq({"write_close", "write_pong", "error", "message", "close"})
    BY DEF Init
  <2>7. /\ state_ \in {"OPEN", "CLOSED"} /\ sock \in {"open", "closed"}
        /\ peer \in {"up", "gone"} /\ is_writing_ \in BOOLEAN
        /\ reply \in {"none", "close", "pong"} /\ nin \in Nat
        /\ registered \in BOOLEAN /\ ub \in BOOLEAN
    BY DEF Init
  <2> QED BY <2>1, <2>2, <2>3, <2>4, <2>5, <2>6, <2>7 DEF TypeOK
<1>2. Places
  BY ActorsFacts DEF Init, Places
<1> QED BY <1>1, <1>2 DEF TInv

\* The steps of an actor outside the read loop: where it can go.
LEMMA StepTInv ==
    ASSUME TInv, NEW p \in Actors,
           Resume(p) \/ Step(p) \/ WriteDone(p) \/ WriteFails(p)
    PROVE  TInv'
<1> USE DEF Labels
<1>t. TypeOK /\ Places
  BY DEF TInv
<1>p. pc \in [Actors -> Labels] /\ strand \in Seq(Jobs)
  BY <1>t DEF TypeOK
<1>g. ASSUME NEW l \in Labels, Goto(p, l), reply' = reply,
             p = reader => l \notin {"push", "idle", "ready", "check"},
             p = stopper => l \in {"idle", "ended"} \cup InClose,
             p \in Jobs => l \notin {"top", "effect", "reading", "got", "lost"}
      PROVE  pc' \in [Actors -> Labels] /\ Places'
  <2>1. /\ pc' \in [Actors -> Labels] /\ pc'[p] = l
        /\ \A q \in Actors : q # p => pc'[q] = pc[q]
    BY <1>g, <1>p, GotoType
  <2> QED BY <1>g, <1>t, <2>1, ActorsFacts DEF Places
<1>1. CASE Resume(p)
  <2>1. pc[p] \in {"ready", "wrote", "failed"} /\ p # stopper
    BY <1>1, <1>t DEF Resume, Places, InClose
  <2>2. p = reader => pc[p] # "ready"
    BY <1>t DEF Places
  <2> DEFINE l == CASE pc[p] = "ready"  -> IF p \in Senders THEN "check" ELSE "push"
                    [] pc[p] = "wrote"  -> "pop"
                    [] pc[p] = "failed" -> "ended"
  <2>3. Goto(p, l) /\ l \in {"check", "push", "pop", "ended"}
        /\ (p = reader => l \in {"pop", "ended"})
    BY <1>1, <2>1, <2>2 DEF Resume
  <2>4. strand' \in Seq(Jobs)
    BY <1>1, <1>p DEF Resume, Free
  <2>5. UNCHANGED << connVars, queueVars, readVars, peer, out, spawned >>
    BY <1>1 DEF Resume
  <2> HIDE DEF l
  <2>6. pc' \in [Actors -> Labels] /\ Places'
    BY <1>g, <2>1, <2>3, <2>5, LabelsFacts DEF readVars, Running, Suspended, InWrite
  <2> QED BY <1>t, <2>4, <2>5, <2>6
          DEF TInv, TypeOK, connVars, queueVars, readVars
<1>2. CASE Check(p)
  <2>1. p # stopper /\ p # reader
    BY <1>2, <1>t DEF Check, Places, InClose
  <2>2. pc' \in [Actors -> Labels] /\ Places'
    BY <1>2, <1>g, <2>1 DEF Check, readVars, Running, Suspended, InWrite
  <2> QED BY <1>2, <1>t, <2>2 DEF Check, TInv, TypeOK, connVars, queueVars, readVars
<1>3. CASE do_write(p)
  <2>1. p # stopper
    BY <1>3, <1>t DEF do_write, Push, Test, SetWriting, Loop, Pop, ClearWriting,
                      Places, InClose
  <2>2. reply' = reply
    BY <1>3 DEF do_write, Push, Test, SetWriting, Loop, Pop, ClearWriting, readVars
  <2>3. p \in Jobs => Return(p) # "effect"
    BY ActorsFacts DEF Return
  <2>4. /\ Return(p) \in {"effect", "cas", "ended"}
        /\ {"effect", "cas", "ended", "set", "loop", "await", "clear", "test"}
             \subseteq Labels
    BY LabelsFacts DEF Running, Suspended, InWrite
  <2>5. \E l \in {"effect", "cas", "ended", "set", "loop", "await", "clear", "test"} :
           Goto(p, l) /\ (p \in Jobs => l # "effect")
    BY <1>3, <2>3, <2>4 DEF do_write, Push, Test, SetWriting, Loop, Pop, ClearWriting
  <2>6. pc' \in [Actors -> Labels] /\ Places'
    BY <1>g, <2>1, <2>2, <2>4, <2>5
  <2>7. CASE Push(p)
    <3>1. p = reader => reply # "none"
      BY <2>7, <1>t DEF Push, Places
    <3>2. OutFrame(p) \in OutFrames
      BY <3>1, <1>t, OutFrameType
    <3>3. write_queue_' \in Seq(OutFrames) /\ pushed' \in Seq(OutFrames)
      BY <2>7, <3>2, <1>t DEF Push, TypeOK
    <3> QED BY <2>7, <3>3, <2>6, <1>t DEF Push, TInv, TypeOK, connVars, readVars
  <2>8. CASE Test(p) \/ SetWriting(p) \/ ClearWriting(p)
    BY <2>8, <2>6, <1>t DEF Test, SetWriting, ClearWriting, TInv, TypeOK,
                            connVars, queueVars, readVars
  <2>9. CASE Loop(p)
    <3>1. out' \in [Actors -> Seq(OutFrames)]
      <4>1. CASE write_queue_ = <<>>
        BY <2>9, <4>1, <1>t DEF Loop, TypeOK
      <4>2. CASE write_queue_ # <<>>
        <5>1. << Head(write_queue_) >> \in Seq(OutFrames)
          BY <4>2, <1>t DEF TypeOK
        <5>2. out' = [out EXCEPT ![p] = << Head(write_queue_) >>]
          BY <2>9, <4>2 DEF Loop
        <5> HIDE DEF OutFrames
        <5> QED BY <5>1, <5>2, <1>t DEF TypeOK
      <4> QED BY <4>1, <4>2
    <3> QED BY <2>9, <3>1, <2>6, <1>t DEF Loop, TInv, TypeOK,
                                          connVars, queueVars, readVars
  <2>10. CASE Pop(p)
    <3>1. write_queue_' \in Seq(OutFrames) /\ ub' \in BOOLEAN
      <4>1. CASE write_queue_ = <<>>
        BY <2>10, <4>1, <1>t DEF Pop, TypeOK
      <4>2. CASE write_queue_ # <<>>
        <5>1. Tail(write_queue_) \in Seq(OutFrames)
          BY <4>2, <1>t DEF TypeOK
        <5> QED BY <2>10, <4>2, <5>1, <1>t DEF Pop, TypeOK
      <4> QED BY <4>1, <4>2
    <3>2. out' \in [Actors -> Seq(OutFrames)]
      BY <2>10, <1>t DEF Pop, TypeOK
    <3> QED BY <2>10, <3>1, <3>2, <2>6, <1>t DEF Pop, TInv, TypeOK, connVars, readVars
  <2> QED BY <1>3, <2>7, <2>8, <2>9, <2>10 DEF do_write
<1>4. CASE close(p)
  <2>1. /\ \E l \in {"shut", "onclose", "cleanup", "ended", "effect"} :
              Goto(p, l) /\ (l = "effect" => p = reader)
        /\ reply' = reply
    BY <1>4 DEF close, Cas, Shut, OnClose, Cleanup, readVars
  <2>2. {"shut", "onclose", "cleanup", "ended", "effect"} \subseteq Labels
    BY DEF Running, Suspended, InClose
  <2>3. pc' \in [Actors -> Labels] /\ Places'
    BY <1>g, <2>1, <2>2, ActorsFacts DEF InClose
  <2>4. calls' \in Calls
    <3>1. CASE calls' = calls
      BY <3>1, <1>t DEF TypeOK
    <3>2. CASE calls' = [calls EXCEPT !.close = @ + 1]
      BY <3>2, <1>t, CallsType DEF TypeOK
    <3>3. CASE calls' = [calls EXCEPT !.cleanup = @ + 1]
      BY <3>3, <1>t, CallsType DEF TypeOK
    <3> QED BY <1>4, <3>1, <3>2, <3>3 DEF close, Cas, Shut, OnClose, Cleanup
  <2>5. state_' \in {"OPEN", "CLOSED"} /\ sock' \in {"open", "closed"}
        /\ registered' \in BOOLEAN
    BY <1>4, <1>t DEF close, Cas, Shut, OnClose, Cleanup, TypeOK
  <2>6. UNCHANGED << queueVars, readVars, peer, strand, out, spawned >>
    BY <1>4 DEF close, Cas, Shut, OnClose, Cleanup
  <2> QED BY <1>t, <2>3, <2>4, <2>5, <2>6 DEF TInv, TypeOK, queueVars, readVars
<1>5. CASE WriteDone(p) \/ WriteFails(p)
  <2>1. p # stopper
    BY <1>5, <1>t DEF WriteDone, WriteFails, Places, InClose
  <2>2. Goto(p, "wrote") \/ Goto(p, "failed")
    BY <1>5 DEF WriteDone, WriteFails, Wake
  <2>3. pc' \in [Actors -> Labels] /\ Places'
    BY <1>5, <1>g, <2>1, <2>2 DEF WriteDone, WriteFails, readVars, Suspended
  <2>4. strand' \in Seq(Jobs)
    BY <1>5, <1>p DEF WriteDone, WriteFails, Wake
  <2>5. wire' \in Seq(OutFrames)
    <3>1. wire \o out[p] \in Seq(OutFrames)
      <4>1. wire \in Seq(OutFrames) /\ out[p] \in Seq(OutFrames)
        BY <1>t DEF TypeOK
      <4> HIDE DEF OutFrames
      <4> QED BY <4>1
    <3> QED BY <1>5, <1>t, <3>1 DEF WriteDone, WriteFails, TypeOK, queueVars
  <2> QED BY <1>5, <1>t, <2>3, <2>4, <2>5
          DEF WriteDone, WriteFails, TInv, TypeOK, connVars, queueVars, readVars
<1> QED BY <1>1, <1>2, <1>3, <1>4, <1>5 DEF Step

\* The other steps: calls that spawn or close, the reader and the peer.
LEMMA OtherTInv ==
    ASSUME TInv,
           \/ \E p \in Jobs : send_async(p) \/ close_async(p)
           \/ close_websockets \/ ResumeReader \/ ReaderStep
           \/ \E f \in InFrames : FrameArrives(f)
           \/ ReadFails \/ PeerGone
    PROVE  TInv'
<1> USE DEF Labels
<1>t. TypeOK /\ Places /\ pc \in [Actors -> Labels]
  BY DEF TInv, TypeOK
<1>r. ASSUME NEW l \in Labels, Goto(reader, l), l # "push" \/ reply' # "none",
             l \notin {"idle", "ready", "check"}
      PROVE  pc' \in [Actors -> Labels] /\ Places'
  <2>1. /\ pc' \in [Actors -> Labels] /\ pc'[reader] = l
        /\ \A q \in Actors : q # reader => pc'[q] = pc[q]
    BY <1>r, <1>t, GotoType, ActorsFacts
  <2> QED BY <1>r, <1>t, <2>1, ActorsFacts DEF Places
<1>1. ASSUME NEW p \in Jobs, send_async(p) \/ close_async(p) PROVE TInv'
  <2>1. /\ Goto(p, "ready") /\ strand' = Append(strand, p)
        /\ spawned' = Append(spawned, p)
        /\ UNCHANGED << connVars, queueVars, readVars, peer, out >>
    BY <1>1 DEF send_async, close_async, Enqueue
  <2>2. /\ pc' \in [Actors -> Labels] /\ pc'[p] = "ready"
        /\ \A q \in Actors : q # p => pc'[q] = pc[q]
    BY <2>1, <1>t, GotoType, ActorsFacts DEF Suspended
  <2>3. Places'
    BY <2>1, <2>2, <1>t, ActorsFacts DEF Places, readVars
  <2>4. strand' \in Seq(Jobs) /\ spawned' \in Seq(Jobs)
    BY <2>1, <1>t DEF TypeOK
  <2> QED BY <2>1, <2>2, <2>3, <2>4, <1>t
          DEF TInv, TypeOK, connVars, queueVars, readVars
<1>2. CASE close_websockets
  <2>1. /\ Goto(stopper, "cas")
        /\ UNCHANGED << connVars, queueVars, readVars, peer, strand, out, spawned >>
    BY <1>2 DEF close_websockets
  <2>2. /\ pc' \in [Actors -> Labels] /\ pc'[stopper] = "cas"
        /\ \A q \in Actors : q # stopper => pc'[q] = pc[q]
    BY <2>1, <1>t, GotoType, ActorsFacts DEF Running, InClose
  <2>3. Places'
    BY <2>1, <2>2, <1>t, ActorsFacts DEF Places, readVars, InClose
  <2> QED BY <2>1, <2>2, <2>3, <1>t DEF TInv, TypeOK, connVars, queueVars, readVars
<1>3. CASE ResumeReader \/ Top \/ ReadFails
  <2>1. /\ \E l \in {"effect", "ended", "reading", "lost"} : Goto(reader, l)
        /\ UNCHANGED << connVars, queueVars, readVars, peer, strand, out, spawned >>
    BY <1>3 DEF ResumeReader, Top, ReadFails
  <2>2. pc' \in [Actors -> Labels] /\ Places'
    BY <2>1, <1>r DEF Running, Suspended
  <2> QED BY <2>1, <2>2, <1>t DEF TInv, TypeOK, connVars, queueVars, readVars
<1>4. CASE Effect
  <2>0. todo \in Seq(Kinds)
    BY <1>t DEF TypeOK, Kinds
  <2>1. todo' \in Seq(Kinds)
    BY <1>4, <2>0 DEF Effect
  <2>2. UNCHANGED << queueVars, state_, sock, registered, fb, nin, peer, strand,
                     out, spawned >>
    BY <1>4 DEF Effect
  <2>3. calls' \in Calls
    BY <1>4, <1>t, CallsType DEF Effect, TypeOK
  <2>4. reply' \in {"none", "close", "pong"}
    BY <1>4, <1>t DEF Effect, TypeOK
  <2>5. pc' \in [Actors -> Labels] /\ Places'
    <3>1. CASE UNCHANGED << pc, reply >>
      BY <3>1, <1>t DEF Places
    <3>2. CASE Goto(reader, "top") \/ Goto(reader, "cas")
      BY <3>2, <1>r DEF Running, InClose
    <3>3. CASE Goto(reader, "push") /\ reply' # "none"
      BY <3>3, <1>r DEF Running, InWrite
    <3> QED BY <1>4, <3>1, <3>2, <3>3 DEF Effect
  <2> QED BY <2>1, <2>2, <2>3, <2>4, <2>5, <1>t DEF TInv, TypeOK, queueVars, Kinds
<1>5. ASSUME NEW f \in InFrames, FrameArrives(f) PROVE TInv'
  <2> DEFINE o == handle_parsed_frame(f, fb)
  <2>1. /\ fb' = o.fb /\ todo' = Effects(o) /\ nin' = nin + 1
        /\ Goto(reader, "got")
        /\ UNCHANGED << connVars, queueVars, reply, peer, strand, out, spawned >>
    BY <1>5 DEF FrameArrives
  <2>2. /\ o.fb \in Body /\ Len(o.errs) \in {0, 1, 2}
        /\ o.reply \in {"none", "pong", "close"}
    BY <1>t, ConnAssumption, DispatchType DEF TypeOK
  <2> HIDE DEF o
  <2>3. todo' \in Seq(Kinds)
    BY <2>1, <2>2, EffectsType
  <2>4. pc' \in [Actors -> Labels] /\ Places'
    BY <2>1, <1>r DEF Suspended
  <2> QED BY <2>1, <2>2, <2>3, <2>4, <1>t
          DEF TInv, TypeOK, connVars, queueVars, Kinds
<1>6. CASE PeerGone
  BY <1>6, <1>t DEF PeerGone, TInv, TypeOK, Places, connVars, queueVars, readVars
<1> QED BY <1>1, <1>2, <1>3, <1>4, <1>5, <1>6 DEF ReaderStep

LEMMA NextTInv == TInv /\ [Next]_vars => TInv'
<1> SUFFICES ASSUME TInv, [Next]_vars PROVE TInv'
  OBVIOUS
<1>1. CASE \E p \in Actors : Resume(p) \/ Step(p) \/ WriteDone(p) \/ WriteFails(p)
  BY <1>1, StepTInv
<1>2. CASE UNCHANGED vars
  BY <1>2 DEF TInv, TypeOK, Places, vars
<1> QED BY <1>1, <1>2, OtherTInv DEF Next

\* Along every behaviour the state is well typed, and each actor is at a place
\* of its own code (do_write, close, do_read_loop).
THEOREM ConnTInv == Spec => []TInv
BY InitTInv, NextTInv, PTL DEF Spec

\* Type correctness of the connection, for every set of callers, every number
\* of threads and every input.
THEOREM ConnTypeCorrect == Spec => []TypeOK
BY ConnTInv, PTL DEF TInv

-----------------------------------------------------------------------------
(* close() runs to its end once. *)

Closing == {"shut", "onclose", "cleanup"}

\* Whoever wins the compare-exchange is the only one past it, and how far it
\* has got tells which callbacks have run.
CInv ==
    /\ \A p, q \in Actors : pc[p] \in Closing /\ pc[q] \in Closing => p = q
    /\ state_ = "OPEN" => calls.close = 0 /\ \A p \in Actors : pc[p] \notin Closing
    /\ \A p \in Actors :
          /\ pc[p] \in {"shut", "onclose"} => calls.close = 0
          /\ pc[p] \in {"onclose", "cleanup"} => sock = "closed"
          /\ pc[p] = "cleanup" => calls.close = 1 /\ calls.cleanup = 0
    /\ CloseOnce

\* A step that is not a step of close() leaves close()'s state alone, and
\* nobody enters or leaves the part of close() after the compare-exchange.
Aside ==
    /\ UNCHANGED << state_, sock, registered >>
    /\ calls'.close = calls.close /\ calls'.cleanup = calls.cleanup
    /\ \A q \in Actors : pc'[q] = pc[q] \/ {pc[q], pc'[q]} \cap Closing = {}

LEMMA AsideStep ==
    ASSUME TInv, Next, ~\E p \in Actors : close(p)
    PROVE  Aside
<1>t. pc \in [Actors -> Labels] /\ calls \in Calls
  BY DEF TInv, TypeOK, Labels
<1>g. ASSUME NEW p \in Actors, NEW l, Goto(p, l), l \notin Closing,
             pc[p] \notin Closing
      PROVE  \A q \in Actors : pc'[q] = pc[q] \/ {pc[q], pc'[q]} \cap Closing = {}
  BY <1>g, <1>t DEF Goto
<1>1. ASSUME NEW p \in Jobs, send_async(p) \/ close_async(p) PROVE Aside
  <2>1. p \in Actors /\ pc[p] = "idle" /\ Goto(p, "ready") /\ UNCHANGED connVars
    BY <1>1, ActorsFacts DEF send_async, close_async, Enqueue
  <2> QED BY <1>g, <2>1 DEF Aside, connVars, Closing
<1>2. CASE close_websockets
  <2>1. pc[stopper] = "idle" /\ Goto(stopper, "cas") /\ UNCHANGED connVars
    BY <1>2 DEF close_websockets
  <2> QED BY <1>g, <2>1, ActorsFacts DEF Aside, connVars, Closing
<1>3. ASSUME NEW p \in Actors, Resume(p) \/ Check(p) \/ WriteDone(p) \/ WriteFails(p)
      PROVE  Aside
  <2>1. /\ pc[p] \notin Closing /\ UNCHANGED connVars
        /\ \E l \in {"check", "push", "pop", "ended", "wrote", "failed"} : Goto(p, l)
    BY <1>3 DEF Resume, Check, WriteDone, WriteFails, Wake, Closing
  <2> QED BY <1>g, <2>1 DEF Aside, connVars, Closing
<1>4. ASSUME NEW p \in Actors, do_write(p) PROVE Aside
  <2>1. /\ pc[p] \notin Closing /\ UNCHANGED connVars
        /\ \E l \in {"test", "set", "loop", "clear", "await", Return(p)} : Goto(p, l)
    BY <1>4 DEF do_write, Push, Test, SetWriting, Loop, Pop, ClearWriting, Closing
  <2>2. Return(p) \notin Closing
    BY DEF Return, Closing
  <2> QED BY <1>g, <2>1, <2>2 DEF Aside, connVars, Closing
<1>5. CASE ResumeReader \/ Top \/ ReadFails \/ \E f \in InFrames : FrameArrives(f)
  <2>1. /\ pc[reader] \notin Closing /\ UNCHANGED connVars
        /\ \E l \in {"effect", "ended", "reading", "lost", "got"} : Goto(reader, l)
    BY <1>5 DEF ResumeReader, Top, ReadFails, FrameArrives, Closing
  <2> QED BY <1>g, <2>1, ActorsFacts DEF Aside, connVars, Closing
<1>6. CASE Effect
  <2>1. pc[reader] \notin Closing /\ UNCHANGED << state_, sock, registered >>
    BY <1>6 DEF Effect, Closing
  <2>2. calls'.close = calls.close /\ calls'.cleanup = calls.cleanup
    BY <1>6, <1>t DEF Effect, Calls
  <2>3. \/ pc' = pc
        \/ \E l \in {"top", "push", "cas"} : Goto(reader, l)
    BY <1>6 DEF Effect
  <2> QED BY <1>g, <2>1, <2>2, <2>3, ActorsFacts DEF Aside, Closing
<1>7. CASE PeerGone
  BY <1>7 DEF PeerGone, Aside, connVars
<1> QED BY <1>1, <1>2, <1>3, <1>4, <1>5, <1>6, <1>7 DEF Next, Step, ReaderStep

LEMMA NextCInv == TInv /\ CInv /\ [Next]_vars => CInv'
<1> SUFFICES ASSUME TInv, CInv, [Next]_vars PROVE CInv'
  OBVIOUS
<1>t. /\ pc \in [Actors -> Labels] /\ calls \in Calls
      /\ state_ \in {"OPEN", "CLOSED"} /\ registered \in BOOLEAN
  BY DEF TInv, TypeOK, Labels
<1>0. calls.close \in Nat /\ calls.cleanup \in Nat
  BY <1>t DEF Calls
<1>1. CASE UNCHANGED vars
  BY <1>1 DEF CInv, CloseOnce, vars
<1>2. CASE Next /\ ~\E p \in Actors : close(p)
  <2>1. Aside
    BY <1>2, AsideStep
  <2> QED BY <2>1 DEF Aside, CInv, CloseOnce, Closing
<1>3. ASSUME NEW p \in Actors, close(p) PROVE CInv'
  <2>1. CASE Cas(p)
    <3>1. CASE state_ = "OPEN"
      BY <2>1, <3>1, <1>t DEF Cas, Goto, CInv, CloseOnce, Closing
    <3>2. CASE state_ # "OPEN"
      BY <2>1, <3>2, <1>t DEF Cas, Goto, CInv, CloseOnce, Closing
    <3> QED BY <3>1, <3>2
  <2>2. CASE Shut(p)
    BY <2>2, <1>t, <1>0 DEF Shut, Goto, CInv, CloseOnce, Closing
  <2>3. CASE OnClose(p)
    <3>1. /\ calls'.close = calls.close + 1 /\ calls'.cleanup = calls.cleanup
          /\ UNCHANGED << state_, sock, registered >>
      BY <2>3, <1>t DEF OnClose, Calls
    <3>2. pc[p] = "onclose" /\ pc' = [pc EXCEPT ![p] = "cleanup"]
      BY <2>3 DEF OnClose, Goto
    <3> QED BY <3>1, <3>2, <1>t, <1>0 DEF CInv, CloseOnce, Closing
  <2>4. CASE Cleanup(p)
    <3>1. /\ calls'.cleanup = calls.cleanup + 1 /\ calls'.close = calls.close
          /\ registered' = FALSE /\ UNCHANGED << state_, sock >>
      BY <2>4, <1>t DEF Cleanup, Calls
    <3>2. /\ pc[p] = "cleanup"
          /\ \E l \in {"effect", "ended"} : pc' = [pc EXCEPT ![p] = l]
      BY <2>4 DEF Cleanup, Goto
    <3> QED BY <3>1, <3>2, <1>t, <1>0 DEF CInv, CloseOnce, Closing
  <2> QED BY <1>3, <2>1, <2>2, <2>3, <2>4 DEF close
<1> QED BY <1>1, <1>2, <1>3

LEMMA InitCInv == Init => CInv
<1> SUFFICES ASSUME Init PROVE CInv
  OBVIOUS
<1>1. \A p \in Actors : pc[p] \notin Closing
  BY DEF Init, Closing
<1>2. calls.close = 0 /\ calls.cleanup = 0 /\ registered
  BY DEF Init
<1> QED BY <1>1, <1>2 DEF CInv, CloseOnce, Closing

\* However many coroutines and threads close the connection, close() calls
\* on_close and the server's cleanup at most once each, in that order and
\* after the socket is shut: for every set of callers and number of threads.
THEOREM ClosesOnce == Spec => []CloseOnce
BY ConnTInv, InitCInv, NextCInv, PTL DEF Spec, CInv

-----------------------------------------------------------------------------
(* The write queue, as long as no two actors are inside do_write at once. *)

\* No two actors hold a thread inside do_write.
Excl == \A p, q \in Actors : pc[p] \in InWrite /\ pc[q] \in InWrite => p = q

\* The inductive invariant: is_writing_ is set while somebody is in the
\* writing loop, the frame being written is the front of the queue, and the
\* queue accounts for every frame pushed.
QInv ==
    /\ \A p \in Actors : pc[p] \in Writing => is_writing_
    /\ \A p \in Actors : pc[p] = "set" => ~is_writing_
    /\ OneWriter
    /\ \A p \in Actors :
          pc[p] \in {"await", "wrote", "failed", "pop"} =>
              write_queue_ # <<>> /\ out[p] = << Head(write_queue_) >>
    /\ WireIsFifo

Pending == \E p \in Actors : pc[p] \in {"wrote", "pop"}

\* Taking the front off a queue, and adding to its back.
LEMMA QueueFacts ==
    ASSUME NEW S, NEW w \in Seq(S), w # <<>>, NEW f \in S
    PROVE  /\ SubSeq(w, 2, Len(w)) = Tail(w) /\ Tail(w) \in Seq(S)
           /\ Head(w) \in S
           /\ w = << Head(w) >> \o Tail(w)
           /\ Append(w, f) # <<>> /\ Head(Append(w, f)) = Head(w)
           /\ Tail(Append(w, f)) = Append(Tail(w), f)
OBVIOUS

\* Appending to the second part of a concatenation, or moving its head over.
LEMMA ConcatFacts ==
    ASSUME NEW S, NEW v \in Seq(S), NEW w \in Seq(S), NEW f \in S
    PROVE  /\ v \o Append(w, f) = Append(v \o w, f)
           /\ w # <<>> => (v \o << Head(w) >>) \o Tail(w) = v \o w
           /\ v \o << f >> = Append(v, f)
<1>1. v \o Append(w, f) = Append(v \o w, f)
  OBVIOUS
<1>2. ASSUME w # <<>> PROVE (v \o << Head(w) >>) \o Tail(w) = v \o w
  <2>1. Head(w) \in S /\ Tail(w) \in Seq(S) /\ w = << Head(w) >> \o Tail(w)
    BY <1>2
  <2>2. << Head(w) >> \in Seq(S)
    BY <2>1
  <2>3. (v \o << Head(w) >>) \o Tail(w) = v \o (<< Head(w) >> \o Tail(w))
    BY <2>1, <2>2, ConcatAssociative
  <2> QED BY <2>1, <2>3
<1>3. v \o << f >> = Append(v, f)
  OBVIOUS
<1> QED BY <1>1, <1>2, <1>3

\* A step outside the writing loop: queue and wire stay, and nobody enters or
\* leaves the loop.
QAside ==
    /\ UNCHANGED << write_queue_, is_writing_, wire, pushed, ub, out >>
    /\ \A q \in Actors :
          pc'[q] = pc[q] \/ {pc[q], pc'[q]} \cap (Writing \cup {"set"}) = {}

LEMMA QAsidePreserves ==
    ASSUME QInv, QAside
    PROVE  QInv' /\ Unsent' = Unsent /\ wire' = wire
<1>1. Pending' = Pending
  BY DEF QAside, Pending, Writing
<1>2. Unsent' = Unsent
  BY <1>1 DEF Unsent, Pending, QAside
<1>3. WireIsFifo'
  BY <1>2 DEF QInv, WireIsFifo, QAside
<1>4. OneWriter'
  BY DEF QInv, OneWriter, QAside
<1>5. \A p \in Actors : /\ pc'[p] \in Writing => is_writing_'
                        /\ pc'[p] = "set" => ~is_writing_'
  BY DEF QInv, QAside
<1>6. \A p \in Actors : pc'[p] \in {"await", "wrote", "failed", "pop"} =>
              write_queue_' # <<>> /\ out'[p] = << Head(write_queue_') >>
  BY DEF QInv, QAside, Writing
<1> QED BY <1>2, <1>3, <1>4, <1>5, <1>6 DEF QInv, QAside

\* The steps that are not part of the writing loop.
LEMMA QAsideStep ==
    ASSUME TInv, Next,
           ~\E p \in Actors :
               \/ Push(p) \/ Test(p) \/ SetWriting(p) \/ Loop(p) \/ Pop(p)
               \/ ClearWriting(p) \/ WriteDone(p) \/ WriteFails(p)
               \/ Resume(p) /\ pc[p] # "ready"
    PROVE  QAside
<1> DEFINE Loops == Writing \cup {"set"}
<1>t. pc \in [Actors -> Labels]
  BY DEF TInv, TypeOK, Labels
<1>g. ASSUME NEW p \in Actors, NEW l, Goto(p, l), {pc[p], l} \cap Loops = {}
      PROVE  \A q \in Actors : pc'[q] = pc[q] \/ {pc[q], pc'[q]} \cap Loops = {}
  BY <1>g, <1>t DEF Goto
<1>1. ASSUME NEW p \in Jobs, send_async(p) \/ close_async(p) PROVE QAside
  <2>1. /\ p \in Actors /\ pc[p] = "idle" /\ Goto(p, "ready")
        /\ UNCHANGED << queueVars, out >>
    BY <1>1, ActorsFacts DEF send_async, close_async, Enqueue
  <2> QED BY <1>g, <2>1 DEF QAside, queueVars, Writing
<1>2. CASE close_websockets
  <2>1. /\ pc[stopper] = "idle" /\ Goto(stopper, "cas")
        /\ UNCHANGED << queueVars, out >>
    BY <1>2 DEF close_websockets
  <2> QED BY <1>g, <2>1, ActorsFacts DEF QAside, queueVars, Writing
<1>3. ASSUME NEW p \in Actors, (Resume(p) /\ pc[p] = "ready") \/ Check(p)
      PROVE  QAside
  <2>1. /\ pc[p] \in {"ready", "check"} /\ UNCHANGED << queueVars, out >>
        /\ \E l \in {"check", "push", "ended"} : Goto(p, l)
    BY <1>3 DEF Resume, Check
  <2> QED BY <1>g, <2>1 DEF QAside, queueVars, Writing
<1>4. ASSUME NEW p \in Actors, close(p) PROVE QAside
  <2>1. /\ pc[p] \in InClose /\ UNCHANGED << queueVars, out >>
        /\ \E l \in {"shut", "onclose", "cleanup", "ended", "effect"} : Goto(p, l)
    BY <1>4 DEF close, Cas, Shut, OnClose, Cleanup, InClose
  <2> QED BY <1>g, <2>1 DEF QAside, queueVars, Writing, InClose
<1>5. CASE ResumeReader \/ Top \/ ReadFails \/ \E f \in InFrames : FrameArrives(f)
  <2>1. /\ pc[reader] \in {"got", "lost", "top", "reading"}
        /\ UNCHANGED << queueVars, out >>
        /\ \E l \in {"effect", "ended", "reading", "lost", "got"} : Goto(reader, l)
    BY <1>5 DEF ResumeReader, Top, ReadFails, FrameArrives
  <2> QED BY <1>g, <2>1, ActorsFacts DEF QAside, queueVars, Writing
<1>6. CASE Effect
  <2>1. /\ pc[reader] = "effect" /\ UNCHANGED << queueVars, out >>
        /\ \/ pc' = pc
           \/ \E l \in {"top", "push", "cas"} : Goto(reader, l)
    BY <1>6 DEF Effect
  <2> QED BY <1>g, <2>1, ActorsFacts DEF QAside, queueVars, Writing
<1>7. CASE PeerGone
  BY <1>7 DEF PeerGone, QAside, queueVars
<1> QED BY <1>1, <1>2, <1>3, <1>4, <1>5, <1>6, <1>7
        DEF Next, Step, ReaderStep, do_write

\* do_write puts a frame at the back of the queue, behind all the unsent ones.
LEMMA PushStep ==
    ASSUME TInv, QInv, NEW p \in Actors, Push(p)
    PROVE  /\ QInv' /\ wire' = wire
           /\ OutFrame(p) \in OutFrames /\ Unsent \in Seq(OutFrames)
           /\ Unsent' = Append(Unsent, OutFrame(p))
<1> DEFINE f == OutFrame(p)
           w == write_queue_
<1>t. /\ pc \in [Actors -> Labels] /\ w \in Seq(OutFrames)
      /\ wire \in Seq(OutFrames) /\ pushed \in Seq(OutFrames)
  BY DEF TInv, TypeOK, Labels
<1>1. f \in OutFrames
  BY OutFrameType DEF TInv, Places, Push
<1>2. /\ write_queue_' = Append(w, f) /\ pushed' = Append(pushed, f)
      /\ UNCHANGED << is_writing_, out, wire, ub >>
      /\ pc[p] = "push" /\ pc' = [pc EXCEPT ![p] = "test"]
  BY DEF Push, Goto
<1> HIDE DEF f
<1>3. \A q \in Actors : pc'[q] = pc[q] \/ {pc[q], pc'[q]} \cap (Writing \cup {"set"}) = {}
  BY <1>2, <1>t DEF Writing
<1>4. \A q \in Actors : /\ pc'[q] \in Writing => is_writing_'
                        /\ pc'[q] = "set" => ~is_writing_'
  BY <1>2, <1>3 DEF QInv
<1>5. OneWriter'
  BY <1>3 DEF QInv, OneWriter
<1>6. \A q \in Actors : pc'[q] \in {"await", "wrote", "failed", "pop"} =>
              write_queue_' # <<>> /\ out'[q] = << Head(write_queue_') >>
  BY <1>1, <1>2, <1>3, <1>t, QueueFacts DEF QInv, Writing
<1>7. Pending' = Pending
  BY <1>3 DEF Pending, Writing
<1>8. Unsent \in Seq(OutFrames) /\ Unsent' = Append(Unsent, f)
  <2>1. CASE Pending
    <3>1. w # <<>>
      BY <2>1 DEF Pending, QInv
    <3>2. Unsent = Tail(w) /\ Tail(w) \in Seq(OutFrames)
      BY <2>1, <3>1, <1>1, <1>t, QueueFacts DEF Unsent, Pending
    <3>3. write_queue_' \in Seq(OutFrames) /\ write_queue_' # <<>>
      BY <1>1, <1>2, <1>t
    <3>4. Unsent' = Tail(write_queue_')
      BY <2>1, <3>3, <1>1, <1>7, QueueFacts DEF Unsent, Pending
    <3> QED BY <3>1, <3>2, <3>4, <1>1, <1>2, <1>t, QueueFacts
  <2>2. CASE ~Pending
    BY <2>2, <1>2, <1>7, <1>t DEF Unsent, Pending
  <2> QED BY <2>1, <2>2
<1>9. WireIsFifo'
  <2>1. wire \o Unsent = pushed /\ ~ub
    BY DEF QInv, WireIsFifo
  <2>2. wire \o Append(Unsent, f) = Append(wire \o Unsent, f)
    BY <1>1, <1>8, <1>t, ConcatFacts
  <2> QED BY <2>1, <2>2, <1>2, <1>8 DEF WireIsFifo
<1> QED BY <1>1, <1>2, <1>4, <1>5, <1>6, <1>8, <1>9 DEF QInv, f

\* The test of is_writing_ and its setting.
LEMMA EnterStep ==
    ASSUME TInv, QInv, Excl, NEW p \in Actors, Test(p) \/ SetWriting(p)
    PROVE  QInv' /\ wire' = wire /\ Unsent' = Unsent
<1>t. pc \in [Actors -> Labels]
  BY DEF TInv, TypeOK, Labels
<1>0. UNCHANGED << write_queue_, wire, pushed, ub, out >>
  BY DEF Test, SetWriting, queueVars
<1>1. CASE Test(p) /\ is_writing_
  <2>1. /\ pc[p] = "test" /\ pc' = [pc EXCEPT ![p] = Return(p)]
        /\ is_writing_' = is_writing_
    BY <1>1 DEF Test, Goto, queueVars
  <2>2. QAside
    BY <2>1, <1>0, <1>t, LabelsFacts DEF QAside, Writing
  <2> QED BY <2>2, QAsidePreserves
<1>2. CASE (Test(p) /\ ~is_writing_) \/ SetWriting(p)
  <2>1. \/ /\ pc[p] = "test" /\ pc' = [pc EXCEPT ![p] = "set"]
           /\ ~is_writing_ /\ ~is_writing_'
        \/ /\ pc[p] = "set" /\ pc' = [pc EXCEPT ![p] = "loop"]
           /\ ~is_writing_ /\ is_writing_'
    BY <1>2 DEF Test, SetWriting, Goto, queueVars, QInv
  <2>2. \A q \in Actors : pc[q] \notin Writing
    BY <2>1 DEF QInv
  <2>3. \A q \in Actors : q # p => pc'[q] = pc[q] /\ pc[q] # "set"
    <3>1. pc[p] \in InWrite /\ "set" \in InWrite
      BY <2>1 DEF InWrite
    <3>2. \A q \in Actors : q # p => pc'[q] = pc[q]
      BY <2>1, <1>t
    <3> QED BY <3>1, <3>2 DEF Excl
  <2>4. \/ pc'[p] = "set" /\ ~is_writing_'
        \/ pc'[p] = "loop" /\ is_writing_'
    BY <2>1, <1>t
  <2>5. ~Pending /\ ~Pending'
    BY <2>2, <2>3, <2>4 DEF Pending, Writing
  <2>6. Unsent' = Unsent
    BY <2>5, <1>0 DEF Unsent, Pending
  <2>7. WireIsFifo'
    BY <2>6, <1>0 DEF QInv, WireIsFifo
  <2>8. OneWriter'
    BY <2>2, <2>3 DEF OneWriter
  <2>9. \A q \in Actors : /\ pc'[q] \in Writing => is_writing_'
                          /\ pc'[q] = "set" => ~is_writing_'
                          /\ pc'[q] \notin {"await", "wrote", "failed", "pop"}
    BY <2>2, <2>3, <2>4 DEF Writing
  <2> QED BY <1>0, <2>6, <2>7, <2>8, <2>9 DEF QInv
<1> QED BY <1>1, <1>2

\* An actor inside the writing loop moves along it: everybody else is outside.
LEMMA LoopOthers ==
    ASSUME TInv, QInv, NEW p \in Actors, pc[p] \in Writing,
           NEW l, pc' = [pc EXCEPT ![p] = l]
    PROVE  /\ is_writing_
           /\ pc'[p] = l
           /\ \A q \in Actors : q # p =>
                 /\ pc'[q] = pc[q]
                 /\ pc[q] \notin Writing \cup {"set"}
           /\ Pending <=> pc[p] \in {"wrote", "pop"}
           /\ Pending' <=> l \in {"wrote", "pop"}
           /\ OneWriter'
<1>t. pc \in [Actors -> Labels]
  BY DEF TInv, TypeOK, Labels
<1>1. pc'[p] = l /\ \A q \in Actors : q # p => pc'[q] = pc[q]
  BY <1>t
<1>2. is_writing_
  BY DEF QInv
<1>3. \A q \in Actors : q # p => pc[q] \notin Writing /\ pc[q] # "set"
  BY <1>2 DEF QInv, OneWriter
<1>4. Pending <=> pc[p] \in {"wrote", "pop"}
  BY <1>3 DEF Pending, Writing
<1>5. Pending' <=> l \in {"wrote", "pop"}
  BY <1>1, <1>3 DEF Pending, Writing
<1>6. OneWriter'
  BY <1>1, <1>3 DEF OneWriter
<1> QED BY <1>1, <1>2, <1>3, <1>4, <1>5, <1>6

\* The steps of the writing loop that put nothing on the wire.
LEMMA LoopStep ==
    ASSUME TInv, QInv, NEW p \in Actors,
           \/ Loop(p) \/ Pop(p) \/ ClearWriting(p) \/ WriteFails(p)
           \/ Resume(p) /\ pc[p] # "ready"
    PROVE  QInv' /\ wire' = wire /\ Unsent' = Unsent
<1> DEFINE w == write_queue_
<1>t. /\ pc \in [Actors -> Labels] /\ w \in Seq(OutFrames)
      /\ out \in [Actors -> Seq(OutFrames)]
  BY DEF TInv, TypeOK, Labels
<1>q. ASSUME NEW l, pc' = [pc EXCEPT ![p] = l], pc[p] \in Writing, l # "set",
             l \in Writing => is_writing_', wire' = wire, pushed' = pushed, ub' = ub,
             l \in {"await", "wrote", "failed", "pop"} =>
                write_queue_' # <<>> /\ out'[p] = << Head(write_queue_') >>,
             Unsent' = Unsent
      PROVE  QInv' /\ wire' = wire /\ Unsent' = Unsent
  <2>1. /\ pc'[p] = l /\ OneWriter'
        /\ \A q \in Actors : q # p =>
              pc'[q] = pc[q] /\ pc[q] \notin Writing \cup {"set"}
    BY <1>q, LoopOthers
  <2>2. WireIsFifo'
    BY <1>q DEF QInv, WireIsFifo
  <2>3. \A q \in Actors : /\ pc'[q] \in Writing => is_writing_'
                          /\ pc'[q] = "set" => ~is_writing_'
    BY <1>q, <2>1
  <2>4. \A q \in Actors : pc'[q] \in {"await", "wrote", "failed", "pop"} =>
              write_queue_' # <<>> /\ out'[q] = << Head(write_queue_') >>
    BY <1>q, <2>1 DEF Writing
  <2> QED BY <1>q, <2>1, <2>2, <2>3, <2>4 DEF QInv
<1>u. ASSUME NEW l, pc' = [pc EXCEPT ![p] = l], pc[p] \in Writing,
             write_queue_' = write_queue_,
             pc[p] \in {"wrote", "pop"} <=> l \in {"wrote", "pop"}
      PROVE  Unsent' = Unsent
  <2>1. Pending <=> Pending'
    BY <1>u, LoopOthers
  <2> QED BY <2>1, <1>u DEF Unsent, Pending
<1>1. CASE Loop(p)
  <2>1. /\ pc[p] = "loop" /\ UNCHANGED << write_queue_, is_writing_, wire, pushed, ub >>
    BY <1>1 DEF Loop, queueVars
  <2>2. is_writing_
    BY <2>1 DEF QInv, Writing
  <2>3. CASE w = <<>>
    <3>1. pc' = [pc EXCEPT ![p] = "clear"]
      BY <1>1, <2>3 DEF Loop, Goto
    <3>2. Unsent' = Unsent
      BY <3>1, <2>1, <1>u DEF Writing
    <3> QED BY <3>1, <3>2, <2>1, <2>2, <1>q DEF Writing
  <2>4. CASE w # <<>>
    <3>1. /\ pc' = [pc EXCEPT ![p] = "await"]
          /\ out' = [out EXCEPT ![p] = << Head(w) >>]
      BY <1>1, <2>4 DEF Loop, Goto
    <3>2. Unsent' = Unsent
      BY <3>1, <2>1, <1>u DEF Writing
    <3>3. out'[p] = << Head(write_queue_') >> /\ write_queue_' # <<>>
      BY <3>1, <2>1, <2>4, <1>t
    <3> QED BY <3>1, <3>2, <3>3, <2>1, <2>2, <1>q DEF Writing
  <2> QED BY <2>3, <2>4
<1>2. CASE Pop(p)
  <2>1. /\ pc[p] = "pop" /\ pc' = [pc EXCEPT ![p] = "loop"]
        /\ UNCHANGED << is_writing_, wire, pushed >>
    BY <1>2 DEF Pop, Goto
  <2>2. is_writing_ /\ w # <<>>
    BY <2>1 DEF QInv, Writing
  <2>3. ub' = ub /\ write_queue_' = Tail(w)
    BY <1>2, <2>2 DEF Pop
  <2>4. Pending /\ ~Pending'
    BY <2>1, LoopOthers DEF Writing
  <2>5. Unsent = Tail(w)
    <3>1. SubSeq(w, 2, Len(w)) = Tail(w)
      BY <2>2, <1>t
    <3> QED BY <3>1, <2>4 DEF Unsent, Pending
  <2>6. Unsent' = Tail(w)
    BY <2>3, <2>4 DEF Unsent, Pending
  <2> QED BY <2>1, <2>2, <2>3, <2>5, <2>6, <1>q DEF Writing
<1>3. CASE ClearWriting(p)
  <2>1. /\ pc[p] = "clear" /\ pc' = [pc EXCEPT ![p] = Return(p)]
        /\ UNCHANGED << write_queue_, wire, pushed, ub >>
    BY <1>3 DEF ClearWriting, Goto
  <2>2. Return(p) \notin Writing /\ Return(p) # "set"
    BY LabelsFacts DEF Writing
  <2>3. Unsent' = Unsent
    BY <2>1, <2>2, <1>u DEF Writing
  <2> QED BY <2>1, <2>2, <2>3, <1>q DEF Writing
<1>4. CASE WriteFails(p)
  <2>1. /\ pc[p] = "await" /\ pc' = [pc EXCEPT ![p] = "failed"]
        /\ UNCHANGED << write_queue_, is_writing_, wire, pushed, ub, out >>
    BY <1>4 DEF WriteFails, Wake, Goto, queueVars
  <2>2. is_writing_ /\ w # <<>> /\ out[p] = << Head(w) >>
    BY <2>1 DEF QInv, Writing
  <2>3. Unsent' = Unsent
    BY <2>1, <1>u DEF Writing
  <2> QED BY <2>1, <2>2, <2>3, <1>q DEF Writing
<1>5. CASE Resume(p) /\ pc[p] # "ready"
  <2>1. /\ \/ pc[p] = "wrote" /\ pc' = [pc EXCEPT ![p] = "pop"]
           \/ pc[p] = "failed" /\ pc' = [pc EXCEPT ![p] = "ended"]
        /\ UNCHANGED << write_queue_, is_writing_, wire, pushed, ub, out >>
    BY <1>5 DEF Resume, Goto, queueVars
  <2>2. is_writing_ /\ w # <<>> /\ out[p] = << Head(w) >>
    BY <2>1 DEF QInv, Writing
  <2>3. Unsent' = Unsent
    BY <2>1, <1>u DEF Writing
  <2> QED BY <2>1, <2>2, <2>3, <1>q DEF Writing
<1> QED BY <1>1, <1>2, <1>3, <1>4, <1>5

\* A completed write moves the oldest unsent frame to the wire.
LEMMA WriteDoneStep ==
    ASSUME TInv, QInv, NEW p \in Actors, WriteDone(p)
    PROVE  /\ QInv' /\ Unsent # <<>>
           /\ wire' = Append(wire, Head(Unsent)) /\ Unsent' = Tail(Unsent)
<1> DEFINE w == write_queue_
<1>t. w \in Seq(OutFrames) /\ wire \in Seq(OutFrames)
  BY DEF TInv, TypeOK
<1>1. /\ pc[p] = "await" /\ pc' = [pc EXCEPT ![p] = "wrote"]
      /\ UNCHANGED << write_queue_, is_writing_, pushed, ub, out >>
      /\ wire' = wire \o out[p]
  BY DEF WriteDone, Wake, Goto
<1>2. is_writing_ /\ w # <<>> /\ out[p] = << Head(w) >>
  BY <1>1 DEF QInv, Writing
<1>3. /\ ~Pending /\ Pending' /\ OneWriter' /\ pc'[p] = "wrote"
      /\ \A q \in Actors : q # p =>
            pc'[q] = pc[q] /\ pc[q] \notin Writing \cup {"set"}
  BY <1>1, LoopOthers DEF Writing
<1>4. Unsent = w /\ Unsent' = Tail(w)
  <2>1. SubSeq(w, 2, Len(w)) = Tail(w)
    BY <1>2, <1>t
  <2> QED BY <2>1, <1>1, <1>3 DEF Unsent, Pending
<1>5. wire' = Append(wire, Head(w)) /\ Head(w) \in OutFrames
  BY <1>1, <1>2, <1>t, ConcatFacts
<1>6. WireIsFifo'
  <2>1. wire \o w = pushed /\ ~ub
    BY <1>4 DEF QInv, WireIsFifo
  <2>2. (wire \o << Head(w) >>) \o Tail(w) = wire \o w
    BY <1>2, <1>5, <1>t, ConcatFacts
  <2> QED BY <2>1, <2>2, <1>1, <1>2, <1>4 DEF WireIsFifo
<1>7. \A q \in Actors : /\ pc'[q] \in Writing => is_writing_'
                        /\ pc'[q] = "set" => ~is_writing_'
  BY <1>1, <1>2, <1>3 DEF Writing
<1>8. \A q \in Actors : pc'[q] \in {"await", "wrote", "failed", "pop"} =>
              write_queue_' # <<>> /\ out'[q] = << Head(write_queue_') >>
  BY <1>1, <1>2, <1>3 DEF Writing
<1> QED BY <1>2, <1>3, <1>4, <1>5, <1>6, <1>7, <1>8 DEF QInv

LEMMA InitQInv == Init => QInv
<1> SUFFICES ASSUME Init PROVE QInv
  OBVIOUS
<1>1. \A p \in Actors : pc[p] \notin Writing /\ pc[p] # "set"
  BY DEF Init, Writing
<1>2. Unsent = <<>> /\ wire = <<>> /\ pushed = <<>> /\ ~ub
  BY <1>1 DEF Init, Unsent, Writing
<1> QED BY <1>1, <1>2 DEF QInv, OneWriter, WireIsFifo, Writing

\* Exclusion inside do_write is all the queue needs to stay correct.
LEMMA NextQInv == TInv /\ Excl /\ QInv /\ [Next]_vars => QInv'
<1> SUFFICES ASSUME TInv, Excl, QInv, [Next]_vars PROVE QInv'
  OBVIOUS
<1>1. CASE UNCHANGED vars
  <2>1. QAside
    BY <1>1 DEF QAside, vars
  <2> QED BY <2>1, QAsidePreserves
<1>2. CASE \E p \in Actors :
               \/ Push(p) \/ Test(p) \/ SetWriting(p) \/ Loop(p) \/ Pop(p)
               \/ ClearWriting(p) \/ WriteDone(p) \/ WriteFails(p)
               \/ Resume(p) /\ pc[p] # "ready"
  BY <1>2, PushStep, EnterStep, LoopStep, WriteDoneStep
<1>3. CASE Next /\ ~\E p \in Actors :
               \/ Push(p) \/ Test(p) \/ SetWriting(p) \/ Loop(p) \/ Pop(p)
               \/ ClearWriting(p) \/ WriteDone(p) \/ WriteFails(p)
               \/ Resume(p) /\ pc[p] # "ready"
  BY <1>3, QAsideStep, QAsidePreserves
<1> QED BY <1>1, <1>2, <1>3

-----------------------------------------------------------------------------
(* One worker thread. *)

\* At most one coroutine holds the thread.
Solo ==
    \A p, q \in Jobs \cup {reader} : pc[p] \in Running /\ pc[q] \in Running => p = q

LEMMA SoloExcl == TInv /\ Solo => Excl
<1> SUFFICES ASSUME TInv, Solo PROVE Excl
  OBVIOUS
<1>1. pc[stopper] \notin InWrite
  BY DEF TInv, Places, InClose, InWrite
<1>2. InWrite \subseteq Running
  BY DEF Running
<1> QED BY <1>1, <1>2 DEF Solo, Excl, Actors

\* With one thread, a coroutine is resumed only when no other one runs.
LEMMA FreeMeansIdle ==
    ASSUME Threads = 1, NEW p, Free(p)
    PROVE  \A q \in Jobs \cup {reader} : pc[q] \notin Running
<1>1. IsFiniteSet(Jobs \cup {reader})
  BY ConnAssumption, FS_AddElement
<1>2. IsFiniteSet(Busy)
  BY <1>1, FS_Subset DEF Busy
<1>3. Cardinality(Busy) = 0
  BY <1>2, FS_CardinalityType DEF Free
<1>4. Busy = {}
  BY <1>2, <1>3, FS_EmptySet
<1> QED BY <1>4 DEF Busy

LEMMA NextSolo ==
    ASSUME Threads = 1, TInv, Solo, [Next]_vars
    PROVE  Solo'
<1> DEFINE Coros == Jobs \cup {reader}
<1>t. pc \in [Actors -> Labels] /\ Coros \subseteq Actors
  BY ActorsFacts DEF TInv, TypeOK, Labels
<1>s. ASSUME NEW p \in Actors, NEW l, Goto(p, l),
             p = stopper \/ l \notin Running \/ pc[p] \in Running
      PROVE  Solo'
  BY <1>s, <1>t, ActorsFacts DEF Goto, Solo
<1>f. ASSUME NEW p \in Actors, NEW l, Goto(p, l),
             \A q \in Coros : pc[q] \notin Running
      PROVE  Solo'
  BY <1>f, <1>t DEF Goto, Solo
<1>1. CASE pc' = pc
  BY <1>1 DEF Solo
<1>2. ASSUME NEW p \in Jobs, send_async(p) \/ close_async(p) PROVE Solo'
  <2>1. p \in Actors /\ Goto(p, "ready") /\ "ready" \notin Running
    BY <1>2, ActorsFacts DEF send_async, close_async, Enqueue, Running, InWrite, InClose
  <2> QED BY <2>1, <1>s
<1>3. CASE close_websockets
  BY <1>3, <1>s, ActorsFacts DEF close_websockets
<1>4. ASSUME NEW p \in Actors, Resume(p) PROVE Solo'
  <2>1. \E l : Goto(p, l)
    BY <1>4 DEF Resume
  <2>2. \A q \in Coros : pc[q] \notin Running
    BY <1>4, FreeMeansIdle DEF Resume
  <2> QED BY <2>1, <2>2, <1>f
<1>5. ASSUME NEW p \in Actors, Step(p) PROVE Solo'
  <2>1. (\E l : Goto(p, l)) /\ pc[p] \in Running
    BY <1>5 DEF Step, Check, do_write, Push, Test, SetWriting, Loop, Pop,
                ClearWriting, close, Cas, Shut, OnClose, Cleanup,
                Running, InWrite, InClose
  <2> QED BY <2>1, <1>s
<1>6. ASSUME NEW p \in Actors, WriteDone(p) \/ WriteFails(p) PROVE Solo'
  <2>1. \E l \in {"wrote", "failed"} : Goto(p, l) /\ l \notin Running
    BY <1>6 DEF WriteDone, WriteFails, Wake, Running, InWrite, InClose
  <2> QED BY <2>1, <1>s
<1>7. CASE ResumeReader
  <2>1. \A q \in Coros : pc[q] \notin Running
    BY <1>7, FreeMeansIdle DEF ResumeReader
  <2> QED BY <1>7, <2>1, <1>f, ActorsFacts DEF ResumeReader
<1>8. CASE ReaderStep
  <2>1. pc[reader] \in Running /\ (pc' = pc \/ \E l : Goto(reader, l))
    BY <1>8 DEF ReaderStep, Top, Effect, Running
  <2> QED BY <2>1, <1>1, <1>s, ActorsFacts
<1>9. CASE ReadFails \/ \E f \in InFrames : FrameArrives(f)
  <2>1. \E l \in {"lost", "got"} : Goto(reader, l) /\ l \notin Running
    BY <1>9 DEF ReadFails, FrameArrives, Running, InWrite, InClose
  <2> QED BY <2>1, <1>s, ActorsFacts
<1>10. CASE PeerGone \/ UNCHANGED vars
  BY <1>10, <1>1 DEF PeerGone, vars
<1> QED BY <1>2, <1>3, <1>4, <1>5, <1>6, <1>7, <1>8, <1>9, <1>10 DEF Next

LEMMA InitSolo == Init => Solo
<1> SUFFICES ASSUME Init PROVE Solo
  OBVIOUS
<1>1. \A p \in Jobs : pc[p] = "idle"
  BY ActorsFacts DEF Init
<1> QED BY <1>1 DEF Solo, Running, InWrite, InClose

\* The whole invariant of a connection served by one thread.
OInv == TInv /\ Solo /\ QInv

LEMMA OneThread ==
    ASSUME Threads = 1
    PROVE  Spec => []OInv
<1>1. Init => OInv
  BY InitTInv, InitSolo, InitQInv DEF OInv
<1>2. OInv /\ [Next]_vars => OInv'
  BY NextTInv, NextSolo, NextQInv, SoloExcl DEF OInv
<1> QED BY <1>1, <1>2, PTL DEF Spec

\* With one worker thread no two asynchronous writes are ever in progress,
\* although the reader calls do_write outside the strand.
THEOREM OneThreadOneWriter ==
    ASSUME Threads = 1
    PROVE  Spec => []OneWriter
BY OneThread, PTL DEF OInv, QInv

\* With one worker thread every frame given to do_write is on the wire once,
\* in order, or still in the queue.
THEOREM OneThreadFifo ==
    ASSUME Threads = 1
    PROVE  Spec => []WireIsFifo
BY OneThread, PTL DEF OInv, QInv

-----------------------------------------------------------------------------
(* The refinement of Outbox. *)

Live == sock = "open" /\ peer = "up"

LEMMA OutboxInit == Init => Box!Init
<1> SUFFICES ASSUME Init PROVE Box!Init
  OBVIOUS
<1>1. \A p \in Actors : pc[p] \notin {"wrote", "pop"}
  BY DEF Init
<1> QED BY <1>1 DEF Init, Box!Init, Unsent

\* The connection can only go down, and only steps outside the writing loop
\* take it down.
LEMMA LiveStep ==
    ASSUME TInv, Next
    PROVE  /\ Live' => Live
           /\ (\E p \in Actors : do_write(p) \/ WriteDone(p)) => Live' = Live
<1>1. ASSUME NEW p \in Actors, do_write(p) \/ WriteDone(p)
      PROVE  sock' = sock /\ peer' = peer
  BY <1>1 DEF do_write, Push, Test, SetWriting, Loop, Pop, ClearWriting,
              WriteDone, connVars
<1>2. ASSUME NEW p \in Actors, close(p)
      PROVE  (sock' = sock \/ sock' = "closed") /\ peer' = peer
  BY <1>2 DEF close, Cas, Shut, OnClose, Cleanup
<1>3. ASSUME NEW p \in Actors, Resume(p) \/ Check(p) \/ WriteFails(p)
      PROVE  sock' = sock /\ peer' = peer
  BY <1>3 DEF Resume, Check, WriteFails, connVars
<1>4. ASSUME \/ \E p \in Jobs : send_async(p) \/ close_async(p)
             \/ close_websockets \/ ResumeReader \/ ReadFails
             \/ \E f \in InFrames : FrameArrives(f)
      PROVE  sock' = sock /\ peer' = peer
  BY <1>4 DEF send_async, close_async, close_websockets, ResumeReader, ReadFails,
              FrameArrives, connVars
<1>5. CASE ReaderStep
  <2>1. sock' = sock /\ peer' = peer
    BY <1>5 DEF ReaderStep, Top, Effect, connVars
  <2> QED BY <2>1, <1>1 DEF Live
<1>6. CASE PeerGone
  BY <1>6, <1>1 DEF PeerGone, Live
<1> QED BY <1>1, <1>2, <1>3, <1>4, <1>5, <1>6 DEF Next, Step, Live

LEMMA OutboxNext ==
    ASSUME TInv, Excl, QInv, [Next]_vars
    PROVE  [Box!Next]_(Box!vars)
<1>s. ASSUME wire' = wire, Unsent' = Unsent, Live' => Live
      PROVE  [Box!Next]_(Box!vars)
  BY <1>s DEF Box!Next, Box!vars, Box!Down, Live
<1>1. CASE UNCHANGED vars
  <2>1. QAside
    BY <1>1 DEF QAside, vars
  <2>2. wire' = wire /\ Unsent' = Unsent /\ Live' = Live
    BY <1>1, <2>1, QAsidePreserves DEF Live, vars
  <2> QED BY <2>2, <1>s
<1>2. ASSUME NEW p \in Actors, Push(p), Next PROVE Box!Next
  <2>1. /\ wire' = wire /\ OutFrame(p) \in OutFrames /\ Unsent \in Seq(OutFrames)
        /\ Unsent' = Append(Unsent, OutFrame(p))
    BY <1>2, PushStep
  <2>2. Live' = Live
    BY <1>2, LiveStep DEF do_write
  <2>3. Unsent' # <<>> /\ Unsent'[Len(Unsent')] = OutFrame(p)
    BY <2>1
  <2> QED BY <2>1, <2>2, <2>3 DEF Box!Next, Box!Put, Live
<1>3. ASSUME NEW p \in Actors, WriteDone(p), Next PROVE Box!Next
  <2>1. /\ Unsent # <<>> /\ wire' = Append(wire, Head(Unsent))
        /\ Unsent' = Tail(Unsent)
    BY <1>3, WriteDoneStep
  <2>2. Live' = Live /\ Live
    BY <1>3, LiveStep DEF WriteDone, Live
  <2> QED BY <2>1, <2>2 DEF Box!Next, Box!Send, Live
<1>4. ASSUME NEW p \in Actors, Next,
             \/ Test(p) \/ SetWriting(p) \/ Loop(p) \/ Pop(p) \/ ClearWriting(p)
             \/ WriteFails(p)
             \/ Resume(p) /\ pc[p] # "ready"
      PROVE  [Box!Next]_(Box!vars)
  <2>1. wire' = wire /\ Unsent' = Unsent
    BY <1>4, EnterStep, LoopStep
  <2> QED BY <1>4, <2>1, <1>s, LiveStep
<1>5. CASE Next /\ ~\E p \in Actors :
               \/ Push(p) \/ Test(p) \/ SetWriting(p) \/ Loop(p) \/ Pop(p)
               \/ ClearWriting(p) \/ WriteDone(p) \/ WriteFails(p)
               \/ Resume(p) /\ pc[p] # "ready"
  BY <1>5, <1>s, QAsideStep, QAsidePreserves, LiveStep
<1>6. CASE Next /\ \E p \in Actors :
               \/ Push(p) \/ Test(p) \/ SetWriting(p) \/ Loop(p) \/ Pop(p)
               \/ ClearWriting(p) \/ WriteDone(p) \/ WriteFails(p)
               \/ Resume(p) /\ pc[p] # "ready"
  BY <1>2, <1>3, <1>4, <1>6
<1> QED BY <1>1, <1>5, <1>6

\* With one worker thread the sending half of a connection is an outbox:
\* frames leave once, in order, and never after the socket is gone.
THEOREM OneThreadRefines ==
    ASSUME Threads = 1
    PROVE  Spec => ImplementsOutbox
<1>1. OInv /\ [Next]_vars => [Box!Next]_(Box!vars)
  BY OutboxNext, SoloExcl DEF OInv
<1> QED BY <1>1, OneThread, OutboxInit, PTL DEF Spec, ImplementsOutbox, Box!Spec

-----------------------------------------------------------------------------
(* Any number of threads, as long as the reader writes nothing: the strand. *)

\* The strand runs at most one of its coroutines at a time.
StrandSolo ==
    \A p, q \in Jobs : pc[p] \in Running /\ pc[q] \in Running => p = q

\* The reader is not about to call do_write.
Silent == pc[reader] # "push"

ReaderAway == pc[reader] \notin InWrite \cup Writing

LEMMA NextStrandSolo ==
    ASSUME TInv, StrandSolo, [Next]_vars
    PROVE  StrandSolo'
<1>t. pc \in [Actors -> Labels] /\ Jobs \subseteq Actors
  BY ActorsFacts DEF TInv, TypeOK, Labels
<1>s. ASSUME NEW p \in Actors, NEW l, Goto(p, l),
             p \notin Jobs \/ l \notin Running \/ pc[p] \in Running
      PROVE  StrandSolo'
  BY <1>s, <1>t DEF Goto, StrandSolo
<1>1. CASE pc' = pc
  BY <1>1 DEF StrandSolo
<1>2. ASSUME NEW p \in Jobs, send_async(p) \/ close_async(p) PROVE StrandSolo'
  <2>1. p \in Actors /\ Goto(p, "ready") /\ "ready" \notin Running
    BY <1>2, ActorsFacts DEF send_async, close_async, Enqueue, Running, InWrite, InClose
  <2> QED BY <2>1, <1>s
<1>3. CASE close_websockets
  BY <1>3, <1>s, ActorsFacts DEF close_websockets
<1>4. ASSUME NEW p \in Actors, Resume(p) PROVE StrandSolo'
  <2>1. PICK l : Goto(p, l)
    BY <1>4 DEF Resume
  <2>2. CASE p \notin Jobs
    BY <2>1, <2>2, <1>s
  <2>3. CASE p \in Jobs
    <3>1. \A q \in Jobs : pc[q] \notin Running
      BY <1>4, <2>3 DEF Resume, Free, Busy
    <3> QED BY <2>1, <3>1, <1>t DEF Goto, StrandSolo
  <2> QED BY <2>2, <2>3
<1>5. ASSUME NEW p \in Actors, Step(p) PROVE StrandSolo'
  <2>1. (\E l : Goto(p, l)) /\ pc[p] \in Running
    BY <1>5 DEF Step, Check, do_write, Push, Test, SetWriting, Loop, Pop,
                ClearWriting, close, Cas, Shut, OnClose, Cleanup,
                Running, InWrite, InClose
  <2> QED BY <2>1, <1>s
<1>6. ASSUME NEW p \in Actors, WriteDone(p) \/ WriteFails(p) PROVE StrandSolo'
  <2>1. \E l \in {"wrote", "failed"} : Goto(p, l) /\ l \notin Running
    BY <1>6 DEF WriteDone, WriteFails, Wake, Running, InWrite, InClose
  <2> QED BY <2>1, <1>s
<1>7. CASE ResumeReader \/ ReaderStep \/ ReadFails \/ \E f \in InFrames : FrameArrives(f)
  <2>1. pc' = pc \/ \E l : Goto(reader, l)
    BY <1>7 DEF ResumeReader, ReaderStep, Top, Effect, ReadFails, FrameArrives
  <2> QED BY <2>1, <1>1, <1>s, ActorsFacts
<1>8. CASE PeerGone \/ UNCHANGED vars
  BY <1>8, <1>1 DEF PeerGone, vars
<1> QED BY <1>2, <1>3, <1>4, <1>5, <1>6, <1>7, <1>8 DEF Next

\* Only a call of do_write brings the reader into it.
LEMMA NextReaderAway ==
    ASSUME TInv, ReaderAway, [Next]_vars, Silent'
    PROVE  ReaderAway'
<1> DEFINE In == InWrite \cup Writing
<1>t. pc \in [Actors -> Labels] /\ reader \in Actors
  BY ActorsFacts DEF TInv, TypeOK, Labels
<1>s. ASSUME NEW p \in Actors, NEW l, Goto(p, l), p # reader \/ l \notin In \/ l = "push"
      PROVE  ReaderAway'
  BY <1>s, <1>t DEF Goto, ReaderAway, Silent
<1>1. CASE pc' = pc
  BY <1>1 DEF ReaderAway
<1>2. ASSUME NEW p \in Actors, p # reader,
             \/ send_async(p) \/ close_async(p) \/ Resume(p) \/ Step(p)
             \/ WriteDone(p) \/ WriteFails(p)
      PROVE  ReaderAway'
  <2>1. \E l : Goto(p, l)
    BY <1>2 DEF send_async, close_async, Enqueue, Resume, WriteDone, WriteFails, Wake,
                Step, Check, do_write, Push, Test, SetWriting, Loop, Pop,
                ClearWriting, close, Cas, Shut, OnClose, Cleanup
  <2> QED BY <2>1, <1>2, <1>s
<1>3. CASE close_websockets
  BY <1>3, <1>s, ActorsFacts DEF close_websockets
<1>4. ASSUME Resume(reader) \/ Check(reader) \/ do_write(reader) \/ WriteDone(reader)
             \/ WriteFails(reader)
      PROVE  FALSE
  <2>1. pc[reader] \in In \cup {"ready", "check"}
    BY <1>4 DEF Resume, WriteDone, WriteFails, Check, do_write, Push, Test, SetWriting,
                Loop, Pop, ClearWriting, InWrite, Writing
  <2> QED BY <2>1 DEF ReaderAway, TInv, Places
<1>5. ASSUME close(reader) PROVE ReaderAway'
  <2>1. \E l \in {"shut", "onclose", "cleanup", "ended", "effect"} : Goto(reader, l)
    BY <1>5 DEF close, Cas, Shut, OnClose, Cleanup
  <2> QED BY <2>1, <1>s, <1>t DEF InWrite, Writing
<1>6. CASE ResumeReader \/ Top \/ ReadFails \/ \E f \in InFrames : FrameArrives(f)
  <2>1. \E l \in {"effect", "ended", "reading", "lost", "got"} : Goto(reader, l)
    BY <1>6 DEF ResumeReader, Top, ReadFails, FrameArrives
  <2> QED BY <2>1, <1>s, <1>t DEF InWrite, Writing
<1>7. CASE Effect
  <2>1. pc' = pc \/ \E l \in {"top", "push", "cas"} : Goto(reader, l)
    BY <1>7 DEF Effect
  <2> QED BY <2>1, <1>1, <1>s, <1>t DEF InWrite, Writing
<1>8. CASE PeerGone \/ UNCHANGED vars
  BY <1>8, <1>1 DEF PeerGone, vars
<1> QED BY <1>2, <1>3, <1>4, <1>5, <1>6, <1>7, <1>8, ActorsFacts DEF Next, Step, ReaderStep

LEMMA StrandExcl == TInv /\ StrandSolo /\ ReaderAway => Excl
<1> SUFFICES ASSUME TInv, StrandSolo, ReaderAway PROVE Excl
  OBVIOUS
<1>1. pc[stopper] \notin InWrite
  BY DEF TInv, Places, InClose, InWrite
<1>2. InWrite \subseteq Running
  BY DEF Running
<1> QED BY <1>1, <1>2 DEF StrandSolo, Excl, Actors, ReaderAway

\* The whole invariant of a connection whose reader writes nothing.
SInv == TInv /\ StrandSolo /\ ReaderAway /\ QInv

LEMMA SilentReader == Spec /\ []Silent => []SInv
<1>1. Init => SInv
  <2> SUFFICES ASSUME Init PROVE SInv
    OBVIOUS
  <2>1. pc[reader] = "top" /\ \A p \in Jobs : pc[p] = "idle"
    BY ActorsFacts DEF Init
  <2>2. StrandSolo /\ ReaderAway
    BY <2>1 DEF StrandSolo, ReaderAway, Running, InWrite, InClose, Writing
  <2> QED BY <2>2, InitTInv, InitQInv DEF SInv
<1>2. SInv /\ [Next]_vars /\ Silent' => SInv'
  BY NextTInv, NextStrandSolo, NextReaderAway, NextQInv, StrandExcl DEF SInv
<1> QED BY <1>1, <1>2, PTL DEF Spec

\* A peer that sends pongs, whole messages within the limit and frames no branch
\* of the dispatcher matches.
PlainFrames ==
    \A f \in InFrames :
        \/ f.opcode \in DataOp /\ f.fin /\ ~would_exceed(reset, Len(f.payload))
        \/ f.opcode = "PONG" /\ f.fin
        \/ f.opcode = "RSV"

\* Such a frame is answered with nothing and leaves the assembler empty.
LEMMA PlainOutcome ==
    ASSUME PlainFrames, NEW f \in InFrames
    PROVE  LET o == handle_parsed_frame(f, reset) IN
           o.fb = reset /\ Effects(o) \in Seq({"message"})
<1> DEFINE o == handle_parsed_frame(f, reset)
<1>1. o.fb = reset /\ o.errs = <<>> /\ o.reply = "none"
  <2>1. CASE f.opcode \in DataOp
    <3>1. o = accumulate(start(f.opcode), f, <<>>)
      BY <2>1 DEF handle_parsed_frame, handle_data, ControlOp, DataOp, reset
    <3>2. f.fin /\ ~would_exceed(start(f.opcode), Len(f.payload))
      BY <2>1 DEF PlainFrames, would_exceed, start, reset, DataOp
    <3> QED BY <3>1, <3>2 DEF accumulate, Outcome
  <2>2. CASE f.opcode = "PONG"
    BY <2>2 DEF PlainFrames, handle_parsed_frame, handle_control, Outcome, ControlOp, DataOp
  <2>3. CASE f.opcode = "RSV"
    BY <2>3 DEF handle_parsed_frame, Outcome, ControlOp, DataOp
  <2> QED BY <2>1, <2>2, <2>3 DEF PlainFrames
<1> HIDE DEF o
<1>2. Effects(o) = <<>> \/ Effects(o) = << "message" >>
  <2> DEFINE e == [i \in 1 .. 2 * Len(o.errs) |-> IF i % 2 = 1 THEN "write_close" ELSE "error"]
             m == IF o.msgs = <<>> THEN <<>> ELSE << "message" >>
  <2>1. Len(o.errs) = 0
    BY <1>1
  <2>2. e = <<>>
    BY <2>1
  <2>3. Effects(o) = (e \o m) \o <<>>
    BY <1>1 DEF Effects
  <2> HIDE DEF e
  <2>4. m = <<>> \/ m = << "message" >>
    OBVIOUS
  <2> HIDE DEF m
  <2> QED BY <2>2, <2>3, <2>4
<1>3. <<>> \in Seq({"message"}) /\ << "message" >> \in Seq({"message"})
  OBVIOUS
<1> QED BY <1>1, <1>2, <1>3 DEF o

\* The reader has nothing to write, now or later.
NothingToSay == Silent /\ fb = reset /\ todo \in Seq({"message"})

\* The reader of such a peer never calls do_write (handle_parsed_frame).
THEOREM PlainPeer == PlainFrames => (Spec => []Silent)
<1> SUFFICES ASSUME PlainFrames PROVE Spec => []Silent
  OBVIOUS
<1>1. Init => NothingToSay
  BY ActorsFacts DEF Init, NothingToSay, Silent
<1>2. TInv /\ NothingToSay /\ [Next]_vars => NothingToSay'
  <2> SUFFICES ASSUME TInv, NothingToSay, [Next]_vars PROVE NothingToSay'
    OBVIOUS
  <2>t. pc \in [Actors -> Labels] /\ reader \in Actors
    BY ActorsFacts DEF TInv, TypeOK, Labels
  <2>s. ASSUME NEW p \in Actors, NEW l, Goto(p, l), p # reader \/ l # "push"
        PROVE  Silent'
    BY <2>s, <2>t DEF Goto, NothingToSay, Silent
  <2>1. ASSUME NEW p \in Jobs, send_async(p) \/ close_async(p) PROVE NothingToSay'
    <3>1. Goto(p, "ready") /\ UNCHANGED readVars
      BY <2>1 DEF send_async, close_async, Enqueue
    <3> QED BY <3>1, <2>s, ActorsFacts DEF NothingToSay, readVars
  <2>2. CASE close_websockets
    BY <2>2, <2>s, ActorsFacts DEF close_websockets, NothingToSay, readVars
  <2>3. ASSUME NEW p \in Actors, Resume(p) \/ Step(p) \/ WriteDone(p) \/ WriteFails(p)
        PROVE  NothingToSay'
    <3>1. UNCHANGED readVars
      BY <2>3 DEF Resume, WriteDone, WriteFails, Step, Check, do_write, Push, Test,
                  SetWriting, Loop, Pop, ClearWriting, close, Cas, Shut, OnClose, Cleanup
    <3>2. CASE p # reader
      <4>1. \E l : Goto(p, l)
        BY <2>3 DEF Resume, WriteDone, WriteFails, Wake, Step, Check, do_write, Push, Test,
                    SetWriting, Loop, Pop, ClearWriting, close, Cas, Shut, OnClose, Cleanup
      <4> QED BY <3>1, <3>2, <4>1, <2>s DEF NothingToSay, readVars
    <3>3. CASE p = reader
      <4>1. pc[reader] \notin {"ready", "check"}
        BY DEF TInv, Places
      <4>2. \E l : Goto(p, l) /\ l # "push"
        BY <2>3, <3>3, <4>1
           DEF Resume, WriteDone, WriteFails, Wake, Step, Check, do_write, Push, Test,
               SetWriting, Loop, Pop, ClearWriting, close, Cas, Shut, OnClose, Cleanup,
               Return
      <4> QED BY <3>1, <4>2, <2>s DEF NothingToSay, readVars
    <3> QED BY <3>2, <3>3
  <2>4. CASE ResumeReader \/ Top \/ ReadFails
    <3>1. UNCHANGED readVars /\ \E l \in {"effect", "ended", "reading", "lost"} :
                                   Goto(reader, l)
      BY <2>4 DEF ResumeReader, Top, ReadFails
    <3> QED BY <3>1, <2>s, <2>t DEF NothingToSay, readVars
  <2>5. CASE Effect
    <3>1. todo # <<>> => Head(todo) = "message" /\ Tail(todo) \in Seq({"message"})
      BY DEF NothingToSay
    <3>2. fb' = fb /\ todo' \in Seq({"message"})
      BY <2>5, <3>1 DEF Effect, NothingToSay
    <3>3. pc' = pc \/ Goto(reader, "top")
      BY <2>5, <3>1 DEF Effect
    <3>4. Silent'
      BY <3>3, <2>s, <2>t DEF NothingToSay, Silent
    <3> QED BY <3>2, <3>4 DEF NothingToSay
  <2>6. ASSUME NEW f \in InFrames, FrameArrives(f) PROVE NothingToSay'
    <3>1. fb' = reset /\ todo' \in Seq({"message"}) /\ Goto(reader, "got")
      BY <2>6, PlainOutcome DEF FrameArrives, NothingToSay
    <3> QED BY <3>1, <2>s, <2>t DEF NothingToSay
  <2>7. CASE PeerGone \/ UNCHANGED vars
    BY <2>7 DEF PeerGone, vars, readVars, NothingToSay, Silent
  <2> QED BY <2>1, <2>2, <2>3, <2>4, <2>5, <2>6, <2>7 DEF Next, ReaderStep
<1>3. NothingToSay => Silent
  BY DEF NothingToSay
<1> QED BY <1>1, <1>2, <1>3, ConnTInv, PTL DEF Spec

\* On any number of threads the strand keeps the senders and closers apart:
\* as long as the reader does not call do_write, which it does outside the
\* strand, there is one writer,
THEOREM StrandOneWriter == Spec /\ []Silent => []OneWriter
BY SilentReader, PTL DEF SInv, QInv

\* every frame is on the wire once, in order, or still in the queue,
THEOREM StrandFifo == Spec /\ []Silent => []WireIsFifo
BY SilentReader, PTL DEF SInv, QInv

\* and the connection implements the abstract outbox.
THEOREM StrandRefines == Spec /\ []Silent => ImplementsOutbox
<1>1. SInv /\ [Next]_vars => [Box!Next]_(Box!vars)
  BY OutboxNext, StrandExcl DEF SInv
<1> QED BY <1>1, SilentReader, OutboxInit, PTL DEF Spec, ImplementsOutbox, Box!Spec

-----------------------------------------------------------------------------
(* The order of the messages, with any number of threads: the strand. *)

Spawned == {spawned[k] : k \in 1 .. Len(spawned)}

\* The pairs of jobs of which the first was spawned before the second.
Order ==
    {e \in Jobs \X Jobs :
        \E k, m \in 1 .. Len(spawned) : k < m /\ spawned[k] = e[1] /\ spawned[m] = e[2]}

\* A job that runs and has not given its frame to do_write.
Entering == {"check", "push"}

\* The frames of the jobs were pushed in the order of the spawning.
Ordered ==
    \A i, j \in 1 .. Len(pushed) :
        i < j /\ pushed[i].from \in Jobs /\ pushed[j].from \in Jobs =>
            << pushed[i].from, pushed[j].from >> \in Order

\* Whoever is under way was spawned.
Origin ==
    /\ \A p \in Jobs : pc[p] # "idle" => p \in Spawned
    /\ \A i \in 1 .. Len(pushed) : pushed[i].from \in Jobs => pushed[i].from \in Spawned
    /\ \A i \in 1 .. Len(strand) : pc[strand[i]] # "idle"

\* The jobs that have not begun are queued in the order of the spawning,
\* whatever completions are queued between them.
Queued ==
    /\ \A p \in Jobs : pc[p] = "ready" => \E i \in 1 .. Len(strand) : strand[i] = p
    /\ \A i, j \in 1 .. Len(strand) :
          i < j /\ pc[strand[i]] = "ready" /\ pc[strand[j]] = "ready" =>
              << strand[i], strand[j] >> \in Order

\* At most one job is about to push; it was spawned before all the waiting
\* ones, and those that pushed before all of them.
Turn ==
    /\ \A p, q \in Jobs : pc[p] \in Entering /\ pc[q] \in Entering => p = q
    /\ \A p, q \in Jobs : pc[p] \in Entering /\ pc[q] = "ready" => << p, q >> \in Order
    /\ \A i \in 1 .. Len(pushed), q \in Jobs :
          pushed[i].from \in Jobs /\ pc[q] \in Entering \cup {"ready"} =>
              << pushed[i].from, q >> \in Order

StrandInv == Ordered /\ Origin /\ Queued /\ Turn

\* What was spawned stays spawned, and in its order; what is spawned next comes
\* after all of it.
LEMMA SpawnFacts ==
    ASSUME spawned \in Seq(Jobs), NEW p \in Jobs, spawned' = Append(spawned, p)
    PROVE  /\ Order \subseteq Order' /\ Spawned \subseteq Spawned' /\ p \in Spawned'
           /\ \A a \in Spawned : << a, p >> \in Order'
<1>1. /\ Len(spawned) \in Nat /\ Len(spawned') = Len(spawned) + 1
      /\ \A k \in 1 .. Len(spawned) :
            /\ k \in 1 .. Len(spawned') /\ spawned'[k] = spawned[k] /\ spawned[k] \in Jobs
      /\ spawned'[Len(spawned) + 1] = p
  OBVIOUS
<1>2. Len(spawned) + 1 \in 1 .. Len(spawned')
  BY <1>1
<1>3. Order \subseteq Order'
  BY <1>1 DEF Order
<1>4. Spawned \subseteq Spawned' /\ p \in Spawned'
  BY <1>1, <1>2 DEF Spawned
<1>5. ASSUME NEW a \in Spawned PROVE << a, p >> \in Order'
  <2>1. PICK k \in 1 .. Len(spawned) : spawned[k] = a
    BY <1>5 DEF Spawned
  <2>2. k < Len(spawned) + 1 /\ spawned'[k] = a /\ a \in Jobs /\ k \in 1 .. Len(spawned')
    BY <2>1, <1>1
  <2> QED BY <2>2, <1>1, <1>2 DEF Order
<1> QED BY <1>3, <1>4, <1>5

\* A job is spawned: it waits behind the others.
LEMMA StrandEnqueue ==
    ASSUME TInv, StrandInv, NEW p \in Jobs, send_async(p) \/ close_async(p)
    PROVE  StrandInv'
<1>t. /\ pc \in [Actors -> Labels] /\ strand \in Seq(Jobs) /\ spawned \in Seq(Jobs)
      /\ p \in Actors /\ Jobs \subseteq Actors
  BY ActorsFacts DEF TInv, TypeOK, Labels
<1>1. /\ pc[p] = "idle" /\ pushed' = pushed /\ spawned' = Append(spawned, p)
      /\ strand' = Append(strand, p) /\ Goto(p, "ready")
  BY DEF send_async, close_async, Enqueue, queueVars
<1>2. /\ pc'[p] = "ready" /\ \A q \in Jobs : q # p => pc'[q] = pc[q]
  BY <1>1, <1>t DEF Goto
<1>3. /\ Order \subseteq Order' /\ Spawned \subseteq Spawned' /\ p \in Spawned'
      /\ \A a \in Spawned : << a, p >> \in Order'
  BY <1>1, <1>t, SpawnFacts
<1>4. /\ Len(strand') = Len(strand) + 1 /\ Len(strand) \in Nat
      /\ strand'[Len(strand) + 1] = p
      /\ \A i \in 1 .. Len(strand) : strand'[i] = strand[i] /\ strand[i] \in Jobs
  BY <1>1, <1>t
<1>o. Origin /\ Ordered /\ Queued /\ Turn
  BY DEF StrandInv
<1>5. Ordered'
  BY <1>1, <1>3, <1>o DEF Ordered
<1>6. Origin'
  BY <1>1, <1>2, <1>3, <1>4, <1>o DEF Origin
<1>7. Queued'
  <2>1. \A q \in Jobs : pc'[q] = "ready" => \E i \in 1 .. Len(strand') : strand'[i] = q
    BY <1>4, <1>2, <1>o DEF Queued
  <2>2. ASSUME NEW i \in 1 .. Len(strand'), NEW j \in 1 .. Len(strand'), i < j,
               pc'[strand'[i]] = "ready", pc'[strand'[j]] = "ready"
        PROVE  << strand'[i], strand'[j] >> \in Order'
    <3>1. i \in 1 .. Len(strand) /\ strand'[i] = strand[i] /\ strand[i] \in Jobs
      BY <2>2, <1>4
    <3>2. strand[i] # p /\ pc[strand[i]] = "ready" /\ strand[i] \in Spawned
      BY <3>1, <1>1, <1>2, <2>2, <1>o DEF Origin
    <3>3. CASE j = Len(strand) + 1
      BY <3>1, <3>2, <3>3, <1>3, <1>4
    <3>4. CASE j # Len(strand) + 1
      <4>1. j \in 1 .. Len(strand) /\ strand'[j] = strand[j] /\ strand[j] \in Jobs
        BY <3>4, <1>4
      <4>2. pc[strand[j]] = "ready"
        BY <4>1, <1>1, <1>2, <2>2, <1>o DEF Origin
      <4> QED BY <3>1, <3>2, <4>1, <4>2, <2>2, <1>3, <1>o DEF Queued
    <3> QED BY <3>3, <3>4
  <2> QED BY <2>1, <2>2 DEF Queued
<1>8. Turn'
  <2>1. \A q \in Jobs : pc'[q] \in Entering => q # p /\ pc[q] \in Entering /\ q \in Spawned
    BY <1>2, <1>o DEF Entering, Origin
  <2>2. \A q, r \in Jobs : pc'[q] \in Entering /\ pc'[r] \in Entering => q = r
    BY <2>1, <1>o DEF Turn
  <2>3. \A q, r \in Jobs : pc'[q] \in Entering /\ pc'[r] = "ready" => << q, r >> \in Order'
    BY <2>1, <1>2, <1>3, <1>o DEF Turn
  <2>4. ASSUME NEW i \in 1 .. Len(pushed'), NEW q \in Jobs, pushed'[i].from \in Jobs,
               pc'[q] \in Entering \cup {"ready"}
        PROVE  << pushed'[i].from, q >> \in Order'
    <3>1. i \in 1 .. Len(pushed) /\ pushed' = pushed /\ pushed[i].from \in Spawned
      BY <1>1, <2>4, <1>o DEF Origin
    <3>2. CASE q = p
      BY <3>1, <3>2, <1>3
    <3>3. CASE q # p
      BY <3>1, <3>3, <1>2, <1>3, <2>4, <1>o DEF Turn
    <3> QED BY <3>2, <3>3
  <2> QED BY <2>2, <2>3, <2>4 DEF Turn
<1> QED BY <1>5, <1>6, <1>7, <1>8 DEF StrandInv

\* The strand resumes the coroutine at its head.
LEMMA StrandResume ==
    ASSUME TInv, StrandInv, NEW p \in Jobs, Resume(p)
    PROVE  StrandInv'
<1>t. /\ pc \in [Actors -> Labels] /\ strand \in Seq(Jobs) /\ p \in Actors /\ Jobs \subseteq Actors
  BY ActorsFacts DEF TInv, TypeOK, Labels
<1>1. /\ pushed' = pushed /\ spawned' = spawned /\ strand' = Tail(strand)
      /\ strand # <<>> /\ Head(strand) = p /\ Busy \cap Jobs = {}
      /\ pc[p] \in {"ready", "wrote", "failed"}
  BY DEF Resume, Free, queueVars
<1>2. \E l : /\ Goto(p, l) /\ l \notin {"idle", "ready"}
             /\ l \in Entering => pc[p] = "ready"
  BY DEF Resume, Entering
<1>3. /\ pc'[p] \notin {"idle", "ready"} /\ (pc'[p] \in Entering => pc[p] = "ready")
      /\ \A q \in Jobs : q # p => pc'[q] = pc[q]
  BY <1>2, <1>t DEF Goto
<1>4. \A q \in Jobs : pc[q] \notin Entering
  BY <1>1 DEF Busy, Running, InWrite, Entering
<1>5. /\ Len(strand) \in Nat /\ Len(strand') = Len(strand) - 1 /\ strand[1] = p
      /\ \A i \in 1 .. Len(strand') : i + 1 \in 1 .. Len(strand) /\ strand'[i] = strand[i + 1]
      /\ \A i \in 1 .. Len(strand) : strand[i] \in Jobs
      /\ \A i \in 1 .. Len(strand) :
            i = 1 \/ (i - 1 \in 1 .. Len(strand') /\ strand[i] = strand'[i - 1])
  BY <1>1, <1>t
<1>6. Order' = Order /\ Spawned' = Spawned
  BY <1>1 DEF Order, Spawned
<1>o. Origin /\ Ordered /\ Queued /\ Turn
  BY DEF StrandInv
<1>7. Ordered'
  BY <1>1, <1>6, <1>o DEF Ordered
<1>8. Origin'
  <2>1. \A q \in Jobs : pc'[q] # "idle" => pc[q] # "idle"
    BY <1>1, <1>3
  <2>2. \A i \in 1 .. Len(strand') : pc'[strand'[i]] # "idle"
    BY <1>3, <1>5, <1>o DEF Origin
  <2> QED BY <2>1, <2>2, <1>1, <1>6, <1>o DEF Origin
<1>9. Queued'
  <2>1. ASSUME NEW q \in Jobs, pc'[q] = "ready" PROVE \E i \in 1 .. Len(strand') : strand'[i] = q
    <3>1. q # p /\ pc[q] = "ready"
      BY <1>3, <2>1
    <3>2. PICK i \in 1 .. Len(strand) : strand[i] = q
      BY <3>1, <1>o DEF Queued
    <3> QED BY <3>1, <3>2, <1>5
  <2>2. ASSUME NEW i \in 1 .. Len(strand'), NEW j \in 1 .. Len(strand'), i < j,
               pc'[strand'[i]] = "ready", pc'[strand'[j]] = "ready"
        PROVE  << strand'[i], strand'[j] >> \in Order'
    <3>1. /\ i + 1 \in 1 .. Len(strand) /\ j + 1 \in 1 .. Len(strand) /\ i + 1 < j + 1
          /\ strand'[i] = strand[i + 1] /\ strand'[j] = strand[j + 1]
          /\ strand[i + 1] \in Jobs /\ strand[j + 1] \in Jobs
      BY <2>2, <1>5
    <3>2. pc[strand[i + 1]] = "ready" /\ pc[strand[j + 1]] = "ready"
      BY <3>1, <2>2, <1>3
    <3> QED BY <3>1, <3>2, <1>6, <1>o DEF Queued
  <2> QED BY <2>1, <2>2 DEF Queued
<1>10. Turn'
  <2>1. \A q \in Jobs : pc'[q] \in Entering => q = p
    BY <1>3, <1>4
  <2>2. \A q \in Jobs : pc'[q] = "ready" => q # p /\ pc[q] = "ready"
    BY <1>3
  <2>3. ASSUME NEW q \in Jobs, pc[p] = "ready", pc[q] = "ready", q # p
        PROVE  << p, q >> \in Order
    <3>1. PICK i \in 1 .. Len(strand) : strand[i] = q
      BY <2>3, <1>o DEF Queued
    <3>2. 1 \in 1 .. Len(strand) /\ 1 < i
      BY <3>1, <2>3, <1>5
    <3> QED BY <3>1, <3>2, <2>3, <1>5, <1>o DEF Queued
  <2>4. \A q, r \in Jobs : pc'[q] \in Entering /\ pc'[r] = "ready" => << q, r >> \in Order'
    BY <2>1, <2>2, <2>3, <1>3, <1>6
  <2>5. \A q \in Jobs : pc'[q] \in Entering \cup {"ready"} => pc[q] = "ready"
    BY <2>1, <2>2, <1>3
  <2>6. \A i \in 1 .. Len(pushed'), q \in Jobs :
           pushed'[i].from \in Jobs /\ pc'[q] \in Entering \cup {"ready"} =>
              << pushed'[i].from, q >> \in Order'
    BY <2>5, <1>1, <1>6, <1>o DEF Turn
  <2> QED BY <2>1, <2>4, <2>6 DEF Turn
<1> QED BY <1>7, <1>8, <1>9, <1>10 DEF StrandInv

\* do_write takes the frame of the job whose turn it is, or one of the reader.
LEMMA StrandPush ==
    ASSUME TInv, StrandInv, NEW p \in Actors, Push(p)
    PROVE  StrandInv'
<1>t. /\ pc \in [Actors -> Labels] /\ pushed \in Seq(OutFrames) /\ Jobs \subseteq Actors
  BY ActorsFacts DEF TInv, TypeOK, Labels
<1>p. strand \in Seq(Jobs)
  BY DEF TInv, TypeOK
<1>1. /\ pc[p] = "push" /\ pushed' = Append(pushed, OutFrame(p)) /\ Goto(p, "test")
      /\ spawned' = spawned /\ strand' = strand
  BY DEF Push
<1>2. pc'[p] = "test" /\ \A q \in Jobs : q # p => pc'[q] = pc[q]
  BY <1>1, <1>t DEF Goto
<1>3. OutFrame(p) \in OutFrames /\ OutFrame(p).from = p
  BY <1>1, OutFrameType DEF OutFrame, TInv, Places
<1>4. /\ Len(pushed) \in Nat /\ Len(pushed') = Len(pushed) + 1
      /\ pushed'[Len(pushed) + 1].from = p
      /\ \A i \in 1 .. Len(pushed) : pushed'[i] = pushed[i]
  BY <1>1, <1>3, <1>t
<1>5. Order' = Order /\ Spawned' = Spawned
  BY <1>1 DEF Order, Spawned
<1>o. Origin /\ Ordered /\ Queued /\ Turn
  BY DEF StrandInv
<1>6. p \in Jobs => pc[p] \in Entering /\ p \in Spawned
  BY <1>1, <1>o DEF Entering, Origin
<1>s. \A i \in 1 .. Len(strand) : strand[i] \in Jobs
  BY <1>p
<1>7. Ordered'
  <2> SUFFICES ASSUME NEW i \in 1 .. Len(pushed'), NEW j \in 1 .. Len(pushed'), i < j,
                      pushed'[i].from \in Jobs, pushed'[j].from \in Jobs
               PROVE  << pushed'[i].from, pushed'[j].from >> \in Order'
    BY DEF Ordered
  <2>1. i \in 1 .. Len(pushed) /\ pushed'[i] = pushed[i]
    BY <1>4
  <2>2. CASE j = Len(pushed) + 1
    BY <2>1, <2>2, <1>4, <1>5, <1>6, <1>o DEF Turn
  <2>3. CASE j # Len(pushed) + 1
    <3>1. j \in 1 .. Len(pushed) /\ pushed'[j] = pushed[j]
      BY <2>3, <1>4
    <3> QED BY <2>1, <3>1, <1>5, <1>o DEF Ordered
  <2> QED BY <2>2, <2>3
<1>8. Origin'
  <2>1. \A i \in 1 .. Len(pushed') : pushed'[i].from \in Jobs => pushed'[i].from \in Spawned'
    <3> TAKE i \in 1 .. Len(pushed')
    <3>1. CASE i = Len(pushed) + 1
      BY <3>1, <1>4, <1>5, <1>6
    <3>2. CASE i # Len(pushed) + 1
      <4>1. i \in 1 .. Len(pushed) /\ pushed'[i] = pushed[i]
        BY <3>2, <1>4
      <4> QED BY <4>1, <1>5, <1>o DEF Origin
    <3> QED BY <3>1, <3>2
  <2>2. \A q \in Jobs : pc'[q] # "idle" => pc[q] # "idle"
    BY <1>1, <1>2
  <2>3. \A i \in 1 .. Len(strand') : pc'[strand'[i]] # "idle"
    BY <1>1, <1>2, <1>s, <1>o DEF Origin
  <2> QED BY <2>1, <2>2, <2>3, <1>5, <1>o DEF Origin
<1>9. Queued'
  <2>1. \A q \in Jobs : pc'[q] = "ready" => pc[q] = "ready"
    BY <1>2
  <2> QED BY <2>1, <1>1, <1>5, <1>s, <1>o DEF Queued
<1>10. Turn'
  <2>1. \A q \in Jobs : pc'[q] \in Entering \cup {"ready"} => q # p /\ pc[q] = pc'[q]
    BY <1>2 DEF Entering
  <2>2. p \in Jobs => \A q \in Jobs : pc'[q] \in Entering \cup {"ready"} => << p, q >> \in Order
    BY <2>1, <1>6, <1>o DEF Turn
  <2>3. \A i \in 1 .. Len(pushed'), q \in Jobs :
           pushed'[i].from \in Jobs /\ pc'[q] \in Entering \cup {"ready"} =>
              << pushed'[i].from, q >> \in Order'
    <3> TAKE i \in 1 .. Len(pushed'), q \in Jobs
    <3>1. CASE i = Len(pushed) + 1
      BY <3>1, <2>2, <1>4, <1>5
    <3>2. CASE i # Len(pushed) + 1
      <4>1. i \in 1 .. Len(pushed) /\ pushed'[i] = pushed[i]
        BY <3>2, <1>4
      <4> QED BY <4>1, <2>1, <1>5, <1>o DEF Turn
    <3> QED BY <3>1, <3>2
  <2> QED BY <2>1, <2>3, <1>5, <1>o DEF Turn
<1> QED BY <1>7, <1>8, <1>9, <1>10 DEF StrandInv

\* Any other step pushes and spawns nothing, no job begins by it, and what it
\* queues on the strand is the completion of a write.
StrandAside ==
    /\ pushed' = pushed /\ spawned' = spawned
    /\ \A q \in Jobs :
          \/ pc'[q] = pc[q]
          \/ pc[q] \in Entering /\ pc'[q] \in Entering
          \/ pc[q] # "idle" /\ pc'[q] \notin Entering \cup {"idle", "ready"}
    /\ \/ strand' = strand
       \/ \E p \in Jobs : strand' = Append(strand, p) /\ pc'[p] \notin {"idle", "ready"}

LEMMA StrandAsidePreserves ==
    ASSUME TInv, StrandInv, StrandAside
    PROVE  StrandInv'
<1>p. strand \in Seq(Jobs)
  BY DEF TInv, TypeOK
<1>1. /\ pushed' = pushed /\ Order' = Order /\ Spawned' = Spawned
  BY DEF StrandAside, Order, Spawned
<1>2. /\ \A q \in Jobs : pc'[q] = "idle" <=> pc[q] = "idle"
      /\ \A q \in Jobs : pc'[q] = "ready" => pc[q] = "ready"
      /\ \A q \in Jobs : pc'[q] \in Entering => pc[q] \in Entering
  BY DEF StrandAside, Entering
<1> DEFINE Grown ==
      /\ Len(strand) \in Nat /\ Len(strand') \in Nat /\ Len(strand') >= Len(strand)
      /\ \A i \in 1 .. Len(strand) : strand'[i] = strand[i]
      /\ \A i \in 1 .. Len(strand') :
            /\ strand'[i] \in Jobs
            /\ i \in 1 .. Len(strand) \/ pc'[strand'[i]] \notin {"idle", "ready"}
<1>3. Grown
  <2>1. CASE strand' = strand
    BY <2>1, <1>p
  <2>2. ASSUME NEW p \in Jobs, strand' = Append(strand, p), pc'[p] \notin {"idle", "ready"}
        PROVE  Grown
    <3>1. /\ Len(strand) \in Nat /\ Len(strand') = Len(strand) + 1
          /\ strand'[Len(strand) + 1] = p
          /\ \A i \in 1 .. Len(strand) : strand'[i] = strand[i] /\ strand[i] \in Jobs
      BY <2>2, <1>p
    <3>2. \A i \in 1 .. Len(strand') : i \in 1 .. Len(strand) \/ i = Len(strand) + 1
      BY <3>1
    <3> QED BY <2>2, <3>1, <3>2
  <2> QED BY <2>1, <2>2 DEF StrandAside
<1>o. Origin /\ Ordered /\ Queued /\ Turn
  BY DEF StrandInv
<1>4. Ordered'
  BY <1>1, <1>o DEF Ordered
<1>5. Origin'
  BY <1>1, <1>2, <1>3, <1>o DEF Origin
<1>6. Queued'
  <2>1. \A q \in Jobs : pc'[q] = "ready" => \E i \in 1 .. Len(strand') : strand'[i] = q
    BY <1>2, <1>3, <1>o DEF Queued
  <2>2. \A i \in 1 .. Len(strand') : pc'[strand'[i]] = "ready" =>
           i \in 1 .. Len(strand) /\ strand'[i] = strand[i] /\ pc[strand[i]] = "ready"
    BY <1>2, <1>3
  <2> QED BY <2>1, <2>2, <1>1, <1>o DEF Queued
<1>7. Turn'
  BY <1>1, <1>2, <1>o DEF Turn
<1> QED BY <1>4, <1>5, <1>6, <1>7 DEF StrandInv

LEMMA StrandAsideStep ==
    ASSUME TInv, Next, ~\E p \in Jobs : send_async(p) \/ close_async(p) \/ Resume(p),
           ~\E p \in Actors : Push(p)
    PROVE  StrandAside
<1>t. pc \in [Actors -> Labels] /\ Jobs \subseteq Actors
  BY ActorsFacts DEF TInv, TypeOK, Labels
<1>g. ASSUME NEW p \in Actors, NEW l, Goto(p, l), pushed' = pushed, spawned' = spawned,
             strand' = strand,
             \/ p \notin Jobs
             \/ pc[p] \in Entering /\ l \in Entering
             \/ pc[p] # "idle" /\ l \notin Entering \cup {"idle", "ready"}
      PROVE  StrandAside
  BY <1>g, <1>t DEF Goto, StrandAside
<1>1. CASE close_websockets
  BY <1>1, <1>g, ActorsFacts DEF close_websockets, queueVars
<1>2. ASSUME NEW p \in Actors, Resume(p) PROVE StrandAside
  BY <1>2, <1>g DEF Resume, queueVars
<1>3. ASSUME NEW p \in Actors, Check(p) PROVE StrandAside
  <2>1. /\ pc[p] \in Entering /\ pushed' = pushed /\ spawned' = spawned /\ strand' = strand
        /\ \E l \in {"push", "ended"} : Goto(p, l)
    BY <1>3 DEF Check, queueVars, Entering
  <2> QED BY <2>1, <1>g DEF Entering
<1>4. ASSUME NEW p \in Actors, do_write(p) PROVE StrandAside
  <2>1. /\ pc[p] # "idle" /\ pushed' = pushed /\ spawned' = spawned /\ strand' = strand
        /\ \E l \in {"set", "loop", "clear", "await", Return(p)} : Goto(p, l)
    BY <1>4 DEF do_write, Test, SetWriting, Loop, Pop, ClearWriting, queueVars
  <2>2. Return(p) \notin Entering \cup {"idle", "ready"}
    BY DEF Return, Entering
  <2> QED BY <2>1, <2>2, <1>g DEF Entering
<1>5. ASSUME NEW p \in Actors, close(p) PROVE StrandAside
  <2>1. /\ pc[p] # "idle" /\ pushed' = pushed /\ spawned' = spawned /\ strand' = strand
        /\ \E l \in {"shut", "onclose", "cleanup", "ended", "effect"} : Goto(p, l)
    BY <1>5 DEF close, Cas, Shut, OnClose, Cleanup, queueVars
  <2> QED BY <2>1, <1>g DEF Entering
<1>6. ASSUME NEW p \in Actors, WriteDone(p) \/ WriteFails(p) PROVE StrandAside
  <2>1. /\ pc[p] = "await" /\ pushed' = pushed /\ spawned' = spawned
        /\ \E l \in {"wrote", "failed"} : Wake(p, l)
    BY <1>6 DEF WriteDone, WriteFails, queueVars
  <2>2. PICK l \in {"wrote", "failed"} : Wake(p, l)
    BY <2>1
  <2>3. /\ Goto(p, l) /\ strand' = IF p \in Jobs THEN Append(strand, p) ELSE strand
    BY <2>2 DEF Wake
  <2>4. CASE p \notin Jobs
    BY <2>1, <2>3, <2>4, <1>g
  <2>5. CASE p \in Jobs
    <3>1. pc'[p] = l /\ \A q \in Jobs : q # p => pc'[q] = pc[q]
      BY <2>3, <1>t DEF Goto
    <3>2. \A q \in Jobs : \/ pc'[q] = pc[q]
                          \/ pc[q] # "idle" /\ pc'[q] \notin Entering \cup {"idle", "ready"}
      BY <3>1, <2>1 DEF Entering
    <3>3. strand' = Append(strand, p) /\ pc'[p] \notin {"idle", "ready"}
      BY <2>3, <2>5, <3>1
    <3> QED BY <2>1, <2>5, <3>2, <3>3 DEF StrandAside
  <2> QED BY <2>4, <2>5
<1>7. CASE ResumeReader \/ Top \/ ReadFails \/ \E f \in InFrames : FrameArrives(f)
  <2>1. /\ pushed' = pushed /\ spawned' = spawned /\ strand' = strand
        /\ \E l : Goto(reader, l)
    BY <1>7 DEF ResumeReader, Top, ReadFails, FrameArrives, queueVars
  <2> QED BY <2>1, <1>g, ActorsFacts
<1>8. CASE Effect
  <2>1. /\ pushed' = pushed /\ spawned' = spawned /\ strand' = strand
        /\ pc' = pc \/ \E l : Goto(reader, l)
    BY <1>8 DEF Effect, queueVars
  <2>2. CASE pc' = pc
    BY <2>1, <2>2 DEF StrandAside
  <2> QED BY <2>1, <2>2, <1>g, ActorsFacts
<1>9. CASE PeerGone
  BY <1>9 DEF PeerGone, StrandAside, queueVars
<1> QED BY <1>1, <1>2, <1>3, <1>4, <1>5, <1>6, <1>7, <1>8, <1>9 DEF Next, Step, ReaderStep

LEMMA NextStrandInv == TInv /\ StrandInv /\ [Next]_vars => StrandInv'
<1> SUFFICES ASSUME TInv, StrandInv, [Next]_vars PROVE StrandInv'
  OBVIOUS
<1>1. CASE UNCHANGED vars
  <2>1. StrandAside
    BY <1>1 DEF StrandAside, vars
  <2> QED BY <2>1, StrandAsidePreserves
<1>2. CASE \E p \in Jobs : send_async(p) \/ close_async(p) \/ Resume(p)
  BY <1>2, StrandEnqueue, StrandResume
<1>3. CASE \E p \in Actors : Push(p)
  BY <1>3, StrandPush
<1>4. CASE /\ Next /\ ~\E p \in Jobs : send_async(p) \/ close_async(p) \/ Resume(p)
           /\ ~\E p \in Actors : Push(p)
  BY <1>4, StrandAsideStep, StrandAsidePreserves
<1> QED BY <1>1, <1>2, <1>3, <1>4

\* The messages of the asynchronous calls leave in the order of the calls: for
\* every number of threads, of senders and of closers, although the reader
\* writes outside the strand and the completions of writes are queued between
\* the messages that wait.
THEOREM MessagesInOrder == Spec => []SendOrder
<1>1. Init => StrandInv
  <2> SUFFICES ASSUME Init PROVE StrandInv
    OBVIOUS
  <2>1. pushed = <<>> /\ strand = <<>> /\ \A p \in Jobs : pc[p] = "idle"
    BY ActorsFacts DEF Init
  <2> QED BY <2>1 DEF StrandInv, Ordered, Origin, Queued, Turn, Entering
<1>2. StrandInv => SendOrder
  <2> SUFFICES ASSUME Ordered, NEW i \in 1 .. Len(pushed), NEW j \in 1 .. Len(pushed),
                      i < j, {pushed[i].from, pushed[j].from} \subseteq Jobs
               PROVE  \E k, m \in 1 .. Len(spawned) :
                         k < m /\ spawned[k] = pushed[i].from /\ spawned[m] = pushed[j].from
    BY DEF StrandInv, SendOrder
  <2>1. << pushed[i].from, pushed[j].from >> \in Order
    BY DEF Ordered
  <2> QED BY <2>1 DEF Order
<1> QED BY <1>1, <1>2, ConnTInv, NextStrandInv, PTL DEF Spec
=============================================================================
