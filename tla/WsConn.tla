------------------------------- MODULE WsConn -------------------------------
(***************************************************************************)
(* One server-side WebSocket connection (class WebSocket, WebSocket.h) and  *)
(* everyone who uses it at the same time:                                  *)
(*   - Senders, Closers: the coroutines that send_text_async,              *)
(*     send_binary_async and close_async spawn on write_strand_;           *)
(*   - reader: the coroutine of process_session_ws inside start() and      *)
(*     do_read_loop, which runs on the io_context, outside the strand;     *)
(*   - stopper: the thread inside Server::stop, whose close_websockets     *)
(*     calls close() directly.                                             *)
(* The coroutines run on Threads worker threads.  A coroutine occupies a   *)
(* thread from the moment it is resumed to the moment it suspends in an    *)
(* asynchronous read or write or ends; a strand runs one coroutine at a    *)
(* time, in the order in which they became ready.  Every access to a field *)
(* shared between actors is a step of its own.                             *)
(***************************************************************************)
EXTENDS FrameBody, FiniteSets

CONSTANTS
    Senders,    \* the calls of send_text_async and send_binary_async
    Closers,    \* the calls of close_async
    reader,     \* the read loop
    stopper,    \* the thread that runs Server::stop
    Threads,    \* the number of worker threads
    InFrames,   \* the frames the peer may send
    MaxIn       \* bound on the number of frames the peer sends

Jobs == Senders \cup Closers
Actors == Jobs \cup {reader, stopper}

ASSUME ConnAssumption ==
    /\ IsFiniteSet(Jobs) /\ Senders \cap Closers = {}
    /\ reader \notin Jobs /\ stopper \notin Jobs /\ reader # stopper
    /\ Threads \in Nat \ {0} /\ MaxIn \in Nat
    /\ InFrames \subseteq Frame

VARIABLES
    state_,        \* WS_OPEN or WS_CLOSED
    sock,          \* "open" until close() shuts the socket
    peer,          \* "up" until the peer resets or ends the connection
    write_queue_,  \* the frames to be written, the one being written included
    is_writing_,
    strand,        \* the ready coroutines of write_strand_, in order
    pc,            \* where each actor is
    out,           \* the frame each actor is writing, as a sequence of 0 or 1
    todo,          \* what handle_parsed_frame of the reader has still to do
    reply,         \* the kind of frame the reader hands to do_write
    fb,            \* the assembler of the reader
    nin,           \* the number of frames received
    registered,    \* the connection is in Server::websockets_
    calls,         \* how often each callback ran
    wire,          \* history: the frames written to the socket, in order
    pushed,        \* history: the frames pushed to write_queue_, in order
    spawned,       \* history: the jobs spawned on the strand, in order
    ub             \* pop_front was called on an empty queue

vars == << state_, sock, peer, write_queue_, is_writing_, strand, pc, out, todo,
           reply, fb, nin, registered, calls, wire, pushed, spawned, ub >>

connVars == << state_, sock, registered, calls >>
queueVars == << write_queue_, is_writing_, wire, pushed, ub >>
readVars == << todo, reply, fb, nin >>

-----------------------------------------------------------------------------
(* The actors' program counters. *)

\* Suspended: not spawned, in the strand's queue, in an asynchronous write or
\* read, its completion (or failure) waiting for a thread, or ended.
Suspended == {"idle", "ready", "await", "wrote", "failed",
              "reading", "got", "lost", "ended"}

\* do_write between two suspensions, and the tests that lead to it.
InWrite == {"push", "test", "set", "loop", "pop", "clear"}
InClose == {"cas", "shut", "onclose", "cleanup"}
Running == {"check", "top", "effect"} \cup InWrite \cup InClose

Busy == { p \in Jobs \cup {reader} : pc[p] \in Running }

\* A worker thread is free, and so is the strand for a coroutine of its own.
Free(p) ==
    /\ Cardinality(Busy) < Threads
    /\ p \in Jobs => /\ Busy \cap Jobs = {}
                     /\ strand # <<>> /\ Head(strand) = p

Goto(p, l) == pc' = [pc EXCEPT ![p] = l]

\* The frames this side writes; n numbers them in the order of the pushes.
Op(p) == IF p = reader THEN reply ELSE IF p \in Senders THEN "data" ELSE "close"
OutFrame(p) == [from |-> p, op |-> Op(p), n |-> Len(pushed) + 1]

\* What an actor does after do_write returns.
Return(p) == IF p = reader THEN "effect"
             ELSE IF p \in Closers THEN "cas" ELSE "ended"

-----------------------------------------------------------------------------
Init ==
    /\ state_ = "OPEN" /\ sock = "open" /\ peer = "up"
    /\ write_queue_ = <<>> /\ is_writing_ = FALSE /\ strand = <<>>
    /\ pc = [p \in Actors |-> IF p = reader THEN "top" ELSE "idle"]
    /\ out = [p \in Actors |-> <<>>]
    /\ todo = <<>> /\ reply = "none" /\ fb = reset /\ nin = 0
    /\ registered = TRUE
    /\ calls = [message |-> 0, error |-> 0, close |-> 0, cleanup |-> 0]
    /\ wire = <<>> /\ pushed = <<>> /\ spawned = <<>> /\ ub = FALSE

(* Spawning and resuming coroutines. *)

\* co_spawn on the strand.  (asio may run a coroutine at once when its caller is
\* on the strand already; only on_close called by a closer is, and what it spawns
\* then finds the state closed.)
Enqueue(p) ==
    /\ strand' = Append(strand, p)
    /\ spawned' = Append(spawned, p)
    /\ Goto(p, "ready")

\* send_text_async, send_binary_async: nothing is spawned once closed.
send_async(p) ==
    /\ p \in Senders /\ pc[p] = "idle" /\ state_ = "OPEN"
    /\ Enqueue(p)
    /\ UNCHANGED << connVars, queueVars, readVars, peer, out >>

\* close_async spawns whatever the state is.
close_async(p) ==
    /\ p \in Closers /\ pc[p] = "idle"
    /\ Enqueue(p)
    /\ UNCHANGED << connVars, queueVars, readVars, peer, out >>

\* Fault: the coroutines are spawned on the io_context instead of write_strand_,
\* which neither orders them nor keeps them apart.
Fault_Resume(p) ==
    /\ pc[p] \in {"ready", "wrote", "failed"}
    /\ Cardinality(Busy) < Threads
    /\ strand' = SelectSeq(strand, LAMBDA q : q # p)
    /\ Goto(p, CASE pc[p] = "ready"  -> IF p \in Senders THEN "check" ELSE "push"
                 [] pc[p] = "wrote"  -> "pop"
                 [] pc[p] = "failed" -> "ended")
    /\ UNCHANGED << connVars, queueVars, readVars, peer, out, spawned >>

\* A worker thread takes up a coroutine that is ready.  A failed operation
\* throws: the coroutine ends there, and nothing it had still to do is done.
Resume(p) ==
    /\ pc[p] \in {"ready", "wrote", "failed"}
    /\ Free(p)
    /\ strand' = IF p \in Jobs THEN Tail(strand) ELSE strand
    /\ Goto(p, CASE pc[p] = "ready"  -> IF p \in Senders THEN "check" ELSE "push"
                 [] pc[p] = "wrote"  -> "pop"
                 [] pc[p] = "failed" -> "ended")
    /\ UNCHANGED << connVars, queueVars, readVars, peer, out, spawned >>

\* send_text and send_binary look at the state again before they write.
Check(p) ==
    /\ pc[p] = "check"
    /\ Goto(p, IF state_ = "OPEN" THEN "push" ELSE "ended")
    /\ UNCHANGED << connVars, queueVars, readVars, peer, strand, out, spawned >>

-----------------------------------------------------------------------------
(* do_write *)

\* Fault: the frame goes to the front of the queue.
Fault_Push(p) ==
    /\ pc[p] = "push"
    /\ write_queue_' = << OutFrame(p) >> \o write_queue_
    /\ pushed' = Append(pushed, OutFrame(p))
    /\ Goto(p, "test")
    /\ UNCHANGED << connVars, readVars, peer, is_writing_, strand, out, wire,
                    spawned, ub >>

Push(p) ==
    /\ pc[p] = "push"
    /\ write_queue_' = Append(write_queue_, OutFrame(p))
    /\ pushed' = Append(pushed, OutFrame(p))
    /\ Goto(p, "test")
    /\ UNCHANGED << connVars, readVars, peer, is_writing_, strand, out, wire,
                    spawned, ub >>

\* Fault: do_write does not look whether somebody is writing.
Fault_Test(p) ==
    /\ pc[p] = "test"
    /\ Goto(p, "set")
    /\ UNCHANGED << connVars, queueVars, readVars, peer, strand, out, spawned >>

Test(p) ==
    /\ pc[p] = "test"
    /\ Goto(p, IF is_writing_ THEN Return(p) ELSE "set")
    /\ UNCHANGED << connVars, queueVars, readVars, peer, strand, out, spawned >>

\* Fault: the flag is never set.
Fault_SetWriting(p) ==
    /\ pc[p] = "set"
    /\ Goto(p, "loop")
    /\ UNCHANGED << connVars, queueVars, readVars, peer, strand, out, spawned >>

SetWriting(p) ==
    /\ pc[p] = "set"
    /\ is_writing_' = TRUE
    /\ Goto(p, "loop")
    /\ UNCHANGED << connVars, readVars, peer, write_queue_, strand, out, wire,
                    pushed, spawned, ub >>

\* Fault: the youngest frame is written.
Fault_Loop(p) ==
    /\ pc[p] = "loop"
    /\ IF write_queue_ = <<>>
       THEN Goto(p, "clear") /\ out' = out
       ELSE /\ Goto(p, "await")
            /\ out' = [out EXCEPT ![p] = << write_queue_[Len(write_queue_)] >>]
    /\ UNCHANGED << connVars, queueVars, readVars, peer, strand, spawned >>

\* The loop test, and the start of the asynchronous write of the front frame.
Loop(p) ==
    /\ pc[p] = "loop"
    /\ IF write_queue_ = <<>>
       THEN Goto(p, "clear") /\ out' = out
       ELSE Goto(p, "await") /\ out' = [out EXCEPT ![p] = << Head(write_queue_) >>]
    /\ UNCHANGED << connVars, queueVars, readVars, peer, strand, spawned >>

\* Fault: the whole queue is dropped after a write.
Fault_Pop(p) ==
    /\ pc[p] = "pop"
    /\ write_queue_' = <<>>
    /\ out' = [out EXCEPT ![p] = <<>>]
    /\ Goto(p, "loop")
    /\ UNCHANGED << connVars, readVars, peer, is_writing_, strand, wire, pushed,
                    spawned, ub >>

Pop(p) ==
    /\ pc[p] = "pop"
    /\ IF write_queue_ = <<>>
       THEN ub' = TRUE /\ write_queue_' = write_queue_
       ELSE ub' = ub /\ write_queue_' = Tail(write_queue_)
    /\ out' = [out EXCEPT ![p] = <<>>]
    /\ Goto(p, "loop")
    /\ UNCHANGED << connVars, readVars, peer, is_writing_, strand, wire, pushed,
                    spawned >>

\* Fault: the flag stays set.
Fault_ClearWriting(p) ==
    /\ pc[p] = "clear"
    /\ Goto(p, Return(p))
    /\ UNCHANGED << connVars, queueVars, readVars, peer, strand, out, spawned >>

ClearWriting(p) ==
    /\ pc[p] = "clear"
    /\ is_writing_' = FALSE
    /\ Goto(p, Return(p))
    /\ UNCHANGED << connVars, readVars, peer, write_queue_, strand, out, wire,
                    pushed, spawned, ub >>

do_write(p) ==
    Push(p) \/ Test(p) \/ SetWriting(p) \/ Loop(p) \/ Pop(p) \/ ClearWriting(p)

-----------------------------------------------------------------------------
(* close *)

\* Fault: the state is set without a test.
Fault_Cas(p) ==
    /\ pc[p] = "cas"
    /\ state_' = "CLOSED" /\ Goto(p, "shut")
    /\ UNCHANGED << queueVars, readVars, sock, registered, calls, peer, strand,
                    out, spawned >>

Cas(p) ==
    /\ pc[p] = "cas"
    /\ IF state_ = "OPEN"
       THEN state_' = "CLOSED" /\ Goto(p, "shut")
       ELSE state_' = state_ /\ Goto(p, IF p = reader THEN "effect" ELSE "ended")
    /\ UNCHANGED << queueVars, readVars, sock, registered, calls, peer, strand,
                    out, spawned >>

\* Fault: the socket is left open.
Fault_Shut(p) ==
    /\ pc[p] = "shut"
    /\ Goto(p, "onclose")
    /\ UNCHANGED << connVars, queueVars, readVars, peer, strand, out, spawned >>

Shut(p) ==
    /\ pc[p] = "shut"
    /\ sock' = "closed"
    /\ Goto(p, "onclose")
    /\ UNCHANGED << queueVars, readVars, state_, registered, calls, peer, strand,
                    out, spawned >>

OnClose(p) ==
    /\ pc[p] = "onclose"
    /\ calls' = [calls EXCEPT !.close = @ + 1]
    /\ Goto(p, "cleanup")
    /\ UNCHANGED << queueVars, readVars, state_, sock, registered, peer, strand,
                    out, spawned >>

\* server_cleanup_ is Server::remove_websocket.
Cleanup(p) ==
    /\ pc[p] = "cleanup"
    /\ calls' = [calls EXCEPT !.cleanup = @ + 1]
    /\ registered' = FALSE
    /\ Goto(p, IF p = reader THEN "effect" ELSE "ended")
    /\ UNCHANGED << queueVars, readVars, state_, sock, peer, strand, out, spawned >>

close(p) == Cas(p) \/ Shut(p) \/ OnClose(p) \/ Cleanup(p)

\* Server::close_websockets calls close() on the connections it finds.
close_websockets ==
    /\ pc[stopper] = "idle" /\ registered
    /\ Goto(stopper, "cas")
    /\ UNCHANGED << connVars, queueVars, readVars, peer, strand, out, spawned >>

-----------------------------------------------------------------------------
(* The read loop. *)

Top ==
    /\ pc[reader] = "top"
    /\ Goto(reader, IF state_ = "OPEN" THEN "reading" ELSE "ended")
    /\ UNCHANGED << connVars, queueVars, readVars, peer, strand, out, spawned >>

\* The effects of handle_parsed_frame outside the assembler, in order: each
\* error writes a Close frame and calls on_close; then on_message; then the
\* pong, or the Close reply followed by close().
Effects(o) ==
    [i \in 1..2 * Len(o.errs) |-> IF i % 2 = 1 THEN "write_close" ELSE "error"]
    \o (IF o.msgs = <<>> THEN <<>> ELSE << "message" >>)
    \o (CASE o.reply = "none"  -> <<>>
          [] o.reply = "pong"  -> << "write_pong" >>
          [] o.reply = "close" -> << "write_close", "close" >>)

\* The reader is resumed with a frame, or with the failure of its read.
ResumeReader ==
    /\ pc[reader] \in {"got", "lost"}
    /\ Free(reader)
    /\ Goto(reader, IF pc[reader] = "got" THEN "effect" ELSE "ended")
    /\ UNCHANGED << connVars, queueVars, readVars, peer, strand, out, spawned >>

Effect ==
    /\ pc[reader] = "effect"
    /\ \/ /\ todo = <<>>
          /\ Goto(reader, "top")
          /\ UNCHANGED << todo, reply, calls >>
       \/ /\ todo # <<>> /\ Head(todo) \in {"write_close", "write_pong"}
          /\ reply' = IF Head(todo) = "write_pong" THEN "pong" ELSE "close"
          /\ Goto(reader, "push")
          /\ todo' = Tail(todo) /\ calls' = calls
       \/ /\ todo # <<>> /\ Head(todo) \in {"error", "message"}
          /\ calls' = IF Head(todo) = "error"
                      THEN [calls EXCEPT !.error = @ + 1]
                      ELSE [calls EXCEPT !.message = @ + 1]
          /\ todo' = Tail(todo) /\ UNCHANGED << pc, reply >>
       \/ /\ todo # <<>> /\ Head(todo) = "close"
          /\ Goto(reader, "cas")
          /\ todo' = Tail(todo) /\ UNCHANGED << reply, calls >>
    /\ UNCHANGED << queueVars, state_, sock, registered, fb, nin, peer, strand,
                    out, spawned >>

-----------------------------------------------------------------------------
(* The socket and the peer. *)

\* Fault: the completions of the reader go to the strand too.
Fault_Wake(p, l) ==
    /\ Goto(p, l)
    /\ strand' = Append(strand, p)

\* A completed operation makes its coroutine ready; one of the strand queues.
Wake(p, l) ==
    /\ Goto(p, l)
    /\ strand' = IF p \in Jobs THEN Append(strand, p) ELSE strand

WriteDone(p) ==
    /\ pc[p] = "await" /\ sock = "open" /\ peer = "up"
    /\ wire' = wire \o out[p]
    /\ Wake(p, "wrote")
    /\ UNCHANGED << connVars, readVars, peer, write_queue_, is_writing_, pushed,
                    ub, out, spawned >>

WriteFails(p) ==
    /\ pc[p] = "await" /\ (sock = "closed" \/ peer = "gone")
    /\ Wake(p, "failed")
    /\ UNCHANGED << connVars, queueVars, readVars, peer, out, spawned >>

FrameArrives(f) ==
    /\ pc[reader] = "reading" /\ sock = "open" /\ peer = "up" /\ nin < MaxIn
    /\ LET o == handle_parsed_frame(f, fb) IN
       fb' = o.fb /\ todo' = Effects(o)
    /\ nin' = nin + 1
    /\ Goto(reader, "got")
    /\ UNCHANGED << connVars, queueVars, reply, peer, strand, out, spawned >>

ReadFails ==
    /\ pc[reader] = "reading" /\ (sock = "closed" \/ peer = "gone")
    /\ Goto(reader, "lost")
    /\ UNCHANGED << connVars, queueVars, readVars, peer, strand, out, spawned >>

PeerGone ==
    /\ peer = "up"
    /\ peer' = "gone"
    /\ UNCHANGED << connVars, queueVars, readVars, pc, strand, out, spawned >>

-----------------------------------------------------------------------------
\* The steps of an actor that holds a thread.
Step(p) == Check(p) \/ do_write(p) \/ close(p)

ReaderStep == Top \/ Effect

Next ==
    \/ \E p \in Jobs : send_async(p) \/ close_async(p)
    \/ close_websockets
    \/ \E p \in Actors : Resume(p) \/ Step(p) \/ WriteDone(p) \/ WriteFails(p)
    \/ ResumeReader \/ ReaderStep
    \/ \E f \in InFrames : FrameArrives(f)
    \/ ReadFails
    \/ PeerGone

Spec == Init /\ [][Next]_vars

\* The scheduler of io_context is a FIFO queue, so a coroutine that is ready
\* gets a thread although others keep coming: strong fairness of the resumes.
\* A thread that runs goes on running, and the network completes or fails an
\* operation.  Nothing obliges the peer to send, or anybody to call.
Fairness ==
    /\ \A p \in Actors : /\ SF_vars(Resume(p))
                         /\ WF_vars(Step(p))
                         /\ WF_vars(WriteDone(p) \/ WriteFails(p))
    /\ SF_vars(ResumeReader) /\ WF_vars(ReaderStep) /\ WF_vars(ReadFails)

FairSpec == Spec /\ Fairness

-----------------------------------------------------------------------------
(* Properties. *)

OutFrames == [from : Actors, op : {"data", "close", "pong"}, n : Nat \ {0}]

Calls == [message : Nat, error : Nat, close : Nat, cleanup : Nat]

\* Every field and program counter holds a value of its kind; in particular
\* only the coroutines spawned on write_strand_ are ever queued there.
TypeOK ==
    /\ state_ \in {"OPEN", "CLOSED"} /\ sock \in {"open", "closed"}
    /\ peer \in {"up", "gone"}
    /\ write_queue_ \in Seq(OutFrames) /\ is_writing_ \in BOOLEAN
    /\ strand \in Seq(Jobs)
    /\ pc \in [Actors -> Running \cup Suspended]
    /\ out \in [Actors -> Seq(OutFrames)]
    /\ todo \in Seq({"write_close", "write_pong", "error", "message", "close"})
    /\ reply \in {"none", "close", "pong"}
    /\ fb \in Body /\ nin \in Nat
    /\ registered \in BOOLEAN
    /\ calls \in Calls
    /\ wire \in Seq(OutFrames) /\ pushed \in Seq(OutFrames)
    /\ spawned \in Seq(Jobs) /\ ub \in BOOLEAN

\* The part of do_write that is_writing_ is meant to protect.
Writing == {"loop", "await", "wrote", "failed", "pop", "clear"}

\* At most one actor is inside the writing loop of do_write: two
\* asynchronous writes on one socket at a time would mix their bytes.
OneWriter ==
    \A p, q \in Actors : pc[p] \in Writing /\ pc[q] \in Writing => p = q

\* The frames the writer has not got rid of yet: the front of the queue stays
\* there until the writer resumes.
Unsent ==
    IF \E p \in Actors : pc[p] \in {"wrote", "pop"}
    THEN SubSeq(write_queue_, 2, Len(write_queue_)) ELSE write_queue_

\* Every frame given to do_write is written once and in the order of the
\* calls, whoever writes it, or is still in the queue; none is lost, repeated
\* or overtaken, also when a write fails or the connection closes half-way.
WireIsFifo == wire \o Unsent = pushed /\ ~ub

\* The connection implements the abstract outbox: a step pushes one frame,
\* or puts the oldest unsent one on the wire of a live connection, or ends
\* that connection, or does not show.
Box == INSTANCE Outbox WITH
    Item <- OutFrames,
    queue <- Unsent,
    sent <- wire,
    up <- sock = "open" /\ peer = "up"

ImplementsOutbox == Box!Spec

\* The messages leave in the order in which send_text_async and
\* send_binary_async were called, whichever threads run the coroutines.
SendOrder ==
    \A i, j \in 1..Len(pushed) :
        i < j /\ {pushed[i].from, pushed[j].from} \subseteq Jobs =>
            \E k, m \in 1..Len(spawned) :
                k < m /\ spawned[k] = pushed[i].from /\ spawned[m] = pushed[j].from

\* However many actors close the connection at once, close() calls on_close
\* and the server's cleanup at most once each, the cleanup last and only after
\* the socket is shut.
CloseOnce ==
    /\ calls.close <= 1 /\ calls.cleanup <= calls.close
    /\ calls.close = 1 => sock = "closed" /\ state_ = "CLOSED"
    /\ ~registered <=> calls.cleanup = 1

\* close_async writes its Close frame before it shuts the socket, as long as
\* the peer is there to receive it.
CloseFrameFirst ==
    \A p \in Closers :
        pc[p] = "onclose" /\ peer = "up" =>
            \E i \in 1..Len(wire) : wire[i].from = p

\* A message accepted by send_text_async is written, unless the connection
\* closes or the peer goes away first: no frame is forgotten in the queue.
SendsComplete ==
    \A p \in Senders :
        pc[p] = "ready" ~>
            \/ \E i \in 1..Len(wire) : wire[i].from = p
            \/ state_ = "CLOSED" \/ peer = "gone"

\* Closing ends the connection: the reader stops, also when it was waiting for
\* a silent peer, and the server forgets the connection.
CloseEnds == state_ = "CLOSED" ~> pc[reader] = "ended" /\ ~registered
=============================================================================
