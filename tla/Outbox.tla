------------------------------- MODULE Outbox -------------------------------
(***************************************************************************)
(* What the sending half of a WebSocket promises its users: a queue that   *)
(* hands every frame to the socket once and in order, and nothing after    *)
(* the socket is gone.  WsConn implements it.                              *)
(***************************************************************************)
EXTENDS Sequences

CONSTANT Item   \* the frames that can be queued

VARIABLES
    queue,   \* the frames accepted and not yet on the wire
    sent,    \* the frames on the wire
    up       \* the connection can still carry frames

vars == << queue, sent, up >>

Init == queue = <<>> /\ sent = <<>> /\ up = TRUE

\* A call of do_write accepts a frame, also when it will never leave.
Put ==
    /\ queue' # <<>> /\ queue'[Len(queue')] \in Item
    /\ queue' = Append(queue, queue'[Len(queue')])
    /\ UNCHANGED << sent, up >>

\* The frame that waited longest leaves.
Send ==
    /\ up /\ queue # <<>>
    /\ sent' = Append(sent, Head(queue)) /\ queue' = Tail(queue)
    /\ UNCHANGED up

\* The socket is shut, or the peer is gone, for good.
Down == up /\ up' = FALSE /\ UNCHANGED << queue, sent >>

Next == Put \/ Send \/ Down

Spec == Init /\ [][Next]_vars
=============================================================================
