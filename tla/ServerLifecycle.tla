-------------------------- MODULE ServerLifecycle --------------------------
(***************************************************************************)
(* Server::start and Server::stop around the accept loop and the sessions  *)
(* (server.cpp).  The accept coroutine and one handle_client coroutine per *)
(* connection run on the worker threads; stop() runs on a thread of its    *)
(* own at the same time.  stop() reaches the coroutines in two ways: by    *)
(* cancellation signals, which act only on an operation that is pending    *)
(* at that moment with the slot bound to it, and by closing the            *)
(* registered WebSockets.  It then waits for the workers, which return     *)
(* when no coroutine and no operation is left.                             *)
(*                                                                         *)
(* A WebSocket is reduced to its registration, its state and the           *)
(* coroutine of close_async; WsConn has the rest.                          *)
(***************************************************************************)
EXTENDS Naturals, FiniteSets

CONSTANTS
    Clients,      \* the connections that may be made
    MaxRequests   \* bounds on the requests of each connection

ASSUME LifeAssumption == IsFiniteSet(Clients) /\ MaxRequests \in [Clients -> Nat]

VARIABLES
    quiet,           \* stop() is called when every coroutine waits for a peer
                     \* that is there, and the peers do nothing from then on
    acc,             \* the accept coroutine
    next,            \* the client an accept has completed with, as a set
    pc,              \* the session coroutine of each client
    req,             \* the kind of request each session handles
    nreq,            \* the number of requests each peer has sent
    peer,            \* "up" or "gone"
    client_cancel_,  \* the clients that have a cancellation signal
    slot,            \* what a signal acts on: a pending operation ("op"),
                     \* the handler that closes the WebSocket ("ws"), nothing
    websockets_,     \* the clients with a registered WebSocket
    ws,              \* the state of each WebSocket
    closer,          \* the coroutine of close_async, if a signal spawned it
    work_guard_,     \* the guard that keeps run() from returning
    stop,            \* where stop() is
    ids,             \* its list of clients still to be signalled
    sig,             \* the signal whose address emit_client holds, as a set
    to_close,        \* its list of WebSockets still to be closed
    dangling         \* emit was called on a signal that no longer exists

vars == << quiet, acc, next, pc, req, nreq, peer, client_cancel_, slot, websockets_, ws,
           closer, work_guard_, stop, ids, sig, to_close, dangling >>

acceptVars == << quiet, acc, next >>
sessionVars == << pc, req, slot >>
wsVars == << websockets_, ws, closer >>
stopVars == << stop, ids, sig, to_close, dangling >>

\* The states in which a session waits for the network.
Waiting == {"reading", "writing", "sendfile", "write_error", "write_101", "ws_reading"}

Sessions == {"none", "spawned", "ready", "got", "handling", "ws_register",
             "ws_assign", "ws_start", "failed", "ended"} \cup Waiting

Alive(c) == pc[c] \notin {"none", "ended"}

-----------------------------------------------------------------------------
(* start() has run: the guard is set and do_accept is spawned. *)
Init ==
    /\ quiet \in BOOLEAN
    /\ acc = "loop" /\ next = {}
    /\ pc = [c \in Clients |-> "none"]
    /\ req = [c \in Clients |-> "none"]
    /\ nreq = [c \in Clients |-> 0]
    /\ peer = [c \in Clients |-> "up"]
    /\ client_cancel_ = {} /\ slot = [c \in Clients |-> "none"]
    /\ websockets_ = {} /\ ws = [c \in Clients |-> "none"]
    /\ closer = [c \in Clients |-> FALSE]
    /\ work_guard_ = TRUE
    /\ stop = "idle" /\ ids = {} /\ sig = {} /\ to_close = {} /\ dangling = FALSE

\* What the peers may do.
PeersMayAct == quiet => stop = "idle"

(* do_accept *)

async_accept ==
    /\ acc = "loop"
    /\ acc' = "accepting"
    /\ UNCHANGED << quiet, next, sessionVars, nreq, peer, client_cancel_, wsVars,
                    work_guard_, stopVars >>

\* The accept completes with a connection, or with an error other than an
\* abort, which yields a socket that nobody is behind.
Connect(c) ==
    /\ acc = "accepting" /\ pc[c] = "none" /\ c \notin next /\ PeersMayAct
    /\ acc' = "accepted" /\ next' = {c}
    /\ \E p \in {"up", "gone"} : peer' = [peer EXCEPT ![c] = p]
    /\ UNCHANGED << quiet, sessionVars, nreq, client_cancel_, wsVars, work_guard_, stopVars >>

\* Fault: an aborted accept is taken for any other error.
Fault_AcceptResumes ==
    /\ acc \in {"accepted", "aborted"}
    /\ acc' = "loop"
    /\ pc' = [c \in Clients |-> IF c \in next THEN "spawned" ELSE pc[c]]
    /\ next' = {}
    /\ UNCHANGED << quiet, req, slot, nreq, peer, client_cancel_, wsVars, work_guard_,
                    stopVars >>

\* The accept completes: handle_client is spawned for the new socket, and the
\* loop goes round; an aborted accept ends it.
AcceptResumes ==
    /\ acc \in {"accepted", "aborted"}
    /\ acc' = IF acc = "accepted" THEN "loop" ELSE "ended"
    /\ pc' = [c \in Clients |-> IF c \in next THEN "spawned" ELSE pc[c]]
    /\ next' = {}
    /\ UNCHANGED << quiet, req, slot, nreq, peer, client_cancel_, wsVars, work_guard_,
                    stopVars >>

do_accept == async_accept \/ AcceptResumes

-----------------------------------------------------------------------------
(* handle_client and process_session *)

\* Session c goes on to state l, with the slot bound to b.
Go(c, l, b) ==
    /\ pc' = [pc EXCEPT ![c] = l]
    /\ slot' = [slot EXCEPT ![c] = b]

Unmoved == UNCHANGED << acceptVars, nreq, peer, work_guard_, stopVars >>

handle_client(c) ==
    /\ pc[c] = "spawned"
    /\ client_cancel_' = client_cancel_ \cup {c}
    /\ Go(c, "ready", "none")
    /\ UNCHANGED << req, wsVars >> /\ Unmoved

\* Fault: the read is not bound to the slot.
Fault_do_read(c) ==
    /\ pc[c] = "ready"
    /\ Go(c, "reading", "none")
    /\ UNCHANGED << req, client_cancel_, wsVars >> /\ Unmoved

do_read(c) ==
    /\ pc[c] = "ready"
    /\ Go(c, "reading", "op")
    /\ UNCHANGED << req, client_cancel_, wsVars >> /\ Unmoved

\* The head of a request with a body arrives; a second read waits for the body.
\* (So does the handshake of TLS: it waits bound to the slot, and a read follows.)
HeadArrives(c) ==
    /\ pc[c] = "reading" /\ peer[c] = "up" /\ nreq[c] < MaxRequests[c] /\ PeersMayAct
    /\ Go(c, "ready", "none")
    /\ nreq' = [nreq EXCEPT ![c] = @ + 1]
    /\ UNCHANGED << acceptVars, req, peer, client_cancel_, wsVars, work_guard_, stopVars >>

\* A request arrives in full.  Its kind is what process_session tells apart:
\* to be answered and kept alive, answered and closed, answered with a file
\* (kept alive or closed), upgraded, or a bad upgrade.
Requests == {"keep", "close", "file", "upgrade", "bad_upgrade"}

SendRequest(c, k) ==
    /\ pc[c] = "reading" /\ peer[c] = "up" /\ nreq[c] < MaxRequests[c] /\ PeersMayAct
    /\ Go(c, "got", "none")
    /\ req' = [req EXCEPT ![c] = k]
    /\ nreq' = [nreq EXCEPT ![c] = @ + 1]
    /\ UNCHANGED << acceptVars, peer, client_cancel_, wsVars, work_guard_, stopVars >>

\* The session takes the request up: an upgrade is answered at once, any other
\* request goes to its handler, which may take its time and knows no slot.
Dispatch(c) ==
    /\ pc[c] = "got"
    /\ CASE req[c] = "upgrade"     -> Go(c, "write_101", "op")
         [] req[c] = "bad_upgrade" -> Go(c, "write_error", "op")
         [] OTHER                  -> Go(c, "handling", "none")
    /\ UNCHANGED << req, client_cancel_, wsVars >> /\ Unmoved

\* Fault: the handler of the slot outlives the session.
Fault_End(c) ==
    /\ Go(c, "ended", slot[c])
    /\ client_cancel_' = client_cancel_ \ {c}

\* The end of the coroutine, normal or by an exception: ScopeErase.
End(c) ==
    /\ Go(c, "ended", "none")
    /\ client_cancel_' = client_cancel_ \ {c}

\* The handler throws, or returns and the response, or the head of a file, is
\* written.  A file that cannot be opened is answered with nothing at all.
handle_request(c) ==
    /\ pc[c] = "handling"
    /\ \/ Go(c, "writing", "op") /\ UNCHANGED client_cancel_
       \/ req[c] = "file" /\ Go(c, "ready", "none") /\ UNCHANGED client_cancel_
       \/ End(c)
    /\ UNCHANGED << req, wsVars >> /\ Unmoved

\* A write completes.  The body of a file follows its head, waiting for the
\* socket without the slot.
WriteDone(c) ==
    /\ pc[c] \in {"writing", "sendfile", "write_error", "write_101"} /\ peer[c] = "up"
    /\ \/ /\ pc[c] = "writing" /\ req[c] = "file"
          /\ Go(c, "sendfile", "none") /\ UNCHANGED client_cancel_
       \/ /\ pc[c] = "sendfile" \/ (pc[c] = "writing" /\ req[c] = "keep")
          /\ Go(c, "ready", "none") /\ UNCHANGED client_cancel_
       \/ /\ pc[c] = "sendfile" \/ (pc[c] = "writing" /\ req[c] = "close")
          /\ End(c)
       \/ pc[c] = "write_error" /\ End(c)
       \/ /\ pc[c] = "write_101"
          /\ Go(c, "ws_register", "none") /\ UNCHANGED client_cancel_
    /\ UNCHANGED << req, wsVars >> /\ Unmoved

\* An operation fails because the peer is gone.  sendfile does not throw: the
\* session goes on to its next read.
PeerLost(c) ==
    /\ pc[c] \in Waiting \ {"ws_reading"} /\ peer[c] = "gone"
    /\ \/ Go(c, "failed", "none")
       \/ pc[c] = "sendfile" /\ Go(c, "ready", "none")
    /\ UNCHANGED << req, client_cancel_, wsVars >> /\ Unmoved

\* do_read's exception leaves the loop, any other one the coroutine.
Fail(c) ==
    /\ pc[c] = "failed"
    /\ End(c)
    /\ UNCHANGED << req, wsVars >> /\ Unmoved

process_session(c) ==
    do_read(c) \/ Dispatch(c) \/ handle_request(c) \/ WriteDone(c) \/ PeerLost(c) \/ Fail(c)

-----------------------------------------------------------------------------
(* process_session_ws after the handshake *)

register_websocket(c) ==
    /\ pc[c] = "ws_register"
    /\ websockets_' = websockets_ \cup {c}
    /\ ws' = [ws EXCEPT ![c] = "open"]
    /\ Go(c, "ws_assign", "none")
    /\ UNCHANGED << req, client_cancel_, closer >> /\ Unmoved

\* The slot gets the handler that calls close_async.
AssignSlot(c) ==
    /\ pc[c] = "ws_assign"
    /\ Go(c, "ws_start", "ws")
    /\ UNCHANGED << req, client_cancel_, wsVars >> /\ Unmoved

\* The read loop starts, or ends at once when the connection is closed.
ws_start(c) ==
    /\ pc[c] = "ws_start"
    /\ IF ws[c] = "open"
       THEN Go(c, "ws_reading", "ws") /\ UNCHANGED client_cancel_
       ELSE End(c)
    /\ UNCHANGED << req, wsVars >> /\ Unmoved

\* close() of the WebSocket of c: nothing happens the second time.
CloseWs(c) ==
    /\ ws' = [ws EXCEPT ![c] = "closed"]
    /\ websockets_' = IF ws[c] = "open" THEN websockets_ \ {c} ELSE websockets_

\* The read fails, because close() shut the socket or the peer is gone; the
\* exception ends the session and does not close the WebSocket.
WsReadFails(c) ==
    /\ pc[c] = "ws_reading" /\ (ws[c] = "closed" \/ peer[c] = "gone")
    /\ End(c)
    /\ UNCHANGED << req, wsVars >> /\ Unmoved

\* The peer sends a Close frame, which is answered, and close() ends the loop.
WsPeerCloses(c) ==
    /\ pc[c] = "ws_reading" /\ ws[c] = "open" /\ peer[c] = "up" /\ PeersMayAct
    /\ CloseWs(c)
    /\ End(c)
    /\ UNCHANGED << req, closer >> /\ Unmoved

\* The coroutine of close_async: it writes a Close frame and closes, or ends
\* where it is when the write fails, as it may when the peer is gone.
close_async(c) ==
    /\ closer[c]
    /\ closer' = [closer EXCEPT ![c] = FALSE]
    /\ \/ ws[c] = "open" /\ CloseWs(c)
       \/ /\ ws[c] = "closed" \/ peer[c] = "gone"
          /\ UNCHANGED << websockets_, ws >>
    /\ UNCHANGED << sessionVars, client_cancel_ >> /\ Unmoved

session_ws(c) ==
    register_websocket(c) \/ AssignSlot(c) \/ ws_start(c) \/ WsReadFails(c)

Disconnect(c) ==
    /\ pc[c] # "none" /\ peer[c] = "up" /\ PeersMayAct
    /\ peer' = [peer EXCEPT ![c] = "gone"]
    /\ UNCHANGED << acceptVars, sessionVars, nreq, client_cancel_, wsVars,
                    work_guard_, stopVars >>

-----------------------------------------------------------------------------
(* stop() *)

\* The moment stop() is called.
StopCall ==
    /\ stop = "idle"
    /\ quiet => /\ acc = "accepting"
                /\ \A c \in Clients :
                      \/ ~Alive(c)
                      \/ pc[c] \in {"reading", "ws_reading"} /\ peer[c] = "up"
    /\ stop' = "emit"
    /\ UNCHANGED << acceptVars, sessionVars, nreq, peer, client_cancel_, wsVars,
                    work_guard_, ids, sig, to_close, dangling >>

\* server_cancel_.emit: it aborts the accept that is pending, if one is.
EmitAccept ==
    /\ stop = "emit"
    /\ stop' = "list"
    /\ acc' = IF acc = "accepting" THEN "aborted" ELSE acc
    /\ UNCHANGED << quiet, next, sessionVars, nreq, peer, client_cancel_, wsVars,
                    work_guard_, ids, sig, to_close, dangling >>

\* emit_all lists the clients under the lock ...
ListClients ==
    /\ stop = "list"
    /\ stop' = "signal" /\ ids' = client_cancel_
    /\ UNCHANGED << acceptVars, sessionVars, nreq, peer, client_cancel_, wsVars,
                    work_guard_, sig, to_close, dangling >>

\* ... and emit_client looks each one up under the lock ...
FindSignal(c) ==
    /\ stop = "signal" /\ sig = {} /\ c \in ids
    /\ ids' = ids \ {c}
    /\ sig' = {c} \cap client_cancel_
    /\ UNCHANGED << acceptVars, sessionVars, nreq, peer, client_cancel_, wsVars,
                    work_guard_, stop, to_close, dangling >>

\* ... and calls emit through the pointer after unlocking.  A pending operation
\* fails; the handler of a WebSocket spawns close_async; with nothing in the
\* slot the signal is lost.
EmitClient(c) ==
    /\ c \in sig
    /\ sig' = {}
    /\ dangling' = (dangling \/ c \notin client_cancel_)
    /\ pc' = IF slot[c] = "op" THEN [pc EXCEPT ![c] = "failed"] ELSE pc
    /\ slot' = IF slot[c] = "op" THEN [slot EXCEPT ![c] = "none"] ELSE slot
    /\ closer' = IF slot[c] = "ws" THEN [closer EXCEPT ![c] = TRUE] ELSE closer
    /\ UNCHANGED << acceptVars, req, nreq, peer, client_cancel_, websockets_, ws,
                    work_guard_, stop, ids, to_close >>

\* Fault: only the WebSockets of sessions that can still be signalled are
\* listed.
Fault_ListWebsockets ==
    /\ stop = "signal" /\ sig = {} /\ ids = {}
    /\ stop' = "close" /\ to_close' = websockets_ \cap client_cancel_
    /\ UNCHANGED << acceptVars, sessionVars, nreq, peer, client_cancel_, wsVars,
                    work_guard_, ids, sig, dangling >>

\* close_websockets lists the WebSockets under the lock ...
ListWebsockets ==
    /\ stop = "signal" /\ sig = {} /\ ids = {}
    /\ stop' = "close" /\ to_close' = websockets_
    /\ UNCHANGED << acceptVars, sessionVars, nreq, peer, client_cancel_, wsVars,
                    work_guard_, ids, sig, dangling >>

\* ... and closes them.
CloseWebsocket(c) ==
    /\ stop = "close" /\ c \in to_close
    /\ to_close' = to_close \ {c}
    /\ CloseWs(c)
    /\ UNCHANGED << acceptVars, sessionVars, nreq, peer, client_cancel_, closer,
                    work_guard_, stop, ids, sig, dangling >>

ResetGuard ==
    /\ stop = "close" /\ to_close = {}
    /\ stop' = "join" /\ work_guard_' = FALSE
    /\ UNCHANGED << acceptVars, sessionVars, nreq, peer, client_cancel_, wsVars,
                    ids, sig, to_close, dangling >>

\* The workers return from run() when there is nothing left to run or to wait
\* for, and are joined.
Join ==
    /\ stop = "join"
    /\ ~work_guard_ /\ acc = "ended"
    /\ \A c \in Clients : ~Alive(c) /\ ~closer[c]
    /\ stop' = "done"
    /\ UNCHANGED << acceptVars, sessionVars, nreq, peer, client_cancel_, wsVars,
                    work_guard_, ids, sig, to_close, dangling >>

emit_all == ListClients \/ \E c \in Clients : FindSignal(c) \/ EmitClient(c)

close_websockets == ListWebsockets \/ \E c \in Clients : CloseWebsocket(c)

stop_steps == EmitAccept \/ emit_all \/ close_websockets \/ ResetGuard \/ Join

-----------------------------------------------------------------------------
session(c) == handle_client(c) \/ process_session(c) \/ session_ws(c)

Peer(c) ==
    \/ Connect(c) \/ HeadArrives(c) \/ WsPeerCloses(c) \/ Disconnect(c)
    \/ \E k \in Requests : SendRequest(c, k)

Next ==
    \/ do_accept
    \/ \E c \in Clients : session(c) \/ close_async(c) \/ Peer(c)
    \/ StopCall
    \/ stop_steps

Spec == Init /\ [][Next]_vars

(***************************************************************************)
(* The workers run what is ready, writes to a reading peer complete,       *)
(* handlers return, the thread of stop() runs.  Nothing is assumed of the  *)
(* peers.                                                                  *)
(***************************************************************************)
Fairness ==
    /\ WF_vars(do_accept)
    /\ \A c \in Clients : WF_vars(session(c)) /\ WF_vars(close_async(c))
    /\ WF_vars(stop_steps)

FairSpec == Spec /\ Fairness

\* Every peer goes away in the end.
LeavingSpec == FairSpec /\ \A c \in Clients : WF_vars(Disconnect(c))

-----------------------------------------------------------------------------
(* Properties *)

\* Every variable holds a value of its kind, and only a session that is alive
\* has something bound to its slot.
TypeOK ==
    /\ quiet \in BOOLEAN
    /\ acc \in {"loop", "accepting", "accepted", "aborted", "ended"}
    /\ next \subseteq Clients /\ Cardinality(next) <= 1
    /\ pc \in [Clients -> Sessions]
    /\ req \in [Clients -> Requests \cup {"none"}]
    /\ nreq \in [Clients -> Nat] /\ \A c \in Clients : nreq[c] <= MaxRequests[c]
    /\ peer \in [Clients -> {"up", "gone"}]
    /\ client_cancel_ \subseteq Clients
    /\ slot \in [Clients -> {"none", "op", "ws"}]
    /\ websockets_ \subseteq Clients
    /\ ws \in [Clients -> {"none", "open", "closed"}]
    /\ closer \in [Clients -> BOOLEAN]
    /\ work_guard_ \in BOOLEAN /\ dangling \in BOOLEAN
    /\ stop \in {"idle", "emit", "list", "signal", "close", "join", "done"}
    /\ ids \subseteq Clients /\ to_close \subseteq Clients
    /\ sig \subseteq Clients /\ Cardinality(sig) <= 1
    /\ \A c \in Clients : slot[c] # "none" => Alive(c) /\ c \in client_cancel_

\* "Graceful server shutdown" (README.md:14): a call of stop() returns.
StopReturns == stop = "emit" ~> stop = "done"

\* On a quiet server it does: each session waits in an operation that its signal
\* or the close of its WebSocket makes fail, and so does the accept.
QuietStopReturns == quiet /\ stop = "emit" ~> stop = "done"

\* The signals and close_websockets between them leave nothing of a quiet server
\* behind: when stop() has returned every client has been removed, and every WebSocket that
\* was ever registered has been closed and removed, the ones whose peer had
\* vanished before included.
StopDrains ==
    quiet /\ stop = "done" =>
        /\ client_cancel_ = {} /\ websockets_ = {}
        /\ \A c \in Clients : ws[c] # "open"

\* "Per-connection and global cancellation" (README.md:13): emit_client never
\* calls emit on a signal that the end of the client's session has destroyed.
\* The code breaks it, because it uses the pointer to the signal after releasing
\* the lock: see the run stop_dangling.
NoDanglingEmit == ~dangling

\* The only thing that keeps stop() from returning, once the accept has been
\* aborted, is a peer that stays.  (After an emit on a destroyed signal nothing
\* is claimed.)
StopReturnsOncePeersLeave == acc = "aborted" ~> (stop = "done" \/ dangling)
=============================================================================
