------------------------ MODULE ServerLifecycleProofs ------------------------
(***************************************************************************)
(* Theorems about ServerLifecycle, for every finite set of clients and any *)
(* number of requests.  The invariant says where the accept loop and the   *)
(* sessions can be relative to the tables of the server (Places,           *)
(* Registered), what is left of the lists of stop() at each of its stages  *)
(* (Stages), and, for a quiet server, that every session whose turn has    *)
(* not come yet still waits as stop() found it (StillWaiting).             *)
(***************************************************************************)
EXTENDS ServerLifecycle, FiniteSetTheorems, TLAPS

OneAtATime(S) == S = {} \/ \E c \in Clients : S = {c}

\* A client has a signal from handle_client to the end of its session, and its
\* slot is bound exactly in the states that wait with it.
Places ==
    /\ OneAtATime(next) /\ OneAtATime(sig)
    /\ acc = "accepted" <=> next # {}
    /\ \A c \in next : pc[c] = "none"
    /\ \A c \in Clients :
          /\ c \in client_cancel_ <=> pc[c] \notin {"none", "spawned", "ended"}
          /\ slot[c] = "op" <=> pc[c] \in {"reading", "writing", "write_error", "write_101"}
          /\ slot[c] = "ws" <=> pc[c] \in {"ws_start", "ws_reading"}

\* The lists of stop() are empty outside their stage, and no client is both
\* still listed and being signalled.
Stages ==
    /\ stop # "signal" => ids = {} /\ sig = {}
    /\ ids \cap sig = {}
    /\ stop # "close" => to_close = {}
    /\ stop = "done" => acc = "ended" /\ \A c \in Clients : ~Alive(c) /\ ~closer[c]

\* The table holds the open WebSockets; before the signals nobody but the peer
\* has closed one, which ended the session.
Registered ==
    /\ websockets_ = {c \in Clients : ws[c] = "open"}
    /\ \A c \in Clients :
          /\ ws[c] # "none" => pc[c] \in {"ws_assign", "ws_start", "ws_reading", "ended"}
          /\ pc[c] \in {"ws_assign", "ws_start", "ws_reading"} => ws[c] # "none"
          /\ closer[c] \/ c \in to_close => ws[c] # "none"
          /\ stop \in {"idle", "emit", "list"} =>
                ~closer[c] /\ (ws[c] = "closed" => pc[c] = "ended")

\* The session of c waits for a peer that is there.
Undisturbed(c) ==
    /\ peer[c] = "up" /\ ~closer[c]
    /\ pc[c] = "reading" \/ (pc[c] = "ws_reading" /\ ws[c] = "open")

\* A quiet server once stop() has been called.
StillWaiting ==
    /\ acc \in {"accepting", "aborted", "ended"}
    /\ \A c \in Clients :
          /\ pc[c] \in {"none", "reading", "ws_reading", "failed", "ended"}
          /\ Alive(c) => peer[c] = "up"
          /\ (stop \in {"emit", "list"} /\ Alive(c)) \/ c \in ids \cup sig => Undisturbed(c)

Drained ==
    /\ stop = "close" => websockets_ \subseteq to_close
    /\ stop \in {"join", "done"} => websockets_ = {}

QuietInv == quiet /\ stop # "idle" => StillWaiting /\ Drained

LInv == TypeOK /\ Places /\ Stages /\ Registered /\ QuietInv

-----------------------------------------------------------------------------
\* A set with at most one client in it has at most one element.
LEMMA Small == \A S : OneAtATime(S) => Cardinality(S) \in {0, 1}
  BY FS_EmptySet, FS_Singleton DEF OneAtATime

\* The invariant holds when start() has run.
LEMMA LifeStart == Init => LInv
<1> SUFFICES ASSUME Init PROVE LInv
  OBVIOUS
<1>1. Places /\ Stages /\ Registered /\ QuietInv
  BY DEF Init, Places, Stages, Registered, QuietInv, OneAtATime
<1>2. Cardinality(next) <= 1 /\ Cardinality(sig) <= 1
  BY <1>1, Small DEF Places
<1>3. nreq \in [Clients -> Nat] /\ \A c \in Clients : nreq[c] <= MaxRequests[c]
  BY LifeAssumption DEF Init
<1>4. pc \in [Clients -> Sessions] /\ req \in [Clients -> Requests \cup {"none"}]
  BY DEF Init, Sessions
<1>5. /\ peer \in [Clients -> {"up", "gone"}] /\ slot \in [Clients -> {"none", "op", "ws"}]
      /\ ws \in [Clients -> {"none", "open", "closed"}] /\ closer \in [Clients -> BOOLEAN]
      /\ \A c \in Clients : slot[c] = "none"
  BY DEF Init
<1>6. TypeOK
  BY <1>2, <1>3, <1>4, <1>5 DEF Init, TypeOK
<1> QED BY <1>1, <1>6 DEF LInv

\* The accept loop and the connections it accepts preserve the invariant.
LEMMA AcceptStep ==
    ASSUME LInv,
           \/ async_accept \/ AcceptResumes
           \/ \E c \in Clients :
                 Connect(c)
    PROVE  LInv'
<1> USE Small, LifeAssumption
    DEF LInv, TypeOK, Places, Stages, Registered, QuietInv, StillWaiting, Drained,
        Undisturbed, OneAtATime, Sessions, Waiting, Alive
<1>1. ASSUME async_accept PROVE LInv'
  BY <1>1 DEF async_accept, sessionVars, wsVars, stopVars
<1>2. ASSUME NEW c \in Clients, Connect(c) PROVE LInv'
  BY <1>2 DEF Connect, sessionVars, wsVars, stopVars, PeersMayAct
<1>3. ASSUME AcceptResumes PROVE LInv'
  BY <1>3 DEF AcceptResumes, wsVars, stopVars
<1> QED BY <1>1, <1>2, <1>3

\* So do the HTTP sessions, from their start to their end.
LEMMA SessionStep ==
    ASSUME LInv,
           \/ \E c \in Clients :
                 handle_client(c) \/ do_read(c) \/ HeadArrives(c) \/ Dispatch(c)
                 \/ handle_request(c) \/ WriteDone(c) \/ PeerLost(c)
                 \/ Fail(c)
           \/ \E c \in Clients, k \in Requests : SendRequest(c, k)
    PROVE  LInv'
<1> USE Small, LifeAssumption
    DEF LInv, TypeOK, Places, Stages, Registered, QuietInv, StillWaiting, Drained,
        Undisturbed, OneAtATime, Sessions, Waiting, Alive
<1>1. ASSUME NEW c \in Clients, handle_client(c) PROVE LInv'
  BY <1>1 DEF handle_client, Go, Unmoved, acceptVars, stopVars, wsVars
<1>2. ASSUME NEW c \in Clients, do_read(c) PROVE LInv'
  BY <1>2 DEF do_read, Go, Unmoved, acceptVars, stopVars, wsVars
<1>3. ASSUME NEW c \in Clients, HeadArrives(c) PROVE LInv'
  BY <1>3 DEF HeadArrives, Go, acceptVars, wsVars, stopVars, PeersMayAct
<1>4. ASSUME NEW c \in Clients, NEW k \in Requests, SendRequest(c, k) PROVE LInv'
  BY <1>4 DEF SendRequest, Go, acceptVars, wsVars, stopVars, PeersMayAct
<1>5. ASSUME NEW c \in Clients, Dispatch(c) PROVE LInv'
  BY <1>5 DEF Dispatch, Go, Unmoved, acceptVars, stopVars, wsVars
<1>6. ASSUME NEW c \in Clients, handle_request(c) PROVE LInv'
  BY <1>6 DEF handle_request, Go, End, Unmoved, acceptVars, stopVars, wsVars
<1>7. ASSUME NEW c \in Clients, WriteDone(c) PROVE LInv'
  BY <1>7 DEF WriteDone, Go, End, Unmoved, acceptVars, stopVars, wsVars
<1>8. ASSUME NEW c \in Clients, PeerLost(c) PROVE LInv'
  BY <1>8 DEF PeerLost, Go, Unmoved, acceptVars, stopVars, wsVars
<1>9. ASSUME NEW c \in Clients, Fail(c) PROVE LInv'
  BY <1>9 DEF Fail, End, Go, Unmoved, acceptVars, stopVars, wsVars
<1> QED BY <1>1, <1>2, <1>3, <1>4, <1>5, <1>6, <1>7, <1>8, <1>9

\* So do the sessions that have become WebSockets, their closers, and the
\* departure of a peer.
LEMMA WebSocketStep ==
    ASSUME LInv,
           \/ \E c \in Clients :
                 register_websocket(c) \/ AssignSlot(c) \/ ws_start(c) \/ WsReadFails(c)
                 \/ WsPeerCloses(c) \/ close_async(c) \/ Disconnect(c)
    PROVE  LInv'
<1> USE Small, LifeAssumption
    DEF LInv, TypeOK, Places, Stages, Registered, QuietInv, StillWaiting, Drained,
        Undisturbed, OneAtATime, Sessions, Waiting, Alive
<1>1. ASSUME NEW c \in Clients, register_websocket(c) PROVE LInv'
  BY <1>1 DEF register_websocket, Go, Unmoved, acceptVars, stopVars
<1>2. ASSUME NEW c \in Clients, AssignSlot(c) PROVE LInv'
  BY <1>2 DEF AssignSlot, Go, Unmoved, acceptVars, stopVars, wsVars
<1>3. ASSUME NEW c \in Clients, ws_start(c) PROVE LInv'
  BY <1>3 DEF ws_start, Go, End, Unmoved, acceptVars, stopVars, wsVars
<1>4. ASSUME NEW c \in Clients, WsReadFails(c) PROVE LInv'
  BY <1>4 DEF WsReadFails, End, Go, Unmoved, acceptVars, stopVars, wsVars
<1>5. ASSUME NEW c \in Clients, WsPeerCloses(c) PROVE LInv'
  BY <1>5 DEF WsPeerCloses, End, Go, Unmoved, acceptVars, stopVars, PeersMayAct, CloseWs
<1>6. ASSUME NEW c \in Clients, close_async(c) PROVE LInv'
  BY <1>6 DEF close_async, Unmoved, acceptVars, stopVars, sessionVars, CloseWs
<1>7. ASSUME NEW c \in Clients, Disconnect(c) PROVE LInv'
  BY <1>7 DEF Disconnect, acceptVars, sessionVars, wsVars, stopVars, PeersMayAct
<1> QED BY <1>1, <1>2, <1>3, <1>4, <1>5, <1>6, <1>7

\* So does every step of stop().
LEMMA StopStep ==
    ASSUME LInv,
           \/ StopCall \/ EmitAccept \/ ListClients \/ ListWebsockets \/ ResetGuard \/ Join
           \/ \E c \in Clients :
                 FindSignal(c) \/ EmitClient(c) \/ CloseWebsocket(c)
    PROVE  LInv'
<1> USE Small, LifeAssumption
    DEF LInv, TypeOK, Places, Stages, Registered, QuietInv, StillWaiting, Drained,
        Undisturbed, OneAtATime, Sessions, Waiting, Alive
<1>1. ASSUME StopCall PROVE LInv'
  BY <1>1 DEF StopCall, acceptVars, sessionVars, wsVars
<1>2. ASSUME EmitAccept PROVE LInv'
  BY <1>2 DEF EmitAccept, sessionVars, wsVars
<1>3. ASSUME ListClients PROVE LInv'
  BY <1>3 DEF ListClients, acceptVars, sessionVars, wsVars
<1>4. ASSUME NEW c \in Clients, FindSignal(c) PROVE LInv'
  BY <1>4 DEF FindSignal, acceptVars, sessionVars, wsVars
<1>5. ASSUME NEW c \in Clients, EmitClient(c) PROVE LInv'
  BY <1>5 DEF EmitClient, acceptVars
<1>6. ASSUME ListWebsockets PROVE LInv'
  BY <1>6 DEF ListWebsockets, acceptVars, sessionVars, wsVars
<1>7. ASSUME NEW c \in Clients, CloseWebsocket(c) PROVE LInv'
  BY <1>7 DEF CloseWebsocket, acceptVars, sessionVars, CloseWs
<1>8. ASSUME ResetGuard PROVE LInv'
  <2>1. quiet => websockets_ = {}
    BY <1>8 DEF ResetGuard
  <2> QED BY <1>8, <2>1 DEF ResetGuard, acceptVars, sessionVars, wsVars
<1>9. ASSUME Join PROVE LInv'
  BY <1>9 DEF Join, acceptVars, sessionVars, wsVars
<1> QED BY <1>1, <1>2, <1>3, <1>4, <1>5, <1>6, <1>7, <1>8, <1>9

-----------------------------------------------------------------------------
\* Every step of the server, its peers and stop() preserves the invariant.
LEMMA LifeNext == LInv /\ [Next]_vars => LInv'
<1> SUFFICES ASSUME LInv, [Next]_vars PROVE LInv'
  OBVIOUS
<1>1. CASE Next
  BY <1>1, AcceptStep, SessionStep, WebSocketStep, StopStep
     DEF Next, do_accept, session, process_session, session_ws, Peer, stop_steps,
         emit_all, close_websockets
<1>2. CASE UNCHANGED vars
  BY <1>2 DEF vars, LInv, TypeOK, Places, Stages, Registered, QuietInv, StillWaiting,
              Drained, Undisturbed, OneAtATime, Alive
<1> QED BY <1>1, <1>2

\* The invariant holds in every state (server.cpp, start to stop).
THEOREM LifeInvariance == Spec => []LInv
  BY LifeStart, LifeNext, PTL DEF Spec

\* The state of the server is well typed, and only a session that is alive and
\* registered has something bound to its slot (server.cpp, ScopeErase in
\* handle_client), for any number of clients and requests.
THEOREM LifeTypeCorrect == Spec => []TypeOK
<1>1. LInv => TypeOK
  BY DEF LInv
<1> QED BY <1>1, LifeInvariance, PTL

\* When stop() returns on a quiet server it has left no client and no WebSocket
\* behind (emit_all and close_websockets in server.cpp).
THEOREM Drains == Spec => []StopDrains
<1>1. LInv => StopDrains
  <2> SUFFICES ASSUME LInv, quiet, stop = "done"
               PROVE  client_cancel_ = {} /\ websockets_ = {}
                      /\ \A c \in Clients : ws[c] # "open"
    BY DEF StopDrains
  <2>1. client_cancel_ = {}
    BY DEF LInv, TypeOK, Places, Stages, Alive
  <2>2. websockets_ = {}
    BY DEF LInv, QuietInv, Drained
  <2> QED BY <2>1, <2>2 DEF LInv, Registered
<1> QED BY <1>1, LifeInvariance, PTL
=============================================================================
