---------------------------- MODULE HttpRouting ----------------------------
(***************************************************************************)
(* The tables of the server (server.h) and the lookups in them             *)
(* (handle_request, serve_static in server.cpp): handlers by method and    *)
(* path, WebSocket handlers by path, directories by the prefix of the      *)
(* path.  A path is a sequence of characters; a file is named by the root  *)
(* of its mount and the rest of the path.  A handler is the number of the  *)
(* call that registered it.                                                *)
(***************************************************************************)
EXTENDS Naturals, SequencesExt

CONSTANTS
    Files,    \* the files, as pairs << root, tail >>
    Folders,  \* the directories, as such pairs
    Outside   \* the pairs a link leads out of the root of the mount

VARIABLES
    routes_,         \* << method, path >> to handler
    ws_routes_,      \* path to WebSocket handlers
    static_mounts_,  \* prefix to root
    calls            \* history: the registrations, in their order

routingVars == << routes_, ws_routes_, static_mounts_, calls >>

Empty == [k \in {} |-> 0]

RoutingInit == routes_ = Empty /\ ws_routes_ = Empty /\ static_mounts_ = Empty /\ calls = <<>>

-----------------------------------------------------------------------------
(* Registration *)

\* emplace keeps the value a key has; operator[] replaces it.
emplace(f, k, v) == [x \in DOMAIN f \cup {k} |-> IF x \in DOMAIN f THEN f[x] ELSE v]
assign(f, k, v) == [x \in DOMAIN f \cup {k} |-> IF x = k THEN v ELSE f[x]]

Called(op, key, root) == calls' = Append(calls, [op |-> op, key |-> key, root |-> root])

add_route(method, path) ==
    /\ routes_' = emplace(routes_, << method, path >>, Len(calls) + 1)
    /\ Called("route", << method, path >>, "none")
    /\ UNCHANGED << ws_routes_, static_mounts_ >>

\* The destructor of the WsRouter that WebSocketRouter returns.
commit_ws_route(path) ==
    /\ ws_routes_' = assign(ws_routes_, path, Len(calls) + 1)
    /\ Called("ws", path, "none")
    /\ UNCHANGED << routes_, static_mounts_ >>

MountStatic(prefix, root) ==
    /\ static_mounts_' = emplace(static_mounts_, prefix, root)
    /\ Called("mount", prefix, root)
    /\ UNCHANGED << routes_, ws_routes_ >>

-----------------------------------------------------------------------------
(* Lookup *)

Answer(kind, value) == [kind |-> kind, value |-> value]
NotFound == Answer("not_found", << >>)
BadRequest == Answer("bad_request", << >>)

find_ws(path) == IF path \in DOMAIN ws_routes_ THEN ws_routes_[path] ELSE 0

\* Fault: the map has the order of plain strings, in which a prefix of another
\* prefix comes first.
Fault_PrefixComparator(a, b) == Len(a) < Len(b)

\* The order of static_mounts_.  Prefixes of the same path that have the same
\* length are the same.
PrefixComparator(a, b) == Len(a) > Len(b)

\* A path without the slashes in front.
relative_path(p) ==
    LET leading == {i \in 1 .. Len(p) : \A j \in 1 .. i : p[j] = "/"} IN
    SubSeq(p, Cardinality(leading) + 1, Len(p))

\* The file a path names under a root: an empty rest, or one that ends in "/",
\* is completed by index.html.
Tail_(path, prefix) ==
    LET rest == SubSeq(path, Len(prefix) + 1, Len(path)) IN
    relative_path(IF rest = <<>> \/ Last(rest) = "/" THEN Append(rest, "index.html") ELSE rest)

\* exists() holds of a directory too, and file_size() then throws.
OpenFile(file) ==
    IF file \in Outside THEN NotFound
    ELSE IF file \in Folders THEN Answer("throws", << >>)
    ELSE IF file \in Files THEN Answer("file", file)
    ELSE NotFound

serve_static(method, path) ==
    LET matching == {p \in DOMAIN static_mounts_ : IsPrefix(p, path)}
        found == CHOOSE p \in matching : \A q \in matching \ {p} : PrefixComparator(p, q) IN
    IF method # "GET" THEN BadRequest
    ELSE IF matching = {} \/ found = << >> THEN NotFound
    ELSE OpenFile(<< static_mounts_[found], Tail_(path, found) >>)

handle_request(method, path) ==
    IF << method, path >> \in DOMAIN routes_ THEN Answer("handler", routes_[<< method, path >>])
    ELSE IF DOMAIN static_mounts_ # {} THEN serve_static(method, path)
    ELSE NotFound

-----------------------------------------------------------------------------
(* The same answers from the history of the registrations. *)

CallsFor(op, key) == {i \in 1 .. Len(calls) : calls[i].op = op /\ calls[i].key = key}

Mounted(path) ==
    {calls[i].key : i \in {j \in 1 .. Len(calls) : calls[j].op = "mount"
                                                   /\ IsPrefix(calls[j].key, path)}} \ {<< >>}

StaticAnswer(path) ==
    LET longest == CHOOSE p \in Mounted(path) : \A q \in Mounted(path) : Len(q) <= Len(p)
        root == calls[Min(CallsFor("mount", longest))].root IN
    IF Mounted(path) = {} THEN NotFound
    ELSE OpenFile(<< root, Tail_(path, longest) >>)

NothingMounted == \A i \in 1 .. Len(calls) : calls[i].op # "mount"

\* The answer to a request follows from the registrations: the first handler
\* registered for its method and path, whatever is mounted; otherwise, for a
\* GET, the file under the longest mounted prefix of the path, whatever the
\* order of the mounts; and an error if there is none.
AnswerFromCalls(method, path) ==
    LET byRoute == CallsFor("route", << method, path >>) IN
    handle_request(method, path) =
        IF byRoute # {} THEN Answer("handler", Min(byRoute))
        ELSE IF NothingMounted THEN NotFound
        ELSE IF method # "GET" THEN BadRequest
        ELSE StaticAnswer(path)

\* A path has the WebSocket handlers that were registered for it last.
WsFromCalls(path) ==
    find_ws(path) = IF CallsFor("ws", path) = {} THEN 0 ELSE Max(CallsFor("ws", path))
=============================================================================
