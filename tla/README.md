# TLA+ models of cpp-websocketslib

Models, checks and proofs for the asynchronous HTTP/WebSocket server library in
this repository: its WebSocket connection (reading, writing, closing), its frame
format and its message assemblers at both ends, its HTTP connection with the HTTP
client at the other end, its routing and configuration, and the life of the server
from `start` to `stop`. Paths below are relative to the repository; `PROJECT.json` maps every definition to the
lines it models.

## Inventory

| Part | State it keeps | Operations | Interacts with | What makes it correct |
|---|---|---|---|---|
| Message assembler (`ws_helpers.h`, `FrameBody`) and dispatcher (`WebSocket.h`, `handle_parsed_frame`) | fragments so far, opcode, limit | `start`, `append`, `reset`, one branch per opcode | called by the read loop; calls `on_message`, `on_close`, `do_write` | messages arrive whole, in order and within the limit; errors do no damage |
| WebSocket connection (`WebSocket.h`) | `state_`, socket, `write_queue_`, `is_writing_`, strand | `send_text_async`, `send_binary_async`, `close_async`, `close`, `do_write`, `do_read_loop` | worker threads, the peer, the thread of `Server::stop`, user callbacks | one writer, FIFO, nothing forgotten, callbacks once, cleanup |
| Frame codec (`WsFrame.h`, `do_read_loop`, `make_frame_text`, `read_frame`) | none | two writers, two readers | both ends of a connection | the reader of one end undoes the writer of the other |
| WebSocket client (`websocket_client.cpp`) | `stopped`, assembler | `connect`, `send_*`, `read_frame`, `receive_loop` | the server | in step with the stream, stops for a cause |
| Server lifecycle (`server.cpp`) | `work_guard_`, workers, `client_cancel_`, `websockets_` | `start`, `stop`, `do_accept`, `handle_client`, `process_session`, `process_session_ws` | every session and WebSocket, by signals and by `close()` | `stop` returns and leaves nothing behind |
| HTTP session (`server.cpp`, `io_helpers.h`, `http/`) | socket, one buffer per request, response | `do_read`, `handle_request`, `do_write`, file responses | peers, handlers, the file system | requests understood and answered in order, framing kept |
| HTTP client (`http_client.cpp`) | `stopped` | `get`, `post`, `send_request`, `read_response` | the server | returns, and with the answer to its own request |
| Routing, static mounts (`server.h`, `server.cpp`) | three maps | `add_route`, `WebSocketRouter`, `MountStatic`, `handle_request`, `serve_static`, `find_ws` | sessions | the answer follows from the registrations |
| Configuration loader (`config.cpp`) | section, `ServerConfig` | one branch per kind of line | the programs | a file means what its lines say |
| Start of the programs (`main.cpp`, `examples/servers`) | the server | constructor, `setup_ssl`, mounts, `start` | configuration, routing | configured files, certificate and threads take effect |
| Response builder, handshake helpers, TLS, demos | — | — | — | mostly functions of text; see "Not modelled" |

What is hard here: coroutines on several threads that share a queue which only
some of them reach through the strand; `close()` called from three places at once;
frames in flight when the socket is closed; cancellation signals, which act only
on an operation that is pending at that very moment; a `stop` that waits for
sessions that wait for peers; three forms of a length written out four times; two
different size limits; a buffer that is made anew for each request; a file that
changes between the look at its size and the last byte sent; a client that reads
until the end of the stream; numbers with a sign that wrap around; mounts that
overlap. `PROJECT.json` lists these hazards with their lines.

## Modules

| Module | Models |
|---|---|
| `FrameBody` | the assembler's methods and `handle_parsed_frame`, as operators. What one call does is a record: the assembler after it, the errors reported, the message delivered, the control handler awaited |
| `WsReceiver` | `do_read_loop` against any sequence of frames; `rx` is a history variable with the reassembly that RFC 6455 describes |
| `Outbox` | abstract specification: a queue that hands each frame to a live socket once, in order |
| `WsConn` | one connection and everybody who uses it; implements `Outbox` under the mapping `Box` |
| `WsFrameCodec`, `WsLink` | the codec as operators; a client and a server joined by two streams |
| `WsAssemblers` | `read_message` of the client beside `WsReceiver`, both fed the same frames |
| `ServerLifecycle` | `stop()` against the accept loop and the sessions |
| `HttpSession` | one HTTP connection, the file it serves, and the client at the other end |
| `ServerConfig`, `HttpRouting` | `load_config`; the tables of the server and the lookups in them, each with a reference meaning |
| `Startup` | composes the two: a program from its configuration file to its workers |
| `WsReceiverProofs`, `WsAssemblersProofs`, `WsConnProofs`, `WsLinkProofs` | the proofs about a WebSocket connection |
| `ServerLifecycleProofs`, `HttpSessionProofs`, `HttpPeerProofs`, `StartupProofs` | the proofs about the server, an HTTP connection, the client at its other end, and a program's start |
| `MCWsReceiver`, `MCWsConn`, `MCWsLink`, `MCServerLifecycle`, `MCHttpSession`, `MCStartup` | small values for the constants |

Definitions named `Fault_X` are not part of a specification: each is `X` with a
plausible mistake, kept beside it to show that the property named for it in
`PROJECT.json` fails when the code is wrong in that way.

### WsReceiver

`ReadFrame` is a whole turn of the loop, dispatch included: nobody else touches the
assembler, so the interleaving of its writes is left to `WsConn`. `LeaveLoop` and
`ReadFails` are the two ways out. A payload is a sequence of abstract bytes; `RSV`
stands for the opcodes no branch of the dispatcher matches.

### WsAssemblers

The client has an assembler of its own. `read_message` gives one frame to it; the step
of the composition gives the same frame to the server's, so that both are compared
with the one reference `rx`. The two differ: a stray continuation is skipped here and
reported there, a message in the middle of another is given up for good here and
reported there, and only the server limits a message. The client's limit on a frame
is in `WsLink`.

### WsConn

Actors are the coroutines of `send_*_async` and `close_async` (on the strand), the
reader (on the io_context, *not* on the strand) and the thread of `stop()`. An actor
holds a worker thread from resumption to suspension. Each access to a shared field
is one step: `Push`, `Test`, `SetWriting`, `Loop`, `Pop`, `ClearWriting` are the
lines of `do_write`, `Cas`, `Shut`, `OnClose`, `Cleanup` those of `close`. The
reader turns a frame into a list of `Effects` (write a Close, report, deliver, write
a pong, close), which it takes one by one in the order of the code. asio's strand
and scheduler (`Free`, `Enqueue`, `Resume`, `Wake`) and the network (`WriteDone`,
`WriteFails`, `FrameArrives`, `ReadFails`, `PeerGone`) are modelled from their use. A
failed operation throws and ends its coroutine where it is: `is_writing_` stays set.
A pop from an empty queue is undefined behaviour and sets `ub`.

### WsLink

A frame on a stream is its header bytes, its payload's length, and the mask the
content carries; a reader that consumes other bytes than were written, or applies
another mask, gets "garbled" content. The server's write queue delivers in order
(that is `WsConn`'s result), so a send appends at once. `connect` is the reading of the
101 answer. Its reads may return more than the answer, as TCP allows, and all of that goes
away with the local buffer: some whole frames, which the history variable `lost` counts,
and possibly the beginning of the next one (`cut`). A client that is not `cut` starts on
the boundary of a frame, and `ClientInStep` and `ClientStopsForCause` are about it: it
misses the lost frames and no other. A client that is `cut` reads headers from the middle
of a frame (`receive_debris`). Contents are not modelled, so what it makes of those bytes
is any frame of the constant `Debris`: RSV bits, an unknown opcode, a length over the
limit, a Close frame, or data, each of which may swallow frames that follow. Such a client
may report a protocol error where the server has just closed: a Close frame right behind
the answer (`tests/ws_server_test.cpp:234`) is enough. A Close frame of the server may
be left on its write queue when the socket is closed (`CloseAfter`; `conn_lastframe` shows
how), so a close is not always preceded by its frame.

### ServerLifecycle

Each session is at one of its suspension points, or between two of them. `slot`
says what a signal would act on: a pending operation bound to the slot, the handler
that `process_session_ws` assigns, or nothing (between operations, in a handler, and
in `sendfile`'s wait, which is not bound). `stop()` is one step per critical section:
emit to the acceptor, list the clients, look one up, emit, list the WebSockets, close
one, drop the guard, join. The variable `quiet`, chosen at the start, tells the runs in
which `stop()` finds every coroutine waiting for a peer that is there, and the peers
then do nothing more; otherwise it comes at any moment. A WebSocket is reduced to open or closed. After an emit on
a destroyed signal the model goes on as if nothing had happened and records it in
`dangling`: `NoDanglingEmit`, stated for every call of `stop()`, fails in the run
`stop_dangling`, and `StopReturnsOncePeersLeave` claims nothing from there on. A TLS handshake
counts as one more read: it waits bound to the slot, too. The WebSocket of a peer that
vanished stays registered after its session has ended (`WebSocket.h:279`); `StopDrains`
says that `stop()` removes it.

### HttpSession

The bytes of a connection are cells (a request line, the fields, each byte of a body;
a head, each byte of a body), and every read takes any number of those that have
arrived. `ReadSome`, `co_read_headers`, `co_read_body` are the reads of `do_read`;
what is left in the buffer when it returns is lost, as in the code.
`parse_http_request` says what a header text yields when other bytes precede it, or
its line is missing. `process_session` is the dispatch, the handler included; `do_write`
has one action for each place where another process can come between (head, open, each
piece, end), because `ChangeFile` may rewrite, remove or create the file there. Whatever
the file is like, opening, measuring, sending or reading it may also fail (`EMFILE`,
`EACCES`, `EIO`), and `file_size` may throw; what the code then does, goes on or ends, is
in `sendfile_open`, `SendEnds`, `stream_open`, `StreamEnds` and `process_session`. The
client waits, pipelines, or is an `HttpClient` (variable `mode`); the last one may be used again as
`http_client_example.cpp` does. A `Content-Length` is a number, right, too small or too
large, or missing, no number, or more than a string can hold; `content_length` is what the
session makes of it. It counts cells, so that a length which is too large takes whole
lines and whole fields of the next request. An upgrade may come with `Connection: close`,
which `send_request` sets unless the caller does. `seen` (the requests as handled),
`abandoned` (those whose file the session gave up on) and `returned` (what calls gave back)
are histories. Assumed: `Host` is the first field, a body holds no white space, and the
build is Linux's.

### ServerConfig, HttpRouting, Startup

A line of a file is what it is to the loader: skipped, a section header, a key with its
value; a number is the integer the text starts with. `stoul` wraps a negative one around
and throws when the digits do not fit (`InRange`). The
reference meaning (`Meaning`, `Setting`, `Place`) looks at all lines at once: the lines
that set a key are a set, the largest of them counts, and a mount's place is the number
of mount lines up to it. `ULongBits` is 17 in
the run so that there is a negative number (-131000) that wraps to a port, as some do
with 64 bits. `ConfigMeansItsLines` takes `use_ssl` for a key of `[ssl]` and claims nothing
of it when `[server]` sets it, where the repository's README expects it: what it should mean
there is `DocumentedTls`. In `HttpRouting` a handler is the number of the call that registered it,
and `calls` is the history from which `AnswerFromCalls` and `WsFromCalls` derive every
answer anew. Files, directories and links out of a root are sets of pairs of a root and
a path; a path is a sequence of `Chars`, of which `relative_path` drops all the slashes in
front. `Startup` runs loading, construction, mounts, registrations and `start` in the
order of the programs. The first mount of a prefix wins, hence `www_root`, mounted at
`/` first, hides a `mount = /` of the file. The number of threads
of the hardware is any up to `MaxHardware`; 0 means that it is not known. The build is one with OpenSSL.

## Runs

| Run | Bounds | Shows |
|---|---|---|
| `receiver` | 2 byte values, payloads of 0–2 bytes, limit 3, 5 frames of every opcode | `FaithfulUntilError`, `SizeBounded`, `IntactOrReported` of the server and `ClientFaithful` of the client. Two fragments can meet the limit exactly and exceed it by one; five frames leave room for an error, a stray continuation and a complete message after it |
| `conn_one` | fair, 1 thread, a sender, a closer, stop(), 2 frames (ping, Close, stray continuation) | `OneWriter`, `WireIsFifo`, `SendOrder`, `CloseOnce`, refinement of `Outbox`; `SendsComplete`, `CloseEnds` |
| `conn_strand` | 2 threads, two senders, a closer, stop(), 2 frames the reader does not answer | the same queue properties: the strand is enough as long as the reader does not write; `CloseOnce` when a closer on a worker and `stop()` really overlap |
| `link` | lengths on both sides of 125/126, 65535/65536 and 8 MiB, and one above 10 MiB; reasons of 123 and 124 bytes; two frames each way, five kinds of debris | `ServerReads`, `ClientInStep`, `ClientStopsForCause`, `CloseFits` |
| `stop` | 2 clients, one with 2 requests and one with 1; peers leave in the end | on a quiet server `QuietStopReturns`, `StopDrains`; on any server `StopReturnsOncePeersLeave` |
| `http` | 3 requests of 9 kinds, bodies of 0–2 bytes, files of 0 or 2 bytes or none, plain and TLS, 3 modes of the client | `AnswersInOrder`, `InStep`, `Framed`, `OwnAnswerOrNothing`, and under fairness `Answered`, `CallReturns`. Three requests are one with a wrong length, the one it damages and one that must be whole again; lengths are too small by one and too large by two, so that a pipelined request can be swallowed; a file of two bytes can end after none or one of them, and be replaced by an empty one |
| `startup` | 4 lines of a file and calls of the program together, 17 kinds of line, 4 paths, `MaxHardware` 2 | `ConfigMeansItsLines`, `AnswersFollowCalls`, `WorkersFitHardware`. Four are two sections with a key each, or a key set twice with a header between, or a mount in the file with two registrations that compete with it |

A sender, a closer and `stop()` are enough for the queue properties because a
violation needs one actor in the loop and one that passes the test; the theorems
below remove the bound. Deadlock is not checked: a connection or a
server that has ended does nothing more, and the frames and requests are bounded.

Runs that end in a violation, each a disagreement of the code with its own text:

| Run | What happens |
|---|---|
| `conn_threads` | with two worker threads the reader's pong and a message on the strand are both inside `do_write`; the front frame is written twice, or popped twice (`README.md:4`, "multithreaded") |
| `conn_lastframe` | `close_async` while a message is being written: `do_write` only queues the Close frame and returns, and the socket is shut (`tests/ws_server_test.cpp:245`) |
| `stop_busy` | `stop()` while an accept has just completed, or a session is between two operations: the signal is lost and `stop()` never returns (`README.md:14`) |
| `stop_dangling` | a session ends after `emit_client` has found its signal and before it emits: the signal has been destroyed (`README.md:13`, "Per-connection and global cancellation") |
| `startup_tls` | `use_ssl = true` in `[server]` is warned about and ignored, and the server starts without TLS (`README.md:93`, "ssl usage"). With `use_ssl` in `[ssl]` the same property fails at `setup_ssl`, which loads `certs/localhost.crt` whatever `cert_file` says (`README.md:94`, "path to certificates") |

`stop_busy` reports one of several ways in which `stop()` hangs, the shortest; a WebSocket
registered after `close_websockets` made its list (`server.cpp:149`) is another.

Some properties that hold name in their conditions what the code does not guard against.
A session that gives up on a file makes a body shorter than announced (`Framed`,
`OwnAnswerOrNothing`) or leaves a request without an answer (`Answered`); a wrong
`Content-Length` damages the next request (`InStep`) or makes the session wait for bytes
that do not come (`Answered`, `CallReturns`); an upgrade takes the connection away from
`HttpClient` (`CallReturns`). The properties say that nothing else does, and that the
harm goes no further.

### Fairness

`WsConn`: a running thread goes on (weak fairness of its steps); operations
complete or fail (weak); a ready coroutine is resumed (strong, because the io_context
serves its queue in order while others come and go). `ServerLifecycle`: weak fairness
of the acceptor, of each session (handlers return, writes to a peer that is there
complete), of spawned closers and of the thread of `stop()`. Peers owe nothing,
except in `LeavingSpec`, where each goes away in the end. `HttpSession`: weak fairness of
the session (a worker runs it while it can go on) and of the calling thread of
`HttpClient`; nothing is assumed of when clients send or close, or of the file.

## Proofs

Every invariant that a passing run checks, and the refinement of `Outbox`, is also a
theorem. The theorems hold for every value of the constants that satisfies the
assumptions named in the modules: `MaxSizeAssumption`, `FramesAssumption`,
`ConnAssumption`, `LinkAssumption`, `LifeAssumption`, `HttpAssumption`,
`ConfigAssumption`, `LinesAssumption`, `InputAssumption`. Most of these only say what
kind of thing a constant is. Those that say more: senders and closers are finitely many
and distinct actors; lengths of frames are below 2^31 (the model writes out the
lower four of the eight bytes of a length, and the other four are zero);
a request with a body has a `Content-Length`, right or wrong; what `Debris` holds can be
read from two bytes and a length; the port 65535 fits an `unsigned long`; the default port
is a port, and by default nothing is mounted.

| Module | Theorems (property) |
|---|---|
| `WsReceiverProofs` | `TypeCorrect` (`TypeOK`), `Faithful` (`FaithfulUntilError`), `Bounded` (`SizeBounded`), `Intact` (`IntactOrReported`) |
| `WsAssemblersProofs` | `BothReceive`, `ClientAssembles` (`ClientFaithful`) |
| `WsConnProofs` | `ConnTypeCorrect` (`TypeOK`), `ClosesOnce` (`CloseOnce`), `MessagesInOrder` (`SendOrder`); `OneThreadOneWriter`, `StrandOneWriter` (`OneWriter`), `OneThreadFifo`, `StrandFifo` (`WireIsFifo`), `OneThreadRefines`, `StrandRefines` (`ImplementsOutbox`), `PlainPeer` |
| `WsLinkProofs` | `LinkTypeCorrect` (`TypeOK`), `ServerReadsClient` (`ServerReads`), `ClientStaysInStep` (`ClientInStep`), `StopsForCause` (`ClientStopsForCause`), `CloseAlwaysFits` (`CloseFits`) |
| `ServerLifecycleProofs` | `LifeTypeCorrect` (`TypeOK`), `Drains` (`StopDrains`) |
| `HttpSessionProofs` | `HttpTypeCorrect` (`TypeOK`), `AnswersOrdered` (`AnswersInOrder`), `FramedAlways` (`Framed`) |
| `HttpPeerProofs` | `StaysInStep` (`InStep`), `OwnAnswer` (`OwnAnswerOrNothing`) |
| `StartupProofs` | `WorkersFit` (`WorkersFitHardware`), `ConfigFaithful` (`ConfigMeansItsLines`), `AnswersFollow` (`AnswersFollowCalls`) |

`WsReceiverProofs`. Inductive invariant `IInv`: types, `FaithfulUntilError`,
`SizeBounded` and `Link`, which ties the assembler to the reference: the two agree on
whether a message is open and on its bytes, and between messages the assembler may hold
only what stray continuations left, in which case an error has been reported.
`FaithfulUntilError` is not inductive without it. Lemma `Dispatch` says what a call of
the dispatcher yields; `Intact` follows from `Link` and a step.

`WsAssemblersProofs`. `BothReceive`: a behaviour of the two assemblers is one of
`WsReceiver`, so that the theorems above hold in the run `receiver`, too, and `IInv` may
be used. `ClientInv` says that, unless 1009 has been reported, the client either runs
and agrees with the reference on the open message and on all finished ones, or has
stopped and its messages are the first ones of the reference's. The condition needs
`IInv`: only through `Link` is a frame over the limit known to be reported
(`LimitReported`). `ClientFaithful` follows.

`WsConnProofs`. `TInv` adds to the types where each actor can be (`Places`). `CInv`
counts: at most one actor is past the exchange in `close()`, and the counters agree with
where it is; this gives `ClosesOnce` for any number of threads. `QInv` describes the
queue by the one actor inside the loop; it is inductive as long as no two actors are in
the critical parts of `do_write` at once (`Excl`). There are two reasons why that may be
so. With `Threads = 1` only one coroutine runs at a time (`Solo`) and the thread of
`stop()` never writes: the theorems `OneThread...`. On any number of threads the strand
runs one of its coroutines at a time (`StrandSolo`), which is enough as long as the
reader, who is outside the strand, does not call `do_write` (`Silent`): the theorems
`Strand...`. That condition is about the peer and not about luck: `PlainPeer` shows
that it always holds when the peer sends pongs, whole messages within the limit and
unknown frames. One of the two reasons is needed: `conn_threads` is the counterexample
without both. In each case a step of `Next` is a step of `Outbox` or a stutter.
`MessagesInOrder` needs neither. `StrandInv` says that the jobs that have not begun are
queued in the order of their calls, whatever completions are queued between them
(`Queued`), that at most one job is about to push, and that it was called before all the
waiting ones and after all that have pushed (`Turn`).

`WsLinkProofs`. First the codec. `Encodes` describes a header byte by byte: its first
byte, the seven bits of the length, the bytes of the extended length, the key. Both
writers emit such a header in each of the three forms, and both readers take it for what
it is; the step from bytes to the length is arithmetic on `\div` and `%`. Then the
streams: `UpStream` and, as long as the client is not `cut`, `DownStream` give each frame
sent its place among those read, lost and under way, and `Cause` ties the end of the
receive loop to the last frame read. Of a client that is `cut` only the type invariant, the
server's side and the reason "lost" are left.
The properties compare two ends; they are inductive only with what lies in between.

`ServerLifecycleProofs`. `Places` and `Registered` say what the tables of the server
hold when a session is at each of its points, `Stages` what the lists of `stop()` hold at
each of its own. `StillWaiting` is the reason of `Drains`: on a quiet server every
session whose turn has not come still waits as `stop()` found it, hence its signal acts
when it is emitted, and every open WebSocket is on the list to be closed.

`HttpSessionProofs`. `InOrder`: header cells on their way, in the buffer and in hand are
numbered upwards, wherever reads cut them, and so are the heads already written.
`Measured`: every answer but the last is followed at its announced distance by the next
head (`Spaced`, `Followed`), unless the session gave up on its file over a plain
connection, and what the last one lacks of its length is what is left of the file being
sent (`Last`). `Framed` compares two heads; it is inductive only with what is still to be
written.

`HttpPeerProofs` is about clients that take turns. `Flow` accounts for every cell between
the client and the session: at most one request is under way, behind what a wrong
`Content-Length` left of the body before it, and a request that announces more than it has
keeps the session reading its body (`InBody`). A client knows only how many heads it has
seen; that this tells it that the session is past its last request (`AnsweredAll`) is
shown by counting, with an injection from heads to requests. `Caller` describes
`HttpClient`: a call that returns was alone on the connection and read its own answer
(`FirstRead`), or came after the server had closed and reads nothing (`LaterCalls`).

`StartupProofs`. `ConfigInv`: the section is that of the last header (`SectionInv`), each
key has the value of the largest line that sets it (`ScalarInv`), and each mount line is
at the place that counting gives it (`MountInv`). `RoutingInv` compares the tables with
the history of calls: who registered an entry and that nobody did before (routes, mounts)
or after (WebSockets), and that every path under some mount has a longest one
(`LongestInv`), which is part of the invariant because the existence of a largest element
would otherwise need an induction over sets. `PhaseInv` keeps the two apart: nothing is
registered before the file is loaded.

Only model-checked: the liveness properties (`SendsComplete`, `CloseEnds`,
`QuietStopReturns`, `StopReturnsOncePeersLeave`, `Answered`, `CallReturns`). They hold under fairness, and proofs from fairness need `ENABLED`, which
this prover does not handle.

## Not modelled

- TLS itself (OpenSSL's stream stands for the socket) and the Windows file path
  (`TransmitFile`).
- Tables of status codes and content types, the text of requests and responses, query
  parameters (`split_target`), base64 and SHA-1: functions of text without state.
- Memory: the WebSocket reader allocates the announced length before any limit applies.
- `start()` after `stop()`, `stop()` called from a worker, `post_task`.
- A sender of `WebSocketClient` in one thread while another sets `stopped`, and the data
  race of `emit` with a session that assigns its slot: the step that binds a slot is
  atomic here.
- What the handlers of the demos compute, the console, the benchmarks.

## Plan

1. Done: `FrameBody`, `WsReceiver`, `Outbox`, `WsConn` and their proofs;
   `WsFrameCodec`, `WsLink`; `ServerLifecycle`.
2. Done: `WsAssemblers` and its proofs; `HttpSession` with `HttpClient`;
   `ServerConfig`, `HttpRouting`, `Startup`.
3. Done: theorems for all safety invariants of the passing runs; the multi-threaded
   strand; the refinement of `Outbox` in both cases in which it holds.
4. Left: action properties of `close()` and of `stop()` as theorems; a specification of an
   ordered frame channel that `WsLink` implements in each direction; base64 and
   `split_target` against reference definitions.
