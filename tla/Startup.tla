------------------------------ MODULE Startup ------------------------------
(***************************************************************************)
(* The start of a program (main.cpp, examples/servers/http_basic.cpp): the *)
(* configuration is loaded, the server constructed, the configured         *)
(* directories mounted, handlers registered, and the workers started.      *)
(***************************************************************************)
EXTENDS ServerConfig, HttpRouting

CONSTANTS
    Chars,                 \* of paths
    Methods, Paths,        \* of routes and requests
    MountPrefixes, Roots,   \* of the mounts a program makes itself
    NoPath,          \* the empty path
    Certificates,    \* the certificate files that exist
    MaxInput,        \* bound on the lines read and the calls made by the program
    MaxHardware      \* bound on what hardware_concurrency() returns

ASSUME InputAssumption ==
    /\ MaxInput \in Nat /\ MaxHardware \in Nat
    /\ "/" \in Chars /\ Paths \subseteq Seq(Chars) /\ MountPrefixes \subseteq Seq(Chars)
    /\ \A l \in Lines : l.kind = "pair" /\ l.key = "mount" /\ l.value # Junk =>
           l.value.prefix \in Seq(Chars)

VARIABLES
    phase,    \* where the program is
    mounted,  \* the number of configured directories mounted so far
    made,     \* calls the program made itself
    certs,    \* the certificate the server has loaded
    hardware, \* what hardware_concurrency() has returned
    workers   \* the number of threads that run the io_context

vars == << configVars, routingVars, phase, mounted, made, certs, hardware, workers >>

Slash == << "/" >>

Init ==
    /\ ConfigInit /\ RoutingInit
    /\ phase = "loading" /\ mounted = 0 /\ made = 0
    /\ certs = NoPath /\ hardware = 0 /\ workers = 0

Load ==
    /\ phase = "loading"
    /\ OpenFails \/ (Len(lines) < MaxInput /\ \E l \in Lines : load_line(l))
    /\ phase' = IF loading' = "threw" THEN "fatal" ELSE "loading"
    /\ UNCHANGED << routingVars, mounted, made, certs, hardware, workers >>

Loaded ==
    /\ phase = "loading"
    /\ EndOfFile
    /\ phase' = "construct"
    /\ UNCHANGED << routingVars, mounted, made, certs, hardware, workers >>

\* In a build with OpenSSL: the certificate of the default path is loaded, and
\* not the configured one.
setup_ssl ==
    /\ Defaults.cert_file \in Certificates
    /\ certs' = Defaults.cert_file

\* The constructor throws when setup_ssl fails; so do make_address and the
\* acceptor, on a bad address or a port that is taken.
Construct ==
    /\ phase = "construct"
    /\ \/ phase' = "fatal" /\ UNCHANGED certs
       \/ ~cfg.use_ssl /\ phase' = "mount_root" /\ UNCHANGED certs
       \/ cfg.use_ssl /\ phase' = "mount_root" /\ setup_ssl
    /\ UNCHANGED << configVars, routingVars, mounted, made, hardware, workers >>

\* main mounts www_root in any case, the examples only if it is not empty.
MountRoot ==
    /\ phase = "mount_root"
    /\ phase' = "mount"
    /\ \/ MountStatic(Slash, cfg.www_root)
       \/ cfg.www_root = NoPath /\ UNCHANGED routingVars
    /\ UNCHANGED << configVars, mounted, made, certs, hardware, workers >>

MountConfigured ==
    /\ phase = "mount" /\ mounted < Len(cfg.mounts)
    /\ mounted' = mounted + 1
    /\ MountStatic(cfg.mounts[mounted'].prefix, cfg.mounts[mounted'].root)
    /\ UNCHANGED << configVars, phase, made, certs, hardware, workers >>

AllMounted ==
    /\ phase = "mount" /\ mounted = Len(cfg.mounts)
    /\ phase' = "register"
    /\ UNCHANGED << configVars, routingVars, mounted, made, certs, hardware, workers >>

\* What a program registers is its own affair: Get, Post, WebSocketRouter,
\* MountStatic.
Register ==
    /\ phase = "register" /\ Len(lines) + made < MaxInput
    /\ made' = made + 1
    /\ \/ \E m \in Methods, p \in Paths : add_route(m, p)
       \/ \E p \in Paths : commit_ws_route(p)
       \/ \E p \in MountPrefixes, r \in Roots : MountStatic(p, r)
    /\ UNCHANGED << configVars, phase, mounted, certs, hardware, workers >>

\* Fault: a number of threads of 0 is passed on.
Fault_threads(hw) == cfg.threads

\* 0 stands for as many threads as the hardware has, but at least one.
threads(hw) == IF cfg.threads = 0 THEN Max({1, hw}) ELSE cfg.threads

\* Server::start never starts more threads than the hardware has; the library
\* may not know, and then says 0.
start ==
    /\ phase = "register"
    /\ hardware' \in 0 .. MaxHardware
    /\ workers' = Min({threads(hardware'), hardware'})
    /\ phase' = "serving"
    /\ UNCHANGED << configVars, routingVars, mounted, made, certs >>

Next ==
    \/ Load \/ Loaded \/ Construct
    \/ MountRoot \/ MountConfigured \/ AllMounted \/ Register \/ start

Spec == Init /\ [][Next]_vars

-----------------------------------------------------------------------------
(* Properties *)

\* Requests are answered as the registrations say, see HttpRouting, also when
\* the configuration, its www_root and the program mount the same prefix.
AnswersFollowCalls ==
    phase = "serving" =>
        \A p \in Paths : WsFromCalls(p) /\ \A m \in Methods : AnswerFromCalls(m, p)

\* Whatever number of threads the file asks for, 0 and a negative one included,
\* the server has a worker, and no more than the hardware runs; only when
\* hardware_concurrency() cannot tell (0) it has none.
WorkersFitHardware ==
    phase = "serving" => /\ workers <= hardware
                         /\ hardware > 0 => workers > 0

\* The file turns TLS on, in [ssl] or, as long as [ssl] does not say otherwise,
\* in [server].
TlsAskedFor ==
    \/ cfg.use_ssl
    \/ Setting("ssl", "use_ssl") = {} /\ Setting("server", "use_ssl") # {}
       /\ Meaning("server", "use_ssl") = TRUE

\* "[server] - define base address, port, number of threads, ssl usage and
\* default root for static content", "[ssl] - path to certificates"
\* (README.md:93-94): a server whose file turns TLS on uses it, with the
\* certificate that the file names.  The code breaks it twice: load_config
\* ignores use_ssl in [server], and setup_ssl ignores cert_file.  See the run
\* startup_tls.
DocumentedTls == phase = "serving" /\ TlsAskedFor => certs = cfg.cert_file
=============================================================================
