------------------------------ MODULE MCWsConn ------------------------------
(* Small instances of WsConn. *)
EXTENDS WsConn, TLC

CONSTANTS s1, s2, c1, x

MCByte == {x}

In(op, fin) == [opcode |-> op, fin |-> fin, payload |-> << x >>]

\* A ping, a close, and a continuation of nothing, which is answered with an
\* error and yet delivered.
AnyFrames == {In("PING", TRUE), In("CLOSE", TRUE), In("CONT", TRUE)}

\* Frames that never make the reader write.
DataFrames == {In("TEXT", TRUE), In("PONG", TRUE)}

Pings == {In("PING", TRUE)}

TwoSenders == {s1, s2}
OneSender == {s1}
OneCloser == {c1}
None == {}

Symmetry == Permutations({s1, s2})
=============================================================================
