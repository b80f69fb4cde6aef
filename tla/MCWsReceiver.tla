--------------------------- MODULE MCWsReceiver ---------------------------
(* A small instance of WsReceiver: two byte values, payloads of at most two *)
(* bytes, a limit of three, so that a message of two fragments can fill the *)
(* limit exactly, and pass it by one.                                       *)
EXTENDS WsAssemblers

CONSTANTS a, b

MCByte == {a, b}

Payloads == { <<>>, <<a>>, <<b>>, <<a, b>> }

MCFrames ==
    [opcode : {"TEXT", "BINARY", "CONT"}, fin : BOOLEAN, payload : Payloads]
    \cup [opcode : ControlOp \cup {"RSV"}, fin : BOOLEAN, payload : {<<>>}]
=============================================================================
