--------------------------- MODULE MCHttpSession ---------------------------
(* One connection with three requests, one kind for each way a session can go. *)
EXTENDS HttpSession

Req(target, n, length, says, close) ==
    [target |-> target, body |-> n, length |-> length, says |-> says, close |-> close]

MCRequests ==
    { Req("text", 2, "number", 1, FALSE), Req("text", 0, "number", 2, TRUE),
      Req("text", 1, "bad", 0, FALSE), Req("text", 1, "huge", 0, FALSE),
      Req("file", 2, "number", 2, FALSE), Req("file", 0, "none", 0, TRUE),
      Req("throws", 0, "none", 0, TRUE), Req("ws", 0, "none", 0, TRUE),
      Req("ws_bad", 0, "none", 0, TRUE) }
=============================================================================
