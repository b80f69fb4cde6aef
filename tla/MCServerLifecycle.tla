------------------------- MODULE MCServerLifecycle -------------------------
(* One or two connections to a server that is stopped. *)
EXTENDS ServerLifecycle

CONSTANTS c1, c2

OneClient == {c1}
TwoClients == {c1, c2}

\* One connection is used again after a request that is kept alive.
OneRequest == [c \in OneClient |-> 1]
ThreeRequests == [c \in TwoClients |-> IF c = c1 THEN 2 ELSE 1]
=============================================================================
