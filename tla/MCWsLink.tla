------------------------------ MODULE MCWsLink ------------------------------
(* The lengths on both sides of every boundary: of the three length forms,  *)
(* of the client's limit on a frame, and above the server's on a message.   *)
EXTENDS WsLink

MiB == 1024 * 1024

MCLengths == {0, 125, 126, 65535, 65536, 8 * MiB, 8 * MiB + 1,
              10 * MiB + 1}

\* The longest reason that fits, one more.
MCReasons == {123, 124}

MCKeys == { << 1, 2, 3, 4 >> }

\* A header with an RSV bit, an unknown opcode, a frame over the limit, a Close
\* frame and a data frame.
Piece(rsv, op, n) ==
    [fin |-> TRUE, rsv |-> rsv, opcode |-> op, len |-> n, content |-> "garbled"]
MCDebris == { Piece(1, 2, 0), Piece(0, 15, 0), Piece(0, 1, 16 * MiB),
              Piece(0, 8, 2), Piece(0, 1, 3) }

ClientLimit == 8 * MiB
ServerLimit == 10 * MiB
=============================================================================
