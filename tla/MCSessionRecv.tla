--------------------------- MODULE MCSessionRecv ---------------------------
(***************************************************************************)
(* SessionRecv on a small instance: a buffer of thirty places for packets  *)
(* of two and three bytes (a bare header, and one byte of body), and       *)
(* streams long enough to run into the end of the array with data left.    *)
(***************************************************************************)
EXTENDS SessionRecv

\* The lengths found along the stream: all short, all long, and two mixtures.
MCStreams ==
    { [i \in 0..StreamLen - 1 |-> 2],
      [i \in 0..StreamLen - 1 |-> 3],
      [i \in 0..StreamLen - 1 |-> IF i % 5 = 0 THEN 2 ELSE 3],
      [i \in 0..StreamLen - 1 |-> IF i % 7 < 4 THEN 3 ELSE 2] }
=============================================================================
