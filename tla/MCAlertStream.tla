--------------------------- MODULE MCAlertStream ---------------------------
(***************************************************************************)
(* Small instances of AlertStream: browsers come and go while threads      *)
(* commit and broadcast.                                                   *)
(***************************************************************************)
EXTENDS AlertStream

CONSTANTS t1, t2, a1, a2, k1, k2

\* The first browser asks for everything, a second one not for a1.
MCInterest == [k \in Client |-> IF k = k1 THEN Alert ELSE Alert \ {a1}]
=============================================================================
