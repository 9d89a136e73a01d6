-------------------------- MODULE MCAlertIngestion --------------------------
(***************************************************************************)
(* Small instances of AlertIngestion.  Alerts a1 and a2 come from machine  *)
(* m1, hence from one partition; a3 from machine m2 and the other one.     *)
(***************************************************************************)
EXTENDS AlertIngestion

CONSTANTS p1, p2, t1, t2, a1, a2, a3, m1, m2, q1, q2

MCPartitionOf == [a \in Alert |-> IF a = a3 /\ p2 \in Partition THEN p2 ELSE p1]
MCMachineOf == [a \in Alert |-> IF a = a3 THEN m2 ELSE m1]

\* Every identifier stands for its own window, or a2 repeats the window of a1.
OwnWindow == [a \in Alert |-> a]
SharedWindow == [a \in Alert |-> IF a = a2 THEN a1 ELSE a]
=============================================================================
