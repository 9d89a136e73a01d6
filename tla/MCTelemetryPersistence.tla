----------------------- MODULE MCTelemetryPersistence -----------------------
(* One machine's two windows, the first of which grows old. *)
EXTENDS TelemetryPersistence

CONSTANTS t1, t2, w1, w2, m1

MCStart == [w \in Window |-> IF w = w1 THEN 0 ELSE 1]
MCMachineOf == [w \in Window |-> m1]
=============================================================================
