--------------------------- MODULE MCEventSimulator ---------------------------
(* Values of the constants for TLC. *)
EXTENDS EventSimulator

MCFleet == <<"M-001", "M-002">>
MCSpecs == {[family |-> "DRIFT", sensor |-> NoSensor, durations |-> {3}],
            [family |-> "SPIKE", sensor |-> "temperature_c", durations |-> {4}]}
MCScenarios == <<[machine |-> "M-002", spec |-> CHOOSE s \in MCSpecs : s.family = "SPIKE",
                  offset |-> 1, duration |-> 1]>>
===============================================================================
