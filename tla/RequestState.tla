---------------------------- MODULE RequestState ----------------------------
(***************************************************************************)
(* What every page of the dashboard has: a loading and an error message,   *)
(* and requests and connections that fail.  The pages share no other name, *)
(* so that one module can state and prove what holds of all of them.       *)
(***************************************************************************)
EXTENDS Naturals

CONSTANT MaxFaults  \* bound: broken connections and failed requests

ASSUME RequestAssumption == MaxFaults \in Nat

VARIABLES
    loading,  \* the loading message is on screen, where there is no row
    error,    \* the error message is on screen
    faults

Faulty == faults < MaxFaults /\ faults' = faults + 1
=============================================================================
