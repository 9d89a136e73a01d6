---------------------------- MODULE AlertLedger ----------------------------
(***************************************************************************)
(* What the alert service promises about alerts, whatever Kafka, its own   *)
(* crashes and the operators do: an alert is recorded once, announced to   *)
(* the dashboards at most once, acknowledged at most once with exactly one *)
(* audit row, and never taken back.  AlertIngestion implements this.       *)
(***************************************************************************)
EXTENDS Naturals

CONSTANTS Alert,       \* alert identifiers (UUIDv5)
          NaturalKey   \* the (machine, window, model) an identifier stands for

VARIABLES ledger,      \* [Alert -> {"ABSENT", "NEW", "ACKNOWLEDGED"}]
          audit,       \* [Alert -> Nat], rows of alert_acknowledgement
          announced    \* [Alert -> Nat], "alert.created" broadcasts

ledgerVars == <<ledger, audit, announced>>

Init ==
    /\ ledger = [a \in Alert |-> "ABSENT"]
    /\ audit = [a \in Alert |-> 0]
    /\ announced = [a \in Alert |-> 0]

\* A detection enters the ledger; the same window is never entered under a
\* second identifier.
Record(a) ==
    /\ ledger[a] = "ABSENT"
    /\ \A b \in Alert : NaturalKey[b] = NaturalKey[a] => ledger[b] = "ABSENT"
    /\ ledger' = [ledger EXCEPT ![a] = "NEW"]
    /\ UNCHANGED <<audit, announced>>

Announce(a) ==
    /\ ledger[a] # "ABSENT"
    /\ announced[a] = 0
    /\ announced' = [announced EXCEPT ![a] = 1]
    /\ UNCHANGED <<ledger, audit>>

Acknowledge(a) ==
    /\ ledger[a] = "NEW"
    /\ ledger' = [ledger EXCEPT ![a] = "ACKNOWLEDGED"]
    /\ audit' = [audit EXCEPT ![a] = @ + 1]
    /\ UNCHANGED announced

Next == \E a \in Alert : Record(a) \/ Announce(a) \/ Acknowledge(a)

Spec == Init /\ [][Next]_ledgerVars
=============================================================================
