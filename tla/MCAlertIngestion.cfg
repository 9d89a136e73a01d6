SPECIFICATION FairSpec
CONSTANTS
    p1 = p1
    p2 = p2
    t1 = t1
    t2 = t2
    a1 = a1
    a2 = a2
    a3 = a3
    m1 = m1
    m2 = m2
    q1 = q1
    q2 = q2
    Partition = {p1}
    Thread = {t1, t2}
    Operator = {q1, q2}
    Alert = {a1, a2, a3}
    Rev = {r1, r2}
    PartitionOf <- MCPartitionOf
    Machine = {m1, m2}
    MachineOf <- MCMachineOf
    NaturalKey <- SharedWindow
    Kinds = {"good", "unreadable", "unstorable"}
    MaxLog = 2
    MaxFaults = 1
CHECK_DEADLOCK FALSE
INVARIANTS
    CommittedMeansHandled
    AnnouncedAtMostOnce
    OneAlertPerWindow
PROPERTIES
    AcknowledgedIsFinal
    ImplementsLedger
    SettledUnlessRefused
