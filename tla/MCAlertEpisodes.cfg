SPECIFICATION Spec
CONSTANTS
    m1 = m1
    m2 = m2
    Machine = {m1, m2}
    Row <- MCRow
    WindowLen = 3
    Gap = 4
    Delay = 3
    ToOpen = 2
    MaxBatches = 3
    MaxRows = 3
    MaxFaults = 1
INVARIANTS
    AlertNeedsRun
    OneAlertPerRun
    ReplayAddsNothing
    QueryNeverKilled
CHECK_DEADLOCK FALSE
