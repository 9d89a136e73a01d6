SPECIFICATION Spec
CONSTANTS
    p1 = p1
    p2 = p2
    m1 = m1
    m2 = m2
    e1 = e1
    e2 = e2
    iforest = iforest
    ocsvm = ocsvm
    t1 = t1
    t2 = t2
    Null = Null
    WindowLen = 4
    Slide = 2
    Delay = 4
    LateDetection = TRUE
    MinSamples = 1
    MinRunning = 50
    Tolerance = 2
    Partition = {p1, p2}
    Logs <- MCLogs
    IdleLimit = 1
    TrainEnd = 6
    ValidationEnd = 14
    MinFraction = 50
    Quantiles = {0, 50, 80}
    MinWindows = 2
    BudgetPeriod = 10
    Candidates <- MCCandidates
    Served = iforest
    Scores <- MCScores
    MaxExports = 1
    Thread = {t1, t2}
    MaxRuns = 2
INVARIANTS
    SnapshotComplete
    NoLeak
    GroundTruthAligned
    BestAffordableSelected
    ServedModelVerified
    OneModelPerProcess
CHECK_DEADLOCK FALSE
