SPECIFICATION FairSpec
CONSTANTS
    t1 = t1
    t2 = t2
    w1 = w1
    w2 = w2
    m1 = m1
    Thread = {t1, t2}
    Window = {w1, w2}
    Start <- MCStart
    Machine = {m1}
    MachineOf <- MCMachineOf
    Kinds = {"good", "unparseable", "unstorable"}
    MaxPoll = 2
    Horizon = 0
    MaxSamples = 2
    MaxLog = 3
    MaxTime = 1
    MaxFaults = 2
CHECK_DEADLOCK FALSE
INVARIANTS
    CommittedMeansPlotted
    NewestUnlessRevoked
PROPERTY
    CurveCatchesUp
