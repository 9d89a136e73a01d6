SPECIFICATION FairSpec
CONSTANTS
    m1 = m1
    m2 = m2
    Null = Null
    WindowLen = 6
    Slide = 3
    Delay = 4
    LateDetection = TRUE
    MinSamples = 2
    MinRunning = 90
    Tolerance = 2
    Topics <- MCTopics
    MaxPerTrigger = 2
    MaxFaults = 1
INVARIANTS
    NothingVanishes
    WindowNeverRestarts
    ReplaySameEvents
    TranslationsAgree
    FailureExitsNonZero
PROPERTIES
    SettledOrExited
CHECK_DEADLOCK FALSE
