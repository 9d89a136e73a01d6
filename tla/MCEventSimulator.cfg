SPECIFICATION LiveSpec
CONSTANTS
    Fleet <- MCFleet
    TickLen = 2
    Specs <- MCSpecs
    Scenarios <- MCScenarios
    MinGap = 2
    Jitters = {3}
    Outages = {4}
    Residences = {2}
    InitialResiduals = {3}
    WearMax = 1
    Duration = 6
    MaxEvents = 5
    QueueCapacity = 1
    BufferRetries = 2
    MaxEncodingFailures = 2
    EmitNormalLabels = FALSE
    MaxChances = 2
INVARIANTS
    EverySampleOnce
    CountersTell
    GroundTruthExact
    AnomaliesLeaveNoTrace
PROPERTIES
    BurstInOrder
    Terminates
CHECK_DEADLOCK FALSE
