SPECIFICATION HistorySpec
CONSTANTS
    Filter = {"all", "some", "none"}
    Pages <- MCPages
    MaxPage = 2
    NoFilter = "all"
    MaxChanges = 5
    MaxFaults = 2
CHECK_DEADLOCK FALSE
INVARIANTS
    AnswersWhileAlive
