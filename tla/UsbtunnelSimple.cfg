SPECIFICATION TunSpec
CONSTANTS
    Kind = {"address", "in", "out", "simple"}
    MaxRequests = 3
    MaxPlugs = 1
    Faults = FALSE
INVARIANTS
    AnsweredInTurn
CHECK_DEADLOCK FALSE
