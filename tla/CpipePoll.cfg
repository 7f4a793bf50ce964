SPECIFICATION CpSpec
CONSTANTS
    Task = {t1, t2}
    NoTask = NoTask
    Byte = {"x"}
    BSize = 1
    Calls <- PollCalls
    PartialFaults = FALSE
INVARIANTS
    PollerWoken
