SPECIFICATION ChSpec
CONSTANTS
    Task = {t1, t2}
    NoTask = NoTask
    Byte = {"x", "y"}
    BSize = 2
    Calls <- AllCalls
    PartialFaults = FALSE
    Master = {m1, m2}
    File = {f1, f2}
    Clip = {c1, c2}
    Slots = 2
    Null = Null
    BdDriver = {d1}
    BdDevice = {v1, v2}
    BdId = {i1, i2}
    BdWriter = {w1, w2}
    NoBd = NoBd
SYMMETRY Symmetry
INVARIANTS
    CpTypeOK
    MutexDiscipline
    NoStaleWaiter
    RefsExact
    OpenSurvivesUndropped
    NothingLeaks
    BddtreeSound
PROPERTIES
    Linearizable
CHECK_DEADLOCK FALSE
