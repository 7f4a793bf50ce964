SPECIFICATION DrFairSpec
CONSTANTS
    BuDevices = 2
    SlThreads = 2
    MaxWakes = 2
    Item = {c1, c2}
    NoItem = NoItem
    MaxFiles = 2
    DfOptions = {0, 2, 3, 4}
    DfMaxMax = 4
    DfMaxFails = 1
    DfMaxRoom = 3
    ClFile = {f1, f2}
    ClCap = 2
    ClWord = 8
    ClMaxCount = 2
    ClMaxPos = 4
    Task = {t1, t2, t3}
    NoTask = NoTask
    Byte = {"x"}
    BSize = 1
    Calls <- LiveCalls
    PartialFaults = FALSE
INVARIANTS
    TypeOK
    BringupSound
    SleepersSound
    Mirrored
    DeepfsSound
    ClipboardSound
    NoLostWakeup
PROPERTIES
    SleepersStop
    Served
CHECK_DEADLOCK FALSE
