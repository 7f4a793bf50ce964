SPECIFICATION FairSpec
CONSTANTS
    MaxPackets = 3
    Task = {t1, t2}
    MaxSent = 2
    MaxWrites = 1
INVARIANTS
    TypeOK
    Conservation
    RemovalComplete
    ChrInOrder
    ChrNoLostWakeup
PROPERTIES
    RemovalEnds
    ChrServed
CHECK_DEADLOCK FALSE
