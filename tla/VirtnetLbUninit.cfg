SPECIFICATION Spec
CONSTANTS
    MaxPackets = 3
    Task = {t1}
    MaxSent = 2
    MaxWrites = 1
INVARIANT NoUseAfterFree
CHECK_DEADLOCK FALSE
