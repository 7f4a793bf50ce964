SPECIFICATION DfSpec
CONSTANTS
    DfOptions = {3}
    DfMaxMax = 4
    DfMaxFails = 0
    DfMaxRoom = 3
INVARIANT DfLinksAsDesigned
CHECK_DEADLOCK FALSE
