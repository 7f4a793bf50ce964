SPECIFICATION FairSpec
CONSTANTS
    XSize = 4
    BSize = 2
    Interval = 80
    Baud = {50, 110, 200}
    DefBaud = 200
    Wakeup = 2
    MaxBytes = 5
INVARIANTS
    TypeOK
    Echoes
    FlowAgrees
PROPERTIES
    EchoedOrJammed
    WriterWoken
CHECK_DEADLOCK FALSE
