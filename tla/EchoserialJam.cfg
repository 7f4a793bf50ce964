SPECIFICATION FairSpec
CONSTANTS
    XSize = 2
    BSize = 2
    Interval = 80
    Baud = {50, 110, 200}
    DefBaud = 200
    Wakeup = 1
    MaxBytes = 4
PROPERTIES
    Echoed
CHECK_DEADLOCK FALSE
