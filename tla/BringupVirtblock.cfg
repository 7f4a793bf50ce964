SPECIFICATION BuSpec
CONSTANT BuDevices = 2
INVARIANT UnwindsSafely
CHECK_DEADLOCK FALSE
