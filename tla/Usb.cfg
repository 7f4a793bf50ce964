SPECIFICATION FairSpec
CONSTANTS
    Kind = {"address", "in", "out", "simple"}
    MaxRequests = 3
    MaxPlugs = 2
    Faults = TRUE
    Tunnel = {t1, t2, t3}
    Writer = {w1, w2}
    NoTunnel = NoTunnel
    Urb = {c, b1, b2}
    Control = {c}
    MaxQueued = 1
    MaxEvents = 3
    MaxTicks = 3
    MaxConfigs = 2
    c = c
    b1 = b1
    b2 = b2
INVARIANTS
    TypeOK
    ForwardedOnce
    RightAnswer
    CtrlHonest
    TunnelsSound
    UrbsOnce
    PortHonest
    TkRequestThere
PROPERTIES
    Answered
    Visited
    TkTicks
CHECK_DEADLOCK FALSE
