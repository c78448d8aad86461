SPECIFICATION FairSpec
CONSTANTS
    p1 = p1
    p2 = p2
    p3 = p3
    Process = {p1, p2, p3}
    Interval <- MixedInterval
    MaxWait = 4
    MaxLate = 1
    Faults = {"crash", "ioFails"}
    Requests = 1
    MaxTime = 2
    None = None
INVARIANTS
    TypeOK
    SlotsSpaced
    SendsSpaced
PROPERTIES
    ImplementsQueue
    RequestSent
CHECK_DEADLOCK FALSE
