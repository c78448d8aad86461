SPECIFICATION FairSpec
CONSTANTS
    c1 = c1
    c2 = c2
    d1 = d1
    Client = {c1, c2}
    Daemon = {d1}
    NoAutoStart = {c2}
    Ops = {"relay", "start", "stop", "status"}
    Faults = {"killClient", "killDaemon", "lateReply", "openFails"}
    None = None
    Stale = Stale
PROPERTIES
    CommandFinishes
    UnusedDaemonsExit
    StopTakesEffect
    ImplementsRelay
CHECK_DEADLOCK FALSE
