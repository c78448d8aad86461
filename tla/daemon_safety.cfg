SPECIFICATION Spec
CONSTANTS
    c1 = c1
    c2 = c2
    d1 = d1
    d2 = d2
    Client = {c1, c2}
    Daemon = {d1, d2}
    NoAutoStart = {}
    Ops = {"relay", "start", "stop", "status", "run"}
    Faults = {"killClient", "killDaemon", "signal", "lateReply", "openFails"}
    None = None
    Stale = Stale
SYMMETRY Symmetry
INVARIANTS
    TypeOK
    SocketIsServed
    WaitersHaveServer
    RunsMatchReport
CHECK_DEADLOCK FALSE
