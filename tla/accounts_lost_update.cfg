SPECIFICATION Spec
CONSTANTS
    p1 = p1
    p2 = p2
    n1 = n1
    t1 = t1
    Process = {p1, p2}
    Name = {n1}
    Token = {t1}
    UserToken = {t1}
    Store = {"file"}
    Command <- ScopeCommands
    Faults = {"netFails"}
    None = None
INVARIANTS
    ReadForbidsWrites
CHECK_DEADLOCK FALSE
