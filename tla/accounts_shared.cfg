SPECIFICATION Spec
CONSTANTS
    p1 = p1
    p2 = p2
    n1 = n1
    n2 = n2
    t1 = t1
    Process = {p1, p2}
    Name = {n1, n2}
    Token = {t1}
    UserToken = {t1}
    Store = {"file"}
    Command <- SharedCommands
    Faults = {"crash", "diskFails", "revoke"}
    None = None
SYMMETRY Symmetry
VIEW WithoutReports
INVARIANTS
    DefaultStored
    WriteWasAskedFor
CHECK_DEADLOCK FALSE
