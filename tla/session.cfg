SPECIFICATION Spec
CONSTANTS
    p1 = p1
    p2 = p2
    a1 = a1
    a2 = a2
    Process = {p1, p2}
    Server = Server
    Account = {a1, a2}
    Line <- FewLines
    AutoStart = {p1, p2}
    Faults = {"openFails", "noChannel"}
    MaxChanges = 2
    None = None
SYMMETRY Symmetry
INVARIANTS
    TypeOK
    AckWasAllowed
    AckWasAsked
    OpenedToWrite
CHECK_DEADLOCK FALSE
