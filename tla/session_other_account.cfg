SPECIFICATION Spec
CONSTANTS
    p1 = p1
    p2 = p2
    a1 = a1
    a2 = a2
    Process = {p1, p2}
    Server = Server
    Account = {a1, a2}
    Line <- Lines
    AutoStart = {p1, p2}
    Faults = {}
    MaxChanges = 0
    None = None
INVARIANT AnswersAskedAccount
CHECK_DEADLOCK FALSE
