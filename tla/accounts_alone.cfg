SPECIFICATION Spec
CONSTANTS
    p1 = p1
    n1 = n1
    n2 = n2
    t1 = t1
    t2 = t2
    Process = {p1}
    Name = {n1, n2}
    Token = {t1, t2}
    UserToken = {t1}
    Store = {"keyring", "file"}
    Command <- AllCommands
    Faults = {"netFails", "storeFails"}
    None = None
INVARIANTS
    TypeOK
    SecretStored
    ReportsStand
PROPERTIES
    ImplementsRegistry
CHECK_DEADLOCK FALSE
