SPECIFICATION Spec
CONSTANTS
    p1 = p1
    g1 = g1
    g2 = g2
    c1 = c1
    c2 = c2
    v1 = v1
    d1 = d1
    gen = gen
    general = general
    Process = {p1}
    Guild = {g1, g2}
    Channel = {c1, c2, v1, d1}
    Parent <- ParentOf
    Readable = {c1, c2, d1}
    Word = {gen, general}
    Within <- Contains
    Account <- Accounts
    Command <- Commands
    Faults = {"lost", "expired"}
    MaxTries = 2
    Names <- Named
    Messages <- Posted
    MaxChanges = 2
    None = None
INVARIANTS
    TypeOK
    NeverAGuess
    RefusedOffline
    ReportsHold
    PagesExact
CHECK_DEADLOCK FALSE
