SPECIFICATION Parsing
CONSTANTS
    Text <- Texts
    Dashed <- WithDash
    NameOf <- CutName
    InlineOf <- CutInline
    Positive = {"5"}
    Empty = ""
    Account = "--account"
    Help = {"--help", "-h"}
    Version = {"--version", "-v"}
    Boolean = {"--mentions"}
    Command <- Accepts
    Served = {"unread", "read"}
    Argv <- Lines
    None = None
INVARIANTS
    TypeOK
    NothingDropped
    RefusedForReason
    AccountsAgree
CHECK_DEADLOCK FALSE
