SPECIFICATION Spec
CONSTANTS
    p1 = p1
    p2 = p2
    bare = bare
    path = path
    renamed = renamed
    old = old
    notify = notify
    Process = {p1, p2}
    Order <- Three
    Hook = {notify, old, bare, path, renamed}
    Managed = {old, bare, path}
    Marker = bare
    ExecPaths = {path, renamed}
    Contents <- FirstContents
    Edits <- TheirEdits
    Faults = {"crash", "diskFails", "noHome", "readFails", "edit"}
    MaxFaults = 1
    Absent = Absent
    Torn = Torn
    None = None
SYMMETRY Processes
INVARIANTS
    TypeOK
    UserFilesKept
    OneEntry
    ConfigKept
    SetupHolds
    Idempotent
CHECK_DEADLOCK FALSE
