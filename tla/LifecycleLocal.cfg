SPECIFICATION CleanSpec
CONSTANTS
    Seeds = {db}
    Boxes = {tree, user}
    Worktree = tree
    UserTree = user
    NoBox = NoBox
    NoFile = NoFile
    Remote = FALSE
    Configured <- LocalConfig
    AlwaysRun = {}
    Commands = {"create", "attach", "destroy", "infra"}
    AllowFrom = FALSE
    AllowNoCache = FALSE
    MaxLaunches = 4
    MaxFaults = 1
    MaxLosses = 1
    MaxTroubles = 2
    MaxPushes = 0
    MaxCleans = 1
INVARIANTS
    CleanTypeOK
    UndisturbedIsComplete
PROPERTIES
    UserTreeKept
    CleanSpares
    CleanIsThorough
CHECK_DEADLOCK FALSE
