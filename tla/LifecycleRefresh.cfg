SPECIFICATION Spec
CONSTANTS
    Seeds = {db}
    Boxes = {vm1, user}
    Worktree = vm1
    UserTree = user
    NoBox = NoBox
    NoFile = NoFile
    Remote = TRUE
    Configured <- Everything
    AlwaysRun = {"runner_deploy"}
    Commands = {"create", "refresh"}
    AllowFrom = FALSE
    AllowNoCache = FALSE
    MaxLaunches = 2
    MaxFaults = 0
    MaxLosses = 0
    MaxTroubles = 0
    MaxPushes = 1
INVARIANTS
    RefreshRestarts
CHECK_DEADLOCK FALSE
