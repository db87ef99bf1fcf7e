SPECIFICATION Spec
CONSTANTS
    Seeds = {db}
    Boxes = {vm1, user}
    Worktree = vm1
    UserTree = user
    NoBox = NoBox
    NoFile = NoFile
    Remote = TRUE
    Configured <- Everything
    AlwaysRun = {"runner_deploy"}
    Commands = {"create", "provision"}
    AllowFrom = TRUE
    AllowNoCache = FALSE
    MaxLaunches = 3
    MaxFaults = 0
    MaxLosses = 0
    MaxTroubles = 0
    MaxPushes = 0
INVARIANTS
    RunningIsCurrent
CHECK_DEADLOCK FALSE
