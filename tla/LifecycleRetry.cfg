SPECIFICATION CreateSpec
CONSTANTS
    Seeds = {db}
    Boxes = {vm1, vm2, user}
    Worktree = vm1
    UserTree = user
    NoBox = NoBox
    NoFile = NoFile
    Remote = TRUE
    Configured <- Everything
    AlwaysRun = {"runner_deploy"}
    Commands = {"provision", "refresh", "seed", "reset"}
    AllowFrom = TRUE
    AllowNoCache = TRUE
    MaxLaunches = 1
    MaxFaults = 1
    MaxLosses = 1
    MaxTroubles = 1
    MaxPushes = 0
PROPERTIES
    CreateSucceeds
CHECK_DEADLOCK FALSE
