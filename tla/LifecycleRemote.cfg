SPECIFICATION Spec
CONSTANTS
    Seeds = {db, cache}
    Boxes = {vm1, vm2, user}
    Worktree = vm1
    UserTree = user
    NoBox = NoBox
    NoFile = NoFile
    Remote = TRUE
    Configured <- Everything
    AlwaysRun = {"runner_deploy"}
    Commands = {"create", "provision", "destroy", "infra"}
    AllowFrom = TRUE
    AllowNoCache = FALSE
    MaxLaunches = 3
    MaxFaults = 1
    MaxLosses = 1
    MaxTroubles = 2
    MaxPushes = 1
INVARIANTS
    TypeOK
    SeedCheckpointCurrent
    PublishedManifestCurrent
    RunningIsFresh
    RunningFromFiles
    RunningIsComplete
PROPERTIES
    CompletedSeedsNotRerun
    RecordOutlivesCompute
CHECK_DEADLOCK FALSE
