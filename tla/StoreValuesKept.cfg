SPECIFICATION Spec
CONSTANTS
    Processes = {p1, p2}
    NoProcess = NoProcess
    NoRecord = NoRecord
    Steps = {create_compute, seed_db}
    CoreHooks = {reset_db}
    NoHook = NoHook
    SetKeys = {k1, k2}
    GlobalKeys = {g1}
    Setting = {create_compute}
    Printing = {reset_db}
    Failing = {seed_db, reset_db}
    Alone = TRUE
    MaxValue = 2
    MaxLaunches = 4
    MaxKills = 2
INVARIANTS
    TypeOK
    StoreKeeps
PROPERTIES
    CheckpointsKept
CHECK_DEADLOCK FALSE
