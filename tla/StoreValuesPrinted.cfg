SPECIFICATION Spec
CONSTANTS
    Processes = {p1, p2}
    NoProcess = NoProcess
    NoRecord = NoRecord
    Steps = {create_compute, seed_db}
    CoreHooks = {reset_db}
    NoHook = NoHook
    SetKeys = {k1}
    GlobalKeys = {g1, g2}
    Setting = {}
    Printing = {create_compute, seed_db}
    Failing = {}
    Alone = TRUE
    MaxValue = 1
    MaxLaunches = 1
    MaxKills = 0
INVARIANTS
    StoreKeeps
CHECK_DEADLOCK FALSE
