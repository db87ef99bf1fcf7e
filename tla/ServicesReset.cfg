SPECIFICATION Spec
CONSTANTS
    web = web
    api = api
    admin = admin
    Services = {web, api, admin}
    NoService = NoService
    Autostart = {web}
    EnvReads = {web}
    StartReads = {}
    PathOf <- Together
    MaxCommands = 4
    MaxResets = 2
    MaxFaults = 2
INVARIANTS
    ResetObserved
CHECK_DEADLOCK FALSE
