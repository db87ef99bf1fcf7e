SPECIFICATION Spec
CONSTANTS
    web = web
    api = api
    admin = admin
    Services = {web, api, admin}
    NoService = NoService
    Autostart = {web}
    EnvReads = {web}
    StartReads = {admin}
    PathOf <- Together
    MaxCommands = 4
    MaxResets = 2
    MaxFaults = 2
INVARIANTS
    TypeOK
    Settled
    ProxyMatches
    SyncObserved
    ResetObserved
PROPERTIES
    NothingBooted
CHECK_DEADLOCK FALSE
