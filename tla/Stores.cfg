SPECIFICATION StoreSpec
CONSTANTS
    t1 = t1
    t2 = t2
    t3 = t3
    p1 = p1
    p2 = p2
    pj1 = pj1
    pj2 = pj2
    Callers = {t1, t2}
    Processes = {p1}
    ProcessOf <- OneProcess
    Envs = {pr1, pr2}
    Data = {v1, v2}
    Absent = Absent
    Inodes = {i1, i2, i3}
    NoInode = NoInode
    NoCaller = NoCaller
    Torn = Torn
    MaxCalls = 3
    MaxFaults = 2
    Clients = {t1, t2, t3}
    ClientProject <- ClientProjects
    Projects = {pj1, pj2}
    Project = pj1
    Names = {pr1, pr2}
    Records = {v1, v2}
    NoRecord = Absent
    MaxStatements = 3
    MaxBroken = 1
INVARIANTS
    TypeOK
PROPERTIES
    ImplementsPort
    TableImplementsPort
CHECK_DEADLOCK FALSE
