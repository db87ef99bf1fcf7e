SPECIFICATION Spec
CONSTANTS
    t1 = t1
    t2 = t2
    p1 = p1
    p2 = p2
    Callers = {t1, t2}
    Processes = {p1, p2}
    ProcessOf <- TwoProcesses
    Envs = {pr1, pr2}
    Data = {v1, v2}
    Absent = Absent
    Inodes = {i1, i2, i3}
    NoInode = NoInode
    NoCaller = NoCaller
    Torn = Torn
    MaxCalls = 3
    MaxFaults = 0
INVARIANTS
    NeverTorn
CHECK_DEADLOCK FALSE
