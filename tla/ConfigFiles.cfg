SPECIFICATION Spec
CONSTANTS
    Names = {1, 2, 3, 4, 5}
    Keys = {"A", "B"}
    Outputs = {"URL", "KEY"}
    Store = {"KEY"}
    BlockStart = 6
    BlockSize = 4
    Files <- AllFiles
INVARIANTS
    TypeOK
    SortOrdered
    SortLeast
    SortDecides
    PortsDistinct
    ExhaustedOnlyWhenFull
    AcceptedRenders
CHECK_DEADLOCK FALSE
