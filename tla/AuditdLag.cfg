CONSTANTS
    Actors = {a1}
    WindowSize = 2
    Grace = 1
    Capacity = 1
    ChannelCap = 1
    Operations = {"authorized"}
    MaxMessages = 2
    StartTime = 0
    LastOp = 1
    MaxTime = 5
    MaxLag = 1
    Faults = {}
SPECIFICATION Spec
INVARIANTS GraceAbsorbsLag
CHECK_DEADLOCK FALSE
