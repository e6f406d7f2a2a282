CONSTANTS
    Actors = {a1}
    WindowSize = 2
    Grace = 1
    Capacity = 1
    ChannelCap = 1
    Operations = {"authorized", "unstamped", "unreadable", "elsewhere"}
    MaxMessages = 3
    StartTime = 1
    LastOp = 1
    MaxTime = 3
    MaxLag = 3
    Faults = {"loss", "dead channel", "report", "signal"}
SPECIFICATION FairSpec
INVARIANTS TypeOK GraceIsKept EveryEventIsAnswered
PROPERTIES WindowsGetReported EveryEventIsRead
CHECK_DEADLOCK FALSE
