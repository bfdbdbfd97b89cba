SPECIFICATION Spec
CONSTANTS
    Msgs <- MixMsgs
    NPrio = 2
    Capacity = 1
    PrioOf <- MixPrio
    CcOf <- MixCc
    FragsOf <- MixFrags
    FrameMax = 2
    FragMax = 3
    Env = {"loss", "taskstop", "stop", "cancel"}
INVARIANTS
    TypeOK
    WholeMessages
    InLaneOrder
    ReliableKept
    ArrivalNotMissed
    SpaceNotMissed
PROPERTIES
    PushReturns
    StopEnds
    BlockReceived
CHECK_DEADLOCK FALSE
