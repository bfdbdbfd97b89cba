SPECIFICATION Safety
CONSTANTS
    Senders = {s1, s2}
    Msgs <- LaneMsgs
    NoMsg = NoMsg
    NPrio = 1
    Capacity = 1
    CoalesceMax = 2
    FrameMax = 2
    AllocMax = 2
    PrioOf <- LanePrio
    CcOf <- LaneCc
    ExpressOf <- LaneExpress
    FragsOf <- LaneFrags
    Env = {"keepalive", "cancel", "linkdown"}
SYMMETRY SenderSymmetry
INVARIANTS
    TypeOK
    BufferConservation
    WaiterLeavesNoBatch
    RefillNotMissed
    FailedNotDelivered
    WireGapless
    FragmentsTogether
CHECK_DEADLOCK FALSE
