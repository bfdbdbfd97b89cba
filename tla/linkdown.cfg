SPECIFICATION Safety
CONSTANTS
    Senders = {s1, s2}
    Msgs <- TrioMsgs
    NoMsg = NoMsg
    NPrio = 1
    Capacity = 1
    CoalesceMax = 2
    FrameMax = 2
    AllocMax = 2
    PrioOf <- TrioPrio
    CcOf <- TrioCc
    ExpressOf <- TrioExpress
    FragsOf <- TrioFrags
    Env = {"linkdown", "stop", "taskstop"}
SYMMETRY SenderSymmetry
INVARIANTS
    AcceptedNotLost
    WireInSequence
    BufferConservation
    StopLosesNothing
CHECK_DEADLOCK FALSE
