SPECIFICATION Safety
CONSTANTS
    Senders = {s1, s2}
    Msgs <- DuoMsgs
    NoMsg = NoMsg
    NPrio = 1
    Capacity = 2
    CoalesceMax = 2
    FrameMax = 2
    AllocMax = 3
    PrioOf <- DuoPrio
    CcOf <- DuoCc
    ExpressOf <- DuoExpress
    FragsOf <- DuoFrags
    Env = {}
SYMMETRY SenderSymmetry
INVARIANTS
    NoIdleBatch
CHECK_DEADLOCK FALSE
