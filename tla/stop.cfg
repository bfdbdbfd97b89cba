SPECIFICATION Spec
CONSTANTS
    Senders = {s1, s2}
    Msgs <- PairMsgs
    NoMsg = NoMsg
    NPrio = 2
    Capacity = 1
    CoalesceMax = 1
    FrameMax = 2
    AllocMax = 2
    PrioOf <- PairPrio
    CcOf <- PairCc
    ExpressOf <- PairExpress
    FragsOf <- PairFrags
    Env = {"stop"}
INVARIANTS
    StopLosesNothing
PROPERTIES
    SendReturns
    StopTerminates
CHECK_DEADLOCK FALSE
