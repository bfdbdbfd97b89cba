SPECIFICATION Spec
CONSTANTS
    Senders = {s1, s2}
    Msgs <- DuoMsgs
    NoMsg = NoMsg
    NPrio = 1
    Capacity = 1
    CoalesceMax = 2
    FrameMax = 2
    AllocMax = 2
    PrioOf <- DuoPrio
    CcOf <- DuoCc
    ExpressOf <- DuoExpress
    FragsOf <- DuoFrags
    Env = {"keepalive"}
PROPERTIES
    BlockDelivered
CHECK_DEADLOCK FALSE
