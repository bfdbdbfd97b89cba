SPECIFICATION Safety
CONSTANTS
    Msgs <- PairMsgs
    NPrio = 2
    Capacity = 1
    PrioOf <- PairPrio
    CcOf <- PairCc
    FragsOf <- PairFrags
    FrameMax = 1
    FragMax = 1
    Env = {}
INVARIANTS
    NoneOvertaken
CHECK_DEADLOCK FALSE
