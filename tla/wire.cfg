SPECIFICATION Spec
CONSTANTS
    Half = 4
    Group = 4
    VleMax = 3
    BatchSizes = {4, 7, 8, 10}
    LenMax = 10
    FragMax = 10
    Starts = {0, 6}
    Plans <- SmallPlans
    Qos <- TwoQos
    Quotas <- SomeQuotas
    Counts = {1, 3}
    WireMax = 8
INVARIANTS
    TypeOK
    DeliveredAsSent
    BatchFits
    EverythingDecodes
    DecodersAgree
PROPERTIES
    InSequence
    ReadsFlat
    SendEnds
CHECK_DEADLOCK FALSE
