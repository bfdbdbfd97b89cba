SPECIFICATION Spec
CONSTANTS
    Notifiers = {n1, n2, n3}
INVARIANTS
    TypeOK
    NoLostWakeup
PROPERTIES
    ImplementsSignal
CHECK_DEADLOCK FALSE
