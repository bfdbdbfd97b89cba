SPECIFICATION Spec
CONSTANTS
    NPrio = 2
    Capacity = 2
    Modulus = 4
    Elems = {a, b}
    Marked = b
    NoElem = NoElem
    Kinds = {"mpsc", "spmc", "spsc"}
INVARIANTS
    TypeOK
    SlotsAreExclusive
    IndicesInStep
PROPERTIES
    ImplementsQueues
CHECK_DEADLOCK FALSE
CONSTRAINT OneMarked
