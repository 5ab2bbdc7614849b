\* Three slots and counters that wrap at four: the wrap falls at every position
\* of the ring.
CONSTANTS
    Capacity = 3
    Modulus = 4
    Value = {a, b}
    Torn = Torn
    NoValue = NoValue
SPECIFICATION Spec
INVARIANTS
    TypeOK
    NoSlotOverlap
    PopAfterFrontSucceeds
PROPERTIES
    ImplementsFifo
