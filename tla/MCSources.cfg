\* Two processes with views of their own, one source, one pending occurrence of system work.
SPECIFICATION Spec
CONSTANTS
    p1 = p1
    p2 = p2
    s1 = s1
    s2 = s2
    k1 = k1
    k2 = k2
    Down = Down
    Process = {p1, p2}
    Driver = {p1}
    Source = {s1}
    Key = {k1, k2}
    Span <- FarSpan
    Agenda <- OneDay
    TopInstant = 1
    TopOrdinal = 1
    MaxOrdinal = 5
    CascadeLimit = 3
SYMMETRY Symmetry
INVARIANTS
    TypeOK
    Reopenable
    SealedCutStands
    NoInputPassedOver
    LateInputFits
PROPERTIES
    ImplementsContract
