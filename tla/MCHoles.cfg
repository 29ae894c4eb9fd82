\* A selected cycle that is reached over idle ordinals.
SPECIFICATION Spec
CONSTANTS
    w1 = w1
    w2 = w2
    r1 = r1
    r2 = r2
    s1 = s1
    s2 = s2
    bell = bell
    term = term
    dawn = dawn
    beat = beat
    None = None
    Worker = {w1}
    Round = {r1}
    Slot = {s1}
    Source = {bell, term, dawn}
    Genesis <- TermOnly
    Trigger = {}
    Definition <- NoDefinition
    Openings <- FewOpenings
    Start = 0
    Horizon = 2
    MaxAttempt = 1
    MaxDispatch = 1
    MaxOrdinal = 5
    CascadeLimit = 2
INVARIANTS
    HolesAreJumped

CHECK_DEADLOCK FALSE
