\* Liveness of a fully seeded schedule under crashes.
SPECIFICATION FairSpec
CONSTANTS
    w1 = w1
    w2 = w2
    r1 = r1
    r2 = r2
    s1 = s1
    s2 = s2
    bell = bell
    term = term
    dawn = dawn
    beat = beat
    None = None
    Worker = {w1, w2}
    Round = {}
    Slot = {s1}
    Source = {bell, term, dawn}
    Genesis <- BellOnly
    Trigger = {dawn, beat}
    Definition <- DawnAndBeat
    Openings <- NoOpenings
    Start = 0
    Horizon = 2
    MaxAttempt = 1
    MaxDispatch = 1
    MaxOrdinal = 5
    CascadeLimit = 3
PROPERTIES
    WorkDrains
    FenceResolves
CHECK_DEADLOCK FALSE
