\* A trigger that repeats, and the audit of the journal it leaves.
SPECIFICATION Spec
CONSTANTS
    w1 = w1
    w2 = w2
    r1 = r1
    r2 = r2
    s1 = s1
    s2 = s2
    bell = bell
    term = term
    dawn = dawn
    beat = beat
    None = None
    Worker = {w1}
    Round = {}
    Slot = {s1}
    Source = {bell, term, dawn}
    Genesis <- BellAndLateTerm
    Trigger = {dawn, beat}
    Definition <- DawnAndLateBeat
    Openings <- NoOpenings
    Start = 0
    Horizon = 4
    MaxAttempt = 1
    MaxDispatch = 1
    MaxOrdinal = 5
    CascadeLimit = 2
INVARIANT RepeatsReplay
CHECK_DEADLOCK FALSE
