\* One process, or two with views of their own, on the file of a round.
SPECIFICATION Spec
CONSTANTS
    p1 = p1
    p2 = p2
    s1 = s1
    s2 = s2
    act = act
    wait = wait
    late = late
    other = other
    Down = Down
    Process = {p1, p2}
    Crews <- OneOrTwo
    Slot = {s1}
    Answer = {act, wait}
    Reason = {late, other}
    RoundCycle = 1
    LastCycle = 2
    LastRetry = 1
SYMMETRY Symmetry
INVARIANTS
    ChainHolds
    AnswersAgree
    ReopenedAsLeft
PROPERTIES
    ImplementsSlots
CHECK_DEADLOCK FALSE
