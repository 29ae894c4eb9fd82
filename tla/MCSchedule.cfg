\* Two workers, a schedule that is still being seeded, two triggers, a round, aborts, retries and the cascade limit.
SPECIFICATION Spec
CONSTANTS
    w1 = w1
    w2 = w2
    r1 = r1
    r2 = r2
    s1 = s1
    s2 = s2
    bell = bell
    term = term
    dawn = dawn
    beat = beat
    None = None
    Worker = {w1, w2}
    Round = {r1}
    Slot = {s1}
    Source = {bell, term, dawn}
    Genesis <- BellAndLateTerm
    Trigger = {dawn, beat}
    Definition <- DawnAndLateBeat
    Openings <- DawnOpenings
    Start = 0
    Horizon = 4
    MaxAttempt = 1
    MaxDispatch = 1
    MaxOrdinal = 5
    CascadeLimit = 2
INVARIANTS
    TypeOK
    NothingStale
    SettledOnTime
    TriggersCurrent
    BeatsOnTime
    RecurrenceKept
    SettledOnce
    AttemptsFollow
    JournalReplays
PROPERTIES
    HaltHolds
CHECK_DEADLOCK FALSE
