\* Producers that keep closing their sources while cycles commit and abort.
SPECIFICATION FairSpec
CONSTANTS
    p1 = p1
    p2 = p2
    s1 = s1
    s2 = s2
    k1 = k1
    k2 = k2
    Down = Down
    Process = {p1}
    Driver = {p1}
    Source = {s1}
    Key = {k1, k2}
    Span <- NearSpan
    Agenda <- Today
    TopInstant = 1
    TopOrdinal = 1
    MaxOrdinal = 5
    CascadeLimit = 3
PROPERTIES
    SourcesFinish
CHECK_DEADLOCK FALSE
