\* Two actors, three rounds, letters that arrive or are dropped, one dispatch revoked per slot.
SPECIFICATION FairSpec
CONSTANTS
    ana = ana
    ben = ben
    r1 = r1
    r2 = r2
    r3 = r3
    None = None
    Actor = {ana, ben}
    Round = {r1, r2, r3}
    Owner <- Owners
    Openings <- ThreeOpenings
    Letters <- TwoLetters
    Start = 0
    Horizon = 2
    MaxDispatch = 2
    MaxOrdinal = 5
    CascadeLimit = 3
INVARIANTS
    TypeOK
    InboxExact
    MessagesSettledOnce
    EvidenceAttested
PROPERTIES
    MessagesSettle
CHECK_DEADLOCK FALSE
