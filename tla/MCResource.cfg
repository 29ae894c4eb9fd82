\* Two workers, a cohort of three claims or of two and a source, two attempts.
SPECIFICATION FairSpec
CONSTANTS
    ana = ana
    ben = ben
    r1 = r1
    r2 = r2
    r3 = r3
    s1 = s1
    Declined = Declined
    None = None
    Worker = {1, 2}
    Round = {r1, r2, r3}
    Source = {s1}
    Owner <- Owners
    Order <- Identities
    Offers <- Claims
    Agendas <- TwoAgendas
    Stocks = {0, 1, 2}
    Seeds <- TwoSeeds
    MaxInt = 3
    MaxAttempt = 1
INVARIANTS
    TypeOK
    StockAccounted
    DecidedOnce
    VerdictsAgree
PROPERTIES
    ContestsEnd
CHECK_DEADLOCK FALSE
