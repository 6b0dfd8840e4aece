CONSTANTS
    NoRate = NoRate
    MaxRounds = 3
    BufferPct = 3
    AutoAcceptPct = 2
    MinProtected = 100
    PostedRates <- MCPostedRates
    Ceilings <- MCCeilings
    Asks <- MCAsks

SPECIFICATION GuardedSpec

INVARIANTS
    TypeOK
    CountersStayBelow
    CountersNeverRetreat
    RoundCap
    AgreedIsCovered
    NoEarlyGiveaway
    BreachesCounted
    IInv
    CeilingNeverNamed

PROPERTIES
    ClosedIsFinal
    EveryMoveCosts
    MovesAreHeard
