CONSTANTS
    NoRate = NoRate
    MaxRounds = 3
    BufferPct = 3
    AutoAcceptPct = 2
    MinProtected = 100
    PostedRates <- MCPostedRates
    Ceilings <- MCCeilings
    Asks <- MCAsks

SPECIFICATION GuardedSpec

INVARIANT AgreedWithinCeiling
