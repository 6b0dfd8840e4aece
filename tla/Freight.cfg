CONSTANTS
    NoRate = NoRate
    MaxRounds = 2
    BufferPct = 3
    AutoAcceptPct = 2
    c1 = c1
    c2 = c2
    r1 = r1
    r2 = r2
    l1 = l1
    l2 = l2
    Calls = {c1}
    Requests = {r1}
    Loads = {l1, l2}
    MCs = {m1}
    Garbled = Garbled
    Filters = {f1, f2}
    Asks <- MCHighAsk
    PostedRate <- MCPostedRate
    MaxBuy <- MCMaxBuy
    MaxAttempts = 2
    MaxSearches = 1
    Overlap = FALSE
    Stranger = Stranger
    None = None

SPECIFICATION Spec

SYMMETRY FilterSymmetry

INVARIANTS
    LedgerHoldsSearches
    SearchesCounted

PROPERTIES
    BurnedIsFinal
    NegotiatedAtTheDesk
    LedgerEnforced
    BudgetRespected
