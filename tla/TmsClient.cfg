CONSTANTS
    l1 = l1
    Reads = {r1}
    Books = {b1, b2}
    Loads = {l1}
    LoadOf <- MCLoadOf
    MaxRetries = 2
    Stranger = Stranger
    None = None

SPECIFICATION FairSpec

INVARIANTS
    TypeOK
    CountersAddUp

PROPERTIES
    KeepsItsPromise
    EveryRequestEnds

CHECK_DEADLOCK FALSE
