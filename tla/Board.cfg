CONSTANTS
    None = None
    WindowDays = 3
    DayLength = 1
    van = van
    reefer = reefer
    v1 = v1
    v2 = v2
    f1 = f1
    Equipment = {van, reefer}
    Loads = {v1, v2, f1}
    Row <- MCRow
    ShardMax = 1
    Filters <- MCFilters
    Loop = Loop
    Gets = {g1}
    Horizon = 1

SPECIFICATION FairSpec

INVARIANTS
    TypeOK
    NearestFirst
    HonestDeadEnd

PROPERTIES
    SnapshotNeverGoesBack
    EveryRefreshEnds
