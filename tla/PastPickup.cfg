CONSTANTS
    None = None
    WindowDays = 3
    DayLength = 2
    van = van
    reefer = reefer
    v1 = v1
    v2 = v2
    f1 = f1
    Equipment = {van, reefer}
    Loads = {v1, v2, f1}
    Row <- MCRow
    ShardMax = 1
    Filters <- MCFilters
    Loop = Loop
    Gets = {g1}
    Horizon = 2

SPECIFICATION Spec

PROPERTIES
    PastPickup
