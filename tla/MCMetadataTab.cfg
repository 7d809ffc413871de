CONSTANTS
    i1 = i1
    i2 = i2
    Items = {i1}
    Seasons = {0, 1, 2}
    None = None
    DetailCap = 1
    DetailInflight = 2
    Spawns = {TRUE}
    MaxGen = 1
    MaxSeasonGen = 4
    MaxEpoch = 0
SPECIFICATION Spec
PROPERTY FailedSeasonRestoresTheTab
CHECK_DEADLOCK FALSE
