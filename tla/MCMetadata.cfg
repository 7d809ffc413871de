CONSTANTS
    i1 = i1
    i2 = i2
    Items = {i1, i2}
    Seasons = {0, 1}
    None = None
    DetailCap = 1
    DetailInflight = 2
    Spawns = {TRUE, FALSE}
    MaxGen = 4
    MaxSeasonGen = 4
    MaxEpoch = 1
SPECIFICATION FairSpec
INVARIANT MetadataSafe
INVARIANT NothingReopens
INVARIANT EpisodesBelongToThePage
PROPERTY RejectedOnlyWhenWorkersHang
PROPERTY SpinnersStop
CHECK_DEADLOCK FALSE
