CONSTANTS
    i1 = i1
    i2 = i2
    Items = {i1}
    Writes = {"Watched", "Unwatched", "RemoveFromDeck"}
    None = None
    RETRY_FRAMES = 2
    MaxReq = 3
    MaxEpoch = 1
SPECIFICATION FairSpec
INVARIANT ViewStateSafe
INVARIANT NothingCrossesProfiles
PROPERTY NoPressIsLost
PROPERTY DrainsOneAtATime
