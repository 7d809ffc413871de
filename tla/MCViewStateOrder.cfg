CONSTANTS
    i1 = i1
    i2 = i2
    Items = {i1, i2}
    Writes = {"Watched", "Unwatched"}
    None = None
    RETRY_FRAMES = 2
    MaxReq = 4
    MaxEpoch = 0
SPECIFICATION Spec
PROPERTY WritesLandInPressOrder
