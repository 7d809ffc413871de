SPECIFICATION FairSpec
CONSTANTS
    File <- Ticks
    Last = 5
    Gop = 2
    AudioGap = 2
    Targets = {0, 3}
    LaneCap = 1
    SEEK_STALE_AHEAD = 1
    SEEK_STALE_BEHIND = 2
    MAX_REBASE_DROPS = 2
    STALE_BACKJUMP = 1
    AUDIO_STALE_AHEAD = 2
    PRIME = 1
    PRIME_AUDIO = 1
    PRIME_VIDEO_MAX = 2
    MAX_RETRIES = 1
    MaxSeeks = 2
INVARIANTS
    SeekSafe
    NewestTargetWins
    LandsNearTarget
PROPERTIES
    SeekSettles
CHECK_DEADLOCK FALSE
