CONSTANTS
    FileLen = 9
    Files <- Interleavings
    VideoCap = 1
    AudioCap = 1
    VideoPipe = 4
    AudioPipe = 4
    BaseCap <- Caps
    PipeCap <- Pipes
    Headroom = 1
    PRIME = 2
    PRIME_AUDIO = 1
    PRIME_VIDEO_MAX = 3
    MAX_FEED_AHEAD = 1
    AUDIO_SLACK = 1
    STALE_BACKJUMP = 1
    AUDIO_STALE_AHEAD = 3
    Starts = {"play", "load", "in_place"}
SPECIFICATION FairSpec
INVARIANT AuQueueSafe
INVARIANT LostOnlyWhenStale
PROPERTY JoinReturns
PROPERTY DemuxFinishes
CHECK_DEADLOCK FALSE
