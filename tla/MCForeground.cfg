CONSTANTS
    MaxPos = 2
    Rewind = 1
    MaxAttempt = 2
    MaxAction = 4

SPECIFICATION FgFairSpec

INVARIANTS
    ForegroundSafe
    OneNativeObject
    FailureIsItsOwn

PROPERTIES
    PlayIntentSurvives
    LoadSettles
