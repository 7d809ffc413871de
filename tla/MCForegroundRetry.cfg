CONSTANTS
    MaxPos = 2
    Rewind = 1
    MaxAttempt = 2
    MaxAction = 4

SPECIFICATION FgSpec

PROPERTIES
    FailureRetainsTheResume
