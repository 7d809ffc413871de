CONSTANTS
    CAPACITY = 2
    MaxJobs = 4
    MaxPanics = 2
SPECIFICATION FairSpec
INVARIANT StorageWorkerSafe
INVARIANT AppliedInOrder
PROPERTY EditsAreSettled
CHECK_DEADLOCK FALSE
