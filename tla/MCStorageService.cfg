SPECIFICATION FairSpec
CONSTANTS
    LEDGER_CAPACITY = 2
    OLD_FIRMWARE = FALSE
    MaxOps = 2
    MaxFaults = 1
INVARIANTS
    StorageServiceSafe
PROPERTIES
    NoUpdateIsLost
    ProtectionIsKept
    KeepsItsPromise
    EverySaveEnds
CHECK_DEADLOCK FALSE
