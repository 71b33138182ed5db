SPECIFICATION Spec
CONSTANTS
    Hook = hook
    RotateJobs = {}
    BackoffLimit = 2
    MaxSyncs = 3
    MaxKvDeletes = 0
    ReadMayFail = TRUE
    ListMayFail = TRUE
INVARIANT SyncKeepsStoredToken
CHECK_DEADLOCK FALSE
