SPECIFICATION FairSpec
CONSTANTS
    Hook = hook
    RotateJobs = {rotate}
    BackoffLimit = 1
    MaxSyncs = 2
    MaxKvDeletes = 1
    ReadMayFail = TRUE
    ListMayFail = TRUE
INVARIANTS TypeOK DeadTokenExplained OneLiveToken
PROPERTIES JobAdvances JobEnds
CHECK_DEADLOCK FALSE
