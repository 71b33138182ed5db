SPECIFICATION GiteaSpec
CONSTANTS
    Parts <- TwoParts
    MaxCommits = 2
    MaxPushCommits = 2
    MaxDispatches = 1
    Overlap = TRUE
    JobsMayFail = TRUE
    MaxLosses = 1
INVARIANTS TypeOK GiteaTypeOK LostChangeExplained DispatchRepairs StoredTokenAccepted SuccessSettles
CHECK_DEADLOCK FALSE
