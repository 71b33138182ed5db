SPECIFICATION Spec
CONSTANTS
    Parts <- KnownParts
    MaxCommits = 2
    MaxPushCommits = 2
    MaxDispatches = 0
    Overlap = FALSE
    JobsMayFail = FALSE
INVARIANT EveryChangeDeployed
CHECK_DEADLOCK FALSE
