SPECIFICATION Spec
CONSTANTS
    PodList <- MCPodList
    MaxStops = 1
    MaxLosses = 1
    MaxStores = 2
    MaxSetups = 2
    MaxUnseals = 1
INVARIANTS TypeOK OneStore KeyKept SetupOpens UnsealRestores
CHECK_DEADLOCK FALSE
