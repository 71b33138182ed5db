SPECIFICATION HistoryFairSpec
CONSTANTS
    Servers = {dpi2, dpi3, oracle1}
    Agents = {tpi1}
    dpi2 = dpi2
    dpi3 = dpi3
    oracle1 = oracle1
    tpi1 = tpi1
    tpi3 = tpi3
    Order <- InventoryOrder
    Primary = dpi2
    MaxCrashes = 1
    StaleReady = TRUE
    MaxRuns = 2
    Retries = 2
    Preflight = TRUE
    ConfigMayFail = FALSE
INVARIANTS TypeOK QuorumUnlessMisled RestartKeepsQuorum
PROPERTIES RollsUnlessMisled RestartsServers RunAdvances RunEnds
CHECK_DEADLOCK FALSE
