SPECIFICATION Spec
CONSTANTS
    Servers = {dpi2, dpi3, oracle1}
    Agents = {tpi1, tpi3}
    dpi2 = dpi2
    dpi3 = dpi3
    oracle1 = oracle1
    tpi1 = tpi1
    tpi3 = tpi3
    Order <- InventoryOrder
    Primary = dpi2
    MaxCrashes = 0
    StaleReady = TRUE
    MaxRuns = 1
INVARIANTS TypeOK SuccessGivesBackend ServersFirst
PROPERTY MigratesServers
CHECK_DEADLOCK FALSE
