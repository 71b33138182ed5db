SPECIFICATION BootSpec
CONSTANTS
    Servers = {dpi2, dpi3}
    Agents = {tpi1}
    dpi2 = dpi2
    dpi3 = dpi3
    tpi1 = tpi1
    tpi3 = tpi3
    Order <- InventoryOrder
    Groups <- InventoryGroups
    Primary = dpi2
    MaxCrashes = 1
    StaleReady = TRUE
    MaxRuns = 2
    Retries = 1
    Preflight = FALSE
    ConfigMayFail = TRUE
    MaxPlaybooks = 2
INVARIANTS BootTypeOK SuccessLoads ServersInTurn SuccessRollsConfig SuccessUncordons
CHECK_DEADLOCK FALSE
