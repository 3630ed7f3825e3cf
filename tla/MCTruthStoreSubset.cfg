SPECIFICATION Spec
CONSTANTS
    None = None
    Tenants <- MCTenants
    StartAfter <- MCAtOnce
    StopAfter <- MCAtOnce
    WithRules = {}
    Selections <- MCSubsets
    DiskFails = FALSE
    MaxClock = 1
    MaxLifetimes = 2
    MaxTickerSaves = 0
PROPERTIES
    EarlierLivesKept
CHECK_DEADLOCK FALSE
