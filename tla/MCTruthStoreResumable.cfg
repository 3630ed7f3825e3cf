SPECIFICATION Spec
CONSTANTS
    None = None
    Tenants <- MCTenant
    StartAfter <- MCStartAfter
    StopAfter <- MCStopAfter
    WithRules = {"a"}
    Selections = {{"a"}}
    DiskFails = FALSE
    MaxClock = 3
    MaxLifetimes = 1
    MaxTickerSaves = 1
INVARIANTS
    FileIsResumable
CHECK_DEADLOCK FALSE
