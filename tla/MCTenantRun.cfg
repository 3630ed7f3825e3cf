SPECIFICATION TenantSpec
CONSTANTS
    Profile <- MCProfile
    BatchSize = 3
    Groups <- MCGroups
    Stale <- MCStale
    Batches <- MCBatches
    SizeOf <- MCSizeOf
    InFlight = 2
    Attempts = 2
    MaxTicks = 2
    MaxLate = 1
INVARIANTS
    TenantTypeOK
    RulesBeforeSamples
    NoStaleGroups
    EverySampleCountedOnce
    SentIsStored
    RulesWriteWhatIsRecorded
PROPERTIES
    StopsWhenTold
    TicksEnd
CHECK_DEADLOCK FALSE
