SPECIFICATION Spec
CONSTANTS
    Jobs <- MCJobs
    Pairs <- MCPairs
    PairsOf <- MCPairsOf
    Concurrency = 2
    SeriesCounts = {7}
INVARIANTS
    TypeOK
    BoundedInFlight
    EveryPairPresent
    ChunkIsolation
PROPERTIES
    NoLateWrite
    Terminates
    ImplementsPromise
CHECK_DEADLOCK FALSE
