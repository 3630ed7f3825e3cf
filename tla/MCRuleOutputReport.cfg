SPECIFICATION Spec
CONSTANTS
    None = None
    Sources <- MCSources
    Names <- MCNames
    RegexLen <- MCRegexLen
    SeriesCounts = {0, 2}
    NamesCaps = {0, 2}
    BytesCaps = {0, 1, 7}
    DefaultNames = 3
    DefaultBytes = 10
    Denominators <- MCDenominators
INVARIANTS
    ChunksRespectCaps
    EveryMetricAskedOnce
    TotalIsLowerBound
    RowsTellTheTruth
    EveryDefinitionReported
CHECK_DEADLOCK FALSE
