SPECIFICATION Spec
CONSTANTS
    None = None
    Cases <- MCCases
INVARIANTS
    CostIsConserved
    NoFabricatedZero
    PartialPriceIsLowerBound
    FiguresAreDefensible
    ReplicationFactorCancels
    UnmeasuredNeverAFigure
    EverythingLeftOutIsNamed
CHECK_DEADLOCK FALSE
