SPECIFICATION RunSpec
CONSTANTS
    None = None
    Responses <- MCResponses
    FactorAnswers = {None, 3}
    Windows = {"24h"}
    Requests <- MCRequests
    Inventories <- MCInventories
    Expected = {"a", "b"}
INVARIANTS
    OneWritePath
    StrongestDriverWins
    AllSelectedPoolsOrNone
    ReportAgreesOnRuleWork
CHECK_DEADLOCK FALSE
