SPECIFICATION Spec
CONSTANTS
    None = None
    DefinitionLists <- MCDefinitionLists
    LogLines <- MCLogLines
    JSONLines <- MCJSONLines
    MaxLines = 3
    Cutoffs = {None, 2}
    Answers <- MCAnswers
INVARIANTS
    NeverGuessed
    WorkCountedOnce
    EveryTenantReported
    UnmeasuredIsNotZero
    PagesAgree
CHECK_DEADLOCK FALSE
