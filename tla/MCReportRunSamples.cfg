SPECIFICATION Spec
CONSTANTS
    None = None
    DefinitionLists <- MCDefinitionLists
    LogLines <- MCLogLines
    JSONLines <- MCJSONLines
    MaxLines = 3
    Cutoffs = {None, 2}
    Answers <- MCAnswers
INVARIANTS
    UnmatchedSamplesMeasured
CHECK_DEADLOCK FALSE
