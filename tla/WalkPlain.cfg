SPECIFICATION FairSpec
CONSTANTS
    Dir <- MCDir
    Name <- MCName
    Configs <- PlainTrees
    Worker = {w1, w2, w3}
    ResultBuffSize = 1
    MayBreak = TRUE
    SortsInPlace = FALSE
INVARIANTS
    TypeOK
    OneBatchPerDir
    ParentFirst
    Complete
PROPERTIES
    ImplementsTreeWalk
    Terminates
    BreakComesToRest
