SPECIFICATION FairSpec
CONSTANTS
    Dir <- MCDir
    Name <- MCName
    Configs <- LinkTrees
    Worker = {w1, w2, w3}
    ResultBuffSize = 0
    MayBreak = FALSE
    SortsInPlace = TRUE
INVARIANTS
    TypeOK
    OneBatchPerDir
    ParentFirst
    Complete
    LinkHopsDistinct
PROPERTIES
    ImplementsTreeWalk
    Terminates
