SPECIFICATION Spec
CONSTANTS
    Dir <- MCDir
    Name <- MCName
    Configs <- PlainTrees
    Worker = {w1, w2}
    ResultBuffSize = 1
    MayBreak = FALSE
    SortsInPlace = TRUE
INVARIANT
    Complete
