SPECIFICATION Spec
CONSTANTS
    Dir <- MCDir
    Name <- MCName
    Configs <- RootAppears
    Worker = {w1, w2}
    ResultBuffSize = 1
    MayBreak = FALSE
    SortsInPlace = FALSE
INVARIANT
    NilChainIsExpected
