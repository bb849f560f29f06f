SPECIFICATION Spec
CONSTANTS
    Worker = {w1, w2}
    Dir <- MCDir
    Name <- MCName
    Raw <- MCRaw
    SkipSet = {"b"}
    Items <- MCItems
    BufRecords = 2
SYMMETRY Symmetry
INVARIANTS
    TypeOK
    DescriptorsBalance
PROPERTY
    ImplementsWalker
