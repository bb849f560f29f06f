SPECIFICATION Spec
CONSTANTS
    NodeSize = 6
    Texts <- MCTexts
    Parents <- MCParents
    MaxStores = 4
INVARIANTS
    TypeOK
    Terminated
PROPERTY
    ImplementsArena
