SPECIFICATION Spec
CONSTANTS
    NodeSize = 3
    ErrCap = 1
    Sizes = {0, 1, 2, 3, 4, 5}
    MaxErrs = 2
    MaxDirs = 4
INVARIANTS
    TypeOK
    HeldIsFrozen
PROPERTY
    ImplementsArena
