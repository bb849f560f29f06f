SPECIFICATION FairSpec
CONSTANTS
    Proc = {p1, p2, p3}
    NodeSize = 2
    Caps = {0, 1, 2, 3}
    MaxAppends = 1
INVARIANTS
    TypeOK
    Disjoint
    WasteBounded
PROPERTIES
    ImplementsArena
    AppendsReturn
