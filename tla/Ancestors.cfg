SPECIFICATION Spec
CONSTANTS
    Proc = {p1, p2, p3}
    NodeSize = 2
    MaxAppends = 2
    Identity <- MCIdentity
SYMMETRY Symmetry
INVARIANTS
    TypeOK
    ChainsIntact
    AnswersRight
