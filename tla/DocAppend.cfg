SPECIFICATION AppendingSpec
CONSTANTS
    NodeSize = 3
    ErrCap = 1
    Sizes = {1, 2}
    MaxErrs = 1
    MaxDirs = 3
PROPERTY
    HeldUnchanged
