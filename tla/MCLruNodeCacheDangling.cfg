SPECIFICATION Spec
CONSTANTS
    Seqs = {0, 1, 2}
    Versions = {1, 2}
    Sizes = {0, 1, 2}
    Iterators = {i1, i2, i3}
    NoNode = NoNode
INVARIANT
    GetReturnsNode
CHECK_DEADLOCK FALSE
