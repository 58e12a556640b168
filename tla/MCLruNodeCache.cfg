SPECIFICATION Spec
CONSTANTS
    Seqs = {0, 1, 2}
    Versions = {1, 2}
    Sizes = {0, 1, 2}
    Iterators = {i1, i2, i3}
    NoNode = NoNode
INVARIANTS
    TypeOK
    MapMatchesList
    LastUsedKept
    GetReturnsNodeIfReused
PROPERTIES
    ImplementsNodeCache
\* A getNode through a dangling iterator has no defined outcome.
CHECK_DEADLOCK FALSE
