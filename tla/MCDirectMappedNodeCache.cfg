SPECIFICATION Spec
CONSTANTS
    Seqs = {0, 1, 2}
    Versions = {1, 2}
    Sizes = {0, 1, 2, 3}
    WordBits = 6
    NoNode = NoNode
INVARIANTS
    TypeOK
    EntryHoldsLastGot
PROPERTIES
    ImplementsNodeCache
\* A getNode with no entry has no defined outcome.
CHECK_DEADLOCK FALSE
