SPECIFICATION Spec
CONSTANTS
    NodeSize = 144
    SizeMod = 65536
    Offers <- LossyOffers
    NewStrings <- EmptyAndLong
    Children <- TwoChildren
    MaxChildren = 2
    CloseTimes = {0, 2}
    WordMod = 256
    LongMod = 65536
    LongBytes = 2
    KeyMod = 32
    FlagMod = 64
    Uninitialized = {200}
    Unregistered = {1}
    MaxIntervals = 3
INVARIANT
    ReadIsExact
