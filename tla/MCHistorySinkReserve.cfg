SPECIFICATION Spec
CONSTANTS
    NodeSize = 176
    SizeMod = 65536
    MaxChildrenValues = {3}
    MaxAdds = 8
    BeginTimes = {0}
    CloseTimes = {3}
    Offers <- LongAndShort
INVARIANTS
    BufferHoldsNode
