SPECIFICATION Spec
CONSTANTS
    NodeSize = 176
    SizeMod = 65536
    MaxChildrenValues = {2, 3}
    MaxAdds = 7
    BeginTimes = {0}
    CloseTimes = {3}
    Offers <- LongAndShort
INVARIANTS
    SearchFindsAll
    FileIsTree
\* The step that overruns the buffer has no defined outcome.
CHECK_DEADLOCK FALSE
