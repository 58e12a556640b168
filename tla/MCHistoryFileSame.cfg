SPECIFICATION Spec
CONSTANTS
    NodeSize = 296
    SizeMod = 65536
    MaxChildrenValues = {4}
    MaxAdds = 6
    BeginTimes = {0}
    CloseTimes = {}
    Offers <- Short1
    QueryTimes = {0}
    Keys = {1}
    CustomKeys = {}
    Garbage = {0}
    CacheSize = 1
    CacheChoices = {"new", "same"}
    NoNode = NoNode
PROPERTIES
    FoundIntersects
\* Bytes that have not been read have no defined outcome.
CHECK_DEADLOCK FALSE
