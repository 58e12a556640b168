SPECIFICATION Spec
CONSTANTS
    NodeSize = 232
    SizeMod = 65536
    MaxChildrenValues = {2}
    MaxAdds = 3
    BeginTimes = {0}
    CloseTimes = {3}
    Offers <- Mixed3
    QueryTimes = {0, 1, 2}
    Keys = {1, 2}
    CustomKeys = {3}
    Garbage = {0, 2}
    CacheSize = 1
    CacheChoices = {"new", "same"}
    NoNode = NoNode
PROPERTY
    FindAllIsRight
