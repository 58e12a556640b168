SPECIFICATION FairSpec
CONSTANTS
    NodeSize = 232
    SizeMod = 65536
    MaxChildrenValues = {2}
    MaxAdds = 3
    BeginTimes = {0}
    CloseTimes = {2}
    Offers <- Mixed3
    QueryTimes = {0, 1}
    Keys = {1}
    CustomKeys = {3}
    Garbage = {0, 2}
    CacheSize = 1
    CacheChoices = {"new"}
    NoNode = NoNode
INVARIANTS
    TypeOK
    RangeIsHistorys
    NodesAreThere
PROPERTIES
    FindAllIsRight
    FindOneIsRight
    StreamFollowsOpened
    QueryReturns
