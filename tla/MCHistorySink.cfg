SPECIFICATION FairSpec
CONSTANTS
    NodeSize = 160
    SizeMod = 65536
    MaxChildrenValues = {0, 1, 2}
    MaxAdds = 5
    BeginTimes = {0, 1}
    CloseTimes = {0, 3}
    Offers <- AllRanges2
INVARIANTS
    TypeOK
    NodesAccounted
    BranchIsPath
    FreshNodeAccepts
    BufferHoldsNode
    SearchFindsAll
    NodesOrdered
    NodesCanBeClosed
PROPERTIES
    WrittenIsFinal
    ImplementsHistory
    AddedIsStored
