----------------------------- MODULE HistorySink -----------------------------
(***************************************************************************)
(* A history file opened for output (class HistoryFileSink): the history's *)
(* attributes, the nodes of the latest branch, which are still in memory,  *)
(* and the nodes and the header already written to the file.               *)
(*                                                                         *)
(* open and close are one step each. addInterval is a call with several    *)
(* steps: tryAddIntervalToNode and addSiblingNode call each other, always  *)
(* in tail position, so (pc, intr, index) is the whole call stack: pc says *)
(* which of the two runs, intr and index are its arguments. Positions in   *)
(* the latest branch are counted from 1, the root, where the code counts   *)
(* from 0.                                                                 *)
(***************************************************************************)
EXTENDS Node

CONSTANTS Offers,       \* the intervals the program may add: [key, begin, end, size]
          BeginTimes,   \* the begin timestamps given to open
          MaxChildrenValues,    \* the maximum numbers of children given to open
          CloseTimes,   \* the end timestamps given to close
          MaxAdds       \* bound of the model: accepted calls of addInterval

Timestamp == Int

ASSUME NodeSizeAssumption == NodeSize \in Nat

ASSUME SizeModAssumption == SizeMod \in Nat \ {0}

ASSUME MaxChildrenAssumption == MaxChildrenValues \subseteq Nat

ASSUME MaxAddsAssumption == MaxAdds \in Nat

ASSUME TimesAssumption == BeginTimes \subseteq Int /\ CloseTimes \subseteq Int

\* AbstractInterval's constructor refuses an interval with begin > end.
ASSUME OffersAssumption ==
    /\ Offers \subseteq [key : Nat, begin : Int, end : Int, size : Nat]
    /\ \A offer \in Offers : offer.begin <= offer.end

VARIABLES
    streamOpen,     \* the output stream has a file
    opened,         \* isOpened()
    begin,          \* getBegin()
    end,            \* getEnd()
    maxChildren,    \* getMaxChildren()
    nodeCount,      \* getNodeCount()
    root,           \* getRootNodeSeqNumber()
    latestBranch,   \* the latest branch, from the root to the current leaf
    file,           \* the nodes in the file, by sequence number
    header,         \* the header in the file, or NoHeader
    pc,             \* "idle", or the function addInterval is in
    intr,           \* the interval of the current call, or NoInterval
    index,          \* the position in the latest branch of the current call
    adds,           \* accepted calls of addInterval so far
    outcome         \* how the last call ended: "ok" or the exception thrown

call == <<pc, intr, index>>
attributes == <<begin, end, maxChildren, nodeCount, root>>
disk == <<file, header>>
vars == <<streamOpen, opened, attributes, latestBranch, disk, call, adds, outcome>>

\* The identity of a shared pointer: the number of the call that brought it.
Submit(offer, serial) ==
    [serial |-> serial, key |-> offer.key, begin |-> offer.begin,
     end |-> offer.end, size |-> offer.size]

NoInterval == [serial |-> 0, key |-> 0, begin |-> 0, end |-> 0, size |-> 0]

\* A file whose header has not been written has no magic number.
NoHeader == [nodeCount |-> 0, root |-> RootParent]

Init ==
    /\ streamOpen = FALSE
    /\ opened = FALSE
    /\ begin = 0 /\ end = 0 /\ maxChildren = 0 /\ nodeCount = 0 /\ root = 0
    /\ latestBranch = <<>>
    /\ file = <<>> /\ header = NoHeader
    /\ pc = "idle" /\ intr = NoInterval /\ index = 0
    /\ adds = 0
    /\ outcome = "ok"

(***************************************************************************)
(* Committing nodes of the latest branch.                                  *)
(***************************************************************************)
SeqsDownFrom(branch, i) == {branch[k].seq : k \in i..Len(branch)}

CommittedNode(branch, i, seq) ==
    LET k == CHOOSE k \in i..Len(branch) : branch[k].seq = seq
    IN  Serialize(CloseNode(branch[k], end))

\* Mutant of CommitNodesDownFromIndex: only the node at position i.
CommitNodeAtIndex(branch, i) ==
    [seq \in DOMAIN file \cup {branch[i].seq} |->
        IF seq = branch[i].seq THEN CommittedNode(branch, i, seq) ELSE file[seq]]

\* The file once the nodes of the branch are committed from position i down.
CommitNodesDownFromIndex(branch, i) ==
    [seq \in DOMAIN file \cup SeqsDownFrom(branch, i) |->
        IF seq \in SeqsDownFrom(branch, i)
        THEN CommittedNode(branch, i, seq)
        ELSE file[seq]]

\* Every one of these nodes fits in the buffer it is serialized to.
BufferFits(branch, i) == \A k \in i..Len(branch) : FitsBuffer(branch[k])

(***************************************************************************)
(* Drawing the branch from the node at position parentIndex, which gets a  *)
(* child, down to a new leaf at position height. The new nodes begin at    *)
(* the end of the history, and their sequence numbers start from firstSeq. *)
(***************************************************************************)

\* Mutant of DrawnNode: every node has the topmost one's parent.
DrawnNodeUnderTop(parentSeq, firstSeq, count, k) ==
    LET seq == firstSeq + k - 1
    IN  IF k = count
        THEN NewNode(seq, parentSeq, end, 0)
        ELSE AddChild(NewNode(seq, parentSeq, end, maxChildren), end, seq + 1)

\* The k-th of count nodes: the last one is a leaf, each other has the next
\* one as its child.
DrawnNode(parentSeq, firstSeq, count, k) ==
    LET seq == firstSeq + k - 1
        parent == IF k = 1 THEN parentSeq ELSE seq - 1
    IN  IF k = count
        THEN NewNode(seq, parent, end, 0)
        ELSE AddChild(NewNode(seq, parent, end, maxChildren), end, seq + 1)

DrawBranchFromIndex(branch, parentIndex, height, firstSeq) ==
    [k \in 1..height |->
        IF k > parentIndex
        THEN DrawnNode(branch[parentIndex].seq, firstSeq, height - parentIndex,
                       k - parentIndex)
        ELSE IF k = parentIndex THEN AddChild(branch[k], end, firstSeq)
                                ELSE branch[k]]

(***************************************************************************)
(* open.                                                                   *)
(***************************************************************************)
Truncated == file' = <<>> /\ header' = NoHeader

Open(ts) ==
    /\ pc = "idle" /\ ~opened /\ ~streamOpen
    /\ streamOpen' = TRUE
    /\ Truncated
    /\ begin' = ts /\ end' = ts
    /\ maxChildren' \in MaxChildrenValues
    /\ latestBranch' = <<NewNode(0, RootParent, ts, 0)>>
    /\ nodeCount' = 1 /\ root' = 0
    /\ opened' = TRUE
    /\ outcome' = "ok"
    /\ UNCHANGED <<call, adds>>

\* The stream is left open, with an empty file.
OpenUnknownSerDes ==
    /\ pc = "idle" /\ ~opened /\ ~streamOpen
    /\ streamOpen' = TRUE
    /\ Truncated
    /\ outcome' = "UnknownNodeSerDesType"
    /\ UNCHANGED <<opened, attributes, latestBranch, call, adds>>

\* The sink is opened, its stream already has a file, or the path is bad.
OpenFails ==
    /\ pc = "idle"
    /\ outcome' = "IO"
    /\ UNCHANGED <<streamOpen, opened, attributes, latestBranch, disk, call, adds>>

(***************************************************************************)
(* close.                                                                  *)
(***************************************************************************)

\* Mutant of ClosingEnd: the history ends where the caller says.
ClosingEndAsGiven(ts) == ts

\* An end before the current one is ignored silently.
ClosingEnd(ts) == IF ts > end THEN ts ELSE end

Close(ts) ==
    /\ pc = "idle" /\ opened
    /\ BufferFits(latestBranch, 1)
    /\ end' = ClosingEnd(ts)
    /\ latestBranch' = [k \in 1..Len(latestBranch) |-> CloseNode(latestBranch[k], end')]
    /\ file' = CommitNodesDownFromIndex(latestBranch', 1)
    /\ header' = [nodeCount |-> nodeCount, root |-> root]
    /\ streamOpen' = FALSE
    /\ opened' = FALSE
    /\ outcome' = "ok"
    /\ UNCHANGED <<begin, maxChildren, nodeCount, root, call, adds>>

(***************************************************************************)
(* addInterval.                                                            *)
(***************************************************************************)

\* Mutants of InRange: one of the two bounds is not tested.
InRangeByEnd(offer) == offer.end >= end
InRangeByBegin(offer) == offer.begin >= begin

InRange(offer) == offer.begin >= begin /\ offer.end >= end

AddInterval(offer) ==
    /\ pc = "idle" /\ opened /\ adds < MaxAdds
    /\ InRange(offer)
    /\ adds' = adds + 1
    /\ pc' = "try"
    /\ intr' = Submit(offer, adds + 1)
    /\ index' = Len(latestBranch)
    /\ UNCHANGED <<streamOpen, opened, attributes, latestBranch, disk, outcome>>

AddIntervalClosed ==
    /\ pc = "idle" /\ ~opened
    /\ outcome' = "IO"
    /\ UNCHANGED <<streamOpen, opened, attributes, latestBranch, disk, call, adds>>

AddIntervalOutOfRange(offer) ==
    /\ pc = "idle" /\ opened
    /\ ~InRange(offer)
    /\ outcome' = "IntervalOutOfRange"
    /\ UNCHANGED <<streamOpen, opened, attributes, latestBranch, disk, call, adds>>

Return(result) ==
    /\ pc' = "idle" /\ intr' = NoInterval /\ index' = 0
    /\ outcome' = result

Target == latestBranch[index]

\* The interval does not fit: its node gets a sibling.
TryAddSibling ==
    /\ pc = "try"
    /\ ~IntervalFits(Target, intr)
    /\ pc' = "sibling"
    /\ UNCHANGED <<streamOpen, opened, attributes, latestBranch, disk, intr,
                   index, adds, outcome>>

\* Mutant of GoOnAt: the call goes on where it is.
StayAt(i) ==
    /\ index' = index
    /\ UNCHANGED <<streamOpen, opened, attributes, latestBranch, disk, pc, intr,
                   adds, outcome>>

\* The function calls itself for position i.
GoOnAt(i) ==
    /\ index' = i
    /\ UNCHANGED <<streamOpen, opened, attributes, latestBranch, disk, pc, intr,
                   adds, outcome>>

\* The interval begins before its node: it goes to an ancestor.
TryParent ==
    /\ pc = "try"
    /\ IntervalFits(Target, intr)
    /\ intr.begin < Target.begin
    /\ GoOnAt(index - 1)

\* The node takes the interval, and addInterval updates the history's end.
AddToTarget ==
    /\ pc = "try"
    /\ IntervalFits(Target, intr)
    /\ intr.begin >= Target.begin
    /\ latestBranch' = [latestBranch EXCEPT ![index] = AddIntervalToNode(@, intr)]
    /\ end' = intr.end
    /\ Return("ok")
    /\ UNCHANGED <<streamOpen, opened, begin, maxChildren, nodeCount, root, disk, adds>>

(***************************************************************************)
(* addSiblingNode: index points to the node that gets a sibling.           *)
(***************************************************************************)
ParentFull == index > 1 /\ IsFull(latestBranch[index - 1])

SiblingOfParent ==
    /\ pc = "sibling"
    /\ ParentFull
    /\ GoOnAt(index - 1)

\* The interval is tried again on the new leaf.
TryNewLeaf ==
    /\ pc' = "try"
    /\ index' = Len(latestBranch')
    /\ UNCHANGED <<intr, outcome>>

Sibling ==
    /\ pc = "sibling" /\ index > 1
    /\ ~ParentFull
    /\ BufferFits(latestBranch, index)
    /\ file' = CommitNodesDownFromIndex(latestBranch, index)
    /\ latestBranch' = DrawBranchFromIndex(latestBranch, index - 1,
                                           Len(latestBranch), nodeCount)
    /\ nodeCount' = nodeCount + (Len(latestBranch) - index + 1)
    /\ TryNewLeaf
    /\ UNCHANGED <<streamOpen, opened, begin, end, maxChildren, root, header, adds>>

\* Mutant of NewRoot: the number of the last node created.
NewRootOfLastSeq == NewNode(nodeCount - 1, RootParent, begin, maxChildren)

NewRoot == NewNode(nodeCount, RootParent, begin, maxChildren)

\* Mutant of NewRootWithChild: the old root is not its child.
NewRootAlone == NewRoot

NewRootWithChild == AddChild(NewRoot, latestBranch[1].begin, latestBranch[1].seq)

\* Mutant of BranchUnderNewRoot: the old root gets no parent.
BranchWithoutParent == latestBranch

BranchUnderNewRoot == [latestBranch EXCEPT ![1].parent = nodeCount]

GrowRoot ==
    /\ pc = "sibling" /\ index = 1
    /\ ~IsFull(NewRoot) /\ ~IsFull(NewRootWithChild)
    /\ BufferFits(latestBranch, 1)
    /\ root' = nodeCount
    /\ file' = CommitNodesDownFromIndex(BranchUnderNewRoot, 1)
    /\ latestBranch' = DrawBranchFromIndex(<<NewRootWithChild>>, 1,
                                           Len(latestBranch) + 1, nodeCount + 1)
    /\ nodeCount' = nodeCount + 1 + Len(latestBranch)
    /\ TryNewLeaf
    /\ UNCHANGED <<streamOpen, opened, begin, end, maxChildren, header, adds>>

\* The new root takes no child at all: addChild throws before the commit.
GrowRootNoChild ==
    /\ pc = "sibling" /\ index = 1
    /\ IsFull(NewRoot)
    /\ root' = nodeCount
    /\ latestBranch' = BranchUnderNewRoot
    /\ nodeCount' = nodeCount + 1
    /\ Return("NodeFull")
    /\ UNCHANGED <<streamOpen, opened, begin, end, maxChildren, disk, adds>>

\* The new root takes the old one only: addChild throws for the first node
\* drawn, which has been created and counted, after the commit.
GrowRootOneChild ==
    /\ pc = "sibling" /\ index = 1
    /\ ~IsFull(NewRoot) /\ IsFull(NewRootWithChild)
    /\ BufferFits(latestBranch, 1)
    /\ root' = nodeCount
    /\ file' = CommitNodesDownFromIndex(BranchUnderNewRoot, 1)
    /\ latestBranch' = <<NewRootWithChild>>
    /\ nodeCount' = nodeCount + 2
    /\ Return("NodeFull")
    /\ UNCHANGED <<streamOpen, opened, begin, end, maxChildren, header, adds>>

(***************************************************************************)
(* A node longer than the buffer is serialized: its parts overwrite each   *)
(* other or the memory around the buffer. Nothing is known from there on.  *)
(***************************************************************************)
CommitsFrom(i) ==
    \/ pc = "idle" /\ opened /\ i = 1
    \/ pc = "sibling" /\ index = i /\ index > 1 /\ ~ParentFull
    \/ pc = "sibling" /\ index = i /\ index = 1 /\ ~IsFull(NewRoot)

Overrun ==
    /\ \E i \in 1..Len(latestBranch) :
          CommitsFrom(i) /\ ~BufferFits(latestBranch, i)
    /\ pc' = "overrun"
    /\ UNCHANGED <<streamOpen, opened, attributes, latestBranch, disk, intr,
                   index, adds, outcome>>

(***************************************************************************)
(* The specification.                                                      *)
(***************************************************************************)
CallStep ==
    \/ TryAddSibling \/ TryParent \/ AddToTarget
    \/ SiblingOfParent \/ Sibling
    \/ GrowRoot \/ GrowRootNoChild \/ GrowRootOneChild

Next ==
    \/ \E ts \in BeginTimes : Open(ts)
    \/ OpenUnknownSerDes
    \/ OpenFails
    \/ \E ts \in CloseTimes \cup {end} : Close(ts)
    \/ \E offer \in Offers : AddInterval(offer) \/ AddIntervalOutOfRange(offer)
    \/ AddIntervalClosed
    \/ CallStep
    \/ Overrun

Spec == Init /\ [][Next]_vars

\* A call that has started goes on: the program is a single thread.
FairSpec == Spec /\ WF_vars(CallStep)

(***************************************************************************)
(* The tree, made of the nodes in the file and of those of the latest      *)
(* branch, and the descent of a query through it (HistoryFileSource's      *)
(* findAll): from the root, to the child at ts, down to a node without one.*)
(***************************************************************************)
BranchSeqs == IF opened THEN SeqsDownFrom(latestBranch, 1) ELSE {}

BranchNode(seq) ==
    latestBranch[CHOOSE k \in 1..Len(latestBranch) : latestBranch[k].seq = seq]

Nodes ==
    [seq \in DOMAIN file \cup BranchSeqs |->
        IF seq \in BranchSeqs THEN Serialize(BranchNode(seq)) ELSE file[seq]]

Contents == UNION {Range(Nodes[seq].intervals) : seq \in DOMAIN Nodes}

Search(ts) ==
    LET tree == Nodes
        from[seq \in DOMAIN tree] ==
            LET next == GetChildSeqAtTs(tree[seq], ts)
            IN  FindAll(tree[seq], ts) \cup
                (IF next = seq \/ next \notin DOMAIN tree THEN {} ELSE from[next])
    IN  IF root \in DOMAIN tree THEN from[root] ELSE {}

Submissions == {Submit(offer, serial) : offer \in Offers, serial \in 1..MaxAdds}

H == INSTANCE History WITH contents <- Contents

(***************************************************************************)
(* Types.                                                                  *)
(***************************************************************************)
Interval ==
    [serial : Nat, key : Nat, begin : Timestamp, end : Timestamp, size : Nat]

ChildPointer == [begin : Timestamp, seq : Nat]

WrittenNode ==
    [seq : Nat, parent : Nat \cup {RootParent}, begin : Timestamp,
     end : Timestamp, closed : BOOLEAN, children : Seq(ChildPointer),
     intervals : Seq(Interval)]

MemoryNode ==
    [seq : Nat, parent : Nat \cup {RootParent}, begin : Timestamp,
     end : Timestamp, closed : BOOLEAN, maxChildren : Nat,
     children : Seq(ChildPointer), intervals : Seq(Interval),
     curIntervalsSize : Nat]

\* Every variable has its type, and a call in progress has a node to try.
TypeOK ==
    /\ streamOpen \in BOOLEAN
    /\ opened \in BOOLEAN
    /\ begin \in Timestamp
    /\ end \in Timestamp
    /\ maxChildren \in Nat
    /\ opened => maxChildren \in MaxChildrenValues
    /\ nodeCount \in Nat
    /\ root \in Nat
    /\ latestBranch \in Seq(MemoryNode)
    /\ DOMAIN file \subseteq Nat
    /\ file \in [DOMAIN file -> WrittenNode]
    /\ header \in [nodeCount : Nat, root : Nat \cup {RootParent}]
    /\ pc \in {"idle", "try", "sibling", "overrun"}
    /\ intr \in Interval
    /\ index \in Nat
    /\ pc \in {"try", "sibling"} => opened /\ index \in 1..Len(latestBranch)
    /\ adds \in 0..MaxAdds
    /\ outcome \in {"ok", "IO", "IntervalOutOfRange", "NodeFull",
                    "UnknownNodeSerDesType"}

(***************************************************************************)
(* Safety.                                                                 *)
(***************************************************************************)

\* At any point, even between two steps of addInterval, a descent from the
\* root for a timestamp of the history finds the intervals accepted so far
\* that intersect it, each of them and no other: an interval is stored in a
\* node on the path of every timestamp it covers. (Without any child per node, a
\* root that has refused the old one has a number but no place.)
SearchFindsAll ==
    (opened \/ header # NoHeader) /\ maxChildren >= 1 =>
        \A ts \in begin..(end - 1) : Search(ts) = H!At(ts)

\* What the binary search of a node's intervals requires: they were added in the
\* order of their ends, and the node's range covers them, whichever node of the
\* branch each of them has gone up to, in memory and once written.
Ordered(node) ==
    /\ \A j, k \in 1..Len(node.intervals) :
          j <= k => node.intervals[j].end <= node.intervals[k].end
    /\ \A k \in 1..Len(node.intervals) :
          /\ node.begin <= node.intervals[k].begin
          /\ node.intervals[k].end <= node.end

NodesOrdered ==
    /\ \A k \in 1..Len(latestBranch) : Ordered(latestBranch[k])
    /\ \A seq \in DOMAIN file : Ordered(file[seq])

\* Closing a node of the branch at the history's end never throws, half-way through
\* a commit, and never finds it closed, with an end that is not its own any more:
\* no node ends after the history, even the ones that got the last intervals.
NodesCanBeClosed ==
    opened => \A k \in 1..Len(latestBranch) :
                 ~latestBranch[k].closed /\ latestBranch[k].end <= end

\* Sequence numbers are given out once: a node is either in the latest branch
\* or in the file, never in both, and no number is skipped, so that the offset
\* of every node up to nodeCount is written or going to be. (With fewer than two
\* children per node, the call that throws leaves a node counted that is in neither.)
NodesAccounted ==
    opened /\ maxChildren >= 2 =>
        /\ DOMAIN file \cup BranchSeqs = 0..(nodeCount - 1)
        /\ DOMAIN file \cap BranchSeqs = {}
        /\ \A j, k \in 1..Len(latestBranch) :
              latestBranch[j].seq = latestBranch[k].seq => j = k

\* The latest branch is a path of the tree: each node is the last child of the
\* one above, which is its parent. The last child is the one a commit of the
\* branch leaves behind with a pointer to it. (With no children at all, the old root
\* has a parent that was not kept.)
IsLastChild(child, parent) ==
    /\ child.parent = parent.seq
    /\ parent.children # <<>>
    /\ parent.children[Len(parent.children)] =
          [begin |-> child.begin, seq |-> child.seq]

BranchIsPath ==
    opened /\ maxChildren >= 1 =>
        /\ Len(latestBranch) >= 1
        /\ latestBranch[1].seq = root
        /\ latestBranch[1].parent = RootParent
        /\ \A k \in 2..Len(latestBranch) :
              IsLastChild(latestBranch[k], latestBranch[k - 1])

\* A file that has a header is a whole tree: the header's root and every child
\* pointer lead to a written node, whose parent field leads back, and the
\* ranges of the children of a node follow each other without gap or overlap
\* from its begin to its end.
Follows(parent, k) ==
    LET child == file[parent.children[k].seq]
        last == Len(parent.children)
    IN  /\ child.begin = parent.children[k].begin
        /\ child.parent = parent.seq
        /\ k = 1 => child.begin = parent.begin
        /\ child.end = IF k = last THEN parent.end ELSE parent.children[k + 1].begin

FileIsTree ==
    header # NoHeader =>
        /\ DOMAIN file = 0..(header.nodeCount - 1)
        /\ header.root \in DOMAIN file
        /\ \A seq \in DOMAIN file :
              /\ file[seq].seq = seq /\ file[seq].closed
              /\ file[seq].parent = RootParent <=> seq = header.root
              /\ \A k \in 1..Len(file[seq].children) :
                    /\ file[seq].children[k].seq \in DOMAIN file
                    /\ Follows(file[seq], k)

\* A new leaf, and a new root with the two children it starts with, take any
\* interval offered to them: otherwise the retry on them would be refused as
\* well, and addInterval would add nodes for ever.
FreshNodeAccepts ==
    pc = "try" /\ Target.intervals = <<>> /\ Len(Target.children) <= 2 =>
        IntervalFits(Target, intr)

\* A node is never serialized to more bytes than the node's size.
BufferHoldsNode == pc # "overrun"

(***************************************************************************)
(* Inductive invariants.                                                   *)
(***************************************************************************)

\* The root begins with the history, and the interval of a call in progress is
\* in the history's range: the way up the branch ends at the root.
RootTakesAll ==
    /\ opened => Len(latestBranch) >= 1 /\ latestBranch[1].begin = begin
    /\ pc \in {"try", "sibling"} => intr.begin >= begin /\ intr.end >= end

\* The sequence numbers given out so far are below nodeCount, and no two nodes
\* have the same one.
SeqsUnique ==
    opened =>
        /\ DOMAIN file \subseteq 0..(nodeCount - 1)
        /\ BranchSeqs \subseteq 0..(nodeCount - 1)
        /\ DOMAIN file \cap BranchSeqs = {}
        /\ \A j, k \in 1..Len(latestBranch) :
              latestBranch[j].seq = latestBranch[k].seq => j = k

(***************************************************************************)
(* What a step may not do.                                                 *)
(***************************************************************************)

\* A node is written once: while the sink is opened, no commit overwrites or
\* loses a node already in the file, and so its parent and its children must
\* be right when it is written.
WrittenIsFinal ==
    [][opened => /\ DOMAIN file \subseteq DOMAIN file'
                 /\ \A seq \in DOMAIN file : file'[seq] = file[seq]]_vars

(***************************************************************************)
(* Liveness, and the promise to the caller.                                *)
(***************************************************************************)

\* addInterval returns, and the interval it was called with is then stored,
\* however many siblings and levels that takes, with at least two children per node.
AddedIsStored ==
    \A serial \in 1..MaxAdds :
        intr.serial = serial /\ maxChildren >= 2 ~>
            pc = "idle" /\ \E interval \in Contents : interval.serial = serial

\* The sink implements a history: every step of a call leaves the contents, the
\* range and the outcome alone, except the one that stores its interval.
ImplementsHistory == H!Spec
=============================================================================
