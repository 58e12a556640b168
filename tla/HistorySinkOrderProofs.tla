------------------------ MODULE HistorySinkOrderProofs ------------------------
(***************************************************************************)
(* The intervals of every node are in the order its binary search needs,   *)
(* the nodes of the branch can be closed, and a fresh node has room for the*)
(* interval it is created for, for every value of HistorySink's constants. *)
(***************************************************************************)
EXTENDS HistorySinkProofs

USE DEF Timestamp, attributes, disk, call

\* The order of a node's intervals is not lost by a node that keeps them and
\* its begin, and ends later if at all.
LEMMA OrderedKept ==
    ASSUME NEW node \in MemoryNode, Ordered(node), NEW other,
           other.intervals = node.intervals, other.begin = node.begin,
           other.end \in Int, node.end <= other.end
    PROVE  Ordered(other)
<1>1. /\ \A j, k \in 1..Len(other.intervals) :
            j <= k => other.intervals[j].end <= other.intervals[k].end
      /\ \A k \in 1..Len(other.intervals) : other.begin <= other.intervals[k].begin
  BY DEF Ordered
<1>2. ASSUME NEW k \in 1..Len(other.intervals)
      PROVE  other.intervals[k].end <= other.end
  <2>1. node.intervals \in Seq(Interval) /\ node.end \in Int
    BY DEF MemoryNode
  <2>2. node.intervals[k] \in Interval
    BY <2>1
  <2>3. node.intervals[k].end \in Int /\ node.intervals[k].end <= node.end
    BY <2>2 DEF Interval, Ordered
  <2>4. QED
    BY <2>1, <2>3
<1>3. QED
  BY <1>1, <1>2 DEF Ordered

LEMMA EmptyOrdered ==
    ASSUME NEW node, node.intervals = <<>> PROVE Ordered(node)
BY DEF Ordered

LEMMA AddChildOrdered ==
    ASSUME NEW node \in MemoryNode, Ordered(node), NEW ts \in Int, NEW seq \in Nat
    PROVE  Ordered(AddChild(node, ts, seq))
<1> DEFINE other == AddChild(node, ts, seq)
<1>1. other.intervals = node.intervals /\ other.begin = node.begin /\ other.end = node.end
  BY AddChildFields
<1>2. node.end \in Int
  BY DEF MemoryNode
<1> HIDE DEF other
<1>3. Ordered(other)
  BY <1>1, <1>2, OrderedKept
<1>4. QED
  BY <1>3 DEF other

\* A child changes neither the order of a node nor whether it can be closed.
LEMMA AddChildKeepsOrder ==
    ASSUME NEW node \in MemoryNode, Ordered(node), ~node.closed,
           NEW ts \in Int, NEW seq \in Nat, NEW last \in Int, node.end <= last
    PROVE  /\ Ordered(AddChild(node, ts, seq))
           /\ ~AddChild(node, ts, seq).closed
           /\ AddChild(node, ts, seq).end <= last
<1> DEFINE other == AddChild(node, ts, seq)
<1>1. Ordered(other)
  BY AddChildOrdered
<1>2. other.closed = node.closed /\ other.end = node.end
  BY AddChildFields
<1> HIDE DEF other
<1>3. ~other.closed /\ other.end <= last
  BY <1>2
<1>4. QED
  BY <1>1, <1>3 DEF other

LEMMA CloseNodeOrdered ==
    ASSUME NEW node \in MemoryNode, Ordered(node), NEW ts \in Int,
           node.closed \/ node.end <= ts
    PROVE  Ordered(CloseNode(node, ts))
<1>1. CASE node.closed
  BY <1>1 DEF CloseNode
<1>2. CASE ~node.closed
  <2> DEFINE other == CloseNode(node, ts)
  <2>1. other.intervals = node.intervals /\ other.begin = node.begin /\ other.end = ts
    BY <1>2 DEF CloseNode, MemoryNode
  <2> HIDE DEF other
  <2>2. Ordered(other)
    BY <1>2, <2>1, OrderedKept
  <2>3. QED
    BY <2>2 DEF other
<1>3. QED
  BY <1>1, <1>2

LEMMA SerializeOrdered ==
    ASSUME NEW node, Ordered(node) PROVE Ordered(Serialize(node))
BY DEF Ordered, Serialize

\* An interval that neither begins before its node nor ends before it.
LEMMA AddIntervalOrdered ==
    ASSUME NEW node \in MemoryNode, Ordered(node), NEW interval \in Interval,
           node.begin <= interval.begin, node.end <= interval.end
    PROVE  /\ Ordered(AddIntervalToNode(node, interval))
           /\ AddIntervalToNode(node, interval).end = interval.end
           /\ AddIntervalToNode(node, interval).closed = node.closed
<1> DEFINE other == AddIntervalToNode(node, interval)
           last == Len(node.intervals) + 1
<1>1. /\ other.intervals = Append(node.intervals, interval)
      /\ other.begin = node.begin /\ other.end = interval.end
      /\ other.closed = node.closed
  BY DEF AddIntervalToNode, MemoryNode
<1>2. /\ node.intervals \in Seq(Interval) /\ Len(node.intervals) \in Nat
      /\ node.end \in Int /\ interval.end \in Int
  BY DEF MemoryNode, Interval
<1>3. /\ Len(other.intervals) = last /\ other.intervals[last] = interval
      /\ \A k \in 1..Len(node.intervals) : other.intervals[k] = node.intervals[k]
  BY <1>1, <1>2
<1>4. ASSUME NEW k \in 1..Len(node.intervals)
      PROVE  /\ node.intervals[k].end \in Int
             /\ node.intervals[k].end <= node.end
             /\ node.begin <= node.intervals[k].begin
  <2>1. node.intervals[k] \in Interval
    BY <1>2
  <2>2. QED
    BY <2>1 DEF Interval, Ordered
<1>5. ASSUME NEW j \in 1..Len(other.intervals), NEW k \in 1..Len(other.intervals), j <= k
      PROVE  other.intervals[j].end <= other.intervals[k].end
  <2>1. CASE k = last
    <3>1. j = last \/ j \in 1..Len(node.intervals)
      BY <1>2, <1>3
    <3>2. CASE j \in 1..Len(node.intervals)
      <4>1. /\ other.intervals[j].end = node.intervals[j].end
            /\ node.intervals[j].end \in Int /\ node.intervals[j].end <= node.end
        BY <1>3, <1>4, <3>2
      <4>2. other.intervals[k].end = interval.end
        BY <1>3, <2>1
      <4> HIDE DEF other
      <4>3. QED
        BY <1>2, <4>1, <4>2
    <3>3. CASE j = last
      BY <1>2, <1>3, <2>1, <3>3
    <3>4. QED
      BY <3>1, <3>2, <3>3
  <2>2. CASE k # last
    <3>1. j \in 1..Len(node.intervals) /\ k \in 1..Len(node.intervals)
      BY <1>2, <1>3, <1>5, <2>2
    <3>2. QED
      BY <1>3, <1>5, <3>1 DEF Ordered
  <2>3. QED
    BY <2>1, <2>2
<1>6. ASSUME NEW k \in 1..Len(other.intervals)
      PROVE  other.begin <= other.intervals[k].begin /\ other.intervals[k].end <= other.end
  <2>1. CASE k = last
    BY <1>1, <1>2, <1>3, <2>1
  <2>2. CASE k # last
    <3>1. k \in 1..Len(node.intervals)
      BY <1>2, <1>3, <2>2
    <3>2. QED
      BY <1>1, <1>2, <1>3, <1>4, <3>1
  <2>3. QED
    BY <2>1, <2>2
<1> HIDE DEF other
<1>7. Ordered(other)
  BY <1>5, <1>6 DEF Ordered
<1>8. QED
  BY <1>1, <1>7 DEF other

\* A commit of ordered nodes that can be closed writes ordered nodes.
LEMMA CommitOrdered ==
    ASSUME NEW branch \in Seq(MemoryNode), NEW i \in Nat \ {0}, end \in Int,
           \A k \in i..Len(branch) :
              Ordered(branch[k]) /\ (branch[k].closed \/ branch[k].end <= end),
           \A seq \in DOMAIN file : Ordered(file[seq])
    PROVE  \A seq \in DOMAIN CommitNodesDownFromIndex(branch, i) :
              Ordered(CommitNodesDownFromIndex(branch, i)[seq])
<1>1. ASSUME NEW seq \in SeqsDownFrom(branch, i)
      PROVE  Ordered(CommittedNode(branch, i, seq))
  <2>1. PICK k \in i..Len(branch) :
            CommittedNode(branch, i, seq) = Serialize(CloseNode(branch[k], end))
    BY DEF SeqsDownFrom, CommittedNode
  <2>2. branch[k] \in MemoryNode /\ Ordered(branch[k])
        /\ (branch[k].closed \/ branch[k].end <= end)
    OBVIOUS
  <2>3. QED
    BY <2>1, <2>2, CloseNodeOrdered, SerializeOrdered
<1>2. QED
  BY <1>1 DEF CommitNodesDownFromIndex

(***************************************************************************)
(* The inductive invariant: the nodes of an opened branch are not closed   *)
(* and end no later than the history, which does not end before it begins. *)
(***************************************************************************)
RangeRight == opened => begin <= end

OrderInv == NodesOrdered /\ NodesCanBeClosed /\ RangeRight

\* A step that leaves each written node as it was needs only the branch's.
LEMMA SameFileOrderInv ==
    ASSUME OrderInv, file' = file,
           \A k \in 1..Len(latestBranch') :
              /\ Ordered(latestBranch'[k])
              /\ opened' => ~latestBranch'[k].closed /\ latestBranch'[k].end <= end',
           opened' => begin' <= end'
    PROVE  OrderInv'
BY DEF OrderInv, NodesOrdered, NodesCanBeClosed, RangeRight, Ordered

LEMMA OpenOrderInv ==
    ASSUME OrderInv, NEW ts \in BeginTimes, Open(ts) PROVE OrderInv'
<1> DEFINE leaf == NewNode(0, RootParent, ts, 0)
<1>1. leaf.intervals = <<>> /\ ~leaf.closed /\ leaf.end = ts
  BY DEF NewNode
<1>2. /\ latestBranch' = <<leaf>> /\ end' = ts /\ begin' = ts /\ file' = <<>>
      /\ ts \in Int
  BY TimesAssumption DEF Open, Truncated
<1> HIDE DEF leaf
<1>3. Ordered(leaf)
  BY <1>1, EmptyOrdered
<1>4. Len(latestBranch') = 1 /\ latestBranch'[1] = leaf
  BY <1>2
<1>5. NodesOrdered'
  <2>1. \A k \in 1..Len(latestBranch') : Ordered(latestBranch'[k])
    BY <1>3, <1>4
  <2>2. DOMAIN file' = {}
    BY <1>2
  <2>3. QED
    BY <2>1, <2>2 DEF NodesOrdered, Ordered
<1>6. NodesCanBeClosed'
  BY <1>1, <1>2, <1>4 DEF NodesCanBeClosed
<1>7. QED
  BY <1>2, <1>5, <1>6 DEF OrderInv, RangeRight

LEMMA OpenUnknownSerDesOrderInv ==
    ASSUME OrderInv, OpenUnknownSerDes PROVE OrderInv'
<1>1. /\ opened' = opened /\ ~opened /\ latestBranch' = latestBranch
      /\ file' = <<>>
  BY DEF OpenUnknownSerDes, Truncated
<1>2. NodesOrdered'
  <2>1. \A k \in 1..Len(latestBranch') : Ordered(latestBranch'[k])
    BY <1>1 DEF OrderInv, NodesOrdered
  <2>2. DOMAIN file' = {}
    BY <1>1
  <2>3. QED
    BY <2>1, <2>2 DEF NodesOrdered, Ordered
<1>3. QED
  BY <1>1, <1>2 DEF OrderInv, NodesCanBeClosed, RangeRight

LEMMA CloseOrderInv ==
    ASSUME TypeInv, OrderInv, NEW ts \in CloseTimes \cup {end}, Close(ts)
    PROVE  OrderInv'
<1>1. /\ latestBranch \in Seq(MemoryNode) /\ opened /\ ~opened'
      /\ end \in Int
  BY DEF Close, TypeInv, TypeOK
<1>2. end' \in Int /\ end <= end'
  BY <1>1, TimesAssumption DEF Close, ClosingEnd
<1>3. ASSUME NEW k \in 1..Len(latestBranch)
      PROVE  /\ CloseNode(latestBranch[k], end') \in MemoryNode
             /\ Ordered(CloseNode(latestBranch[k], end'))
             /\ CloseNode(latestBranch[k], end').closed
  <2>1. latestBranch[k] \in MemoryNode
    BY <1>1
  <2>2. Ordered(latestBranch[k]) /\ latestBranch[k].end <= end
    BY <1>1 DEF OrderInv, NodesOrdered, NodesCanBeClosed
  <2>3. latestBranch[k].end <= end'
    <3>1. latestBranch[k].end \in Int
      BY <2>1 DEF MemoryNode
    <3>2. QED
      BY <1>1, <1>2, <2>2, <3>1
  <2>4. CloseNode(latestBranch[k], end').closed
    BY <2>1 DEF CloseNode, MemoryNode
  <2>5. QED
    BY <1>2, <2>1, <2>2, <2>3, <2>4, CloseNodeOrdered, CloseNodeType
<1>4. latestBranch' = [k \in 1..Len(latestBranch) |-> CloseNode(latestBranch[k], end')]
  BY DEF Close
<1> DEFINE branch == latestBranch'
           one == 1
<1>5. /\ branch \in Seq(MemoryNode)
      /\ \A k \in 1..Len(branch) : Ordered(branch[k]) /\ branch[k].closed
  BY <1>1, <1>3, <1>4
<1>6. one \in Nat \ {0} /\ one..Len(branch) = 1..Len(branch)
      /\ file' = CommitNodesDownFromIndex(branch, one)
  BY DEF Close
<1> HIDE DEF branch, one
<1>7. \A seq \in DOMAIN file : Ordered(file[seq])
  BY DEF OrderInv, NodesOrdered
<1>8. \A seq \in DOMAIN CommitNodesDownFromIndex(branch, one) :
         Ordered(CommitNodesDownFromIndex(branch, one)[seq])
  <2>1. \A k \in one..Len(branch) :
           Ordered(branch[k]) /\ (branch[k].closed \/ branch[k].end <= end)
    BY <1>5, <1>6
  <2>2. QED
    BY <1>1, <1>5, <1>6, <1>7, <2>1, CommitOrdered
<1>9. NodesOrdered'
  <2>1. \A k \in 1..Len(latestBranch') : Ordered(latestBranch'[k])
    BY <1>5 DEF branch
  <2>2. \A seq \in DOMAIN file' : Ordered(file'[seq])
    BY <1>6, <1>8
  <2>3. QED
    BY <2>1, <2>2 DEF NodesOrdered, Ordered
<1>10. QED
  BY <1>1, <1>9 DEF OrderInv, NodesCanBeClosed, RangeRight

LEMMA AddToTargetOrderInv ==
    ASSUME TypeInv, OrderInv, AddToTarget PROVE OrderInv'
<1>1. /\ latestBranch \in Seq(MemoryNode) /\ index \in 1..Len(latestBranch)
      /\ intr \in Interval /\ opened /\ end \in Int /\ begin \in Int
      /\ intr.end >= end /\ intr.begin >= latestBranch[index].begin
  BY DEF AddToTarget, Target, TypeInv, TypeOK, RootTakesAll
<1>2. /\ latestBranch[index] \in MemoryNode /\ intr.end \in Int
      /\ latestBranch[index].end \in Int /\ latestBranch[index].begin \in Int
      /\ intr.begin \in Int
  <2>1. latestBranch[index] \in MemoryNode
    BY <1>1
  <2>2. QED
    BY <1>1, <2>1 DEF MemoryNode, Interval
<1>3. Ordered(latestBranch[index]) /\ ~latestBranch[index].closed
      /\ latestBranch[index].end <= end /\ begin <= end
  BY <1>1 DEF OrderInv, NodesOrdered, NodesCanBeClosed, RangeRight
<1> DEFINE node == AddIntervalToNode(latestBranch[index], intr)
           target == latestBranch[index]
<1>4. Ordered(node) /\ node.end = intr.end /\ ~node.closed
  <2>1. target \in MemoryNode /\ Ordered(target) /\ ~target.closed
        /\ target.begin <= intr.begin /\ target.end <= intr.end
    BY <1>1, <1>2, <1>3
  <2>2. node = AddIntervalToNode(target, intr)
    OBVIOUS
  <2> HIDE DEF target, node
  <2>3. QED
    BY <1>1, <2>1, <2>2, AddIntervalOrdered
<1>5. /\ latestBranch' = [latestBranch EXCEPT ![index] = node]
      /\ end' = intr.end /\ begin' = begin /\ file' = file
  BY DEF AddToTarget, Target
<1> HIDE DEF node, target
<1>6. ASSUME NEW k \in 1..Len(latestBranch')
      PROVE  /\ Ordered(latestBranch'[k])
             /\ ~latestBranch'[k].closed /\ latestBranch'[k].end <= end'
  <2>1. CASE k = index
    BY <1>1, <1>2, <1>4, <1>5, <2>1
  <2>2. CASE k # index
    <3>1. k \in 1..Len(latestBranch) /\ latestBranch'[k] = latestBranch[k]
      BY <1>1, <1>5, <2>2
    <3>2. Ordered(latestBranch[k]) /\ ~latestBranch[k].closed
          /\ latestBranch[k].end <= end
      BY <1>1, <3>1 DEF OrderInv, NodesOrdered, NodesCanBeClosed
    <3>3. latestBranch[k].end \in Int
      <4>1. latestBranch[k] \in MemoryNode
        BY <1>1, <3>1
      <4>2. QED
        BY <4>1 DEF MemoryNode
    <3>4. QED
      BY <1>1, <1>2, <1>5, <3>1, <3>2, <3>3
  <2>3. QED
    BY <2>1, <2>2
<1>7. begin' <= end'
  BY <1>1, <1>2, <1>3, <1>5
<1>8. QED
  BY <1>5, <1>6, <1>7, SameFileOrderInv

\* A node drawn at the end of the history has no interval, and ends there.
LEMMA DrawnNodeOrdered ==
    ASSUME NEW parentSeq, NEW firstSeq, NEW count, NEW k
    PROVE  /\ Ordered(DrawnNode(parentSeq, firstSeq, count, k))
           /\ ~DrawnNode(parentSeq, firstSeq, count, k).closed
           /\ DrawnNode(parentSeq, firstSeq, count, k).end = end
<1> DEFINE node == DrawnNode(parentSeq, firstSeq, count, k)
<1>1. node.intervals = <<>> /\ ~node.closed /\ node.end = end
  BY DEF DrawnNode, NewNode, AddChild
<1> HIDE DEF node
<1>2. Ordered(node)
  BY <1>1, EmptyOrdered
<1>3. QED
  BY <1>1, <1>2 DEF node

LEMMA SiblingOrderInv ==
    ASSUME TypeInv, OrderInv, Sibling PROVE OrderInv'
<1>1. /\ latestBranch \in Seq(MemoryNode) /\ index \in 2..Len(latestBranch)
      /\ index \in Nat \ {0} /\ index - 1 \in 1..Len(latestBranch)
      /\ end \in Int /\ nodeCount \in Nat /\ opened
      /\ Len(latestBranch') = Len(latestBranch) /\ Len(latestBranch) \in Nat
  <2>1. /\ latestBranch \in Seq(MemoryNode) /\ end \in Int /\ nodeCount \in Nat
        /\ opened
    BY DEF Sibling, TypeInv, TypeOK
  <2>2. Len(latestBranch) \in Nat
    BY <2>1
  <2>3. index \in 2..Len(latestBranch) /\ Len(latestBranch') = Len(latestBranch)
    BY SiblingBranch
  <2>4. index \in Nat \ {0} /\ index - 1 \in 1..Len(latestBranch)
    BY <2>2, <2>3
  <2>5. QED
    BY <2>1, <2>2, <2>3, <2>4
<1>2. /\ file' = CommitNodesDownFromIndex(latestBranch, index)
      /\ end' = end /\ begin' = begin /\ opened' = opened
  BY DEF Sibling
<1>3. \A k \in 1..Len(latestBranch) :
         /\ Ordered(latestBranch[k])
         /\ ~latestBranch[k].closed /\ latestBranch[k].end <= end
  BY <1>1 DEF OrderInv, NodesOrdered, NodesCanBeClosed
<1>4. \A seq \in DOMAIN file' : Ordered(file'[seq])
  <2>1. \A seq \in DOMAIN file : Ordered(file[seq])
    BY DEF OrderInv, NodesOrdered
  <2>2. \A k \in index..Len(latestBranch) :
           Ordered(latestBranch[k])
           /\ (latestBranch[k].closed \/ latestBranch[k].end <= end)
    BY <1>1, <1>3
  <2>3. QED
    BY <1>1, <1>2, <2>1, <2>2, CommitOrdered
<1>5. ASSUME NEW k \in 1..Len(latestBranch')
      PROVE  /\ Ordered(latestBranch'[k])
             /\ ~latestBranch'[k].closed /\ latestBranch'[k].end <= end
  <2>1. CASE k \in 1..(index - 2)
    BY <1>1, <1>3, <2>1, SiblingBranch
  <2>2. CASE k = index - 1
    <3> DEFINE above == latestBranch[index - 1]
    <3>1. above \in MemoryNode /\ Ordered(above) /\ ~above.closed /\ above.end <= end
      BY <1>1, <1>3
    <3>2. latestBranch'[k] = AddChild(above, end, nodeCount)
      BY <2>2, SiblingBranch
    <3> HIDE DEF above
    <3>3. Ordered(AddChild(above, end, nodeCount))
          /\ ~AddChild(above, end, nodeCount).closed
          /\ AddChild(above, end, nodeCount).end <= end
      BY <1>1, <3>1, AddChildKeepsOrder
    <3>4. QED
      BY <3>2, <3>3
  <2>3. CASE k \in index..Len(latestBranch)
    <3>1. latestBranch'[k] = DrawnNode(latestBranch[index - 1].seq, nodeCount,
                                       Len(latestBranch) - index + 1, k - index + 1)
      BY <2>3, SiblingBranch
    <3>2. Ordered(latestBranch'[k]) /\ ~latestBranch'[k].closed
          /\ latestBranch'[k].end = end
      BY <3>1, DrawnNodeOrdered
    <3>3. QED
      BY <1>1, <3>2
  <2>4. QED
    BY <1>1, <2>1, <2>2, <2>3
<1>6. QED
  BY <1>1, <1>2, <1>4, <1>5
     DEF OrderInv, NodesOrdered, NodesCanBeClosed, RangeRight, Ordered

\* The old root under the new one is as it was.
LEMMA BranchUnderNewRootOrdered ==
    ASSUME TypeInv, OrderInv, opened, index \in 1..Len(latestBranch)
    PROVE  \A k \in 1..Len(latestBranch) :
              /\ Ordered(BranchUnderNewRoot[k])
              /\ ~BranchUnderNewRoot[k].closed /\ BranchUnderNewRoot[k].end <= end
<1>1. latestBranch \in Seq(MemoryNode) /\ 1 \in 1..Len(latestBranch)
  BY DEF TypeInv, TypeOK
<1>2. \A k \in 1..Len(latestBranch) :
         /\ Ordered(latestBranch[k])
         /\ ~latestBranch[k].closed /\ latestBranch[k].end <= end
  BY DEF OrderInv, NodesOrdered, NodesCanBeClosed
<1> DEFINE old == latestBranch[1]
           node == [old EXCEPT !.parent = nodeCount]
<1>3. /\ \A k \in 2..Len(latestBranch) : BranchUnderNewRoot[k] = latestBranch[k]
      /\ BranchUnderNewRoot[1] = node
  BY BranchUnderNewRootType DEF TypeInv
<1>4. old \in MemoryNode /\ Ordered(old) /\ ~old.closed /\ old.end <= end
  BY <1>1, <1>2
<1>5. /\ node.intervals = old.intervals /\ node.begin = old.begin
      /\ node.end = old.end /\ node.closed = old.closed
      /\ old.end \in Int
  BY <1>4 DEF MemoryNode
<1> HIDE DEF old, node
<1>6. Ordered(node) /\ ~node.closed /\ node.end <= end
  BY <1>4, <1>5, OrderedKept
<1>7. QED
  BY <1>1, <1>2, <1>3, <1>6

LEMMA CommitUnderNewRootOrdered ==
    ASSUME TypeInv, OrderInv, opened, index \in 1..Len(latestBranch),
           file' = CommitNodesDownFromIndex(BranchUnderNewRoot, 1)
    PROVE  \A seq \in DOMAIN file' : Ordered(file'[seq])
<1> DEFINE branch == BranchUnderNewRoot
           one == 1
<1>1. /\ branch \in Seq(MemoryNode) /\ Len(branch) = Len(latestBranch)
      /\ end \in Int /\ one \in Nat \ {0}
      /\ file' = CommitNodesDownFromIndex(branch, one)
  BY BranchUnderNewRootType DEF TypeInv, TypeOK
<1>2. \A k \in one..Len(branch) :
         Ordered(branch[k]) /\ (branch[k].closed \/ branch[k].end <= end)
  BY <1>1, BranchUnderNewRootOrdered
<1>3. \A seq \in DOMAIN file : Ordered(file[seq])
  BY DEF OrderInv, NodesOrdered
<1> HIDE DEF branch, one
<1>4. QED
  BY <1>1, <1>2, <1>3, CommitOrdered

LEMMA GrowRootOrderInv ==
    ASSUME TypeInv, OrderInv, GrowRoot PROVE OrderInv'
<1>1. /\ index \in 1..Len(latestBranch) /\ opened /\ opened'
      /\ end \in Int /\ begin \in Int /\ nodeCount + 1 \in Nat
      /\ end' = end /\ begin' = begin /\ Len(latestBranch) \in Nat
      /\ file' = CommitNodesDownFromIndex(BranchUnderNewRoot, 1)
  BY DEF GrowRoot, TypeInv, TypeOK
<1>2. begin <= end
  BY <1>1 DEF OrderInv, RangeRight
<1>3. \A seq \in DOMAIN file' : Ordered(file'[seq])
  BY <1>1, CommitUnderNewRootOrdered
<1> DEFINE old == NewRootWithChild
<1>4. /\ old \in MemoryNode /\ old.intervals = <<>>
      /\ ~old.closed /\ old.end = begin
  BY <1>1, NewRootType DEF TypeInv
<1>5. latestBranch'[1] = AddChild(old, end, nodeCount + 1)
      /\ Len(latestBranch') = Len(latestBranch) + 1
  BY GrowRootBranch
<1> DEFINE seq == nodeCount + 1
<1> HIDE DEF old, seq
<1>6. /\ Ordered(latestBranch'[1])
      /\ ~latestBranch'[1].closed /\ latestBranch'[1].end <= end
  <2>1. Ordered(old) /\ old.end <= end
    BY <1>2, <1>4, EmptyOrdered
  <2>2. seq \in Nat
    BY <1>1 DEF seq
  <2>3. /\ Ordered(AddChild(old, end, seq)) /\ ~AddChild(old, end, seq).closed
        /\ AddChild(old, end, seq).end <= end
    BY <1>1, <1>4, <2>1, <2>2, AddChildKeepsOrder
  <2>4. QED
    BY <1>5, <2>3 DEF seq
<1>7. ASSUME NEW k \in 1..Len(latestBranch')
      PROVE  /\ Ordered(latestBranch'[k])
             /\ ~latestBranch'[k].closed /\ latestBranch'[k].end <= end
  <2>1. CASE k = 1
    BY <1>6, <2>1
  <2>2. CASE k # 1
    <3>1. k \in 2..(Len(latestBranch) + 1)
      BY <1>1, <1>5, <2>2
    <3>2. latestBranch'[k] = DrawnNode(nodeCount, nodeCount + 1, Len(latestBranch), k - 1)
      BY <3>1, GrowRootBranch
    <3>3. Ordered(latestBranch'[k]) /\ ~latestBranch'[k].closed
          /\ latestBranch'[k].end = end
      BY <3>2, DrawnNodeOrdered
    <3>4. QED
      BY <1>1, <3>3
  <2>3. QED
    BY <2>1, <2>2
<1>8. QED
  BY <1>1, <1>2, <1>3, <1>7
     DEF OrderInv, NodesOrdered, NodesCanBeClosed, RangeRight, Ordered

LEMMA GrowRootNoChildOrderInv ==
    ASSUME TypeInv, OrderInv, GrowRootNoChild PROVE OrderInv'
<1>1. /\ index \in 1..Len(latestBranch) /\ opened /\ opened'
      /\ end' = end /\ begin' = begin /\ file' = file
      /\ latestBranch' = BranchUnderNewRoot
  BY DEF GrowRootNoChild, TypeInv, TypeOK
<1>2. Len(latestBranch') = Len(latestBranch)
  BY <1>1, BranchUnderNewRootType DEF TypeInv
<1>3. \A k \in 1..Len(latestBranch') :
         /\ Ordered(latestBranch'[k])
         /\ ~latestBranch'[k].closed /\ latestBranch'[k].end <= end'
  BY <1>1, <1>2, BranchUnderNewRootOrdered
<1>4. begin' <= end'
  BY <1>1 DEF OrderInv, RangeRight
<1>5. QED
  BY <1>1, <1>3, <1>4, SameFileOrderInv

LEMMA GrowRootOneChildOrderInv ==
    ASSUME TypeInv, OrderInv, GrowRootOneChild PROVE OrderInv'
<1>1. /\ index \in 1..Len(latestBranch) /\ opened /\ opened'
      /\ end' = end /\ begin' = begin
      /\ file' = CommitNodesDownFromIndex(BranchUnderNewRoot, 1)
      /\ latestBranch' = <<NewRootWithChild>>
  BY DEF GrowRootOneChild, TypeInv, TypeOK
<1>2. begin <= end
  BY <1>1 DEF OrderInv, RangeRight
<1>3. \A seq \in DOMAIN file' : Ordered(file'[seq])
  BY <1>1, CommitUnderNewRootOrdered
<1>4. /\ Ordered(NewRootWithChild)
      /\ ~NewRootWithChild.closed /\ NewRootWithChild.end <= end
  BY <1>1, <1>2, NewRootType, EmptyOrdered DEF TypeInv
<1>5. Len(latestBranch') = 1 /\ latestBranch'[1] = NewRootWithChild
  BY <1>1
<1>6. \A k \in 1..Len(latestBranch') :
         /\ Ordered(latestBranch'[k])
         /\ ~latestBranch'[k].closed /\ latestBranch'[k].end <= end
  BY <1>4, <1>5
<1>7. QED
  BY <1>1, <1>2, <1>3, <1>6
     DEF OrderInv, NodesOrdered, NodesCanBeClosed, RangeRight, Ordered

LEMMA InitOrderInv == Init => OrderInv
BY DEF Init, OrderInv, NodesOrdered, NodesCanBeClosed, RangeRight

LEMMA NextOrderInv == TreeInv /\ OrderInv /\ [Next]_vars => OrderInv'
<1> SUFFICES ASSUME TypeInv, OrderInv, [Next]_vars PROVE OrderInv'
  BY DEF TreeInv
<1>1. CASE SameTree
  BY <1>1 DEF SameTree, OrderInv, NodesOrdered, NodesCanBeClosed, RangeRight, Ordered
<1>2. CASE \E ts \in BeginTimes : Open(ts)
  BY <1>2, OpenOrderInv
<1>3. CASE \E ts \in CloseTimes \cup {end} : Close(ts)
  BY <1>3, CloseOrderInv
<1>4. QED
  BY <1>1, <1>2, <1>3, StepsOfNext, OpenUnknownSerDesOrderInv, AddToTargetOrderInv,
     SiblingOrderInv, GrowRootOrderInv, GrowRootNoChildOrderInv, GrowRootOneChildOrderInv

LEMMA OrderInvariant == Spec => []OrderInv
BY InitOrderInv, NextOrderInv, TreeInvariant, PTL DEF Spec

\* The intervals of every node, in memory or written, are in the order of their
\* ends and in the node's range, so that the binary search of a query is right
\* to stop at the first one that ends after its timestamp.
THEOREM IntervalsOrdered == Spec => []NodesOrdered
<1>1. OrderInv => NodesOrdered
  BY DEF OrderInv
<1>2. QED
  BY <1>1, OrderInvariant, PTL

\* No commit ever throws: the nodes of the branch end with the history at the
\* latest, and none has been closed before.
THEOREM CommitNeverThrows == Spec => []NodesCanBeClosed
<1>1. OrderInv => NodesCanBeClosed
  BY DEF OrderInv
<1>2. QED
  BY <1>1, OrderInvariant, PTL

(***************************************************************************)
(* A fresh node takes the interval it was created for, when the node size  *)
(* leaves room for it: the retries of addInterval are not refused for ever.*)
(***************************************************************************)
\* What the arguments of open must satisfy: each interval offered fits in a node
\* with all the children pointers reserved, and two of them in use.
RoomForOffers ==
    /\ \A offer \in Offers, max \in MaxChildrenValues \cup {0} :
          offer.size + NodeHeaderBytes + (max + 2) * ChildPointerBytes <= NodeSize
    /\ NodeSize < SizeMod

\* A node reserves no pointer, or as many as were asked for in open, and counts
\* no byte for intervals it does not have.
Plain(node) ==
    /\ node.maxChildren \in MaxChildrenValues \cup {0}
    /\ node.intervals = <<>> => node.curIntervalsSize = 0

LEMMA NewNodePlain ==
    ASSUME NEW seq, NEW parent, NEW ts,
           NEW max \in MaxChildrenValues \cup {0}
    PROVE  Plain(NewNode(seq, parent, ts, max))
BY DEF Plain, NewNode

LEMMA AddChildPlain ==
    ASSUME NEW node \in MemoryNode, Plain(node), NEW ts, NEW seq
    PROVE  Plain(AddChild(node, ts, seq))
<1>1. /\ AddChild(node, ts, seq).maxChildren = node.maxChildren
      /\ AddChild(node, ts, seq).intervals = node.intervals
      /\ AddChild(node, ts, seq).curIntervalsSize = node.curIntervalsSize
  BY DEF AddChild, MemoryNode
<1>2. QED
  BY <1>1 DEF Plain

LEMMA DrawnNodePlain ==
    ASSUME NEW parentSeq, NEW firstSeq, NEW count, NEW k,
           maxChildren \in MaxChildrenValues
    PROVE  Plain(DrawnNode(parentSeq, firstSeq, count, k))
<1> DEFINE node == DrawnNode(parentSeq, firstSeq, count, k)
<1>1. /\ node.maxChildren = 0 \/ node.maxChildren = maxChildren
      /\ node.curIntervalsSize = 0
  BY DEF DrawnNode, NewNode, AddChild
<1> HIDE DEF node
<1>2. Plain(node)
  BY <1>1 DEF Plain
<1>3. QED
  BY <1>2 DEF node

LEMMA CloseNodePlain ==
    ASSUME NEW node \in MemoryNode, Plain(node), NEW ts
    PROVE  Plain(CloseNode(node, ts))
<1>1. /\ CloseNode(node, ts).maxChildren = node.maxChildren
      /\ CloseNode(node, ts).intervals = node.intervals
      /\ CloseNode(node, ts).curIntervalsSize = node.curIntervalsSize
  BY DEF CloseNode, MemoryNode
<1>2. QED
  BY <1>1 DEF Plain

LEMMA AddIntervalPlain ==
    ASSUME NEW node \in MemoryNode, Plain(node), NEW interval \in Interval
    PROVE  Plain(AddIntervalToNode(node, interval))
<1>1. /\ AddIntervalToNode(node, interval).maxChildren = node.maxChildren
      /\ AddIntervalToNode(node, interval).intervals = Append(node.intervals, interval)
  BY DEF AddIntervalToNode, MemoryNode
<1>2. Append(node.intervals, interval) # <<>>
  BY DEF MemoryNode
<1>3. QED
  BY <1>1, <1>2 DEF Plain

\* The nodes of the branch stay plain.
BranchPlain == \A k \in 1..Len(latestBranch) : Plain(latestBranch[k])

LEMMA OpenPlain ==
    ASSUME NEW ts \in BeginTimes, Open(ts) PROVE BranchPlain'
<1> DEFINE leaf == NewNode(0, RootParent, ts, 0)
<1>1. Plain(leaf)
  BY NewNodePlain
<1>2. latestBranch' = <<leaf>>
  BY DEF Open
<1> HIDE DEF leaf
<1>3. Len(latestBranch') = 1 /\ latestBranch'[1] = leaf
  BY <1>2
<1>4. \A k \in 1..Len(latestBranch') : Plain(latestBranch'[k])
  BY <1>1, <1>3
<1>5. QED
  BY <1>4 DEF BranchPlain, Plain

LEMMA ClosePlain ==
    ASSUME TypeInv, BranchPlain, NEW ts \in CloseTimes \cup {end}, Close(ts)
    PROVE  BranchPlain'
<1>1. /\ latestBranch \in Seq(MemoryNode)
      /\ latestBranch' = [k \in 1..Len(latestBranch) |-> CloseNode(latestBranch[k], end')]
  BY DEF Close, TypeInv, TypeOK
<1>2. ASSUME NEW k \in 1..Len(latestBranch) PROVE Plain(CloseNode(latestBranch[k], end'))
  <2>1. latestBranch[k] \in MemoryNode /\ Plain(latestBranch[k])
    BY <1>1 DEF BranchPlain
  <2>2. QED
    BY <2>1, CloseNodePlain
<1>3. \A k \in 1..Len(latestBranch') : Plain(latestBranch'[k])
  BY <1>1, <1>2
<1>4. QED
  BY <1>3 DEF BranchPlain, Plain

LEMMA AddToTargetPlain ==
    ASSUME TypeInv, BranchPlain, AddToTarget PROVE BranchPlain'
<1>1. latestBranch \in Seq(MemoryNode) /\ index \in 1..Len(latestBranch) /\ intr \in Interval
  BY DEF AddToTarget, TypeInv, TypeOK
<1> DEFINE node == AddIntervalToNode(latestBranch[index], intr)
<1>2. latestBranch' = [latestBranch EXCEPT ![index] = node]
  BY DEF AddToTarget
<1>3. latestBranch[index] \in MemoryNode /\ Plain(latestBranch[index])
  BY <1>1 DEF BranchPlain
<1>4. Plain(node)
  BY <1>1, <1>3, AddIntervalPlain
<1> HIDE DEF node
<1>5. \A k \in 1..Len(latestBranch') : Plain(latestBranch'[k])
  BY <1>1, <1>2, <1>4 DEF BranchPlain
<1>6. QED
  BY <1>5 DEF BranchPlain, Plain

LEMMA SiblingPlain ==
    ASSUME TypeInv, BranchPlain, Sibling PROVE BranchPlain'
<1>1. latestBranch \in Seq(MemoryNode) /\ index \in 2..Len(latestBranch)
      /\ Len(latestBranch') = Len(latestBranch) /\ maxChildren \in MaxChildrenValues
  BY SiblingBranch DEF Sibling, TypeInv, TypeOK
<1>2. latestBranch[index - 1] \in MemoryNode /\ Plain(latestBranch[index - 1])
  <2>1. index - 1 \in 1..Len(latestBranch)
    BY <1>1
  <2>2. QED
    BY <1>1, <2>1 DEF BranchPlain
<1>3. ASSUME NEW k \in 1..Len(latestBranch) PROVE Plain(latestBranch'[k])
  <2>1. CASE k \in 1..(index - 2)
    BY <2>1, SiblingBranch DEF BranchPlain
  <2>2. CASE k = index - 1
    BY <1>2, <2>2, SiblingBranch, AddChildPlain
  <2>3. CASE k \in index..Len(latestBranch)
    BY <1>1, <2>3, SiblingBranch, DrawnNodePlain
  <2>4. QED
    BY <1>1, <2>1, <2>2, <2>3
<1>4. QED
  BY <1>1, <1>3 DEF BranchPlain, Plain

LEMMA NewRootPlain ==
    ASSUME TypeInv, index \in 1..Len(latestBranch), maxChildren \in MaxChildrenValues
    PROVE  NewRootWithChild \in MemoryNode /\ Plain(NewRootWithChild)
<1>1. NewRoot \in MemoryNode /\ NewRootWithChild \in MemoryNode
  BY NewRootType DEF TypeInv
<1>2. Plain(NewRoot)
  BY NewNodePlain DEF NewRoot
<1>3. QED
  BY <1>1, <1>2, AddChildPlain DEF NewRootWithChild

LEMMA GrowRootPlain ==
    ASSUME TypeInv, GrowRoot PROVE BranchPlain'
<1>1. /\ index \in 1..Len(latestBranch) /\ Len(latestBranch) \in Nat
      /\ maxChildren \in MaxChildrenValues
  BY DEF GrowRoot, TypeInv, TypeOK
<1>2. Plain(latestBranch'[1])
  BY <1>1, NewRootPlain, GrowRootBranch, AddChildPlain
<1>3. \A k \in 2..(Len(latestBranch) + 1) : Plain(latestBranch'[k])
  BY <1>1, GrowRootBranch, DrawnNodePlain
<1>4. \A k \in 1..Len(latestBranch') : Plain(latestBranch'[k])
  BY <1>1, <1>2, <1>3, GrowRootBranch
<1>5. QED
  BY <1>4 DEF BranchPlain, Plain

LEMMA GrowRootOneChildPlain ==
    ASSUME TypeInv, GrowRootOneChild PROVE BranchPlain'
<1>1. /\ index \in 1..Len(latestBranch) /\ latestBranch' = <<NewRootWithChild>>
      /\ maxChildren \in MaxChildrenValues
  BY DEF GrowRootOneChild, TypeInv, TypeOK
<1>2. Plain(NewRootWithChild)
  BY <1>1, NewRootPlain
<1>3. \A k \in 1..Len(latestBranch') : Plain(latestBranch'[k])
  BY <1>1, <1>2
<1>4. QED
  BY <1>3 DEF BranchPlain, Plain

LEMMA GrowRootNoChildPlain ==
    ASSUME TypeInv, BranchPlain, GrowRootNoChild PROVE BranchPlain'
<1>1. /\ index \in 1..Len(latestBranch) /\ latestBranch' = BranchUnderNewRoot
      /\ latestBranch \in Seq(MemoryNode)
  BY DEF GrowRootNoChild, TypeInv, TypeOK
<1>2. /\ Len(latestBranch') = Len(latestBranch)
      /\ latestBranch'[1] = [latestBranch[1] EXCEPT !.parent = nodeCount]
      /\ \A k \in 2..Len(latestBranch) : latestBranch'[k] = latestBranch[k]
  BY <1>1, BranchUnderNewRootType DEF TypeInv
<1>3. latestBranch[1] \in MemoryNode /\ Plain(latestBranch[1])
  BY <1>1 DEF BranchPlain
<1>4. /\ latestBranch'[1].maxChildren = latestBranch[1].maxChildren
      /\ latestBranch'[1].intervals = latestBranch[1].intervals
      /\ latestBranch'[1].curIntervalsSize = latestBranch[1].curIntervalsSize
  BY <1>2, <1>3 DEF MemoryNode
<1>5. Plain(latestBranch'[1])
  BY <1>3, <1>4 DEF Plain
<1>6. \A k \in 1..Len(latestBranch') : Plain(latestBranch'[k])
  BY <1>1, <1>2, <1>5 DEF BranchPlain
<1>7. QED
  BY <1>6 DEF BranchPlain, Plain

LEMMA NextPlain == TypeInv /\ BranchPlain /\ [Next]_vars => BranchPlain'
<1> SUFFICES ASSUME TypeInv, BranchPlain, [Next]_vars PROVE BranchPlain'
  OBVIOUS
<1>1. CASE SameTree \/ OpenUnknownSerDes
  BY <1>1 DEF SameTree, OpenUnknownSerDes, BranchPlain, Plain
<1>2. CASE \E ts \in BeginTimes : Open(ts)
  BY <1>2, OpenPlain
<1>3. CASE \E ts \in CloseTimes \cup {end} : Close(ts)
  BY <1>3, ClosePlain
<1>4. QED
  BY <1>1, <1>2, <1>3, StepsOfNext, AddToTargetPlain, SiblingPlain, GrowRootPlain,
     GrowRootNoChildPlain, GrowRootOneChildPlain

\* The interval of a call in progress was offered.
IntrOffered ==
    pc \in {"try", "sibling"} => \E offer \in Offers : intr.size = offer.size

LEMMA NextIntrOffered == IntrOffered /\ [Next]_vars => IntrOffered'
<1> SUFFICES ASSUME IntrOffered, [Next]_vars PROVE IntrOffered'
  OBVIOUS
<1>1. ASSUME pc' \notin {"try", "sibling"} PROVE IntrOffered'
  BY <1>1 DEF IntrOffered
<1>2. ASSUME pc \in {"try", "sibling"}, intr' = intr PROVE IntrOffered'
  BY <1>2 DEF IntrOffered
<1>3. ASSUME NEW offer \in Offers, AddInterval(offer) PROVE IntrOffered'
  <2>1. intr'.size = offer.size
    BY <1>3 DEF AddInterval, Submit
  <2>2. QED
    BY <2>1 DEF IntrOffered
<1>4. ASSUME UNCHANGED <<pc, intr>> PROVE IntrOffered'
  BY <1>4 DEF IntrOffered
<1>5. CASE TryAddSibling \/ TryParent \/ SiblingOfParent
  BY <1>2, <1>5 DEF TryAddSibling, TryParent, SiblingOfParent, GoOnAt
<1>6. CASE Sibling \/ GrowRoot
  BY <1>2, <1>6 DEF Sibling, GrowRoot, TryNewLeaf
<1>7. CASE AddToTarget \/ GrowRootNoChild \/ GrowRootOneChild \/ Overrun
  BY <1>1, <1>7 DEF AddToTarget, GrowRootNoChild, GrowRootOneChild, Return, Overrun
<1>8. ASSUME \/ \E ts \in BeginTimes : Open(ts)
             \/ OpenUnknownSerDes \/ OpenFails
             \/ \E ts \in CloseTimes \cup {end} : Close(ts)
             \/ \E offer \in Offers : AddIntervalOutOfRange(offer)
             \/ AddIntervalClosed
             \/ UNCHANGED vars
      PROVE  UNCHANGED <<pc, intr>>
  BY <1>8 DEF Open, OpenUnknownSerDes, OpenFails, Close, AddIntervalOutOfRange,
              AddIntervalClosed, vars
<1>9. QED
  BY <1>3, <1>4, <1>5, <1>6, <1>7, <1>8 DEF Next, CallStep

LEMMA FreshFits ==
    ASSUME RoomForOffers, TypeInv, BranchPlain, IntrOffered
    PROVE  FreshNodeAccepts
<1> SUFFICES ASSUME pc = "try", Target.intervals = <<>>, Len(Target.children) <= 2
             PROVE  IntervalFits(Target, intr)
  BY DEF FreshNodeAccepts
<1> DEFINE node == Target
<1>1. node \in MemoryNode /\ Plain(node)
  BY DEF Target, TypeInv, TypeOK, BranchPlain
<1>2. PICK offer \in Offers : intr.size = offer.size
  BY DEF IntrOffered
<1>3. /\ node.maxChildren \in MaxChildrenValues \cup {0}
      /\ node.curIntervalsSize = 0
      /\ Len(node.children) \in Nat /\ Len(node.children) <= 2
  BY <1>1 DEF MemoryNode, Plain, node
<1> HIDE DEF node
<1>4. /\ offer.size \in Nat /\ node.maxChildren \in Nat
      /\ offer.size + NodeHeaderBytes + (node.maxChildren + 2) * ChildPointerBytes
            <= NodeSize
      /\ NodeSize < SizeMod
  <2> DEFINE reserved == node.maxChildren
  <2>1. reserved \in MaxChildrenValues \cup {0}
    BY <1>3
  <2> HIDE DEF reserved
  <2>2. reserved \in Nat
    BY <2>1, MaxChildrenAssumption
  <2>3. offer.size \in Nat
    BY OffersAssumption
  <2>4. /\ offer.size + NodeHeaderBytes + (reserved + 2) * ChildPointerBytes <= NodeSize
        /\ NodeSize < SizeMod
    BY <2>1 DEF RoomForOffers
  <2>5. QED
    BY <2>2, <2>3, <2>4 DEF reserved
<1> DEFINE used == CurSize(node)
<1>5. used \in Nat /\ offer.size <= NodeSize - used
  <2> DEFINE reserved == node.maxChildren
             children == Len(node.children)
  <2>1. used = 32 + reserved * 16 + children * 16 + 0
    BY <1>3 DEF CurSize, HeaderSize, NodeHeaderBytes, ChildPointerBytes
  <2>2. offer.size + 32 + (reserved + 2) * 16 <= NodeSize
    BY <1>4 DEF NodeHeaderBytes, ChildPointerBytes
  <2>3. reserved \in Nat /\ children \in Nat /\ children <= 2
    BY <1>3, <1>4
  <2> HIDE DEF used, reserved, children
  <2>4. QED
    BY <1>4, <2>1, <2>2, <2>3, NodeSizeAssumption
<1> HIDE DEF used
<1>6. NodeSize - used \in 0..(SizeMod - 1)
  BY <1>4, <1>5, NodeSizeAssumption, SizeModAssumption
<1>7. (NodeSize - used) % SizeMod = NodeSize - used
  BY <1>6, SizeModAssumption
<1>8. QED
  BY <1>2, <1>5, <1>7 DEF IntervalFits, FreeSpace, used, node

\* A new leaf, and a new root with the children it starts with, take the interval
\* that made them necessary, when the arguments of open leave it room: then
\* addInterval does not call itself for ever.
THEOREM FreshNodesAccept ==
    ASSUME RoomForOffers PROVE Spec => []FreshNodeAccepts
<1>1. Init => BranchPlain /\ IntrOffered
  BY DEF Init, BranchPlain, IntrOffered
<1>2. TypeInv /\ BranchPlain /\ IntrOffered => FreshNodeAccepts
  BY FreshFits
<1>3. TreeInv => TypeInv
  BY DEF TreeInv
<1>4. QED
  BY <1>1, <1>2, <1>3, NextPlain, NextIntrOffered, TreeInvariant, PTL DEF Spec

(***************************************************************************)
(* No node outgrows its buffer, when the pointers a branch node has yet to *)
(* get always find room beside its intervals.                              *)
(***************************************************************************)

\* What the arguments of open must satisfy. The totals are the sums of sizes of
\* intervals offered: for intervals of one size, its multiples. A node with one
\* pointer counted beside those reserved has room for all of them, or for none of
\* the intervals that would take it.
RoomForPointers(totals) ==
    /\ totals \subseteq Nat /\ 0 \in totals
    /\ \A total \in totals, offer \in Offers : total + offer.size \in totals
    /\ \A max \in MaxChildrenValues \cup {0} :
          /\ NodeHeaderBytes + (max + max) * ChildPointerBytes <= NodeSize
          /\ \A total \in totals :
                total + NodeHeaderBytes + (max + 1) * ChildPointerBytes <= NodeSize =>
                    total + NodeHeaderBytes + (max + max) * ChildPointerBytes <= NodeSize
    /\ NodeSize < SizeMod

\* A node that reserves pointers has one, and has room for all of them.
KeepsRoom(node, max, totals) ==
    /\ node.maxChildren \in {0, max}
    /\ Len(node.children) <= node.maxChildren
    /\ node.maxChildren > 0 => Len(node.children) > 0
    /\ node.curIntervalsSize \in totals
    /\ node.curIntervalsSize + NodeHeaderBytes
            + (node.maxChildren + node.maxChildren) * ChildPointerBytes <= NodeSize

BranchKeepsRoom(totals) ==
    \A k \in 1..Len(latestBranch) : KeepsRoom(latestBranch[k], maxChildren, totals)

LEMMA LeafKeepsRoom ==
    ASSUME NEW totals, RoomForPointers(totals), NEW seq, NEW parent, NEW ts, NEW max
    PROVE  KeepsRoom(NewNode(seq, parent, ts, 0), max, totals)
<1> DEFINE node == NewNode(seq, parent, ts, 0)
<1>1. node.maxChildren = 0 /\ Len(node.children) = 0 /\ node.curIntervalsSize = 0
  BY DEF NewNode
<1> HIDE DEF node
<1>2. 0 \in totals /\ NodeHeaderBytes + (0 + 0) * ChildPointerBytes <= NodeSize
  BY DEF RoomForPointers
<1>3. KeepsRoom(node, max, totals)
  BY <1>1, <1>2, NodeSizeAssumption DEF KeepsRoom, NodeHeaderBytes, ChildPointerBytes
<1>4. QED
  BY <1>3 DEF node

\* A new node with its first pointer.
LEMMA NewParentKeepsRoom ==
    ASSUME NEW totals, RoomForPointers(totals), NEW seq, NEW parent, NEW ts,
           NEW max \in MaxChildrenValues, max > 0, NEW childTs, NEW child
    PROVE  KeepsRoom(AddChild(NewNode(seq, parent, ts, max), childTs, child), max, totals)
<1> DEFINE node == AddChild(NewNode(seq, parent, ts, max), childTs, child)
<1>1. node.maxChildren = max /\ Len(node.children) = 1 /\ node.curIntervalsSize = 0
  BY DEF NewNode, AddChild
<1> HIDE DEF node
<1>2. 0 \in totals /\ NodeHeaderBytes + (max + max) * ChildPointerBytes <= NodeSize
  BY DEF RoomForPointers
<1>3. max \in Nat
  BY MaxChildrenAssumption
<1>4. KeepsRoom(node, max, totals)
  BY <1>1, <1>2, <1>3, NodeSizeAssumption DEF KeepsRoom, NodeHeaderBytes, ChildPointerBytes
<1>5. QED
  BY <1>4 DEF node

LEMMA AddChildKeepsRoom ==
    ASSUME NEW totals, NEW max, NEW node \in MemoryNode, KeepsRoom(node, max, totals),
           ~IsFull(node), NEW ts, NEW seq
    PROVE  KeepsRoom(AddChild(node, ts, seq), max, totals)
<1>1. /\ AddChild(node, ts, seq).maxChildren = node.maxChildren
      /\ Len(AddChild(node, ts, seq).children) = Len(node.children) + 1
      /\ AddChild(node, ts, seq).curIntervalsSize = node.curIntervalsSize
  BY DEF AddChild, MemoryNode
<1>2. Len(node.children) \in Nat /\ node.maxChildren \in Nat
      /\ Len(node.children) < node.maxChildren
  BY DEF IsFull, MemoryNode
<1>3. QED
  BY <1>1, <1>2 DEF KeepsRoom

\* A node that changes in nothing that is counted.
LEMMA SameCountsKeepRoom ==
    ASSUME NEW totals, NEW max, NEW node, KeepsRoom(node, max, totals), NEW other,
           other.maxChildren = node.maxChildren, other.children = node.children,
           other.curIntervalsSize = node.curIntervalsSize
    PROVE  KeepsRoom(other, max, totals)
BY DEF KeepsRoom

LEMMA DrawnNodeKeepsRoom ==
    ASSUME NEW totals, RoomForPointers(totals), maxChildren \in MaxChildrenValues,
           maxChildren > 0, NEW parentSeq, NEW firstSeq, NEW count, NEW k
    PROVE  KeepsRoom(DrawnNode(parentSeq, firstSeq, count, k), maxChildren, totals)
BY LeafKeepsRoom, NewParentKeepsRoom DEF DrawnNode

LEMMA AddIntervalKeepsRoom ==
    ASSUME NEW totals, RoomForPointers(totals), NEW max \in MaxChildrenValues \cup {0},
           NEW node \in MemoryNode, KeepsRoom(node, max, totals),
           NEW interval \in Interval, NEW offer \in Offers, interval.size = offer.size,
           IntervalFits(node, interval)
    PROVE  KeepsRoom(AddIntervalToNode(node, interval), max, totals)
<1> DEFINE grown == AddIntervalToNode(node, interval)
           reserved == node.maxChildren
           children == Len(node.children)
           total == node.curIntervalsSize
           used == CurSize(node)
<1>1. /\ grown.maxChildren = reserved /\ Len(grown.children) = children
      /\ grown.curIntervalsSize = total + offer.size
  BY DEF AddIntervalToNode, MemoryNode
<1>2. used = 32 + reserved * 16 + children * 16 + total
  BY DEF CurSize, HeaderSize, NodeHeaderBytes, ChildPointerBytes
<1>3. /\ reserved \in Nat /\ children \in Nat /\ total \in Nat /\ offer.size \in Nat
      /\ reserved \in MaxChildrenValues \cup {0} /\ total \in totals
      /\ children <= reserved /\ (reserved > 0 => children > 0)
      /\ total + 32 + (reserved + reserved) * 16 <= NodeSize
  <2>1. reserved \in Nat /\ total \in Nat /\ node.children \in Seq(ChildPointer)
    BY DEF MemoryNode
  <2>2. children \in Nat
    BY <2>1
  <2>3. offer.size \in Nat
    BY OffersAssumption
  <2>4. /\ reserved \in MaxChildrenValues \cup {0} /\ total \in totals
        /\ children <= reserved /\ (reserved > 0 => children > 0)
    BY DEF KeepsRoom
  <2>5. total + 32 + (reserved + reserved) * 16 <= NodeSize
    BY DEF KeepsRoom, NodeHeaderBytes, ChildPointerBytes
  <2>6. QED
    BY <2>1, <2>2, <2>3, <2>4, <2>5
<1>4. interval.size <= (NodeSize - used) % SizeMod
  BY DEF IntervalFits, FreeSpace
<1>5. total + offer.size \in totals /\ NodeSize < SizeMod
  BY <1>3 DEF RoomForPointers
<1>6. (total + offer.size) + 32 + (reserved + 1) * 16 <= NodeSize =>
          (total + offer.size) + 32 + (reserved + reserved) * 16 <= NodeSize
  BY <1>3, <1>5 DEF RoomForPointers, NodeHeaderBytes, ChildPointerBytes
<1> HIDE DEF grown, reserved, children, total, used
<1>7. NodeSize - used \in 0..(SizeMod - 1)
  BY <1>2, <1>3, <1>5, NodeSizeAssumption, SizeModAssumption
<1>8. (NodeSize - used) % SizeMod = NodeSize - used
  BY <1>7, SizeModAssumption
<1>9. (total + offer.size) + 32 + (reserved + reserved) * 16 <= NodeSize
  <2>1. offer.size <= NodeSize - used
    BY <1>4, <1>8
  <2>2. CASE reserved = 0
    BY <1>2, <1>3, <2>1, <2>2, NodeSizeAssumption
  <2>3. CASE reserved > 0
    BY <1>2, <1>3, <1>6, <2>1, <2>3, NodeSizeAssumption
  <2>4. QED
    BY <1>3, <2>2, <2>3
<1>10. grown.maxChildren \in {0, max}
  BY <1>1 DEF KeepsRoom, reserved
<1>11. KeepsRoom(grown, max, totals)
  BY <1>1, <1>3, <1>5, <1>9, <1>10 DEF KeepsRoom, NodeHeaderBytes, ChildPointerBytes
<1>12. QED
  BY <1>11 DEF grown

LEMMA OpenKeepsRoom ==
    ASSUME NEW totals, RoomForPointers(totals), NEW ts \in BeginTimes, Open(ts)
    PROVE  BranchKeepsRoom(totals)'
<1> DEFINE leaf == NewNode(0, RootParent, ts, 0)
<1>1. KeepsRoom(leaf, maxChildren', totals)
  BY LeafKeepsRoom
<1>2. latestBranch' = <<leaf>>
  BY DEF Open
<1> HIDE DEF leaf
<1>3. Len(latestBranch') = 1 /\ latestBranch'[1] = leaf
  BY <1>2
<1>4. \A k \in 1..Len(latestBranch') : KeepsRoom(latestBranch'[k], maxChildren', totals)
  BY <1>1, <1>3
<1>5. QED
  BY <1>4 DEF BranchKeepsRoom, KeepsRoom

LEMMA CloseKeepsRoom ==
    ASSUME NEW totals, TypeInv, BranchKeepsRoom(totals),
           NEW ts \in CloseTimes \cup {end}, Close(ts)
    PROVE  BranchKeepsRoom(totals)'
<1>1. /\ latestBranch \in Seq(MemoryNode) /\ maxChildren' = maxChildren
      /\ latestBranch' = [k \in 1..Len(latestBranch) |-> CloseNode(latestBranch[k], end')]
  BY DEF Close, TypeInv, TypeOK
<1>2. ASSUME NEW k \in 1..Len(latestBranch)
      PROVE  KeepsRoom(CloseNode(latestBranch[k], end'), maxChildren, totals)
  <2> DEFINE node == latestBranch[k]
  <2>1. node \in MemoryNode /\ KeepsRoom(node, maxChildren, totals)
    BY <1>1 DEF BranchKeepsRoom
  <2>2. /\ CloseNode(node, end').maxChildren = node.maxChildren
        /\ CloseNode(node, end').children = node.children
        /\ CloseNode(node, end').curIntervalsSize = node.curIntervalsSize
    BY <2>1 DEF CloseNode, MemoryNode
  <2> HIDE DEF node
  <2>3. KeepsRoom(CloseNode(node, end'), maxChildren, totals)
    BY <2>1, <2>2, SameCountsKeepRoom
  <2>4. QED
    BY <2>3 DEF node
<1>3. \A k \in 1..Len(latestBranch') : KeepsRoom(latestBranch'[k], maxChildren', totals)
  BY <1>1, <1>2
<1>4. QED
  BY <1>3 DEF BranchKeepsRoom, KeepsRoom

LEMMA AddToTargetKeepsRoom ==
    ASSUME NEW totals, RoomForPointers(totals), TypeInv, IntrOffered,
           BranchKeepsRoom(totals), AddToTarget
    PROVE  BranchKeepsRoom(totals)'
<1>1. /\ latestBranch \in Seq(MemoryNode) /\ index \in 1..Len(latestBranch)
      /\ intr \in Interval /\ maxChildren \in MaxChildrenValues \cup {0}
      /\ maxChildren' = maxChildren
  BY DEF AddToTarget, TypeInv, TypeOK
<1>2. PICK offer \in Offers : intr.size = offer.size
  BY DEF AddToTarget, IntrOffered
<1> DEFINE node == latestBranch[index]
           grown == AddIntervalToNode(node, intr)
<1>3. latestBranch' = [latestBranch EXCEPT ![index] = grown]
  BY DEF AddToTarget
<1>4. /\ node \in MemoryNode /\ KeepsRoom(node, maxChildren, totals)
      /\ IntervalFits(node, intr)
  BY <1>1 DEF BranchKeepsRoom, AddToTarget, Target
<1>5. KeepsRoom(grown, maxChildren, totals)
  BY <1>1, <1>2, <1>4, AddIntervalKeepsRoom
<1> HIDE DEF node, grown
<1>6. \A k \in 1..Len(latestBranch') : KeepsRoom(latestBranch'[k], maxChildren', totals)
  BY <1>1, <1>3, <1>5 DEF BranchKeepsRoom
<1>7. QED
  BY <1>6 DEF BranchKeepsRoom, KeepsRoom

LEMMA SiblingKeepsRoom ==
    ASSUME NEW totals, RoomForPointers(totals), TypeInv, BranchKeepsRoom(totals), Sibling
    PROVE  BranchKeepsRoom(totals)'
<1>1. /\ latestBranch \in Seq(MemoryNode) /\ index \in 2..Len(latestBranch)
      /\ Len(latestBranch') = Len(latestBranch) /\ maxChildren \in MaxChildrenValues
      /\ maxChildren' = maxChildren
  BY SiblingBranch DEF Sibling, TypeInv, TypeOK
<1> DEFINE parent == latestBranch[index - 1]
<1>2. parent \in MemoryNode /\ KeepsRoom(parent, maxChildren, totals) /\ ~IsFull(parent)
  <2>1. index - 1 \in 1..Len(latestBranch)
    BY <1>1
  <2>2. parent \in MemoryNode /\ KeepsRoom(parent, maxChildren, totals)
    BY <1>1, <2>1 DEF BranchKeepsRoom
  <2>3. ~IsFull(parent)
    BY <1>1 DEF Sibling, ParentFull
  <2>4. QED
    BY <2>2, <2>3
<1>3. maxChildren > 0
  BY <1>2 DEF IsFull, KeepsRoom, MemoryNode
<1>4. ASSUME NEW k \in 1..Len(latestBranch)
      PROVE  KeepsRoom(latestBranch'[k], maxChildren, totals)
  <2>1. CASE k \in 1..(index - 2)
    BY <2>1, SiblingBranch DEF BranchKeepsRoom
  <2>2. CASE k = index - 1
    BY <1>2, <2>2, SiblingBranch, AddChildKeepsRoom
  <2>3. CASE k \in index..Len(latestBranch)
    BY <1>1, <1>3, <2>3, SiblingBranch, DrawnNodeKeepsRoom
  <2>4. QED
    BY <1>1, <2>1, <2>2, <2>3
<1>5. \A k \in 1..Len(latestBranch') : KeepsRoom(latestBranch'[k], maxChildren', totals)
  BY <1>1, <1>4
<1>6. QED
  BY <1>5 DEF BranchKeepsRoom, KeepsRoom

LEMMA NewRootKeepsRoom ==
    ASSUME NEW totals, RoomForPointers(totals), TypeInv, index \in 1..Len(latestBranch),
           maxChildren \in MaxChildrenValues, ~IsFull(NewRoot)
    PROVE  /\ NewRootWithChild \in MemoryNode /\ maxChildren > 0
           /\ KeepsRoom(NewRootWithChild, maxChildren, totals)
<1>1. NewRoot \in MemoryNode /\ NewRootWithChild \in MemoryNode
  BY NewRootType DEF TypeInv
<1>2. maxChildren > 0
  BY MaxChildrenAssumption DEF IsFull, NewRoot, NewNode
<1>3. KeepsRoom(NewRootWithChild, maxChildren, totals)
  BY <1>2, NewParentKeepsRoom DEF NewRoot, NewRootWithChild
<1>4. QED
  BY <1>1, <1>2, <1>3

LEMMA GrowRootKeepsRoom ==
    ASSUME NEW totals, RoomForPointers(totals), TypeInv, GrowRoot
    PROVE  BranchKeepsRoom(totals)'
<1>1. /\ index \in 1..Len(latestBranch) /\ Len(latestBranch) \in Nat
      /\ maxChildren \in MaxChildrenValues /\ maxChildren' = maxChildren
      /\ ~IsFull(NewRoot) /\ ~IsFull(NewRootWithChild)
  BY DEF GrowRoot, TypeInv, TypeOK
<1>2. KeepsRoom(latestBranch'[1], maxChildren, totals)
  BY <1>1, NewRootKeepsRoom, GrowRootBranch, AddChildKeepsRoom
<1>3. \A k \in 2..(Len(latestBranch) + 1) : KeepsRoom(latestBranch'[k], maxChildren, totals)
  BY <1>1, NewRootKeepsRoom, GrowRootBranch, DrawnNodeKeepsRoom
<1>4. \A k \in 1..Len(latestBranch') : KeepsRoom(latestBranch'[k], maxChildren', totals)
  BY <1>1, <1>2, <1>3, GrowRootBranch
<1>5. QED
  BY <1>4 DEF BranchKeepsRoom, KeepsRoom

LEMMA GrowRootOneChildKeepsRoom ==
    ASSUME NEW totals, RoomForPointers(totals), TypeInv, GrowRootOneChild
    PROVE  BranchKeepsRoom(totals)'
<1>1. /\ index \in 1..Len(latestBranch) /\ latestBranch' = <<NewRootWithChild>>
      /\ maxChildren \in MaxChildrenValues /\ maxChildren' = maxChildren
      /\ ~IsFull(NewRoot)
  BY DEF GrowRootOneChild, TypeInv, TypeOK
<1>2. KeepsRoom(NewRootWithChild, maxChildren, totals)
  BY <1>1, NewRootKeepsRoom
<1>3. \A k \in 1..Len(latestBranch') : KeepsRoom(latestBranch'[k], maxChildren', totals)
  BY <1>1, <1>2
<1>4. QED
  BY <1>3 DEF BranchKeepsRoom, KeepsRoom

LEMMA GrowRootNoChildKeepsRoom ==
    ASSUME NEW totals, TypeInv, BranchKeepsRoom(totals), GrowRootNoChild
    PROVE  BranchKeepsRoom(totals)'
<1>1. /\ index \in 1..Len(latestBranch) /\ latestBranch' = BranchUnderNewRoot
      /\ latestBranch \in Seq(MemoryNode) /\ maxChildren' = maxChildren
  BY DEF GrowRootNoChild, TypeInv, TypeOK
<1>2. /\ Len(latestBranch') = Len(latestBranch)
      /\ latestBranch'[1] = [latestBranch[1] EXCEPT !.parent = nodeCount]
      /\ \A k \in 2..Len(latestBranch) : latestBranch'[k] = latestBranch[k]
  BY <1>1, BranchUnderNewRootType DEF TypeInv
<1>3. latestBranch[1] \in MemoryNode /\ KeepsRoom(latestBranch[1], maxChildren, totals)
  BY <1>1 DEF BranchKeepsRoom
<1>4. /\ latestBranch'[1].maxChildren = latestBranch[1].maxChildren
      /\ latestBranch'[1].children = latestBranch[1].children
      /\ latestBranch'[1].curIntervalsSize = latestBranch[1].curIntervalsSize
  BY <1>2, <1>3 DEF MemoryNode
<1>5. KeepsRoom(latestBranch'[1], maxChildren, totals)
  BY <1>3, <1>4, SameCountsKeepRoom
<1>6. \A k \in 1..Len(latestBranch') : KeepsRoom(latestBranch'[k], maxChildren', totals)
  BY <1>1, <1>2, <1>5 DEF BranchKeepsRoom
<1>7. QED
  BY <1>6 DEF BranchKeepsRoom, KeepsRoom

LEMMA NextKeepsRoom ==
    ASSUME NEW totals, RoomForPointers(totals), TypeInv, IntrOffered,
           BranchKeepsRoom(totals), [Next]_vars
    PROVE  BranchKeepsRoom(totals)'
<1>1. CASE SameTree \/ OpenUnknownSerDes
  <2>1. CASE \E ts \in BeginTimes : Open(ts)
    BY <2>1, OpenKeepsRoom
  <2>2. CASE ~\E ts \in BeginTimes : Open(ts)
    <3>1. maxChildren' = maxChildren
      BY <2>2 DEF Next, CallStep, vars, OpenUnknownSerDes, OpenFails, Close, AddInterval,
                  AddIntervalOutOfRange, AddIntervalClosed, TryAddSibling, TryParent,
                  GoOnAt, AddToTarget, SiblingOfParent, Sibling, GrowRoot,
                  GrowRootNoChild, GrowRootOneChild, Overrun
    <3>2. latestBranch' = latestBranch
      BY <1>1 DEF SameTree, OpenUnknownSerDes
    <3>3. QED
      BY <3>1, <3>2 DEF BranchKeepsRoom, KeepsRoom
  <2>3. QED
    BY <2>1, <2>2
<1>2. CASE \E ts \in BeginTimes : Open(ts)
  BY <1>2, OpenKeepsRoom
<1>3. CASE \E ts \in CloseTimes \cup {end} : Close(ts)
  BY <1>3, CloseKeepsRoom
<1>4. QED
  BY <1>1, <1>2, <1>3, StepsOfNext, AddToTargetKeepsRoom, SiblingKeepsRoom,
     GrowRootKeepsRoom, GrowRootNoChildKeepsRoom, GrowRootOneChildKeepsRoom

LEMMA RoomFitsBuffer ==
    ASSUME NEW totals, NEW max, NEW node \in MemoryNode, KeepsRoom(node, max, totals)
    PROVE  FitsBuffer(node)
<1> DEFINE reserved == node.maxChildren
           children == Len(node.children)
           total == node.curIntervalsSize
<1>1. reserved \in Nat /\ children \in Nat /\ total \in Nat
  BY DEF MemoryNode
<1>2. children <= reserved /\ total + 32 + (reserved + reserved) * 16 <= NodeSize
  BY DEF KeepsRoom, NodeHeaderBytes, ChildPointerBytes
<1>3. FitsBuffer(node) <=> 32 + children * 16 + total <= NodeSize
  BY DEF FitsBuffer, SerializedSize, NodeHeaderBytes, ChildPointerBytes
<1> HIDE DEF reserved, children, total
<1>4. QED
  BY <1>1, <1>2, <1>3, NodeSizeAssumption

LEMMA NextBufferHolds ==
    ASSUME NEW totals, TypeInv, BranchKeepsRoom(totals), BufferHoldsNode, [Next]_vars
    PROVE  BufferHoldsNode'
<1>1. latestBranch \in Seq(MemoryNode)
  BY DEF TypeInv, TypeOK
<1>2. \A i \in 1..Len(latestBranch) : BufferFits(latestBranch, i)
  <2>1. ASSUME NEW k \in 1..Len(latestBranch) PROVE FitsBuffer(latestBranch[k])
    BY <1>1, RoomFitsBuffer DEF BranchKeepsRoom
  <2>2. QED
    BY <1>1, <2>1 DEF BufferFits
<1>3. ~Overrun
  BY <1>2 DEF Overrun
<1>4. QED
  BY <1>3 DEF BufferHoldsNode, Next, CallStep, vars, call, Open, OpenUnknownSerDes, OpenFails,
              Close, AddInterval, AddIntervalOutOfRange, AddIntervalClosed, TryAddSibling,
              TryParent, GoOnAt, AddToTarget, Return, SiblingOfParent, Sibling, TryNewLeaf,
              GrowRoot, GrowRootNoChild, GrowRootOneChild

\* No node is ever longer than the buffer it is serialized to, when the sizes of
\* the intervals and of the node leave the pointers room: the unsigned difference
\* that Node::intervalFits compares with then never wraps around.
THEOREM BufferHolds ==
    ASSUME NEW CONSTANT totals, RoomForPointers(totals)
    PROVE  Spec => []BufferHoldsNode
<1> DEFINE Rooms == BranchKeepsRoom(totals)
<1>1. Init => Rooms /\ IntrOffered /\ BufferHoldsNode
  BY DEF Init, BranchKeepsRoom, IntrOffered, BufferHoldsNode
<1>2. TypeInv /\ IntrOffered /\ Rooms /\ [Next]_vars => Rooms'
  BY NextKeepsRoom
<1>3. TypeInv /\ Rooms /\ BufferHoldsNode /\ [Next]_vars => BufferHoldsNode'
  BY NextBufferHolds
<1>4. TreeInv => TypeInv
  BY DEF TreeInv
<1>5. QED
  BY <1>1, <1>2, <1>3, <1>4, NextIntrOffered, TreeInvariant, PTL DEF Spec
=============================================================================
