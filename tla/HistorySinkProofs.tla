-------------------------- MODULE HistorySinkProofs --------------------------
(***************************************************************************)
(* Theorems about HistorySink, for every value of its constants.           *)
(***************************************************************************)
EXTENDS HistorySink, TLAPS

LEMMA NodeOfBranch ==
    ASSUME NEW branch \in Seq(MemoryNode), NEW k \in 1..Len(branch)
    PROVE  branch[k] \in MemoryNode /\ branch[k].seq \in Nat
<1>1. branch[k] \in MemoryNode
  OBVIOUS
<1>2. QED
  BY <1>1 DEF MemoryNode

LEMMA NewNodeType ==
    ASSUME NEW seq \in Nat, NEW parent \in Nat \cup {RootParent},
           NEW ts \in Timestamp, NEW max \in Nat
    PROVE  NewNode(seq, parent, ts, max) \in MemoryNode
BY DEF NewNode, MemoryNode, Timestamp

LEMMA AddChildType ==
    ASSUME NEW node \in MemoryNode, NEW ts \in Timestamp, NEW seq \in Nat
    PROVE  AddChild(node, ts, seq) \in MemoryNode
<1>1. [begin |-> ts, seq |-> seq] \in ChildPointer
  BY DEF ChildPointer
<1>2. Append(node.children, [begin |-> ts, seq |-> seq]) \in Seq(ChildPointer)
  BY <1>1 DEF MemoryNode
<1>3. QED
  BY <1>2 DEF AddChild, MemoryNode

LEMMA AddChildFields ==
    ASSUME NEW node \in MemoryNode, NEW ts \in Timestamp, NEW seq \in Nat
    PROVE  /\ AddChild(node, ts, seq).seq = node.seq
           /\ AddChild(node, ts, seq).parent = node.parent
           /\ AddChild(node, ts, seq).begin = node.begin
           /\ AddChild(node, ts, seq).end = node.end
           /\ AddChild(node, ts, seq).closed = node.closed
           /\ AddChild(node, ts, seq).intervals = node.intervals
           /\ AddChild(node, ts, seq).children =
                 Append(node.children, [begin |-> ts, seq |-> seq])
BY DEF AddChild, MemoryNode

LEMMA CloseNodeType ==
    ASSUME NEW node \in MemoryNode, NEW ts \in Timestamp
    PROVE  CloseNode(node, ts) \in MemoryNode
BY DEF CloseNode, MemoryNode

LEMMA SerializeType ==
    ASSUME NEW node \in MemoryNode
    PROVE  Serialize(node) \in WrittenNode
BY DEF Serialize, MemoryNode, WrittenNode

LEMMA AddIntervalToNodeType ==
    ASSUME NEW node \in MemoryNode, NEW interval \in Interval
    PROVE  AddIntervalToNode(node, interval) \in MemoryNode
<1>1. Append(node.intervals, interval) \in Seq(Interval)
  BY DEF MemoryNode
<1>2. node.curIntervalsSize + interval.size \in Nat /\ interval.end \in Timestamp
  BY DEF MemoryNode, Interval
<1>3. QED
  BY <1>1, <1>2 DEF AddIntervalToNode, MemoryNode

\* A committed file has all the nodes of the file before, and the nodes of the
\* branch from position i down, closed.
LEMMA CommitType ==
    ASSUME NEW branch \in Seq(MemoryNode), NEW i \in Nat \ {0},
           DOMAIN file \subseteq Nat, file \in [DOMAIN file -> WrittenNode],
           end \in Timestamp
    PROVE  /\ CommitNodesDownFromIndex(branch, i) \in
                 [DOMAIN file \cup SeqsDownFrom(branch, i) -> WrittenNode]
           /\ SeqsDownFrom(branch, i) \subseteq Nat
<1>1. \A k \in i..Len(branch) : branch[k] \in MemoryNode
  OBVIOUS
<1>2. SeqsDownFrom(branch, i) \subseteq Nat
  BY <1>1 DEF SeqsDownFrom, MemoryNode
<1>3. ASSUME NEW seq \in SeqsDownFrom(branch, i)
      PROVE  CommittedNode(branch, i, seq) \in WrittenNode
  <2>1. PICK k \in i..Len(branch) :
            CommittedNode(branch, i, seq) = Serialize(CloseNode(branch[k], end))
    BY DEF SeqsDownFrom, CommittedNode
  <2>2. QED
    BY <2>1, <1>1, CloseNodeType, SerializeType
<1>4. QED
  BY <1>2, <1>3 DEF CommitNodesDownFromIndex

LEMMA DrawnNodeType ==
    ASSUME NEW parentSeq \in Nat, NEW firstSeq \in Nat, NEW count \in Nat,
           NEW k \in 1..count, end \in Timestamp, maxChildren \in Nat
    PROVE  /\ DrawnNode(parentSeq, firstSeq, count, k) \in MemoryNode
           /\ DrawnNode(parentSeq, firstSeq, count, k).seq = firstSeq + k - 1
           /\ DrawnNode(parentSeq, firstSeq, count, k).parent =
                 IF k = 1 THEN parentSeq ELSE firstSeq + k - 2
<1> DEFINE seq == firstSeq + k - 1
           parent == IF k = 1 THEN parentSeq ELSE seq - 1
<1>1. seq \in Nat /\ seq + 1 \in Nat /\ parent \in Nat
  OBVIOUS
<1>2. seq - 1 = firstSeq + k - 2
  OBVIOUS
<1>3. CASE k = count
  <2>1. DrawnNode(parentSeq, firstSeq, count, k) = NewNode(seq, parent, end, 0)
    BY <1>3 DEF DrawnNode
  <2>2. NewNode(seq, parent, end, 0) \in MemoryNode
    BY <1>1, NewNodeType
  <2>3. QED
    BY <1>2, <2>1, <2>2 DEF NewNode
<1>4. CASE k < count
  <2> DEFINE node == NewNode(seq, parent, end, maxChildren)
  <2>1. DrawnNode(parentSeq, firstSeq, count, k) = AddChild(node, end, seq + 1)
    BY <1>4 DEF DrawnNode
  <2>2. node \in MemoryNode
    BY <1>1, NewNodeType
  <2>3. AddChild(node, end, seq + 1) \in MemoryNode
    BY <1>1, <2>2, AddChildType
  <2>4. AddChild(node, end, seq + 1).seq = seq
        /\ AddChild(node, end, seq + 1).parent = parent
    BY DEF NewNode, AddChild
  <2>5. QED
    BY <1>2, <2>1, <2>3, <2>4
<1>5. QED
  BY <1>3, <1>4

LEMMA DrawnNodeFields ==
    ASSUME NEW parentSeq, NEW firstSeq, NEW count, NEW k
    PROVE  /\ DrawnNode(parentSeq, firstSeq, count, k).begin = end
           /\ DrawnNode(parentSeq, firstSeq, count, k).intervals = <<>>
           /\ ~DrawnNode(parentSeq, firstSeq, count, k).closed
BY DEF DrawnNode, NewNode, AddChild

LEMMA DrawnNodeChildren ==
    ASSUME NEW parentSeq \in Nat, NEW firstSeq \in Nat, NEW count \in Nat,
           NEW k \in 1..count, k < count
    PROVE  DrawnNode(parentSeq, firstSeq, count, k).children =
              Append(<<>>, [begin |-> end, seq |-> firstSeq + k])
<1>1. firstSeq + k - 1 + 1 = firstSeq + k
  OBVIOUS
<1>2. QED
  BY <1>1 DEF DrawnNode, NewNode, AddChild

\* A drawn branch keeps the nodes above parentIndex, and each node from there
\* on has the next one as its last child.
LEMMA DrawnBranch ==
    ASSUME NEW branch \in Seq(MemoryNode),
           NEW parentIndex \in 1..Len(branch),
           NEW height \in Nat, height > parentIndex,
           NEW firstSeq \in Nat, end \in Timestamp, maxChildren \in Nat,
           NEW drawn,
           drawn = DrawBranchFromIndex(branch, parentIndex, height, firstSeq)
    PROVE  /\ drawn \in Seq(MemoryNode)
           /\ Len(drawn) = height
           /\ \A k \in 1..(parentIndex - 1) : drawn[k] = branch[k]
           /\ drawn[parentIndex] = AddChild(branch[parentIndex], end, firstSeq)
           /\ \A k \in (parentIndex + 1)..height :
                 drawn[k] = DrawnNode(branch[parentIndex].seq, firstSeq,
                                      height - parentIndex, k - parentIndex)
<1>1. ASSUME NEW k \in (parentIndex + 1)..height
      PROVE  drawn[k] \in MemoryNode /\
             drawn[k] = DrawnNode(branch[parentIndex].seq, firstSeq,
                                  height - parentIndex, k - parentIndex)
  <2>1. drawn[k] = DrawnNode(branch[parentIndex].seq, firstSeq,
                             height - parentIndex, k - parentIndex)
    BY DEF DrawBranchFromIndex
  <2>2. branch[parentIndex].seq \in Nat
    BY NodeOfBranch
  <2>3. height - parentIndex \in Nat /\ k - parentIndex \in 1..(height - parentIndex)
    OBVIOUS
  <2>4. DrawnNode(branch[parentIndex].seq, firstSeq, height - parentIndex,
                  k - parentIndex) \in MemoryNode
    BY <2>2, <2>3, DrawnNodeType
  <2>5. QED
    BY <2>1, <2>4
<1>2. drawn[parentIndex] = AddChild(branch[parentIndex], end, firstSeq)
      /\ drawn[parentIndex] \in MemoryNode
  <2>1. drawn[parentIndex] = AddChild(branch[parentIndex], end, firstSeq)
    BY DEF DrawBranchFromIndex
  <2>2. branch[parentIndex] \in MemoryNode
    OBVIOUS
  <2>3. QED
    BY <2>1, <2>2, AddChildType
<1>3. \A k \in 1..(parentIndex - 1) : drawn[k] = branch[k]
                                      /\ drawn[k] \in MemoryNode
  BY DEF DrawBranchFromIndex
<1>4. DOMAIN drawn = 1..height
  BY DEF DrawBranchFromIndex
<1>5. drawn = [k \in 1..height |-> drawn[k]]
  BY DEF DrawBranchFromIndex
<1>6. \A k \in 1..height : drawn[k] \in MemoryNode
  <2> TAKE k \in 1..height
  <2>1. k \in 1..(parentIndex - 1) \/ k = parentIndex \/ k \in (parentIndex + 1)..height
    OBVIOUS
  <2>2. QED
    BY <1>1, <1>2, <1>3, <2>1
<1>7. drawn \in Seq(MemoryNode) /\ Len(drawn) = height
  BY <1>5, <1>6
<1>8. QED
  BY <1>1, <1>2, <1>3, <1>7

(***************************************************************************)
(* Types, and the root takes every interval that reaches it.               *)
(***************************************************************************)
TypeInv == TypeOK /\ RootTakesAll

USE DEF Timestamp, attributes, disk, call

LEMMA SubmitType ==
    ASSUME NEW offer \in Offers, NEW serial \in Nat
    PROVE  LET interval == Submit(offer, serial)
           IN  /\ interval \in Interval
               /\ interval.serial = serial
               /\ interval.begin = offer.begin /\ interval.end = offer.end
BY OffersAssumption DEF Submit, Interval

LEMMA NoIntervalType == NoInterval \in Interval
BY DEF NoInterval, Interval

LEMMA InitTypeInv == Init => TypeInv
<1> SUFFICES ASSUME Init PROVE TypeInv
  OBVIOUS
<1>1. file \in [DOMAIN file -> WrittenNode] /\ DOMAIN file \subseteq Nat
  BY DEF Init
<1>2. header \in [nodeCount : Nat, root : Nat \cup {RootParent}]
  BY DEF Init, NoHeader
<1>3. latestBranch \in Seq(MemoryNode) /\ adds \in 0..MaxAdds
  BY MaxAddsAssumption DEF Init
<1>4. /\ ~streamOpen /\ ~opened
      /\ begin = 0 /\ end = 0 /\ maxChildren = 0 /\ nodeCount = 0 /\ root = 0
      /\ pc = "idle" /\ intr \in Interval /\ index = 0 /\ outcome = "ok"
  BY NoIntervalType DEF Init
<1>5. TypeOK
  <2>1. streamOpen \in BOOLEAN /\ opened \in BOOLEAN
    BY DEF Init
  <2>2. QED
    BY <1>1, <1>2, <1>3, <1>4, <2>1 DEF TypeOK
<1>6. RootTakesAll
  BY <1>4 DEF RootTakesAll
<1>7. QED
  BY <1>5, <1>6 DEF TypeInv

LEMMA OpenTypeInv ==
    ASSUME TypeInv, NEW ts \in BeginTimes, Open(ts) PROVE TypeInv'
<1>1. ts \in Int
  BY TimesAssumption
<1> DEFINE leaf == NewNode(0, RootParent, ts, 0)
<1>2. leaf \in MemoryNode
  BY <1>1, NewNodeType
<1>3. leaf.begin = ts
  BY DEF NewNode
<1>4. latestBranch' = <<leaf>>
  BY DEF Open
<1> HIDE DEF leaf
<1>5. latestBranch' \in Seq(MemoryNode) /\ Len(latestBranch') = 1
      /\ latestBranch'[1] = leaf
  BY <1>2, <1>4
<1>6. (DOMAIN file \subseteq Nat /\ file \in [DOMAIN file -> WrittenNode])'
  BY DEF Open, Truncated
<1>7. header' \in [nodeCount : Nat, root : Nat \cup {RootParent}]
  BY DEF Open, Truncated, NoHeader
<1>8. TypeOK'
  <2>1. maxChildren' \in Nat /\ maxChildren' \in MaxChildrenValues
    BY MaxChildrenAssumption DEF Open
  <2>2. QED
    BY <1>1, <1>5, <1>6, <1>7, <2>1 DEF Open, TypeInv, TypeOK
<1>9. RootTakesAll'
  BY <1>3, <1>5 DEF Open, TypeInv, RootTakesAll
<1>10. QED
  BY <1>8, <1>9 DEF TypeInv

LEMMA OpenUnknownSerDesTypeInv ==
    ASSUME TypeInv, OpenUnknownSerDes PROVE TypeInv'
<1>1. (DOMAIN file \subseteq Nat /\ file \in [DOMAIN file -> WrittenNode])'
  BY DEF OpenUnknownSerDes, Truncated
<1>2. header' \in [nodeCount : Nat, root : Nat \cup {RootParent}]
  BY DEF OpenUnknownSerDes, Truncated, NoHeader
<1>3. QED
  BY <1>1, <1>2 DEF OpenUnknownSerDes, TypeInv, TypeOK, RootTakesAll

LEMMA CloseTypeInv ==
    ASSUME TypeInv, NEW ts \in CloseTimes \cup {end}, Close(ts) PROVE TypeInv'
<1>1. end' \in Int
  BY TimesAssumption DEF Close, ClosingEnd, TypeInv, TypeOK
<1>2. \A k \in 1..Len(latestBranch) : CloseNode(latestBranch[k], end') \in MemoryNode
  BY <1>1, CloseNodeType, NodeOfBranch DEF TypeInv, TypeOK
<1>3. latestBranch' \in Seq(MemoryNode)
  BY <1>2 DEF Close, ClosingEnd, TypeInv, TypeOK
<1>4. /\ DOMAIN file \subseteq Nat
      /\ file \in [DOMAIN file -> WrittenNode]
      /\ end \in Timestamp
  BY DEF TypeInv, TypeOK
<1>5. /\ file' \in [DOMAIN file \cup SeqsDownFrom(latestBranch', 1) -> WrittenNode]
      /\ SeqsDownFrom(latestBranch', 1) \subseteq Nat
  <2>1. 1 \in Nat \ {0}
    OBVIOUS
  <2>2. QED
    BY <1>3, <1>4, <2>1, CommitType DEF Close
<1>7. (DOMAIN file \subseteq Nat /\ file \in [DOMAIN file -> WrittenNode])'
  BY <1>4, <1>5
<1>8. header' \in [nodeCount : Nat, root : Nat \cup {RootParent}]
  BY DEF Close, ClosingEnd, TypeInv, TypeOK
<1>9. QED
  BY <1>1, <1>3, <1>7, <1>8 DEF Close, ClosingEnd, TypeInv, TypeOK, RootTakesAll

LEMMA AddIntervalTypeInv ==
    ASSUME TypeInv, NEW offer \in Offers, AddInterval(offer) PROVE TypeInv'
<1>1. adds + 1 \in Nat /\ adds + 1 \in 0..MaxAdds
  BY MaxAddsAssumption DEF AddInterval, InRange, TypeInv, TypeOK
<1>2. /\ intr' \in Interval
      /\ intr'.begin = offer.begin /\ intr'.end = offer.end
  BY <1>1, SubmitType DEF AddInterval
<1>3. opened' /\ index' \in Nat /\ index' \in 1..Len(latestBranch')
  BY DEF AddInterval, InRange, TypeInv, TypeOK, RootTakesAll
<1>4. QED
  BY <1>1, <1>2, <1>3 DEF AddInterval, InRange, TypeInv, TypeOK, RootTakesAll

LEMMA AddToTargetTypeInv ==
    ASSUME TypeInv, AddToTarget PROVE TypeInv'
<1> DEFINE node == AddIntervalToNode(Target, intr)
<1>1. latestBranch \in Seq(MemoryNode) /\ index \in 1..Len(latestBranch)
      /\ intr \in Interval
  BY DEF AddToTarget, TypeInv, TypeOK
<1>2. node \in MemoryNode /\ node.begin = Target.begin
  <2>1. Target \in MemoryNode
    BY <1>1 DEF Target
  <2>2. AddIntervalToNode(Target, intr).begin = Target.begin
    BY <2>1 DEF AddIntervalToNode, MemoryNode
  <2>3. QED
    BY <1>1, <2>1, <2>2, AddIntervalToNodeType
<1>3. latestBranch' = [latestBranch EXCEPT ![index] = node]
  BY DEF AddToTarget, Target
<1> HIDE DEF node
<1>4. latestBranch' \in Seq(MemoryNode) /\ Len(latestBranch') = Len(latestBranch)
  BY <1>1, <1>2, <1>3
<1>5. Len(latestBranch) >= 1 => latestBranch'[1].begin = latestBranch[1].begin
  BY <1>1, <1>2, <1>3 DEF Target
<1>6. intr.end \in Int
  BY <1>1 DEF Interval
<1>7. QED
  BY <1>1, <1>4, <1>5, <1>6, NoIntervalType
     DEF AddToTarget, Return, TypeInv, TypeOK, RootTakesAll

\* Going on at another node of the branch changes nothing else.
LEMMA GoOnAtTypeInv ==
    ASSUME TypeInv, NEW i \in 1..Len(latestBranch), GoOnAt(i) PROVE TypeInv'
<1>1. latestBranch \in Seq(MemoryNode)
  BY DEF TypeInv, TypeOK
<1>2. i \in Nat
  BY <1>1
<1>3. index' \in Nat /\ index' \in 1..Len(latestBranch')
  BY <1>2 DEF GoOnAt
<1>4. TypeOK'
  BY <1>3 DEF GoOnAt, TypeInv, TypeOK
<1>5. RootTakesAll'
  BY DEF GoOnAt, TypeInv, RootTakesAll
<1>6. QED
  BY <1>4, <1>5 DEF TypeInv

LEMMA TryParentTypeInv ==
    ASSUME TypeInv, TryParent PROVE TypeInv'
<1>1. index # 1
  <2>1. /\ latestBranch[1].begin = begin
        /\ intr.begin >= begin
        /\ intr.begin < latestBranch[index].begin
    BY DEF TryParent, Target, TypeInv, TypeOK, RootTakesAll
  <2>2. intr.begin \in Int /\ begin \in Int
    BY DEF TypeInv, TypeOK, Interval, Timestamp
  <2>3. QED
    BY <2>1, <2>2
<1>2. index - 1 \in 1..Len(latestBranch)
  <2>1. latestBranch \in Seq(MemoryNode) /\ index \in 1..Len(latestBranch)
    BY DEF TryParent, TypeInv, TypeOK
  <2>2. QED
    BY <1>1, <2>1
<1>3. QED
  BY <1>2, GoOnAtTypeInv DEF TryParent

\* The step of addSiblingNode that draws a branch, whatever it starts from.
LEMMA SiblingTypeInv ==
    ASSUME TypeInv, Sibling PROVE TypeInv'
<1>1. /\ latestBranch \in Seq(MemoryNode) /\ index \in 1..Len(latestBranch)
      /\ index \in Nat \ {0} /\ index > 1
      /\ DOMAIN file \subseteq Nat /\ file \in [DOMAIN file -> WrittenNode]
      /\ nodeCount \in Nat /\ end \in Timestamp /\ maxChildren \in Nat
  BY DEF Sibling, TypeInv, TypeOK
<1>2. /\ file' \in [DOMAIN file \cup SeqsDownFrom(latestBranch, index) -> WrittenNode]
      /\ SeqsDownFrom(latestBranch, index) \subseteq Nat
  BY <1>1, CommitType DEF Sibling
<1>3. (DOMAIN file \subseteq Nat /\ file \in [DOMAIN file -> WrittenNode])'
  BY <1>1, <1>2
<1>4. /\ latestBranch' \in Seq(MemoryNode)
      /\ Len(latestBranch') = Len(latestBranch)
      /\ index > 2 => latestBranch'[1] = latestBranch[1]
      /\ index = 2 => latestBranch'[1] = AddChild(latestBranch[1], end, nodeCount)
  <2>1. /\ index - 1 \in 1..Len(latestBranch)
        /\ Len(latestBranch) \in Nat /\ Len(latestBranch) > index - 1
    BY <1>1
  <2> DEFINE above == index - 1
             height == Len(latestBranch)
             drawn == DrawBranchFromIndex(latestBranch, above, height, nodeCount)
  <2>2. above \in 1..Len(latestBranch) /\ height \in Nat /\ height > above
    BY <2>1
  <2>3. index > 2 => 1 \in 1..(above - 1)
    BY <1>1
  <2>4. index = 2 => above = 1
    OBVIOUS
  <2> HIDE DEF above, height
  <2>4a. drawn = DrawBranchFromIndex(latestBranch, above, height, nodeCount)
    OBVIOUS
  <2> HIDE DEF drawn
  <2>5. /\ drawn \in Seq(MemoryNode)
        /\ Len(drawn) = height
        /\ \A k \in 1..(above - 1) : drawn[k] = latestBranch[k]
        /\ drawn[above] = AddChild(latestBranch[above], end, nodeCount)
    BY <1>1, <2>2, <2>4a, DrawnBranch
  <2>6. latestBranch' = drawn
    BY DEF Sibling, above, height, drawn
  <2>7. QED
    BY <1>1, <2>3, <2>4, <2>5, <2>6 DEF height
<1>5. latestBranch'[1].begin = latestBranch[1].begin
  <2>1. latestBranch[1] \in MemoryNode
    BY <1>1
  <2>2. AddChild(latestBranch[1], end, nodeCount).begin = latestBranch[1].begin
    BY <1>1, <2>1, AddChildFields
  <2>3. QED
    BY <1>1, <1>4, <2>2
<1>6. nodeCount' \in Nat
  BY <1>1 DEF Sibling
<1>7. index' \in 1..Len(latestBranch') /\ index' \in Nat
  BY <1>1, <1>4 DEF Sibling, TryNewLeaf
<1>8. QED
  BY <1>1, <1>3, <1>4, <1>5, <1>6, <1>7
     DEF Sibling, TryNewLeaf, TypeInv, TypeOK, RootTakesAll

\* The old root under the new one.
LEMMA BranchUnderNewRootType ==
    ASSUME TypeOK, index \in 1..Len(latestBranch)
    PROVE  /\ BranchUnderNewRoot \in Seq(MemoryNode)
           /\ Len(BranchUnderNewRoot) = Len(latestBranch)
           /\ BranchUnderNewRoot[1] = [latestBranch[1] EXCEPT !.parent = nodeCount]
           /\ BranchUnderNewRoot[1].begin = latestBranch[1].begin
           /\ \A k \in 1..Len(latestBranch) :
                 BranchUnderNewRoot[k].seq = latestBranch[k].seq
           /\ \A k \in 2..Len(latestBranch) :
                 BranchUnderNewRoot[k] = latestBranch[k]
<1> DEFINE node == [latestBranch[1] EXCEPT !.parent = nodeCount]
<1>1. latestBranch \in Seq(MemoryNode) /\ nodeCount \in Nat /\ 1 \in 1..Len(latestBranch)
  BY DEF TypeOK
<1>2. latestBranch[1] \in MemoryNode
  BY <1>1
<1>3. node \in MemoryNode /\ node.begin = latestBranch[1].begin
      /\ node.seq = latestBranch[1].seq
  BY <1>1, <1>2 DEF MemoryNode
<1>4. BranchUnderNewRoot = [latestBranch EXCEPT ![1] = node]
  BY DEF BranchUnderNewRoot
<1> HIDE DEF node
<1>5. QED
  BY <1>1, <1>3, <1>4 DEF node

LEMMA NewRootType ==
    ASSUME TypeOK, index \in 1..Len(latestBranch)
    PROVE  /\ NewRoot \in MemoryNode /\ NewRootWithChild \in MemoryNode
           /\ NewRootWithChild.seq = nodeCount
           /\ NewRootWithChild.parent = RootParent
           /\ NewRootWithChild.begin = begin
           /\ NewRootWithChild.end = begin
           /\ ~NewRootWithChild.closed
           /\ NewRootWithChild.intervals = <<>>
           /\ NewRootWithChild.children =
                 Append(<<>>, [begin |-> latestBranch[1].begin,
                               seq |-> latestBranch[1].seq])
<1>1. NewRoot \in MemoryNode
  BY NewNodeType DEF NewRoot, TypeOK
<1>2. /\ NewRoot.seq = nodeCount /\ NewRoot.parent = RootParent
      /\ NewRoot.begin = begin /\ NewRoot.end = begin
      /\ ~NewRoot.closed
      /\ NewRoot.intervals = <<>> /\ NewRoot.children = <<>>
  BY DEF NewRoot, NewNode
<1>3. latestBranch[1] \in MemoryNode
  BY DEF TypeOK
<1>4. latestBranch[1].begin \in Timestamp /\ latestBranch[1].seq \in Nat
  BY <1>3 DEF MemoryNode
<1>5. NewRootWithChild \in MemoryNode
  BY <1>1, <1>4, AddChildType DEF NewRootWithChild
<1> DEFINE old == NewRoot
           grown == AddChild(old, latestBranch[1].begin, latestBranch[1].seq)
<1>6. old \in MemoryNode /\ grown = NewRootWithChild
  BY <1>1 DEF NewRootWithChild
<1>7. /\ grown.seq = old.seq /\ grown.parent = old.parent
      /\ grown.begin = old.begin /\ grown.end = old.end
      /\ grown.closed = old.closed /\ grown.intervals = old.intervals
      /\ grown.children = Append(old.children, [begin |-> latestBranch[1].begin,
                                               seq |-> latestBranch[1].seq])
  <2> HIDE DEF old
  <2>1. QED
    BY <1>4, <1>6, AddChildFields
<1>8. QED
  BY <1>1, <1>2, <1>5, <1>6, <1>7

LEMMA CommitUnderNewRootType ==
    ASSUME TypeInv, index \in 1..Len(latestBranch),
           file' = CommitNodesDownFromIndex(BranchUnderNewRoot, 1)
    PROVE  (DOMAIN file \subseteq Nat /\ file \in [DOMAIN file -> WrittenNode])'
<1>1. /\ DOMAIN file \subseteq Nat /\ file \in [DOMAIN file -> WrittenNode]
      /\ end \in Timestamp /\ 1 \in Nat \ {0}
  BY DEF TypeInv, TypeOK
<1>2. BranchUnderNewRoot \in Seq(MemoryNode)
  BY BranchUnderNewRootType DEF TypeInv
<1>3. /\ file' \in [DOMAIN file \cup SeqsDownFrom(BranchUnderNewRoot, 1) -> WrittenNode]
      /\ SeqsDownFrom(BranchUnderNewRoot, 1) \subseteq Nat
  BY <1>1, <1>2, CommitType
<1>4. QED
  BY <1>1, <1>3

LEMMA GrowRootTypeInv ==
    ASSUME TypeInv, GrowRoot PROVE TypeInv'
<1>1. /\ latestBranch \in Seq(MemoryNode) /\ index \in 1..Len(latestBranch)
      /\ Len(latestBranch) \in Nat /\ Len(latestBranch) >= 1
      /\ nodeCount \in Nat /\ end \in Timestamp /\ maxChildren \in Nat /\ opened
  BY DEF GrowRoot, TypeInv, TypeOK
<1>2. (DOMAIN file \subseteq Nat /\ file \in [DOMAIN file -> WrittenNode])'
  BY <1>1, CommitUnderNewRootType DEF GrowRoot
<1>3. NewRootWithChild \in MemoryNode /\ NewRootWithChild.begin = begin
  BY <1>1, NewRootType DEF TypeInv
<1>4. /\ latestBranch' \in Seq(MemoryNode)
      /\ Len(latestBranch') = Len(latestBranch) + 1
      /\ latestBranch'[1] = AddChild(NewRootWithChild, end, nodeCount + 1)
  <2>1. /\ <<NewRootWithChild>> \in Seq(MemoryNode)
        /\ Len(<<NewRootWithChild>>) = 1
        /\ <<NewRootWithChild>>[1] = NewRootWithChild
        /\ 1 \in 1..1 /\ nodeCount + 1 \in Nat
        /\ Len(latestBranch) + 1 \in Nat /\ Len(latestBranch) + 1 > 1
    BY <1>1, <1>3
  <2> DEFINE top == <<NewRootWithChild>>
             one == 1
             height == Len(latestBranch) + 1
             firstSeq == nodeCount + 1
             drawn == DrawBranchFromIndex(top, one, height, firstSeq)
  <2>2. /\ top \in Seq(MemoryNode) /\ one \in 1..Len(top)
        /\ height \in Nat /\ height > one /\ firstSeq \in Nat
        /\ end \in Timestamp /\ maxChildren \in Nat
        /\ drawn = DrawBranchFromIndex(top, one, height, firstSeq)
    BY <1>1, <2>1
  <2> HIDE DEF top, one, height, firstSeq, drawn
  <2>3. /\ drawn \in Seq(MemoryNode)
        /\ Len(drawn) = height
        /\ drawn[one] = AddChild(top[one], end, firstSeq)
    BY <2>2, DrawnBranch
  <2>4. latestBranch' = drawn
    BY DEF GrowRoot, top, one, height, firstSeq, drawn
  <2>5. top[one] = NewRootWithChild /\ one = 1
        /\ height = Len(latestBranch) + 1 /\ firstSeq = nodeCount + 1
    BY DEF top, one, height, firstSeq
  <2>6. QED
    BY <2>3, <2>4, <2>5
<1>5. latestBranch'[1].begin = begin
  <2>1. AddChild(NewRootWithChild, end, nodeCount + 1).begin = NewRootWithChild.begin
    <3>1. nodeCount + 1 \in Nat
      BY <1>1
    <3>2. QED
      BY <1>1, <1>3, <3>1, AddChildFields
  <2>2. QED
    BY <1>3, <1>4, <2>1
<1>6. nodeCount' \in Nat /\ root' \in Nat
  BY <1>1 DEF GrowRoot
<1>7. index' \in 1..Len(latestBranch') /\ index' \in Nat
  BY <1>1, <1>4 DEF GrowRoot, TryNewLeaf
<1>8. RootTakesAll'
  BY <1>4, <1>5, <1>1 DEF GrowRoot, TryNewLeaf, TypeInv, TypeOK, RootTakesAll
<1>9. TypeOK'
  BY <1>1, <1>2, <1>4, <1>6, <1>7 DEF GrowRoot, TryNewLeaf, TypeInv, TypeOK
<1>10. QED
  BY <1>8, <1>9 DEF TypeInv

LEMMA GrowRootNoChildTypeInv ==
    ASSUME TypeInv, GrowRootNoChild PROVE TypeInv'
<1>1. index \in 1..Len(latestBranch) /\ nodeCount \in Nat /\ opened
  BY DEF GrowRootNoChild, TypeInv, TypeOK
<1>2. /\ latestBranch' \in Seq(MemoryNode)
      /\ Len(latestBranch') = Len(latestBranch)
      /\ latestBranch'[1].begin = latestBranch[1].begin
  BY <1>1, BranchUnderNewRootType DEF GrowRootNoChild, TypeInv
<1>3. nodeCount' \in Nat /\ root' \in Nat
  BY <1>1 DEF GrowRootNoChild
<1>4. QED
  BY <1>2, <1>3, NoIntervalType
     DEF GrowRootNoChild, Return, TypeInv, TypeOK, RootTakesAll

LEMMA GrowRootOneChildTypeInv ==
    ASSUME TypeInv, GrowRootOneChild PROVE TypeInv'
<1>1. index \in 1..Len(latestBranch) /\ nodeCount \in Nat /\ opened
  BY DEF GrowRootOneChild, TypeInv, TypeOK
<1>2. (DOMAIN file \subseteq Nat /\ file \in [DOMAIN file -> WrittenNode])'
  BY <1>1, CommitUnderNewRootType DEF GrowRootOneChild
<1>3. NewRootWithChild \in MemoryNode /\ NewRootWithChild.begin = begin
  BY <1>1, NewRootType DEF TypeInv
<1>4. /\ latestBranch' \in Seq(MemoryNode)
      /\ Len(latestBranch') = 1 /\ latestBranch'[1].begin = begin
  BY <1>3 DEF GrowRootOneChild
<1>5. nodeCount' \in Nat /\ root' \in Nat
  BY <1>1 DEF GrowRootOneChild
<1>6. QED
  BY <1>2, <1>4, <1>5, NoIntervalType
     DEF GrowRootOneChild, Return, TypeInv, TypeOK, RootTakesAll

LEMMA NextTypeInv == TypeInv /\ [Next]_vars => TypeInv'
<1> SUFFICES ASSUME TypeInv, [Next]_vars PROVE TypeInv'
  OBVIOUS
<1>1. ASSUME NEW ts \in BeginTimes, Open(ts) PROVE TypeInv'
  BY <1>1, OpenTypeInv
<1>2. CASE OpenUnknownSerDes
  BY <1>2, OpenUnknownSerDesTypeInv
<1>3. CASE OpenFails
  BY <1>3 DEF OpenFails, TypeInv, TypeOK, RootTakesAll
<1>4. ASSUME NEW ts \in CloseTimes \cup {end}, Close(ts) PROVE TypeInv'
  BY <1>4, CloseTypeInv
<1>5. ASSUME NEW offer \in Offers, AddInterval(offer) PROVE TypeInv'
  BY <1>5, AddIntervalTypeInv
<1>6. ASSUME NEW offer \in Offers, AddIntervalOutOfRange(offer) PROVE TypeInv'
  BY <1>6 DEF AddIntervalOutOfRange, TypeInv, TypeOK, RootTakesAll
<1>7. CASE AddIntervalClosed
  BY <1>7 DEF AddIntervalClosed, TypeInv, TypeOK, RootTakesAll
<1>8. CASE CallStep
  <2>1. CASE TryAddSibling
    BY <2>1 DEF TryAddSibling, TypeInv, TypeOK, RootTakesAll
  <2>2. CASE SiblingOfParent
    <3>1. latestBranch \in Seq(MemoryNode) /\ index \in 1..Len(latestBranch) /\ index > 1
      BY <2>2 DEF SiblingOfParent, ParentFull, TypeInv, TypeOK
    <3>2. index - 1 \in 1..Len(latestBranch)
      BY <3>1
    <3>3. QED
      BY <2>2, <3>2, GoOnAtTypeInv DEF SiblingOfParent
  <2>3. QED
    BY <1>8, <2>1, <2>2, TryParentTypeInv, AddToTargetTypeInv, SiblingTypeInv,
       GrowRootTypeInv, GrowRootNoChildTypeInv, GrowRootOneChildTypeInv
       DEF CallStep
<1>9. CASE Overrun
  BY <1>9 DEF Overrun, TypeInv, TypeOK, RootTakesAll
<1>10. CASE UNCHANGED vars
  BY <1>10 DEF vars, TypeInv, TypeOK, RootTakesAll
<1>11. QED
  BY <1>1, <1>2, <1>3, <1>4, <1>5, <1>6, <1>7, <1>8, <1>9, <1>10 DEF Next

\* Every variable keeps its type, and addInterval always has a node of the
\* branch to try: index never leaves the branch, as the root takes whatever the
\* nodes below it begin too late for.
THEOREM TypeCorrect == Spec => []TypeOK
<1>1. Spec => []TypeInv
  BY InitTypeInv, NextTypeInv, PTL DEF Spec
<1>2. TypeInv => TypeOK
  BY DEF TypeInv
<1>3. QED
  BY <1>1, <1>2, PTL

(***************************************************************************)
(* What the steps that change the branch make of it.                       *)
(***************************************************************************)

\* A sibling keeps the nodes above it, of which the last one gets a child, and
\* is drawn with new sequence numbers down to the height of the branch.
LEMMA SiblingBranch ==
    ASSUME TypeInv, Sibling
    PROVE  /\ index \in 2..Len(latestBranch)
           /\ Len(latestBranch') = Len(latestBranch)
           /\ \A k \in 1..(index - 2) : latestBranch'[k] = latestBranch[k]
           /\ latestBranch'[index - 1] = AddChild(latestBranch[index - 1], end, nodeCount)
           /\ \A k \in index..Len(latestBranch) :
                 latestBranch'[k] = DrawnNode(latestBranch[index - 1].seq, nodeCount,
                                              Len(latestBranch) - index + 1,
                                              k - index + 1)
<1>1. /\ latestBranch \in Seq(MemoryNode) /\ index \in 2..Len(latestBranch)
      /\ nodeCount \in Nat /\ end \in Timestamp /\ maxChildren \in Nat
  BY DEF Sibling, TypeInv, TypeOK
<1> DEFINE above == index - 1
           height == Len(latestBranch)
           drawn == DrawBranchFromIndex(latestBranch, above, height, nodeCount)
<1>2. above \in 1..Len(latestBranch) /\ height \in Nat /\ height > above
  BY <1>1
<1>3. /\ \A k \in 1..(index - 2) : k \in 1..(above - 1)
      /\ \A k \in index..Len(latestBranch) :
            /\ k \in (above + 1)..height
            /\ k - above = k - index + 1
      /\ height - above = Len(latestBranch) - index + 1
  BY <1>1
<1>4. latestBranch' = drawn
  BY DEF Sibling
<1>4a. drawn = DrawBranchFromIndex(latestBranch, above, height, nodeCount)
  OBVIOUS
<1> HIDE DEF above, height, drawn
<1>5. /\ Len(drawn) = height
      /\ \A k \in 1..(above - 1) : drawn[k] = latestBranch[k]
      /\ drawn[above] = AddChild(latestBranch[above], end, nodeCount)
      /\ \A k \in (above + 1)..height :
            drawn[k] = DrawnNode(latestBranch[above].seq, nodeCount,
                                 height - above, k - above)
  <2>1. /\ latestBranch \in Seq(MemoryNode) /\ above \in 1..Len(latestBranch)
        /\ height \in Nat /\ height > above
        /\ nodeCount \in Nat /\ end \in Timestamp /\ maxChildren \in Nat
    BY <1>1, <1>2
  <2>2. Len(drawn) = height
    BY <1>4a, <2>1, DrawnBranch, SMTT(30)
  <2>3. \A k \in 1..(above - 1) : drawn[k] = latestBranch[k]
    BY <1>4a, <2>1, DrawnBranch, SMTT(30)
  <2>4. drawn[above] = AddChild(latestBranch[above], end, nodeCount)
    BY <1>4a, <2>1, DrawnBranch, SMTT(30)
  <2>5. \A k \in (above + 1)..height :
           drawn[k] = DrawnNode(latestBranch[above].seq, nodeCount,
                                height - above, k - above)
    BY <1>4a, <2>1, DrawnBranch, SMTT(30)
  <2>6. QED
    BY <2>2, <2>3, <2>4, <2>5
<1>6. /\ Len(latestBranch') = Len(latestBranch)
      /\ latestBranch'[index - 1] = AddChild(latestBranch[index - 1], end, nodeCount)
  BY <1>4, <1>5 DEF above, height
<1>7. \A k \in 1..(index - 2) : latestBranch'[k] = latestBranch[k]
  BY <1>3, <1>4, <1>5
<1>8. ASSUME NEW k \in index..Len(latestBranch)
      PROVE  latestBranch'[k] = DrawnNode(latestBranch[index - 1].seq, nodeCount,
                                          Len(latestBranch) - index + 1,
                                          k - index + 1)
  <2>1. /\ k \in (above + 1)..height /\ k - above = k - index + 1
        /\ height - above = Len(latestBranch) - index + 1
    BY <1>3
  <2>2. drawn[k] = DrawnNode(latestBranch[above].seq, nodeCount,
                             height - above, k - above)
    BY <1>5, <2>1
  <2>3. QED
    BY <1>4, <2>1, <2>2 DEF above
<1>9. QED
  BY <1>1, <1>6, <1>7, <1>8

\* A new root has the old one as its first child, and the branch is drawn under
\* it, one level more than before.
LEMMA GrowRootBranch ==
    ASSUME TypeInv, GrowRoot
    PROVE  /\ Len(latestBranch') = Len(latestBranch) + 1
           /\ latestBranch'[1] = AddChild(NewRootWithChild, end, nodeCount + 1)
           /\ \A k \in 2..(Len(latestBranch) + 1) :
                 latestBranch'[k] = DrawnNode(nodeCount, nodeCount + 1,
                                              Len(latestBranch), k - 1)
<1>1. /\ latestBranch \in Seq(MemoryNode) /\ index \in 1..Len(latestBranch)
      /\ Len(latestBranch) \in Nat /\ Len(latestBranch) >= 1
      /\ nodeCount \in Nat /\ nodeCount + 1 \in Nat
      /\ end \in Timestamp /\ maxChildren \in Nat
  BY DEF GrowRoot, TypeInv, TypeOK
<1>2. NewRootWithChild \in MemoryNode /\ NewRootWithChild.seq = nodeCount
  BY <1>1, NewRootType DEF TypeInv
<1> DEFINE top == <<NewRootWithChild>>
           height == Len(latestBranch) + 1
           firstSeq == nodeCount + 1
           above == 1
           drawn == DrawBranchFromIndex(top, above, height, firstSeq)
<1>3. /\ top \in Seq(MemoryNode) /\ above \in 1..Len(top)
      /\ height \in Nat /\ height > above /\ firstSeq \in Nat
      /\ end \in Timestamp /\ maxChildren \in Nat
  BY <1>1, <1>2
<1>3a. top[1] = NewRootWithChild /\ height - above = Len(latestBranch) /\ above = 1
  BY <1>1
<1>4. latestBranch' = drawn
  BY DEF GrowRoot
<1>4a. drawn = DrawBranchFromIndex(top, above, height, firstSeq)
  OBVIOUS
<1> HIDE DEF top, height, firstSeq, above, drawn
<1>5. /\ Len(drawn) = height
      /\ drawn[above] = AddChild(top[above], end, firstSeq)
      /\ \A k \in (above + 1)..height :
            drawn[k] = DrawnNode(top[above].seq, firstSeq, height - above, k - above)
  <2>1. Len(drawn) = height
    BY <1>3, <1>4a, DrawnBranch
  <2>2. drawn[above] = AddChild(top[above], end, firstSeq)
    BY <1>3, <1>4a, DrawnBranch
  <2>3. ASSUME NEW k \in (above + 1)..height
        PROVE  drawn[k] = DrawnNode(top[above].seq, firstSeq, height - above, k - above)
    BY <1>3, <1>4a, DrawnBranch
  <2>4. QED
    BY <2>1, <2>2, <2>3
<1>6. /\ Len(latestBranch') = Len(latestBranch) + 1
      /\ latestBranch'[1] = AddChild(NewRootWithChild, end, nodeCount + 1)
  BY <1>3a, <1>4, <1>5 DEF height, firstSeq
<1>7. \A k \in 2..(Len(latestBranch) + 1) :
         latestBranch'[k] = DrawnNode(nodeCount, nodeCount + 1,
                                      Len(latestBranch), k - 1)
  <2>1. \A k \in 2..(Len(latestBranch) + 1) : k \in (above + 1)..height
    BY <1>3a DEF height
  <2>2. QED
    BY <1>2, <1>3a, <1>4, <1>5, <2>1 DEF firstSeq
<1>8. QED
  BY <1>6, <1>7

(***************************************************************************)
(* Sequence numbers.                                                       *)
(***************************************************************************)
LEMMA CommitDomain ==
    ASSUME NEW branch, NEW i
    PROVE  /\ DOMAIN CommitNodesDownFromIndex(branch, i) =
                 DOMAIN file \cup SeqsDownFrom(branch, i)
           /\ \A seq \in DOMAIN file \ SeqsDownFrom(branch, i) :
                 CommitNodesDownFromIndex(branch, i)[seq] = file[seq]
BY DEF CommitNodesDownFromIndex

LEMMA SiblingSeqs ==
    ASSUME TypeInv, Sibling
    PROVE  /\ Len(latestBranch') = Len(latestBranch)
           /\ \A k \in 1..(index - 1) : latestBranch'[k].seq = latestBranch[k].seq
           /\ \A k \in index..Len(latestBranch) :
                 latestBranch'[k].seq = nodeCount + k - index
<1>1. /\ latestBranch \in Seq(MemoryNode) /\ index \in 2..Len(latestBranch)
      /\ nodeCount \in Nat /\ end \in Timestamp /\ maxChildren \in Nat
  BY SiblingBranch DEF TypeInv, TypeOK
<1>2. latestBranch'[index - 1].seq = latestBranch[index - 1].seq
  <2>1. latestBranch[index - 1] \in MemoryNode
    BY <1>1
  <2>2. AddChild(latestBranch[index - 1], end, nodeCount).seq = latestBranch[index - 1].seq
    BY <1>1, <2>1, AddChildFields
  <2>3. latestBranch'[index - 1] = AddChild(latestBranch[index - 1], end, nodeCount)
    BY SiblingBranch
  <2>4. QED
    BY <2>2, <2>3
<1>3. ASSUME NEW k \in 1..(index - 1)
      PROVE  latestBranch'[k].seq = latestBranch[k].seq
  <2>1. CASE k = index - 1
    BY <1>2, <2>1
  <2>2. CASE k # index - 1
    <3>1. k \in 1..(index - 2)
      BY <1>1, <2>2
    <3>2. QED
      BY <3>1, SiblingBranch
  <2>3. QED
    BY <2>1, <2>2
<1>4. ASSUME NEW k \in index..Len(latestBranch)
      PROVE  latestBranch'[k].seq = nodeCount + k - index
  <2> DEFINE count == Len(latestBranch) - index + 1
             position == k - index + 1
             parentSeq == latestBranch[index - 1].seq
  <2>1. count \in Nat /\ position \in 1..count
    BY <1>1
  <2>2. parentSeq \in Nat
    <3>1. index - 1 \in 1..Len(latestBranch)
      BY <1>1
    <3>2. QED
      BY <1>1, <3>1, NodeOfBranch
  <2>3. latestBranch'[k] = DrawnNode(parentSeq, nodeCount, count, position)
    BY SiblingBranch
  <2>4. nodeCount + position - 1 = nodeCount + k - index
    BY <1>1
  <2> HIDE DEF count, position, parentSeq
  <2>5. DrawnNode(parentSeq, nodeCount, count, position).seq = nodeCount + position - 1
    BY <1>1, <2>1, <2>2, DrawnNodeType
  <2>6. QED
    BY <2>3, <2>4, <2>5
<1>5. QED
  BY <1>3, <1>4, SiblingBranch

LEMMA GrowRootSeqs ==
    ASSUME TypeInv, GrowRoot
    PROVE  /\ Len(latestBranch') = Len(latestBranch) + 1
           /\ \A k \in 1..Len(latestBranch') : latestBranch'[k].seq = nodeCount + k - 1
<1>1. /\ latestBranch \in Seq(MemoryNode) /\ index \in 1..Len(latestBranch)
      /\ Len(latestBranch) \in Nat
      /\ nodeCount \in Nat /\ nodeCount + 1 \in Nat
      /\ end \in Timestamp /\ maxChildren \in Nat
  BY DEF GrowRoot, TypeInv, TypeOK
<1>2. latestBranch'[1].seq = nodeCount
  <2>1. NewRootWithChild \in MemoryNode /\ NewRootWithChild.seq = nodeCount
    BY <1>1, NewRootType DEF TypeInv
  <2>2. AddChild(NewRootWithChild, end, nodeCount + 1).seq = nodeCount
    BY <1>1, <2>1, AddChildFields
  <2>3. QED
    BY <2>2, GrowRootBranch
<1>3. ASSUME NEW k \in 2..(Len(latestBranch) + 1)
      PROVE  latestBranch'[k].seq = nodeCount + k - 1
  <2> DEFINE count == Len(latestBranch)
             position == k - 1
             firstSeq == nodeCount + 1
  <2>1. count \in Nat /\ position \in 1..count /\ firstSeq \in Nat
    BY <1>1
  <2>2. latestBranch'[k] = DrawnNode(nodeCount, firstSeq, count, position)
    BY GrowRootBranch
  <2>3. firstSeq + position - 1 = nodeCount + k - 1
    BY <1>1
  <2> HIDE DEF count, position, firstSeq
  <2>4. DrawnNode(nodeCount, firstSeq, count, position).seq = firstSeq + position - 1
    BY <1>1, <2>1, DrawnNodeType
  <2>5. QED
    BY <2>2, <2>3, <2>4
<1>4. Len(latestBranch') = Len(latestBranch) + 1
  BY GrowRootBranch
<1>5. ASSUME NEW k \in 1..Len(latestBranch')
      PROVE  latestBranch'[k].seq = nodeCount + k - 1
  <2>1. k = 1 \/ k \in 2..(Len(latestBranch) + 1)
    BY <1>1, <1>4
  <2>2. nodeCount + 1 - 1 = nodeCount
    BY <1>1
  <2>3. QED
    BY <1>2, <1>3, <2>1, <2>2
<1>6. QED
  BY <1>4, <1>5

\* The numbers of the nodes of the branch, as a set.
LEMMA SeqsOfBranch ==
    /\ opened => BranchSeqs = {latestBranch[k].seq : k \in 1..Len(latestBranch)}
    /\ (opened => BranchSeqs = {latestBranch[k].seq : k \in 1..Len(latestBranch)})'
BY DEF BranchSeqs, SeqsDownFrom

LEMMA InitSeqsUnique == Init => SeqsUnique
BY DEF Init, SeqsUnique

LEMMA SiblingSeqsUnique ==
    ASSUME TypeInv, SeqsUnique, Sibling
    PROVE  /\ SeqsUnique'
           /\ DOMAIN file' \cup BranchSeqs' =
                 DOMAIN file \cup BranchSeqs \cup nodeCount..(nodeCount' - 1)
<1>1. /\ opened /\ opened'
      /\ index \in 2..Len(latestBranch)
      /\ Len(latestBranch) \in Nat /\ nodeCount \in Nat
      /\ nodeCount' = nodeCount + (Len(latestBranch) - index + 1)
  BY SiblingBranch DEF Sibling, TypeInv, TypeOK
<1>2. /\ DOMAIN file' = DOMAIN file \cup SeqsDownFrom(latestBranch, index)
      /\ SeqsDownFrom(latestBranch, index)
            = {latestBranch[k].seq : k \in index..Len(latestBranch)}
  BY CommitDomain DEF Sibling, SeqsDownFrom
<1>3. /\ Len(latestBranch') = Len(latestBranch)
      /\ \A k \in 1..(index - 1) : latestBranch'[k].seq = latestBranch[k].seq
      /\ \A k \in index..Len(latestBranch) :
            latestBranch'[k].seq = nodeCount + k - index
  BY SiblingSeqs
<1>4. /\ BranchSeqs = {latestBranch[k].seq : k \in 1..Len(latestBranch)}
      /\ BranchSeqs' = {latestBranch'[k].seq : k \in 1..Len(latestBranch')}
  BY <1>1, SeqsOfBranch
<1>5. /\ DOMAIN file \subseteq 0..(nodeCount - 1)
      /\ BranchSeqs \subseteq 0..(nodeCount - 1)
      /\ DOMAIN file \cap BranchSeqs = {}
      /\ \A j, k \in 1..Len(latestBranch) :
            latestBranch[j].seq = latestBranch[k].seq => j = k
  BY <1>1 DEF SeqsUnique
<1>6. \A k \in 1..Len(latestBranch) : latestBranch[k].seq \in 0..(nodeCount - 1)
  BY <1>4, <1>5
<1>7. \A j, k \in 1..Len(latestBranch') :
         latestBranch'[j].seq = latestBranch'[k].seq => j = k
  <2> SUFFICES ASSUME NEW j \in 1..Len(latestBranch), NEW k \in 1..Len(latestBranch),
                      latestBranch'[j].seq = latestBranch'[k].seq
               PROVE  j = k
    BY <1>3
  <2>1. \A i \in 1..(index - 1) : /\ i \in 1..Len(latestBranch)
                                  /\ latestBranch'[i].seq = latestBranch[i].seq
                                  /\ latestBranch[i].seq < nodeCount
    <3> TAKE i \in 1..(index - 1)
    <3>1. i \in 1..Len(latestBranch)
      BY <1>1
    <3>2. latestBranch[i].seq \in 0..(nodeCount - 1)
      BY <1>6, <3>1
    <3>3. QED
      BY <1>1, <1>3, <3>1, <3>2
  <2>2. \A i \in index..Len(latestBranch) : latestBranch'[i].seq = nodeCount + i - index
    BY <1>3
  <2>3. /\ \A i \in 1..(index - 1) : latestBranch'[i].seq \in 0..(nodeCount - 1)
        /\ \A i \in index..Len(latestBranch) :
              latestBranch'[i].seq \notin 0..(nodeCount - 1)
    <3>1. ASSUME NEW i \in 1..(index - 1)
          PROVE  latestBranch'[i].seq \in 0..(nodeCount - 1)
      BY <1>6, <2>1
    <3>2. ASSUME NEW i \in index..Len(latestBranch)
          PROVE  latestBranch'[i].seq \notin 0..(nodeCount - 1)
      <4>1. nodeCount + i - index >= nodeCount
        BY <1>1
      <4>2. QED
        BY <1>1, <2>2, <4>1
    <3>3. QED
      BY <3>1, <3>2
  <2>4. CASE j \in 1..(index - 1) /\ k \in 1..(index - 1)
    BY <1>5, <2>1, <2>4
  <2>5. CASE j \in index..Len(latestBranch) /\ k \in index..Len(latestBranch)
    BY <1>1, <2>2, <2>5
  <2>6. CASE j \in 1..(index - 1) /\ k \in index..Len(latestBranch)
    BY <2>3, <2>6
  <2>7. CASE j \in index..Len(latestBranch) /\ k \in 1..(index - 1)
    BY <2>3, <2>7
  <2>8. /\ j \in 1..(index - 1) \/ j \in index..Len(latestBranch)
        /\ k \in 1..(index - 1) \/ k \in index..Len(latestBranch)
    BY <1>1
  <2>9. QED
    BY <2>4, <2>5, <2>6, <2>7, <2>8
<1>8. DOMAIN file' \subseteq 0..(nodeCount' - 1)
  BY <1>1, <1>2, <1>5, <1>6
<1>9. \A k \in 1..Len(latestBranch') : latestBranch'[k].seq \in 0..(nodeCount' - 1)
  BY <1>1, <1>3, <1>6
<1>10. \A k \in 1..Len(latestBranch') : latestBranch'[k].seq \notin DOMAIN file'
  <2> TAKE k \in 1..Len(latestBranch')
  <2>1. CASE k \in 1..(index - 1)
    <3>1. latestBranch'[k].seq = latestBranch[k].seq /\ k \in 1..Len(latestBranch)
      BY <1>1, <1>3, <2>1
    <3>2. latestBranch[k].seq \notin SeqsDownFrom(latestBranch, index)
      BY <1>1, <1>2, <1>5, <2>1
    <3>3. latestBranch[k].seq \notin DOMAIN file
      BY <1>4, <1>5, <3>1
    <3>4. QED
      BY <1>2, <3>1, <3>2, <3>3
  <2>2. CASE k \in index..Len(latestBranch)
    <3>1. DOMAIN file' \subseteq 0..(nodeCount - 1)
      BY <1>1, <1>2, <1>5, <1>6
    <3>2. QED
      BY <1>1, <1>3, <2>2, <3>1
  <2>3. QED
    BY <1>1, <1>3, <2>1, <2>2
<1>11. SeqsUnique'
  BY <1>1, <1>4, <1>7, <1>8, <1>9, <1>10 DEF SeqsUnique
<1>12. ASSUME NEW seq \in nodeCount..(nodeCount' - 1)
       PROVE  seq \in BranchSeqs'
  <2>1. PICK k \in index..Len(latestBranch) : seq = nodeCount + k - index
    <3>1. seq - nodeCount + index \in index..Len(latestBranch)
      BY <1>1
    <3>2. seq = nodeCount + (seq - nodeCount + index) - index
      BY <1>1
    <3>3. QED
      BY <3>1, <3>2
  <2>2. k \in 1..Len(latestBranch') /\ latestBranch'[k].seq = seq
    BY <1>1, <1>3, <2>1
  <2>3. QED
    BY <1>4, <2>2
<1>13. ASSUME NEW seq \in BranchSeqs
       PROVE  seq \in DOMAIN file' \cup BranchSeqs'
  <2>1. PICK k \in 1..Len(latestBranch) : seq = latestBranch[k].seq
    BY <1>4
  <2>2. CASE k \in 1..(index - 1)
    BY <1>1, <1>3, <1>4, <2>1, <2>2
  <2>3. CASE k \in index..Len(latestBranch)
    BY <1>2, <2>1, <2>3
  <2>4. QED
    BY <1>1, <2>2, <2>3
<1>14. ASSUME NEW seq \in BranchSeqs'
       PROVE  seq \in BranchSeqs \cup nodeCount..(nodeCount' - 1)
  <2>1. PICK k \in 1..Len(latestBranch') : seq = latestBranch'[k].seq
    BY <1>4
  <2>2. CASE k \in 1..(index - 1)
    BY <1>1, <1>3, <1>4, <2>1, <2>2
  <2>3. CASE k \in index..Len(latestBranch)
    BY <1>1, <1>3, <2>1, <2>3
  <2>4. QED
    BY <1>1, <1>3, <2>2, <2>3
<1>15. SeqsDownFrom(latestBranch, index) \subseteq BranchSeqs
  BY <1>1, <1>2, <1>4
<1>16. QED
  BY <1>2, <1>11, <1>12, <1>13, <1>14, <1>15

\* A commit of the whole branch moves it to the file.
LEMMA CommitBranch ==
    ASSUME TypeInv, opened, index \in 1..Len(latestBranch)
    PROVE  /\ DOMAIN CommitNodesDownFromIndex(BranchUnderNewRoot, 1) =
                 DOMAIN file \cup BranchSeqs
           /\ \A seq \in DOMAIN file \ BranchSeqs :
                 CommitNodesDownFromIndex(BranchUnderNewRoot, 1)[seq] = file[seq]
<1>1. /\ Len(BranchUnderNewRoot) = Len(latestBranch)
      /\ \A k \in 1..Len(latestBranch) :
            BranchUnderNewRoot[k].seq = latestBranch[k].seq
  BY BranchUnderNewRootType DEF TypeInv
<1>2. SeqsDownFrom(BranchUnderNewRoot, 1) = BranchSeqs
  BY <1>1 DEF BranchSeqs, SeqsDownFrom
<1>3. QED
  BY <1>2, CommitDomain

LEMMA GrowRootSeqsUnique ==
    ASSUME TypeInv, SeqsUnique, GrowRoot
    PROVE  /\ SeqsUnique'
           /\ DOMAIN file' \cup BranchSeqs' =
                 DOMAIN file \cup BranchSeqs \cup nodeCount..(nodeCount' - 1)
<1>1. /\ opened /\ opened' /\ index \in 1..Len(latestBranch)
      /\ Len(latestBranch) \in Nat /\ nodeCount \in Nat
      /\ nodeCount' = nodeCount + 1 + Len(latestBranch)
  BY DEF GrowRoot, TypeInv, TypeOK
<1>2. DOMAIN file' = DOMAIN file \cup BranchSeqs
  BY <1>1, CommitBranch DEF GrowRoot
<1>3. /\ Len(latestBranch') = Len(latestBranch) + 1
      /\ \A k \in 1..Len(latestBranch') : latestBranch'[k].seq = nodeCount + k - 1
  BY GrowRootSeqs
<1>4. BranchSeqs' = {latestBranch'[k].seq : k \in 1..Len(latestBranch')}
  BY <1>1, SeqsOfBranch
<1>5. DOMAIN file \cup BranchSeqs \subseteq 0..(nodeCount - 1)
  BY <1>1 DEF SeqsUnique
<1>6. BranchSeqs' = nodeCount..(nodeCount' - 1)
  <2>1. ASSUME NEW seq \in nodeCount..(nodeCount' - 1)
        PROVE  seq \in BranchSeqs'
    <3>1. seq - nodeCount + 1 \in 1..Len(latestBranch')
      BY <1>1, <1>3
    <3>2. seq = nodeCount + (seq - nodeCount + 1) - 1
      BY <1>1
    <3>3. latestBranch'[seq - nodeCount + 1].seq = seq
      BY <1>3, <3>1, <3>2
    <3>4. QED
      BY <1>4, <3>1, <3>3
  <2>2. \A k \in 1..Len(latestBranch') :
           latestBranch'[k].seq \in nodeCount..(nodeCount' - 1)
    BY <1>1, <1>3
  <2>3. QED
    BY <1>4, <2>1, <2>2
<1>7. \A j, k \in 1..Len(latestBranch') :
         latestBranch'[j].seq = latestBranch'[k].seq => j = k
  BY <1>1, <1>3
<1>8. /\ DOMAIN file' \subseteq 0..(nodeCount' - 1)
      /\ BranchSeqs' \subseteq 0..(nodeCount' - 1)
      /\ DOMAIN file' \cap BranchSeqs' = {}
  BY <1>1, <1>2, <1>5, <1>6
<1>9. QED
  BY <1>2, <1>6, <1>7, <1>8 DEF SeqsUnique

LEMMA GrowRootOneChildSeqsUnique ==
    ASSUME TypeInv, SeqsUnique, GrowRootOneChild PROVE SeqsUnique'
<1>1. /\ opened /\ opened' /\ index \in 1..Len(latestBranch)
      /\ nodeCount \in Nat /\ nodeCount' = nodeCount + 2
  BY DEF GrowRootOneChild, TypeInv, TypeOK
<1>2. DOMAIN file' = DOMAIN file \cup BranchSeqs
  BY <1>1, CommitBranch DEF GrowRootOneChild
<1>3. NewRootWithChild.seq = nodeCount
  BY <1>1, NewRootType DEF TypeInv
<1>4. /\ Len(latestBranch') = 1 /\ latestBranch'[1].seq = nodeCount
  BY <1>3 DEF GrowRootOneChild
<1>5. BranchSeqs' = {nodeCount}
  BY <1>1, <1>4, SeqsOfBranch
<1>6. DOMAIN file \cup BranchSeqs \subseteq 0..(nodeCount - 1)
  BY <1>1 DEF SeqsUnique
<1>7. /\ DOMAIN file' \subseteq 0..(nodeCount' - 1)
      /\ BranchSeqs' \subseteq 0..(nodeCount' - 1)
      /\ DOMAIN file' \cap BranchSeqs' = {}
  BY <1>1, <1>2, <1>5, <1>6
<1>8. QED
  BY <1>4, <1>7 DEF SeqsUnique

\* A step that keeps the numbers of the branch and the file.
LEMMA SameSeqs ==
    ASSUME TypeInv, SeqsUnique, opened, opened',
           Len(latestBranch') = Len(latestBranch),
           \A k \in 1..Len(latestBranch) : latestBranch'[k].seq = latestBranch[k].seq,
           DOMAIN file' = DOMAIN file,
           nodeCount' \in Nat, nodeCount' >= nodeCount
    PROVE  SeqsUnique' /\ BranchSeqs' = BranchSeqs
<1>1. BranchSeqs' = BranchSeqs
  BY SeqsOfBranch
<1>2. 0..(nodeCount - 1) \subseteq 0..(nodeCount' - 1)
  BY DEF TypeInv, TypeOK
<1>3. QED
  BY <1>1, <1>2 DEF SeqsUnique

LEMMA GrowRootNoChildSeqsUnique ==
    ASSUME TypeInv, SeqsUnique, GrowRootNoChild PROVE SeqsUnique'
<1>1. /\ opened /\ opened' /\ index \in 1..Len(latestBranch)
      /\ nodeCount \in Nat /\ nodeCount' \in Nat /\ nodeCount' >= nodeCount
      /\ file' = file /\ latestBranch' = BranchUnderNewRoot
  BY DEF GrowRootNoChild, TypeInv, TypeOK
<1>2. /\ Len(latestBranch') = Len(latestBranch)
      /\ \A k \in 1..Len(latestBranch) : latestBranch'[k].seq = latestBranch[k].seq
  BY <1>1, BranchUnderNewRootType DEF TypeInv
<1>3. QED
  BY <1>1, <1>2, SameSeqs

LEMMA AddToTargetSeqs ==
    ASSUME TypeInv, AddToTarget
    PROVE  /\ Len(latestBranch') = Len(latestBranch)
           /\ \A k \in 1..Len(latestBranch) : latestBranch'[k].seq = latestBranch[k].seq
<1>1. /\ latestBranch \in Seq(MemoryNode) /\ index \in 1..Len(latestBranch)
  BY DEF AddToTarget, TypeInv, TypeOK
<1>2. AddIntervalToNode(latestBranch[index], intr).seq = latestBranch[index].seq
  <2>1. latestBranch[index] \in MemoryNode
    BY <1>1
  <2>2. QED
    BY <2>1 DEF AddIntervalToNode, MemoryNode
<1>3. latestBranch' =
         [latestBranch EXCEPT ![index] = AddIntervalToNode(latestBranch[index], intr)]
  BY DEF AddToTarget
<1>4. QED
  BY <1>1, <1>2, <1>3

LEMMA AddToTargetSeqsUnique ==
    ASSUME TypeInv, SeqsUnique, AddToTarget
    PROVE  SeqsUnique' /\ BranchSeqs' = BranchSeqs
<1>1. /\ opened /\ opened' /\ nodeCount' = nodeCount /\ nodeCount \in Nat
      /\ file' = file
  BY DEF AddToTarget, TypeInv, TypeOK
<1>2. QED
  BY <1>1, AddToTargetSeqs, SameSeqs

LEMMA OpenSeqsUnique ==
    ASSUME NEW ts \in BeginTimes, Open(ts)
    PROVE  SeqsUnique' /\ DOMAIN file' = {} /\ BranchSeqs' = {0} /\ nodeCount' = 1
<1>1. /\ opened' /\ nodeCount' = 1
      /\ latestBranch' = <<NewNode(0, RootParent, ts, 0)>>
  BY DEF Open
<1>2. NewNode(0, RootParent, ts, 0).seq = 0
  BY DEF NewNode
<1>3. Len(latestBranch') = 1 /\ latestBranch'[1].seq = 0
  BY <1>1, <1>2
<1>4. BranchSeqs' = {0}
  BY <1>1, <1>3, SeqsOfBranch
<1>5. DOMAIN file' = {}
  BY DEF Open, Truncated
<1>6. QED
  BY <1>1, <1>3, <1>4, <1>5 DEF SeqsUnique

\* The steps that touch neither the branch nor the file.
SameTree ==
    UNCHANGED <<opened, nodeCount, root, begin, end, latestBranch, file, header>>

LEMMA StepsOfNext ==
    ASSUME [Next]_vars
    PROVE  \/ \E ts \in BeginTimes : Open(ts)
           \/ OpenUnknownSerDes
           \/ \E ts \in CloseTimes \cup {end} : Close(ts)
           \/ AddToTarget \/ Sibling
           \/ GrowRoot \/ GrowRootNoChild \/ GrowRootOneChild
           \/ SameTree
<1> USE DEF SameTree
<1>1. ASSUME NEW offer \in Offers, AddInterval(offer) PROVE SameTree
  BY <1>1 DEF AddInterval
<1>2. ASSUME NEW offer \in Offers, AddIntervalOutOfRange(offer) PROVE SameTree
  BY <1>2 DEF AddIntervalOutOfRange
<1>3. CASE OpenFails \/ AddIntervalClosed
  BY <1>3 DEF OpenFails, AddIntervalClosed
<1>4. CASE TryAddSibling \/ TryParent \/ SiblingOfParent \/ Overrun
  BY <1>4 DEF TryAddSibling, TryParent, SiblingOfParent, GoOnAt, Overrun
<1>5. CASE UNCHANGED vars
  BY <1>5 DEF vars
<1>6. QED
  BY <1>1, <1>2, <1>3, <1>4, <1>5 DEF Next, CallStep

\* The sink is closed after these steps.
LEMMA ClosingSteps ==
    ASSUME OpenUnknownSerDes \/ \E ts \in CloseTimes \cup {end} : Close(ts)
    PROVE  ~opened'
BY DEF OpenUnknownSerDes, Close

LEMMA NextSeqsUnique == TypeInv /\ SeqsUnique /\ [Next]_vars => SeqsUnique'
<1> SUFFICES ASSUME TypeInv, SeqsUnique, [Next]_vars PROVE SeqsUnique'
  OBVIOUS
<1>1. CASE OpenUnknownSerDes \/ \E ts \in CloseTimes \cup {end} : Close(ts)
  BY <1>1, ClosingSteps DEF SeqsUnique
<1>2. CASE SameTree
  BY <1>2 DEF SameTree, SeqsUnique, BranchSeqs, SeqsDownFrom
<1>3. ASSUME NEW ts \in BeginTimes, Open(ts) PROVE SeqsUnique'
  BY <1>3, OpenSeqsUnique
<1>4. QED
  BY <1>1, <1>2, <1>3, StepsOfNext, AddToTargetSeqsUnique, SiblingSeqsUnique,
     GrowRootSeqsUnique, GrowRootNoChildSeqsUnique, GrowRootOneChildSeqsUnique

TreeInv == TypeInv /\ SeqsUnique

LEMMA TreeInvariant == Spec => []TreeInv
<1>1. Init => TreeInv
  BY InitTypeInv, InitSeqsUnique DEF TreeInv
<1>2. TreeInv /\ [Next]_vars => TreeInv'
  BY NextTypeInv, NextSeqsUnique DEF TreeInv
<1>3. QED
  BY <1>1, <1>2, PTL DEF Spec

LEMMA CloseCommitsBranch ==
    ASSUME TypeInv, NEW ts \in CloseTimes \cup {end}, Close(ts)
    PROVE  /\ DOMAIN file' = DOMAIN file \cup BranchSeqs
           /\ \A seq \in DOMAIN file \ BranchSeqs : file'[seq] = file[seq]
<1>1. latestBranch \in Seq(MemoryNode) /\ opened
  BY DEF Close, ClosingEnd, TypeInv, TypeOK
<1>2. \A k \in 1..Len(latestBranch) :
         CloseNode(latestBranch[k], end').seq = latestBranch[k].seq
  <2> TAKE k \in 1..Len(latestBranch)
  <2>1. latestBranch[k] \in MemoryNode
    BY <1>1
  <2>2. QED
    BY <2>1 DEF CloseNode, MemoryNode
<1>3. /\ Len(latestBranch') = Len(latestBranch)
      /\ \A k \in 1..Len(latestBranch) : latestBranch'[k].seq = latestBranch[k].seq
  BY <1>1, <1>2 DEF Close, ClosingEnd
<1>4. SeqsDownFrom(latestBranch', 1) = BranchSeqs
  BY <1>1, <1>3 DEF BranchSeqs, SeqsDownFrom
<1> DEFINE branch == latestBranch'
           one == 1
<1>5. file' = CommitNodesDownFromIndex(branch, one) /\ SeqsDownFrom(branch, one) = BranchSeqs
  BY <1>4 DEF Close
<1> HIDE DEF branch, one
<1>6. QED
  BY <1>5, CommitDomain

\* No step of an opened sink changes or loses a node that is in the file: the
\* nodes a commit writes are those of the branch, and their sequence numbers,
\* hence their offsets, are in no file yet.
THEOREM NodesWrittenOnce == Spec => WrittenIsFinal
<1> DEFINE Final == opened => /\ DOMAIN file \subseteq DOMAIN file'
                              /\ \A seq \in DOMAIN file : file'[seq] = file[seq]
<1>1. TreeInv /\ [Next]_vars => Final
  <2> SUFFICES ASSUME TypeInv, SeqsUnique, [Next]_vars, opened
               PROVE  /\ DOMAIN file \subseteq DOMAIN file'
                      /\ \A seq \in DOMAIN file : file'[seq] = file[seq]
    BY DEF TreeInv
  <2>1. DOMAIN file \cap BranchSeqs = {}
    BY DEF SeqsUnique
  <2>2. CASE (\E ts \in BeginTimes : Open(ts)) \/ OpenUnknownSerDes
    BY <2>2 DEF Open, OpenUnknownSerDes
  <2>3. ASSUME NEW ts \in CloseTimes \cup {end}, Close(ts)
        PROVE  /\ DOMAIN file \subseteq DOMAIN file'
               /\ \A seq \in DOMAIN file : file'[seq] = file[seq]
    BY <2>1, <2>3, CloseCommitsBranch
  <2>4. CASE AddToTarget \/ GrowRootNoChild \/ SameTree
    BY <2>4 DEF AddToTarget, GrowRootNoChild, SameTree
  <2>5. CASE Sibling
    <3>1. index \in 2..Len(latestBranch) /\ Len(latestBranch) \in Nat
      BY <2>5, SiblingBranch DEF TypeInv, TypeOK
    <3>2. SeqsDownFrom(latestBranch, index) \subseteq BranchSeqs
      BY <3>1 DEF SeqsDownFrom, BranchSeqs
    <3>3. file' = CommitNodesDownFromIndex(latestBranch, index)
      BY <2>5 DEF Sibling
    <3>4. QED
      BY <2>1, <3>2, <3>3, CommitDomain
  <2>6. CASE GrowRoot \/ GrowRootOneChild
    <3>1. index \in 1..Len(latestBranch)
      BY <2>6 DEF GrowRoot, GrowRootOneChild, TypeInv, TypeOK
    <3>2. file' = CommitNodesDownFromIndex(BranchUnderNewRoot, 1)
      BY <2>6 DEF GrowRoot, GrowRootOneChild
    <3>3. QED
      BY <2>1, <3>1, <3>2, CommitBranch
  <2>7. QED
    BY <2>2, <2>3, <2>4, <2>5, <2>6, StepsOfNext
<1>2. TreeInv /\ [Next]_vars => [Final]_vars
  BY <1>1
<1>3. QED
  BY <1>2, TreeInvariant, PTL DEF Spec, WrittenIsFinal

(***************************************************************************)
(* With at least two children per node, as the default of 64.              *)
(***************************************************************************)
LEMMA NewRootHasRoom ==
    ASSUME TypeInv, maxChildren >= 2, index \in 1..Len(latestBranch)
    PROVE  ~IsFull(NewRoot) /\ ~IsFull(NewRootWithChild)
<1>1. NewRoot \in MemoryNode /\ NewRootWithChild.children =
         Append(<<>>, [begin |-> latestBranch[1].begin, seq |-> latestBranch[1].seq])
  BY NewRootType DEF TypeInv
<1>2. NewRoot.children = <<>> /\ NewRoot.maxChildren = maxChildren
  BY DEF NewRoot, NewNode
<1>3. NewRootWithChild.maxChildren = NewRoot.maxChildren
  BY <1>1 DEF NewRootWithChild, AddChild, MemoryNode
<1>4. Len(NewRoot.children) = 0 /\ Len(NewRootWithChild.children) = 1
  BY <1>1, <1>2
<1>5. maxChildren \in Nat
  BY DEF TypeInv, TypeOK
<1>6. QED
  BY <1>2, <1>3, <1>4, <1>5 DEF IsFull

AllWritten == opened => DOMAIN file \cup BranchSeqs = 0..(nodeCount - 1)

LEMMA NextAllWritten ==
    ASSUME \A max \in MaxChildrenValues : max >= 2
    PROVE  TreeInv /\ AllWritten /\ [Next]_vars => AllWritten'
<1> SUFFICES ASSUME TypeInv, SeqsUnique, AllWritten, [Next]_vars PROVE AllWritten'
  BY DEF TreeInv
<1>1. CASE OpenUnknownSerDes \/ \E ts \in CloseTimes \cup {end} : Close(ts)
  BY <1>1, ClosingSteps DEF AllWritten
<1>2. CASE SameTree
  BY <1>2 DEF SameTree, AllWritten, BranchSeqs, SeqsDownFrom
<1>3. ASSUME NEW ts \in BeginTimes, Open(ts) PROVE AllWritten'
  <2>1. DOMAIN file' = {} /\ BranchSeqs' = {0} /\ nodeCount' = 1
    BY <1>3, OpenSeqsUnique
  <2>2. QED
    BY <2>1 DEF AllWritten
<1>4. CASE AddToTarget
  <2>1. BranchSeqs' = BranchSeqs
    BY <1>4, AddToTargetSeqsUnique
  <2>2. opened /\ DOMAIN file' = DOMAIN file /\ nodeCount' = nodeCount
    BY <1>4 DEF AddToTarget, TypeInv, TypeOK
  <2>3. QED
    BY <2>1, <2>2 DEF AllWritten
<1>5. CASE Sibling \/ GrowRoot
  <2>1. /\ opened /\ nodeCount \in Nat /\ nodeCount' \in Nat
        /\ nodeCount' >= nodeCount
    <3>1. /\ opened /\ nodeCount \in Nat /\ Len(latestBranch) \in Nat
          /\ index \in 1..Len(latestBranch)
      BY <1>5 DEF Sibling, GrowRoot, TypeInv, TypeOK
    <3>2. \/ nodeCount' = nodeCount + (Len(latestBranch) - index + 1)
          \/ nodeCount' = nodeCount + 1 + Len(latestBranch)
      BY <1>5 DEF Sibling, GrowRoot
    <3>3. QED
      BY <3>1, <3>2
  <2>2. DOMAIN file' \cup BranchSeqs' =
           DOMAIN file \cup BranchSeqs \cup nodeCount..(nodeCount' - 1)
    BY <1>5, SiblingSeqsUnique, GrowRootSeqsUnique
  <2>3. 0..(nodeCount - 1) \cup nodeCount..(nodeCount' - 1) = 0..(nodeCount' - 1)
    BY <2>1
  <2>4. QED
    BY <2>1, <2>2, <2>3 DEF AllWritten
<1>6. CASE GrowRootNoChild \/ GrowRootOneChild
  <2>1. index \in 1..Len(latestBranch) /\ maxChildren >= 2
    BY <1>6 DEF GrowRootNoChild, GrowRootOneChild, TypeInv, TypeOK
  <2>2. QED
    BY <1>6, <2>1, NewRootHasRoom DEF GrowRootNoChild, GrowRootOneChild
<1>7. QED
  BY <1>1, <1>2, <1>3, <1>4, <1>5, <1>6, StepsOfNext

\* Every node counted is in the file or in the branch, never in both: when the
\* branch is committed, at close, no offset below nodeCount is left unwritten.
THEOREM NoNodeLost ==
    ASSUME \A max \in MaxChildrenValues : max >= 2
    PROVE  Spec => []NodesAccounted
<1>1. Init => AllWritten
  BY DEF Init, AllWritten
<1>2. TreeInv /\ AllWritten => NodesAccounted
  BY DEF TreeInv, AllWritten, SeqsUnique, NodesAccounted
<1>3. QED
  BY <1>1, <1>2, NextAllWritten, TreeInvariant, PTL DEF Spec

(***************************************************************************)
(* HistorySink implements History: the intervals of the nodes, in memory   *)
(* and in the file, are the contents of the abstract history.              *)
(***************************************************************************)
USE DEF Timestamp, attributes, disk, call

FileContents == UNION {Range(file[seq].intervals) : seq \in DOMAIN file}

IntervalsIn(branch, i, j) == UNION {Range(branch[k].intervals) : k \in i..j}

BranchContents == IntervalsIn(latestBranch, 1, Len(latestBranch))

ContentsInParts ==
    Contents = IF opened THEN FileContents \cup BranchContents ELSE FileContents

\* A node's intervals are the same in the file as in memory.
LEMMA SerializeIntervals ==
    ASSUME NEW node PROVE Serialize(node).intervals = node.intervals
BY DEF Serialize

LEMMA CloseNodeIntervals ==
    ASSUME NEW node \in MemoryNode, NEW ts
    PROVE  CloseNode(node, ts).intervals = node.intervals
BY DEF CloseNode, MemoryNode

\* No interval is in two places: the contents are those of the file and, while
\* the sink is opened, those of the branch.
LEMMA ContentsParts ==
    ASSUME TreeInv
    PROVE  Contents = IF opened THEN FileContents \cup BranchContents ELSE FileContents
<1>1. CASE ~opened
  <2>1. BranchSeqs = {}
    BY <1>1 DEF BranchSeqs
  <2>2. Nodes = [seq \in DOMAIN file |-> file[seq]]
    BY <2>1 DEF Nodes
  <2>3. QED
    BY <1>1, <2>2 DEF Contents, FileContents
<1>2. CASE opened
  <2>1. /\ DOMAIN file \cap BranchSeqs = {}
        /\ \A j, k \in 1..Len(latestBranch) :
              latestBranch[j].seq = latestBranch[k].seq => j = k
    BY <1>2 DEF TreeInv, SeqsUnique
  <2>2. BranchSeqs = {latestBranch[k].seq : k \in 1..Len(latestBranch)}
    BY <1>2, SeqsOfBranch
  <2>3. /\ DOMAIN Nodes = DOMAIN file \cup BranchSeqs
        /\ \A seq \in DOMAIN file : Nodes[seq] = file[seq]
    BY <2>1 DEF Nodes
  <2>4. ASSUME NEW k \in 1..Len(latestBranch)
        PROVE  Nodes[latestBranch[k].seq].intervals = latestBranch[k].intervals
    <3> DEFINE seq == latestBranch[k].seq
    <3>1. seq \in BranchSeqs
      BY <2>2
    <3>2. BranchNode(seq) = latestBranch[k]
      BY <2>1 DEF BranchNode
    <3>3. Nodes[seq] = Serialize(latestBranch[k])
      BY <3>1, <3>2 DEF Nodes
    <3>4. QED
      BY <3>3, SerializeIntervals
  <2>5. Contents \subseteq FileContents \cup BranchContents
    <3> SUFFICES ASSUME NEW seq \in DOMAIN Nodes,
                        NEW interval \in Range(Nodes[seq].intervals)
                 PROVE  interval \in FileContents \cup BranchContents
      BY DEF Contents
    <3>1. CASE seq \in DOMAIN file
      BY <2>3, <3>1 DEF FileContents
    <3>2. CASE seq \in BranchSeqs
      <4>1. PICK k \in 1..Len(latestBranch) : seq = latestBranch[k].seq
        BY <2>2, <3>2
      <4>2. interval \in Range(latestBranch[k].intervals)
        BY <2>4, <4>1
      <4>3. QED
        BY <4>2 DEF BranchContents, IntervalsIn
    <3>3. QED
      BY <2>3, <3>1, <3>2
  <2>6. FileContents \subseteq Contents
    BY <2>3 DEF FileContents, Contents
  <2>7. BranchContents \subseteq Contents
    <3> SUFFICES ASSUME NEW k \in 1..Len(latestBranch),
                        NEW interval \in Range(latestBranch[k].intervals)
                 PROVE  interval \in Contents
      BY DEF BranchContents, IntervalsIn
    <3>1. latestBranch[k].seq \in DOMAIN Nodes
      BY <2>2, <2>3
    <3>2. interval \in Range(Nodes[latestBranch[k].seq].intervals)
      BY <2>4
    <3>3. QED
      BY <3>1, <3>2 DEF Contents
  <2>8. QED
    BY <1>2, <2>5, <2>6, <2>7
<1>3. QED
  BY <1>1, <1>2

\* A commit adds the intervals of the nodes it writes to those of the file.
LEMMA CommitContents ==
    ASSUME NEW branch \in Seq(MemoryNode), NEW i \in Nat \ {0},
           DOMAIN file \cap SeqsDownFrom(branch, i) = {},
           \A j, k \in i..Len(branch) : branch[j].seq = branch[k].seq => j = k,
           file' = CommitNodesDownFromIndex(branch, i)
    PROVE  FileContents' = FileContents \cup IntervalsIn(branch, i, Len(branch))
<1>1. /\ DOMAIN file' = DOMAIN file \cup SeqsDownFrom(branch, i)
      /\ \A seq \in DOMAIN file : file'[seq] = file[seq]
  <2>1. DOMAIN file' = DOMAIN file \cup SeqsDownFrom(branch, i)
    BY CommitDomain
  <2>2. ASSUME NEW seq \in DOMAIN file PROVE file'[seq] = file[seq]
    <3>1. seq \notin SeqsDownFrom(branch, i)
      OBVIOUS
    <3>2. QED
      BY <3>1 DEF CommitNodesDownFromIndex
  <2>3. QED
    BY <2>1, <2>2
<1>2. SeqsDownFrom(branch, i) = {branch[k].seq : k \in i..Len(branch)}
  BY DEF SeqsDownFrom
<1>3. ASSUME NEW k \in i..Len(branch)
      PROVE  file'[branch[k].seq].intervals = branch[k].intervals
  <2> DEFINE seq == branch[k].seq
  <2>1. seq \in SeqsDownFrom(branch, i)
    BY <1>2
  <2>2. CommittedNode(branch, i, seq) = Serialize(CloseNode(branch[k], end))
    BY DEF CommittedNode
  <2>3. file'[seq] = CommittedNode(branch, i, seq)
    BY <2>1 DEF CommitNodesDownFromIndex
  <2>4. branch[k] \in MemoryNode
    OBVIOUS
  <2>5. QED
    BY <2>2, <2>3, <2>4, SerializeIntervals, CloseNodeIntervals
<1>4. FileContents' \subseteq FileContents \cup IntervalsIn(branch, i, Len(branch))
  <2> SUFFICES ASSUME NEW seq \in DOMAIN file',
                      NEW interval \in Range(file'[seq].intervals)
               PROVE  interval \in FileContents \cup IntervalsIn(branch, i, Len(branch))
    BY DEF FileContents, Range
  <2>1. CASE seq \in DOMAIN file
    BY <1>1, <2>1 DEF FileContents
  <2>2. CASE seq \in SeqsDownFrom(branch, i)
    <3>1. PICK k \in i..Len(branch) : seq = branch[k].seq
      BY <1>2, <2>2
    <3>2. interval \in Range(branch[k].intervals)
      BY <1>3, <3>1
    <3>3. QED
      BY <3>2 DEF IntervalsIn
  <2>3. QED
    BY <1>1, <2>1, <2>2
<1>5. FileContents \subseteq FileContents'
  BY <1>1 DEF FileContents, Range
<1>6. IntervalsIn(branch, i, Len(branch)) \subseteq FileContents'
  <2> SUFFICES ASSUME NEW k \in i..Len(branch),
                      NEW interval \in Range(branch[k].intervals)
               PROVE  interval \in FileContents'
    BY DEF IntervalsIn
  <2>1. branch[k].seq \in DOMAIN file'
    BY <1>1, <1>2
  <2>2. interval \in Range(file'[branch[k].seq].intervals)
    BY <1>3
  <2>3. QED
    BY <2>1, <2>2 DEF FileContents, Range
<1>7. QED
  BY <1>4, <1>5, <1>6

(***************************************************************************)
(* What each step does to the contents.                                    *)
(***************************************************************************)
LEMMA OpenedContents ==
    ASSUME TreeInv, opened PROVE Contents = FileContents \cup BranchContents
BY ContentsParts

LEMMA PartsOfTree == TreeInv => ContentsInParts
BY ContentsParts DEF ContentsInParts

LEMMA PartsOfNextTree == TreeInv' => ContentsInParts'
BY PartsOfTree, PTL

\* The same, of the state after a step.
LEMMA NextContents ==
    ASSUME TreeInv'
    PROVE  Contents' = IF opened' THEN FileContents' \cup BranchContents'
                                  ELSE FileContents'
BY PartsOfNextTree DEF ContentsInParts

LEMMA AddIntervalElements ==
    ASSUME NEW node \in MemoryNode, NEW interval \in Interval
    PROVE  Range(AddIntervalToNode(node, interval).intervals) =
              Range(node.intervals) \cup {interval}
<1>1. node.intervals \in Seq(Interval)
  BY DEF MemoryNode
<1>2. AddIntervalToNode(node, interval).intervals = Append(node.intervals, interval)
  BY DEF AddIntervalToNode, MemoryNode
<1>3. QED
  BY <1>1, <1>2 DEF Range

LEMMA AddToTargetContents ==
    ASSUME TreeInv, TreeInv', AddToTarget
    PROVE  Contents' = Contents \cup {intr}
<1>1. /\ latestBranch \in Seq(MemoryNode) /\ index \in 1..Len(latestBranch)
      /\ intr \in Interval /\ opened /\ opened' /\ file' = file
  BY DEF AddToTarget, TreeInv, TypeInv, TypeOK
<1> DEFINE node == AddIntervalToNode(latestBranch[index], intr)
<1>2. latestBranch' = [latestBranch EXCEPT ![index] = node]
  BY DEF AddToTarget
<1>3. Range(node.intervals) = Range(latestBranch[index].intervals) \cup {intr}
  BY <1>1, AddIntervalElements, NodeOfBranch
<1> HIDE DEF node
<1>4. /\ Len(latestBranch') = Len(latestBranch)
      /\ latestBranch'[index] = node
      /\ \A k \in 1..Len(latestBranch) : k # index => latestBranch'[k] = latestBranch[k]
  BY <1>1, <1>2
<1>5. BranchContents' \subseteq BranchContents \cup {intr}
  <2> SUFFICES ASSUME NEW k \in 1..Len(latestBranch'),
                      NEW interval \in Range(latestBranch'[k].intervals)
               PROVE  interval \in BranchContents \cup {intr}
    BY DEF BranchContents, IntervalsIn, Range
  <2>1. interval \in Range(latestBranch[k].intervals) \cup {intr}
    BY <1>3, <1>4
  <2>2. QED
    BY <1>4, <2>1 DEF BranchContents, IntervalsIn
<1>6. BranchContents \cup {intr} \subseteq BranchContents'
  <2> SUFFICES ASSUME NEW k \in 1..Len(latestBranch),
                      NEW interval \in Range(latestBranch[k].intervals) \cup {intr}
               PROVE  interval \in BranchContents'
    BY <1>1 DEF BranchContents, IntervalsIn
  <2>1. CASE interval \in Range(latestBranch[k].intervals)
    <3>1. interval \in Range(latestBranch'[k].intervals)
      BY <1>3, <1>4, <2>1
    <3>2. QED
      BY <1>4, <3>1 DEF BranchContents, IntervalsIn, Range
  <2>2. CASE interval = intr
    <3>1. interval \in Range(latestBranch'[index].intervals)
      BY <1>3, <1>4, <2>2
    <3>2. QED
      BY <1>1, <1>4, <3>1 DEF BranchContents, IntervalsIn, Range
  <2>3. QED
    BY <2>1, <2>2
<1>7. FileContents' = FileContents
  BY <1>1 DEF FileContents, Range
<1>8. /\ Contents = FileContents \cup BranchContents
      /\ Contents' = FileContents' \cup BranchContents'
  BY <1>1, OpenedContents, NextContents
<1>9. QED
  BY <1>5, <1>6, <1>7, <1>8

LEMMA AddChildIntervals ==
    ASSUME NEW node \in MemoryNode, NEW ts, NEW seq
    PROVE  AddChild(node, ts, seq).intervals = node.intervals
BY DEF AddChild, MemoryNode

LEMMA NoElements == Range(<<>>) = {}
BY DEF Range

LEMMA SiblingContents ==
    ASSUME TreeInv, TreeInv', Sibling PROVE Contents' = Contents
<1>1. /\ latestBranch \in Seq(MemoryNode) /\ index \in 2..Len(latestBranch)
      /\ Len(latestBranch) \in Nat /\ index \in Nat \ {0} /\ opened /\ opened'
  <2>1. latestBranch \in Seq(MemoryNode) /\ opened /\ opened'
    BY DEF Sibling, TreeInv, TypeInv, TypeOK
  <2>2. index \in 2..Len(latestBranch)
    BY SiblingBranch DEF TreeInv
  <2>3. QED
    BY <2>1, <2>2
<1>2. FileContents' = FileContents \cup IntervalsIn(latestBranch, index, Len(latestBranch))
  <2>1. /\ DOMAIN file \cap BranchSeqs = {}
        /\ \A j, k \in 1..Len(latestBranch) :
              latestBranch[j].seq = latestBranch[k].seq => j = k
    BY <1>1 DEF TreeInv, SeqsUnique
  <2>2. index..Len(latestBranch) \subseteq 1..Len(latestBranch)
    BY <1>1
  <2>3. SeqsDownFrom(latestBranch, index) \subseteq BranchSeqs
    BY <1>1, <2>2 DEF SeqsDownFrom, BranchSeqs
  <2>4. file' = CommitNodesDownFromIndex(latestBranch, index)
    BY DEF Sibling
  <2>5. \A j, k \in index..Len(latestBranch) :
           latestBranch[j].seq = latestBranch[k].seq => j = k
    BY <2>1, <2>2
  <2>6. QED
    BY <1>1, <2>1, <2>3, <2>4, <2>5, CommitContents
<1>3. \A k \in 1..(index - 1) :
         latestBranch'[k].intervals = latestBranch[k].intervals
  <2> TAKE k \in 1..(index - 1)
  <2>1. CASE k = index - 1
    <3>1. latestBranch[index - 1] \in MemoryNode
      BY <1>1
    <3>2. latestBranch'[index - 1] = AddChild(latestBranch[index - 1], end, nodeCount)
      BY SiblingBranch DEF TreeInv
    <3>3. QED
      BY <2>1, <3>1, <3>2, AddChildIntervals
  <2>2. CASE k # index - 1
    <3>1. k \in 1..(index - 2)
      BY <1>1, <2>2
    <3>2. QED
      BY <3>1, SiblingBranch DEF TreeInv
  <2>3. QED
    BY <2>1, <2>2
<1>4. \A k \in index..Len(latestBranch) : latestBranch'[k].intervals = <<>>
  BY SiblingBranch, DrawnNodeFields DEF TreeInv
<1>5. Len(latestBranch') = Len(latestBranch)
  BY SiblingBranch DEF TreeInv
<1>6. BranchContents' = IntervalsIn(latestBranch, 1, index - 1)
  <2>1. BranchContents' \subseteq IntervalsIn(latestBranch, 1, index - 1)
    <3> SUFFICES ASSUME NEW k \in 1..Len(latestBranch),
                        NEW interval \in Range(latestBranch'[k].intervals)
                 PROVE  interval \in IntervalsIn(latestBranch, 1, index - 1)
      BY <1>5 DEF BranchContents, IntervalsIn, Range
    <3>1. CASE k \in 1..(index - 1)
      BY <1>3, <3>1 DEF IntervalsIn
    <3>2. CASE k \in index..Len(latestBranch)
      BY <1>4, <3>2, NoElements
    <3>3. QED
      BY <1>1, <3>1, <3>2
  <2>2. IntervalsIn(latestBranch, 1, index - 1) \subseteq BranchContents'
    <3> SUFFICES ASSUME NEW k \in 1..(index - 1),
                        NEW interval \in Range(latestBranch[k].intervals)
                 PROVE  interval \in BranchContents'
      BY DEF IntervalsIn
    <3>1. k \in 1..Len(latestBranch') /\ interval \in Range(latestBranch'[k].intervals)
      BY <1>1, <1>3, <1>5
    <3>2. QED
      BY <3>1 DEF BranchContents, IntervalsIn, Range
  <2>3. QED
    BY <2>1, <2>2
<1>7. BranchContents = IntervalsIn(latestBranch, 1, index - 1)
                       \cup IntervalsIn(latestBranch, index, Len(latestBranch))
  <2>1. 1..Len(latestBranch) = 1..(index - 1) \cup index..Len(latestBranch)
    BY <1>1
  <2>2. QED
    BY <2>1 DEF BranchContents, IntervalsIn
<1>8. /\ Contents = FileContents \cup BranchContents
      /\ Contents' = FileContents' \cup BranchContents'
  BY <1>1, OpenedContents, NextContents
<1>9. QED
  BY <1>2, <1>6, <1>7, <1>8

\* Steps that leave the nodes alone.
LEMMA SameContents ==
    ASSUME UNCHANGED <<opened, latestBranch, file>> PROVE Contents' = Contents
<1>1. BranchSeqs' = BranchSeqs
  BY DEF BranchSeqs, SeqsDownFrom
<1>2. \A seq : BranchNode(seq)' = BranchNode(seq)
  BY DEF BranchNode
<1>3. Nodes' = Nodes
  BY <1>1, <1>2 DEF Nodes
<1>4. QED
  BY <1>3 DEF Contents, Range

\* The old root's parent changes, not its intervals.
LEMMA BranchUnderNewRootContents ==
    ASSUME TreeInv, index \in 1..Len(latestBranch)
    PROVE  IntervalsIn(BranchUnderNewRoot, 1, Len(latestBranch)) = BranchContents
<1>1. /\ latestBranch \in Seq(MemoryNode) /\ Len(latestBranch) \in Nat
      /\ 1 \in 1..Len(latestBranch)
  BY DEF TreeInv, TypeInv, TypeOK
<1>2. \A k \in 1..Len(latestBranch) :
         BranchUnderNewRoot[k].intervals = latestBranch[k].intervals
  <2> TAKE k \in 1..Len(latestBranch)
  <2>1. CASE k = 1
    <3>1. latestBranch[1] \in MemoryNode
      BY <1>1
    <3>2. BranchUnderNewRoot[1] = [latestBranch[1] EXCEPT !.parent = nodeCount]
      BY BranchUnderNewRootType DEF TreeInv, TypeInv
    <3>3. QED
      BY <2>1, <3>1, <3>2 DEF MemoryNode
  <2>2. CASE k # 1
    <3>1. k \in 2..Len(latestBranch)
      BY <1>1, <2>2
    <3>2. QED
      BY <3>1, BranchUnderNewRootType DEF TreeInv, TypeInv
  <2>3. QED
    BY <2>1, <2>2
<1>3. QED
  BY <1>2 DEF BranchContents, IntervalsIn, Range

LEMMA CommitUnderNewRootContents ==
    ASSUME TreeInv, opened, index \in 1..Len(latestBranch),
           file' = CommitNodesDownFromIndex(BranchUnderNewRoot, 1)
    PROVE  FileContents' = FileContents \cup BranchContents
<1>1. /\ BranchUnderNewRoot \in Seq(MemoryNode)
      /\ Len(BranchUnderNewRoot) = Len(latestBranch)
      /\ \A k \in 1..Len(latestBranch) :
            BranchUnderNewRoot[k].seq = latestBranch[k].seq
  BY BranchUnderNewRootType DEF TreeInv, TypeInv
<1>2. SeqsDownFrom(BranchUnderNewRoot, 1) = BranchSeqs
  BY <1>1 DEF BranchSeqs, SeqsDownFrom
<1>3. /\ DOMAIN file \cap BranchSeqs = {}
      /\ \A j, k \in 1..Len(latestBranch) :
            latestBranch[j].seq = latestBranch[k].seq => j = k
  BY DEF TreeInv, SeqsUnique
<1>4. \A j, k \in 1..Len(BranchUnderNewRoot) :
         BranchUnderNewRoot[j].seq = BranchUnderNewRoot[k].seq => j = k
  BY <1>1, <1>3
<1> DEFINE branch == BranchUnderNewRoot
           one == 1
<1>5. /\ branch \in Seq(MemoryNode) /\ one \in Nat \ {0}
      /\ DOMAIN file \cap SeqsDownFrom(branch, one) = {}
      /\ \A j, k \in one..Len(branch) : branch[j].seq = branch[k].seq => j = k
      /\ file' = CommitNodesDownFromIndex(branch, one)
  BY <1>1, <1>2, <1>3, <1>4
<1> HIDE DEF branch, one
<1>6. FileContents' = FileContents \cup IntervalsIn(branch, one, Len(branch))
  BY <1>5, CommitContents
<1>7. QED
  BY <1>1, <1>6, BranchUnderNewRootContents DEF branch, one

LEMMA GrowRootContents ==
    ASSUME TreeInv, TreeInv', GrowRoot PROVE Contents' = Contents
<1>1. index \in 1..Len(latestBranch) /\ Len(latestBranch) \in Nat /\ opened /\ opened'
  BY DEF GrowRoot, TreeInv, TypeInv, TypeOK
<1>2. FileContents' = FileContents \cup BranchContents
  BY <1>1, CommitUnderNewRootContents DEF GrowRoot
<1>3. latestBranch'[1].intervals = <<>>
  <2>1. NewRootWithChild \in MemoryNode /\ NewRootWithChild.intervals = <<>>
    BY <1>1, NewRootType DEF TreeInv, TypeInv
  <2>2. latestBranch'[1] = AddChild(NewRootWithChild, end, nodeCount + 1)
    BY GrowRootBranch DEF TreeInv
  <2>3. QED
    BY <2>1, <2>2, AddChildIntervals
<1>4. \A k \in 2..(Len(latestBranch) + 1) : latestBranch'[k].intervals = <<>>
  BY GrowRootBranch, DrawnNodeFields DEF TreeInv
<1>5. Len(latestBranch') = Len(latestBranch) + 1
  BY GrowRootBranch DEF TreeInv
<1>6. \A k \in 1..Len(latestBranch') : latestBranch'[k].intervals = <<>>
  BY <1>1, <1>3, <1>4, <1>5
<1>7. BranchContents' = {}
  BY <1>6, NoElements DEF BranchContents, IntervalsIn, Range
<1>8. QED
  BY <1>1, <1>2, <1>7, OpenedContents, NextContents

LEMMA GrowRootNoChildContents ==
    ASSUME TreeInv, TreeInv', GrowRootNoChild PROVE Contents' = Contents
<1>1. index \in 1..Len(latestBranch) /\ opened /\ opened' /\ file' = file
  BY DEF GrowRootNoChild, TreeInv, TypeInv, TypeOK
<1>2. latestBranch' = BranchUnderNewRoot /\ Len(BranchUnderNewRoot) = Len(latestBranch)
  BY <1>1, BranchUnderNewRootType DEF GrowRootNoChild, TreeInv, TypeInv
<1>3. BranchContents' = IntervalsIn(BranchUnderNewRoot, 1, Len(latestBranch))
  BY <1>2 DEF BranchContents, IntervalsIn, Range
<1>4. BranchContents' = BranchContents
  BY <1>1, <1>3, BranchUnderNewRootContents
<1>5. FileContents' = FileContents
  BY <1>1 DEF FileContents, Range
<1>6. QED
  BY <1>1, <1>4, <1>5, OpenedContents, NextContents

LEMMA GrowRootOneChildContents ==
    ASSUME TreeInv, TreeInv', GrowRootOneChild PROVE Contents' = Contents
<1>1. index \in 1..Len(latestBranch) /\ opened /\ opened'
  BY DEF GrowRootOneChild, TreeInv, TypeInv, TypeOK
<1>2. FileContents' = FileContents \cup BranchContents
  BY <1>1, CommitUnderNewRootContents DEF GrowRootOneChild
<1>3. NewRootWithChild.intervals = <<>>
  BY <1>1, NewRootType DEF TreeInv, TypeInv
<1>4. Len(latestBranch') = 1 /\ latestBranch'[1].intervals = <<>>
  BY <1>3 DEF GrowRootOneChild
<1>5. BranchContents' = {}
  BY <1>4, NoElements DEF BranchContents, IntervalsIn, Range
<1>6. QED
  BY <1>1, <1>2, <1>5, OpenedContents, NextContents

LEMMA OpenContents ==
    ASSUME TreeInv', (\E ts \in BeginTimes : Open(ts)) \/ OpenUnknownSerDes
    PROVE  Contents' = {}
<1>1. FileContents' = {}
  BY DEF Open, OpenUnknownSerDes, Truncated, FileContents
<1>2. ASSUME NEW ts \in BeginTimes, Open(ts) PROVE BranchContents' = {}
  <2>1. Len(latestBranch') = 1 /\ latestBranch'[1].intervals = <<>>
    BY <1>2 DEF Open, NewNode
  <2>2. QED
    BY <2>1, NoElements DEF BranchContents, IntervalsIn, Range
<1>3. CASE OpenUnknownSerDes
  BY <1>1, <1>3, NextContents DEF OpenUnknownSerDes
<1>4. QED
  BY <1>1, <1>2, <1>3, NextContents

\* Closing the nodes of the branch and committing them all.
LEMMA CloseContents ==
    ASSUME TreeInv, TreeInv', NEW ts \in CloseTimes \cup {end}, Close(ts)
    PROVE  Contents' = Contents
<1>1. /\ latestBranch \in Seq(MemoryNode) /\ Len(latestBranch) \in Nat
      /\ end' \in Timestamp /\ opened /\ ~opened'
  BY DEF Close, TreeInv, TypeInv, TypeOK
<1> DEFINE branch == [k \in 1..Len(latestBranch) |-> CloseNode(latestBranch[k], end')]
           one == 1
<1>2. /\ branch = latestBranch' /\ branch \in Seq(MemoryNode)
      /\ Len(branch) = Len(latestBranch)
  BY <1>1 DEF Close, TreeInv, TypeInv, TypeOK
<1>3. \A k \in 1..Len(latestBranch) :
         /\ branch[k].seq = latestBranch[k].seq
         /\ branch[k].intervals = latestBranch[k].intervals
  <2> TAKE k \in 1..Len(latestBranch)
  <2>1. latestBranch[k] \in MemoryNode /\ branch[k] = CloseNode(latestBranch[k], end')
    BY <1>1
  <2>2. CloseNode(latestBranch[k], end').seq = latestBranch[k].seq
    BY <2>1 DEF CloseNode, MemoryNode
  <2>3. QED
    BY <2>1, <2>2, CloseNodeIntervals
<1>4. one \in Nat \ {0} /\ file' = CommitNodesDownFromIndex(branch, one)
  BY <1>2 DEF Close
<1> HIDE DEF branch
<1>5. SeqsDownFrom(branch, one) = BranchSeqs
  BY <1>1, <1>2, <1>3 DEF BranchSeqs, SeqsDownFrom
<1>6. /\ DOMAIN file \cap SeqsDownFrom(branch, one) = {}
      /\ \A j, k \in one..Len(branch) : branch[j].seq = branch[k].seq => j = k
  BY <1>1, <1>2, <1>3, <1>5 DEF TreeInv, SeqsUnique
<1> HIDE DEF one
<1>7. FileContents' = FileContents \cup IntervalsIn(branch, one, Len(branch))
  BY <1>2, <1>4, <1>6, CommitContents
<1>8. IntervalsIn(branch, one, Len(branch)) = BranchContents
  BY <1>2, <1>3 DEF BranchContents, IntervalsIn, one, Range
<1>9. QED
  BY <1>1, <1>7, <1>8, OpenedContents, NextContents

LEMMA StepContents ==
    ASSUME TreeInv, TreeInv', [Next]_vars
    PROVE  \/ (\E ts \in BeginTimes : Open(ts)) /\ Contents' = {}
           \/ OpenUnknownSerDes /\ Contents' = {}
           \/ AddToTarget /\ Contents' = Contents \cup {intr}
           \/ Contents' = Contents
<1>1. CASE SameTree
  BY <1>1, SameContents DEF SameTree
<1>2. ASSUME NEW ts \in CloseTimes \cup {end}, Close(ts) PROVE Contents' = Contents
  BY <1>2, CloseContents
<1>3. QED
  BY <1>1, <1>2, StepsOfNext, OpenContents, AddToTargetContents, SiblingContents,
     GrowRootContents, GrowRootNoChildContents, GrowRootOneChildContents

(***************************************************************************)
(* An interval is stored at most once: its serial number is that of the    *)
(* call in progress, and the intervals stored have those of earlier calls. *)
(***************************************************************************)
InCall == pc \in {"try", "sibling"}

SerialInv ==
    /\ InCall => intr \in Submissions /\ intr.serial = adds
    /\ \A interval \in Contents :
          /\ interval.serial \in Int
          /\ interval.serial < IF InCall THEN adds ELSE adds + 1

GoesOn == InCall /\ InCall' /\ UNCHANGED <<intr, adds>>

Ends == ~InCall' /\ adds' = adds

Starts ==
    /\ ~InCall /\ InCall'
    /\ adds < MaxAdds /\ adds' = adds + 1
    /\ \E offer \in Offers : intr' = Submit(offer, adds')

LEMMA CallOfNext ==
    ASSUME TreeInv, [Next]_vars PROVE GoesOn \/ Ends \/ Starts
<1> USE DEF GoesOn, Ends, InCall
<1>1. ASSUME NEW ts \in BeginTimes, Open(ts) PROVE Ends
  BY <1>1 DEF Open
<1>2. CASE OpenUnknownSerDes \/ OpenFails \/ AddIntervalClosed \/ Overrun
  BY <1>2 DEF OpenUnknownSerDes, OpenFails, AddIntervalClosed, Overrun
<1>3. ASSUME NEW ts \in CloseTimes \cup {end}, Close(ts) PROVE Ends
  BY <1>3 DEF Close
<1>4. ASSUME NEW offer \in Offers, AddInterval(offer) PROVE Starts
  BY <1>4 DEF AddInterval, Starts
<1>5. ASSUME NEW offer \in Offers, AddIntervalOutOfRange(offer) PROVE Ends
  BY <1>5 DEF AddIntervalOutOfRange
<1>6. CASE TryAddSibling \/ TryParent \/ SiblingOfParent
  BY <1>6 DEF TryAddSibling, TryParent, SiblingOfParent, GoOnAt
<1>7. CASE Sibling \/ GrowRoot
  BY <1>7 DEF Sibling, GrowRoot, TryNewLeaf
<1>8. CASE AddToTarget \/ GrowRootNoChild \/ GrowRootOneChild
  BY <1>8 DEF AddToTarget, GrowRootNoChild, GrowRootOneChild, Return
<1>9. CASE UNCHANGED vars
  BY <1>9 DEF vars
<1>10. QED
  BY <1>1, <1>2, <1>3, <1>4, <1>5, <1>6, <1>7, <1>8, <1>9 DEF Next, CallStep

LEMMA NextSerialInv == TreeInv /\ SerialInv /\ [Next]_vars => SerialInv'
<1> SUFFICES ASSUME TreeInv, SerialInv, [Next]_vars PROVE SerialInv'
  OBVIOUS
<1>1. TreeInv'
  BY NextTypeInv, NextSeqsUnique DEF TreeInv
<1>2. adds \in Nat /\ adds' \in Nat
  BY <1>1, MaxAddsAssumption DEF TreeInv, TypeInv, TypeOK
<1>3. \/ AddToTarget /\ Contents' = Contents \cup {intr}
      \/ Contents' \subseteq Contents
  BY <1>1, StepContents
<1>4. ASSUME AddToTarget PROVE InCall /\ ~InCall' /\ adds' = adds
  BY <1>4 DEF AddToTarget, Return, InCall
<1>5. CASE GoesOn
  <2>1. Contents' \subseteq Contents
    BY <1>3, <1>4, <1>5 DEF GoesOn
  <2>2. QED
    BY <1>5, <2>1 DEF GoesOn, SerialInv, Submissions
<1>6. CASE Ends
  <2>1. \A interval \in Contents : interval.serial \in Int /\ interval.serial < adds + 1
    BY <1>2 DEF SerialInv
  <2>2. CASE AddToTarget
    <3>1. intr.serial = adds
      BY <1>4, <2>2 DEF SerialInv
    <3>2. \A interval \in Contents' : interval.serial \in Int /\ interval.serial < adds + 1
      BY <1>2, <1>3, <2>1, <3>1
    <3>3. QED
      BY <1>6, <3>2 DEF Ends, SerialInv
  <2>3. CASE ~AddToTarget
    BY <1>3, <1>6, <2>1, <2>3 DEF Ends, SerialInv
  <2>4. QED
    BY <2>2, <2>3
<1>7. CASE Starts
  <2>1. Contents' \subseteq Contents
    BY <1>3, <1>4, <1>7 DEF Starts
  <2>2. \A interval \in Contents' : interval.serial \in Int /\ interval.serial < adds'
    BY <1>7, <2>1 DEF Starts, SerialInv
  <2>3. intr' \in Submissions /\ intr'.serial = adds'
    BY <1>2, <1>7, MaxAddsAssumption DEF Starts, Submissions, Submit
  <2>4. QED
    BY <1>7, <2>2, <2>3 DEF Starts, SerialInv, Submissions
<1>8. QED
  BY <1>5, <1>6, <1>7, CallOfNext

LEMMA InitContents == Init => Contents = {}
BY DEF Init, Contents, Nodes, BranchSeqs

LEMMA SerialInvariant == Spec => []SerialInv
<1>1. Init => SerialInv
  BY InitContents DEF Init, InCall, SerialInv
<1>2. QED
  BY <1>1, NextSerialInv, TreeInvariant, PTL DEF Spec

(***************************************************************************)
(* The refinement.                                                         *)
(***************************************************************************)
LEMMA StepRefinement ==
    TreeInv /\ TreeInv' /\ SerialInv /\ [Next]_vars => [H!Next]_(H!vars)
<1> SUFFICES ASSUME TreeInv, TreeInv', SerialInv, [Next]_vars
             PROVE  [H!Next]_(H!vars)
  OBVIOUS
<1>1. ASSUME NEW ts \in BeginTimes, Open(ts) PROVE H!Next
  <2>1. Contents' = {}
    BY <1>1, OpenContents
  <2>2. H!Open(ts)
    BY <1>1, <2>1 DEF Open, H!Open
  <2>3. QED
    BY <2>2 DEF H!Next
<1>2. CASE OpenUnknownSerDes
  <2>1. Contents' = {}
    BY <1>2, OpenContents
  <2>2. H!OpenTruncates
    BY <1>2, <2>1 DEF OpenUnknownSerDes, H!OpenTruncates
  <2>3. QED
    BY <2>2 DEF H!Next
<1>3. ASSUME NEW ts \in CloseTimes \cup {end}, Close(ts) PROVE H!Next
  <2>1. Contents' = Contents
    BY <1>3, CloseContents
  <2>2. H!Close(ts)
    BY <1>3, <2>1 DEF Close, ClosingEnd, H!Close
  <2>3. QED
    BY <2>2 DEF H!Next
<1>4. CASE AddToTarget
  <2>1. intr \in Submissions /\ intr \notin Contents
    BY <1>4, MaxAddsAssumption
       DEF AddToTarget, SerialInv, InCall, TreeInv, TypeInv, TypeOK
  <2>2. opened /\ opened' /\ intr.begin >= begin /\ intr.end >= end
    BY <1>4 DEF AddToTarget, TreeInv, TypeInv, TypeOK, RootTakesAll
  <2>3. Contents' = Contents \cup {intr}
    BY <1>4, AddToTargetContents
  <2>4. H!Add(intr)
    BY <1>4, <2>1, <2>2, <2>3 DEF AddToTarget, Return, H!Add
  <2>5. QED
    BY <2>1, <2>4 DEF H!Next
<1>5. CASE OpenFails \/ AddIntervalClosed
  <2>1. Contents' = Contents
    BY <1>5, SameContents DEF OpenFails, AddIntervalClosed
  <2>2. H!Throw("IO")
    BY <1>5, <2>1 DEF OpenFails, AddIntervalClosed, H!Throw
  <2>3. QED
    BY <2>2 DEF H!Next
<1>6. ASSUME NEW offer \in Offers, AddIntervalOutOfRange(offer) PROVE H!Next
  <2>1. Contents' = Contents
    BY <1>6, SameContents DEF AddIntervalOutOfRange
  <2>2. H!Throw("IntervalOutOfRange")
    BY <1>6, <2>1 DEF AddIntervalOutOfRange, H!Throw
  <2>3. QED
    BY <2>2 DEF H!Next
<1>7. CASE GrowRootNoChild \/ GrowRootOneChild
  <2>1. Contents' = Contents
    BY <1>7, GrowRootNoChildContents, GrowRootOneChildContents
  <2>2. H!Throw("NodeFull")
    BY <1>7, <2>1 DEF GrowRootNoChild, GrowRootOneChild, Return, H!Throw
  <2>3. QED
    BY <2>2 DEF H!Next
<1>8. ASSUME NEW offer \in Offers, AddInterval(offer) PROVE UNCHANGED H!vars
  BY <1>8, SameContents DEF AddInterval, H!vars
<1>9. CASE TryAddSibling \/ TryParent \/ SiblingOfParent \/ Overrun \/ UNCHANGED vars
  <2>1. UNCHANGED <<opened, begin, end, outcome, latestBranch, file>>
    BY <1>9 DEF TryAddSibling, TryParent, SiblingOfParent, GoOnAt, Overrun, vars
  <2>2. QED
    BY <2>1, SameContents DEF H!vars
<1>10. CASE Sibling \/ GrowRoot
  <2>1. Contents' = Contents
    BY <1>10, SiblingContents, GrowRootContents
  <2>2. UNCHANGED <<opened, begin, end, outcome>>
    BY <1>10 DEF Sibling, GrowRoot, TryNewLeaf
  <2>3. QED
    BY <2>1, <2>2 DEF H!vars
<1>11. QED
  BY <1>1, <1>2, <1>3, <1>4, <1>5, <1>6, <1>7, <1>8, <1>9, <1>10 DEF Next, CallStep

\* The sink is a history: a call of addInterval has its effect when a node
\* takes the interval, whatever the tree and the file go through before.
THEOREM SinkImplementsHistory == Spec => ImplementsHistory
<1>1. Init => H!Init
  BY InitContents DEF Init, H!Init
<1>2. QED
  BY <1>1, StepRefinement, TreeInvariant, SerialInvariant, PTL
     DEF Spec, ImplementsHistory, H!Spec

=============================================================================
