------------------------- MODULE HistorySinkTreeProofs -------------------------
(***************************************************************************)
(* The latest branch is a path of the tree, and the file a closed history  *)
(* leaves is a whole tree, for every value of the constants of HistorySink *)
(* that lets a node have children.                                         *)
(***************************************************************************)
EXTENDS HistorySinkOrderProofs

USE DEF Timestamp, attributes, disk, call

(***************************************************************************)
(* The latest branch is a path.                                            *)
(***************************************************************************)

\* A node that has just got a child has it as its last child.
LEMMA AddedIsLastChild ==
    ASSUME NEW node \in MemoryNode, NEW ts \in Int, NEW seq \in Nat, NEW child,
           child.parent = node.seq, child.begin = ts, child.seq = seq
    PROVE  IsLastChild(child, AddChild(node, ts, seq))
<1> DEFINE parent == AddChild(node, ts, seq)
           pointer == [begin |-> ts, seq |-> seq]
<1>1. parent.seq = node.seq /\ parent.children = Append(node.children, pointer)
  BY AddChildFields
<1>2. node.children \in Seq(ChildPointer) /\ pointer \in ChildPointer
  BY DEF MemoryNode, ChildPointer
<1> HIDE DEF parent
<1>3. /\ parent.children # <<>> /\ Len(parent.children) = Len(node.children) + 1
      /\ parent.children[Len(parent.children)] = pointer
  <2> HIDE DEF pointer
  <2>1. QED
    BY <1>1, <1>2
<1>4. IsLastChild(child, parent)
  BY <1>1, <1>3 DEF IsLastChild
<1>5. QED
  BY <1>4 DEF parent

\* The number and the place of a drawn node.
LEMMA DrawnNodeSeqs ==
    ASSUME NEW parentSeq \in Nat, NEW firstSeq \in Nat, NEW count \in Nat,
           NEW k \in 1..count, end \in Int, maxChildren \in Nat
    PROVE  /\ DrawnNode(parentSeq, firstSeq, count, k).seq = firstSeq + k - 1
           /\ k = 1 => DrawnNode(parentSeq, firstSeq, count, k).parent = parentSeq
           /\ k # 1 => DrawnNode(parentSeq, firstSeq, count, k).parent = firstSeq + k - 2
           /\ DrawnNode(parentSeq, firstSeq, count, k).begin = end
<1>1. DrawnNode(parentSeq, firstSeq, count, k).seq = firstSeq + k - 1
  BY DrawnNodeType
<1>2. DrawnNode(parentSeq, firstSeq, count, k).parent =
         IF k = 1 THEN parentSeq ELSE firstSeq + k - 2
  BY DrawnNodeType
<1>3. QED
  BY <1>1, <1>2, DrawnNodeFields

\* The first node drawn is the child its parent has just got.
LEMMA FirstDrawn ==
    ASSUME NEW parentSeq \in Nat, NEW firstSeq \in Nat, NEW count \in Nat,
           count >= 1, end \in Int, maxChildren \in Nat
    PROVE  /\ DrawnNode(parentSeq, firstSeq, count, 1).seq = firstSeq
           /\ DrawnNode(parentSeq, firstSeq, count, 1).parent = parentSeq
           /\ DrawnNode(parentSeq, firstSeq, count, 1).begin = end
<1> DEFINE one == 1
<1>1. one \in 1..count /\ one = 1 /\ firstSeq + one - 1 = firstSeq
  OBVIOUS
<1> HIDE DEF one
<1>2. one \in 1..count /\ end \in Int
  BY <1>1
<1>3. DrawnNode(parentSeq, firstSeq, count, one).seq = firstSeq + one - 1
  BY <1>2, DrawnNodeSeqs
<1>4. /\ DrawnNode(parentSeq, firstSeq, count, one).parent = parentSeq
      /\ DrawnNode(parentSeq, firstSeq, count, one).begin = end
  BY <1>1, DrawnNodeSeqs
<1>5. QED
  BY <1>1, <1>3, <1>4

\* Each node drawn is the last child of the one drawn before it.
LEMMA DrawnIsLastChild ==
    ASSUME NEW parentSeq \in Nat, NEW firstSeq \in Nat, NEW count \in Nat,
           NEW k \in 2..count, end \in Int, maxChildren \in Nat
    PROVE  IsLastChild(DrawnNode(parentSeq, firstSeq, count, k),
                       DrawnNode(parentSeq, firstSeq, count, k - 1))
<1> DEFINE above == k - 1
           child == DrawnNode(parentSeq, firstSeq, count, k)
           parent == DrawnNode(parentSeq, firstSeq, count, above)
           pointer == [begin |-> end, seq |-> firstSeq + above]
<1>1. k \in 1..count /\ k # 1 /\ above \in 1..count /\ above < count /\ above = k - 1
  OBVIOUS
<1> HIDE DEF above
<1>2. child.seq = firstSeq + k - 1 /\ child.parent = firstSeq + k - 2 /\ child.begin = end
  BY <1>1, DrawnNodeSeqs
<1>3. parent.seq = firstSeq + above - 1
  <2>1. above \in 1..count
    BY <1>1
  <2>2. QED
    BY <2>1, DrawnNodeSeqs
<1>4. parent.children = Append(<<>>, pointer)
  <2> HIDE DEF child
  <2>1. above \in 1..count /\ above < count
    BY <1>1
  <2>2. DrawnNode(parentSeq, firstSeq, count, above).children
           = Append(<<>>, [begin |-> end, seq |-> firstSeq + above])
    BY <2>1, DrawnNodeChildren
  <2>3. QED
    BY <2>2
<1> HIDE DEF child, parent
<1>5. pointer = [begin |-> child.begin, seq |-> child.seq]
  BY <1>1, <1>2
<1> HIDE DEF pointer
<1>6. parent.children = <<pointer>>
  BY <1>4
<1>7. Len(parent.children) = 1 /\ parent.children[1] = pointer /\ parent.children # <<>>
  BY <1>6
<1>8. child.parent = parent.seq
  BY <1>1, <1>2, <1>3
<1>9. IsLastChild(child, parent)
  BY <1>5, <1>7, <1>8 DEF IsLastChild
<1>10. QED
  BY <1>9 DEF child, parent, above

\* What is inductive of BranchIsPath where every open gives a node room for one
\* child or more.
BranchPath ==
    opened =>
        /\ Len(latestBranch) >= 1
        /\ latestBranch[1].seq = root
        /\ latestBranch[1].parent = RootParent
        /\ \A k \in 2..Len(latestBranch) :
              IsLastChild(latestBranch[k], latestBranch[k - 1])

\* A path stays one when its nodes keep what makes it one.
LEMMA SamePath ==
    ASSUME BranchPath, opened, root' = root,
           Len(latestBranch') = Len(latestBranch),
           \A k \in 1..Len(latestBranch) :
              /\ latestBranch'[k].seq = latestBranch[k].seq
              /\ latestBranch'[k].parent = latestBranch[k].parent
              /\ latestBranch'[k].begin = latestBranch[k].begin
              /\ latestBranch'[k].children = latestBranch[k].children,
           latestBranch \in Seq(MemoryNode)
    PROVE  BranchPath'
<1>1. ASSUME NEW k \in 2..Len(latestBranch)
      PROVE  IsLastChild(latestBranch'[k], latestBranch'[k - 1])
  <2>1. k \in 1..Len(latestBranch) /\ k - 1 \in 1..Len(latestBranch)
    OBVIOUS
  <2>2. IsLastChild(latestBranch[k], latestBranch[k - 1])
    BY DEF BranchPath
  <2>3. QED
    BY <2>1, <2>2 DEF IsLastChild
<1>2. Len(latestBranch) >= 1 /\ 1 \in 1..Len(latestBranch)
  BY DEF BranchPath
<1>3. QED
  BY <1>1, <1>2 DEF BranchPath, IsLastChild

LEMMA OpenPath ==
    ASSUME NEW ts \in BeginTimes, Open(ts) PROVE BranchPath'
<1> DEFINE leaf == NewNode(0, RootParent, ts, 0)
<1>1. leaf.seq = 0 /\ leaf.parent = RootParent
  BY DEF NewNode
<1>2. latestBranch' = <<leaf>> /\ root' = 0
  BY DEF Open
<1> HIDE DEF leaf
<1>3. Len(latestBranch') = 1 /\ latestBranch'[1] = leaf
  BY <1>2
<1>4. QED
  BY <1>1, <1>2, <1>3 DEF BranchPath

LEMMA AddToTargetFields ==
    ASSUME TypeInv, AddToTarget
    PROVE  /\ Len(latestBranch') = Len(latestBranch)
           /\ \A k \in 1..Len(latestBranch) :
                 /\ latestBranch'[k].seq = latestBranch[k].seq
                 /\ latestBranch'[k].parent = latestBranch[k].parent
                 /\ latestBranch'[k].begin = latestBranch[k].begin
                 /\ latestBranch'[k].children = latestBranch[k].children
<1>1. latestBranch \in Seq(MemoryNode) /\ index \in 1..Len(latestBranch)
  BY DEF AddToTarget, TypeInv, TypeOK
<1> DEFINE target == latestBranch[index]
           node == AddIntervalToNode(target, intr)
<1>2. latestBranch' = [latestBranch EXCEPT ![index] = node]
  BY DEF AddToTarget
<1>3. target \in MemoryNode
  BY <1>1
<1>4. /\ node.seq = target.seq /\ node.parent = target.parent
      /\ node.begin = target.begin /\ node.children = target.children
  <2> HIDE DEF target
  <2>1. QED
    BY <1>3 DEF AddIntervalToNode, MemoryNode
<1> HIDE DEF node
<1>5. Len(latestBranch') = Len(latestBranch)
  BY <1>1, <1>2
<1>6. ASSUME NEW k \in 1..Len(latestBranch)
      PROVE  latestBranch'[k] = IF k = index THEN node ELSE latestBranch[k]
  BY <1>1, <1>2
<1>7. QED
  BY <1>4, <1>5, <1>6

LEMMA AddToTargetPath ==
    ASSUME TypeInv, BranchPath, AddToTarget PROVE BranchPath'
<1>1. opened /\ root' = root /\ latestBranch \in Seq(MemoryNode)
  BY DEF AddToTarget, TypeInv, TypeOK
<1>2. QED
  BY <1>1, AddToTargetFields, SamePath

LEMMA SiblingPath ==
    ASSUME TypeInv, BranchPath, Sibling PROVE BranchPath'
<1>1. /\ latestBranch \in Seq(MemoryNode) /\ index \in 2..Len(latestBranch)
      /\ end \in Int /\ maxChildren \in Nat /\ nodeCount \in Nat /\ opened /\ root' = root
      /\ Len(latestBranch') = Len(latestBranch) /\ Len(latestBranch) \in Nat
  BY SiblingBranch DEF Sibling, TypeInv, TypeOK
<1> DEFINE above == latestBranch[index - 1]
           grown == AddChild(above, end, nodeCount)
           count == Len(latestBranch) - index + 1
<1>2. above \in MemoryNode /\ above.seq \in Nat
  <2>1. index - 1 \in 1..Len(latestBranch)
    BY <1>1
  <2>2. QED
    BY <1>1, <2>1, NodeOfBranch
<1>3. /\ grown.seq = above.seq /\ grown.parent = above.parent
      /\ grown.begin = above.begin
  <2> HIDE DEF above
  <2>1. QED
    BY <1>1, <1>2, AddChildFields
<1>4. /\ \A k \in 1..(index - 2) : latestBranch'[k] = latestBranch[k]
      /\ latestBranch'[index - 1] = grown
      /\ \A k \in index..Len(latestBranch) :
            latestBranch'[k] = DrawnNode(above.seq, nodeCount, count, k - index + 1)
  BY SiblingBranch
<1>5. count \in Nat /\ count >= 1
  BY <1>1
<1> HIDE DEF above, grown, count
<1>6. ASSUME NEW k \in 1..(index - 1)
      PROVE  /\ latestBranch'[k].seq = latestBranch[k].seq
             /\ latestBranch'[k].parent = latestBranch[k].parent
             /\ latestBranch'[k].begin = latestBranch[k].begin
  <2>1. k \in 1..(index - 2) \/ k = index - 1
    BY <1>1
  <2>2. QED
    BY <1>3, <1>4, <2>1 DEF above
<1>7. ASSUME NEW k \in 2..Len(latestBranch)
      PROVE  IsLastChild(latestBranch'[k], latestBranch'[k - 1])
  <2>1. CASE k \in 2..(index - 1)
    <3>1. k \in 1..(index - 1) /\ k - 1 \in 1..(index - 2)
      BY <1>1, <2>1
    <3>2. IsLastChild(latestBranch[k], latestBranch[k - 1])
      BY <1>1 DEF BranchPath
    <3>3. latestBranch'[k - 1] = latestBranch[k - 1]
      BY <1>4, <3>1
    <3>4. QED
      BY <1>6, <3>1, <3>2, <3>3 DEF IsLastChild
  <2>2. CASE k = index
    <3> DEFINE leaf == latestBranch'[k]
    <3>1. leaf = DrawnNode(above.seq, nodeCount, count, 1)
      <4>1. k \in index..Len(latestBranch) /\ k - index + 1 = 1
        BY <1>1, <2>2
      <4>2. QED
        BY <1>4, <4>1
    <3> HIDE DEF leaf
    <3>2. leaf.seq = nodeCount /\ leaf.parent = above.seq /\ leaf.begin = end
      <4>1. /\ above.seq \in Nat /\ nodeCount \in Nat /\ count \in Nat /\ count >= 1
            /\ end \in Int /\ maxChildren \in Nat
        BY <1>1, <1>2, <1>5
      <4>2. QED
        BY <3>1, <4>1, FirstDrawn
    <3>3. IsLastChild(leaf, AddChild(above, end, nodeCount))
      BY <1>1, <1>2, <3>2, AddedIsLastChild
    <3>4. QED
      BY <1>4, <2>2, <3>3 DEF leaf, grown
  <2>3. CASE k \in (index + 1)..Len(latestBranch)
    <3> DEFINE i == k - index + 1
    <3>1. /\ i \in 2..count /\ i - 1 = (k - 1) - index + 1
          /\ k \in index..Len(latestBranch) /\ k - 1 \in index..Len(latestBranch)
      BY <1>1, <2>3 DEF count
    <3>2. /\ latestBranch'[k] = DrawnNode(above.seq, nodeCount, count, i)
          /\ latestBranch'[k - 1] = DrawnNode(above.seq, nodeCount, count, i - 1)
      BY <1>4, <3>1
    <3> HIDE DEF i
    <3>3. QED
      BY <1>1, <1>2, <1>5, <3>1, <3>2, DrawnIsLastChild
  <2>4. QED
    BY <1>1, <2>1, <2>2, <2>3
<1>8. /\ Len(latestBranch) >= 1 /\ 1 \in 1..(index - 1)
      /\ latestBranch[1].seq = root /\ latestBranch[1].parent = RootParent
  BY <1>1 DEF BranchPath
<1>9. QED
  BY <1>1, <1>6, <1>7, <1>8 DEF BranchPath, IsLastChild

LEMMA GrowRootPath ==
    ASSUME TypeInv, GrowRoot PROVE BranchPath'
<1>1. /\ index \in 1..Len(latestBranch) /\ Len(latestBranch) \in Nat
      /\ end \in Int /\ maxChildren \in Nat /\ nodeCount \in Nat /\ root' = nodeCount
      /\ Len(latestBranch') = Len(latestBranch) + 1
  BY GrowRootBranch DEF GrowRoot, TypeInv, TypeOK
<1> DEFINE old == NewRootWithChild
           first == nodeCount + 1
           count == Len(latestBranch)
           grown == AddChild(old, end, first)
<1>2. old \in MemoryNode /\ old.seq = nodeCount /\ old.parent = RootParent
  BY <1>1, NewRootType DEF TypeInv
<1>3. /\ latestBranch'[1] = grown
      /\ \A k \in 2..(Len(latestBranch) + 1) :
            latestBranch'[k] = DrawnNode(nodeCount, first, count, k - 1)
  BY GrowRootBranch
<1>4. first \in Nat /\ count \in Nat /\ count >= 1
  BY <1>1
<1> HIDE DEF old, first
<1>5. grown.seq = nodeCount /\ grown.parent = RootParent
  BY <1>1, <1>2, <1>4, AddChildFields
<1> HIDE DEF count, grown
<1>6. ASSUME NEW k \in 2..Len(latestBranch')
      PROVE  IsLastChild(latestBranch'[k], latestBranch'[k - 1])
  <2>1. CASE k = 2
    <3> DEFINE leaf == latestBranch'[k]
    <3>1. leaf = DrawnNode(nodeCount, first, count, 1)
      BY <1>1, <1>3, <2>1
    <3> HIDE DEF leaf
    <3>2. leaf.seq = first /\ leaf.parent = nodeCount /\ leaf.begin = end
      <4>1. /\ nodeCount \in Nat /\ first \in Nat /\ count \in Nat /\ count >= 1
            /\ end \in Int /\ maxChildren \in Nat
        BY <1>1, <1>4
      <4>2. QED
        BY <3>1, <4>1, FirstDrawn
    <3>3. IsLastChild(leaf, AddChild(old, end, first))
      BY <1>1, <1>2, <1>4, <3>2, AddedIsLastChild
    <3>4. QED
      BY <1>3, <2>1, <3>3 DEF leaf, grown
  <2>2. CASE k # 2
    <3> DEFINE i == k - 1
    <3>1. /\ i \in 2..count /\ i - 1 = (k - 1) - 1
          /\ k \in 2..(Len(latestBranch) + 1) /\ k - 1 \in 2..(Len(latestBranch) + 1)
      BY <1>1, <2>2 DEF count
    <3>2. /\ latestBranch'[k] = DrawnNode(nodeCount, first, count, i)
          /\ latestBranch'[k - 1] = DrawnNode(nodeCount, first, count, i - 1)
      BY <1>3, <3>1
    <3> HIDE DEF i
    <3>3. QED
      BY <1>1, <1>4, <3>1, <3>2, DrawnIsLastChild
  <2>3. QED
    BY <2>1, <2>2
<1>7. QED
  BY <1>1, <1>3, <1>5, <1>6 DEF BranchPath, IsLastChild

LEMMA GrowRootOneChildPath ==
    ASSUME TypeInv, GrowRootOneChild PROVE BranchPath'
<1>1. /\ index \in 1..Len(latestBranch)
      /\ latestBranch' = <<NewRootWithChild>> /\ root' = nodeCount
  BY DEF GrowRootOneChild, TypeInv, TypeOK
<1>2. NewRootWithChild.seq = nodeCount /\ NewRootWithChild.parent = RootParent
  BY <1>1, NewRootType DEF TypeInv
<1>3. Len(latestBranch') = 1 /\ latestBranch'[1] = NewRootWithChild
  BY <1>1
<1>4. QED
  BY <1>1, <1>2, <1>3 DEF BranchPath, IsLastChild

\* With one child at least, the new root takes the old one.
LEMMA NewRootTakesOne ==
    ASSUME maxChildren \in Nat, maxChildren >= 1 PROVE ~IsFull(NewRoot)
<1>1. NewRoot.children = <<>> /\ NewRoot.maxChildren = maxChildren
  BY DEF NewRoot, NewNode
<1>2. QED
  BY <1>1 DEF IsFull

LEMMA NextPath ==
    ASSUME \A max \in MaxChildrenValues : max >= 1
    PROVE  TreeInv /\ BranchPath /\ [Next]_vars => BranchPath'
<1> SUFFICES ASSUME TypeInv, BranchPath, [Next]_vars PROVE BranchPath'
  BY DEF TreeInv
<1>1. CASE OpenUnknownSerDes \/ \E ts \in CloseTimes \cup {end} : Close(ts)
  BY <1>1, ClosingSteps DEF BranchPath
<1>2. CASE SameTree
  BY <1>2 DEF SameTree, BranchPath, IsLastChild
<1>3. CASE \E ts \in BeginTimes : Open(ts)
  BY <1>3, OpenPath
<1>4. CASE GrowRootNoChild
  <2>1. maxChildren \in Nat /\ maxChildren >= 1
    BY <1>4 DEF GrowRootNoChild, TypeInv, TypeOK
  <2>2. QED
    BY <1>4, <2>1, NewRootTakesOne DEF GrowRootNoChild
<1>5. QED
  BY <1>1, <1>2, <1>3, <1>4, StepsOfNext, AddToTargetPath, SiblingPath,
     GrowRootPath, GrowRootOneChildPath

LEMMA BranchPathInvariant ==
    ASSUME \A max \in MaxChildrenValues : max >= 1
    PROVE  Spec => []BranchPath
<1>1. Init => BranchPath
  BY DEF Init, BranchPath
<1>2. QED
  BY <1>1, NextPath, TreeInvariant, PTL DEF Spec

\* The branch in memory is a path of the tree from its root, each node being the
\* last child of the one above: what a commit leaves behind points to it.
THEOREM BranchStaysPath ==
    ASSUME \A max \in MaxChildrenValues : max >= 1
    PROVE  Spec => []BranchIsPath
<1>1. BranchPath => BranchIsPath
  BY DEF BranchPath, BranchIsPath
<1>2. QED
  BY <1>1, BranchPathInvariant, PTL

(***************************************************************************)
(* The nodes of the file are a tree, apart from those whose parent is still*)
(* in the branch.                                                          *)
(***************************************************************************)

\* The k-th child of parent is one of these nodes, in the place it must have.
Leads(nodes, parent, k) ==
    /\ parent.children[k].seq \in DOMAIN nodes
    /\ nodes[parent.children[k].seq].begin = parent.children[k].begin
    /\ nodes[parent.children[k].seq].parent = parent.seq
    /\ k = 1 => parent.children[k].begin = parent.begin
    /\ k = Len(parent.children) => nodes[parent.children[k].seq].end = parent.end
    /\ k # Len(parent.children) =>
          nodes[parent.children[k].seq].end = parent.children[k + 1].begin

AllLead(nodes) ==
    \A seq \in DOMAIN nodes : \A k \in 1..Len(nodes[seq].children) :
        Leads(nodes, nodes[seq], k)

\* The last child of a node of the branch is not written yet, the others are.
EarlierLead(nodes, node) ==
    \A k \in 1..(Len(node.children) - 1) : Leads(nodes, node, k)

FirstWithParent(node) ==
    node.children # <<>> => node.children[1].begin = node.begin

\* A node that can be closed, whose children but the last one are written.
Pending(nodes, node) ==
    EarlierLead(nodes, node) /\ FirstWithParent(node) /\ ~node.closed

LEMMA LeadsKept ==
    ASSUME NEW nodes, NEW more, NEW parent, NEW k, Leads(nodes, parent, k),
           DOMAIN nodes \subseteq DOMAIN more,
           \A seq \in DOMAIN nodes : more[seq] = nodes[seq]
    PROVE  Leads(more, parent, k)
BY DEF Leads

\* The end of a node matters to its last child only.
LEMMA LeadsSame ==
    ASSUME NEW nodes, NEW parent, NEW k, Leads(nodes, parent, k),
           k # Len(parent.children),
           NEW other, other.seq = parent.seq, other.begin = parent.begin,
           other.children = parent.children
    PROVE  Leads(nodes, other, k)
BY DEF Leads

LEMMA ClosedNodeFields ==
    ASSUME NEW node \in MemoryNode, ~node.closed, NEW ts \in Int
    PROVE  /\ Serialize(CloseNode(node, ts)).seq = node.seq
           /\ Serialize(CloseNode(node, ts)).parent = node.parent
           /\ Serialize(CloseNode(node, ts)).begin = node.begin
           /\ Serialize(CloseNode(node, ts)).children = node.children
           /\ Serialize(CloseNode(node, ts)).end = ts
           /\ Serialize(CloseNode(node, ts)).closed
BY DEF Serialize, CloseNode, MemoryNode

\* These nodes are the ones before and those of a branch from position i down,
\* which can be committed.
CommitOf(nodes, more, branch, i, ts) ==
    /\ DOMAIN more = DOMAIN nodes \cup SeqsDownFrom(branch, i)
    /\ \A seq \in DOMAIN nodes : more[seq] = nodes[seq]
    /\ \A j \in i..Len(branch) :
          more[branch[j].seq] = Serialize(CloseNode(branch[j], ts))
    /\ \A j \in i..Len(branch) : Pending(nodes, branch[j])
    /\ \A j \in (i + 1)..Len(branch) : IsLastChild(branch[j], branch[j - 1])
    /\ branch[Len(branch)].children = <<>>

\* A branch written from position i down joins the tree of the nodes written
\* before: the last child of each of its nodes has been written with it.
LEMMA CommittedLead ==
    ASSUME NEW nodes, NEW more, NEW branch \in Seq(MemoryNode),
           NEW i \in 1..Len(branch), NEW ts \in Int,
           CommitOf(nodes, more, branch, i, ts), AllLead(nodes)
    PROVE  AllLead(more)
<1> USE DEF CommitOf
<1>1. ASSUME NEW j \in i..Len(branch)
      PROVE  /\ branch[j] \in MemoryNode /\ branch[j].seq \in DOMAIN more
             /\ more[branch[j].seq].seq = branch[j].seq
             /\ more[branch[j].seq].parent = branch[j].parent
             /\ more[branch[j].seq].begin = branch[j].begin
             /\ more[branch[j].seq].children = branch[j].children
             /\ more[branch[j].seq].end = ts
  <2>1. j \in 1..Len(branch)
    OBVIOUS
  <2>2. branch[j] \in MemoryNode /\ ~branch[j].closed
    BY <2>1 DEF Pending
  <2>3. branch[j].seq \in DOMAIN more
    BY DEF SeqsDownFrom
  <2>4. more[branch[j].seq] = Serialize(CloseNode(branch[j], ts))
    OBVIOUS
  <2>5. QED
    BY <2>2, <2>3, <2>4, ClosedNodeFields
<1>2. ASSUME NEW seq \in DOMAIN nodes, NEW k \in 1..Len(more[seq].children)
      PROVE  Leads(more, more[seq], k)
  <2>1. Leads(nodes, nodes[seq], k)
    BY DEF AllLead
  <2>2. QED
    BY <2>1, LeadsKept
<1>3. ASSUME NEW j \in i..Len(branch), NEW k \in 1..Len(branch[j].children)
      PROVE  Leads(more, more[branch[j].seq], k)
  <2> DEFINE parent == branch[j]
             written == more[parent.seq]
  <2>1. /\ parent \in MemoryNode /\ written.seq = parent.seq
        /\ written.begin = parent.begin /\ written.children = parent.children
        /\ written.end = ts /\ Pending(nodes, parent)
    BY <1>1
  <2>2. parent.children \in Seq(ChildPointer) /\ Len(parent.children) \in Nat
    <3> HIDE DEF parent
    <3>1. parent.children \in Seq(ChildPointer)
      BY <2>1 DEF MemoryNode
    <3>2. QED
      BY <3>1
  <2>3. j # Len(branch)
    <3>1. ASSUME j = Len(branch) PROVE FALSE
      BY <3>1
    <3>2. QED
      BY <3>1
  <2> DEFINE child == branch[j + 1]
             wchild == more[child.seq]
  <2>4. j + 1 \in (i + 1)..Len(branch) /\ j + 1 \in i..Len(branch) /\ (j + 1) - 1 = j
    BY <2>3
  <2>5. /\ wchild.parent = child.parent /\ wchild.begin = child.begin
        /\ wchild.end = ts /\ child.seq \in DOMAIN more
    BY <1>1, <2>4
  <2>6. IsLastChild(child, parent)
    BY <2>4
  <2>7. k \in 1..Len(parent.children)
    OBVIOUS
  <2> HIDE DEF parent, written, child, wchild
  <2>8. CASE k = Len(parent.children)
    <3>1. parent.children[k] = [begin |-> child.begin, seq |-> child.seq]
      BY <2>6, <2>8 DEF IsLastChild
    <3>2. parent.children[k].seq = child.seq /\ parent.children[k].begin = child.begin
      BY <3>1
    <3>3. more[parent.children[k].seq] = wchild
      BY <3>2 DEF wchild
    <3>4. child.parent = parent.seq /\ parent.children # <<>>
      BY <2>6 DEF IsLastChild
    <3>5. parent.children[1].begin = parent.begin
      BY <2>1, <3>4 DEF Pending, FirstWithParent
    <3>6. Leads(more, written, k)
      BY <2>1, <2>5, <2>8, <3>2, <3>3, <3>4, <3>5 DEF Leads
    <3>7. QED
      BY <3>6 DEF written, parent
  <2>9. CASE k # Len(parent.children)
    <3>1. k \in 1..(Len(parent.children) - 1)
      BY <2>2, <2>7, <2>9
    <3>2. Leads(nodes, parent, k)
      BY <2>1, <3>1 DEF Pending, EarlierLead
    <3>3. Leads(more, parent, k)
      BY <3>2, LeadsKept
    <3>4. Leads(more, written, k)
      BY <2>1, <2>9, <3>3, LeadsSame
    <3>5. QED
      BY <3>4 DEF written, parent
  <2>10. QED
    BY <2>8, <2>9
<1>4. ASSUME NEW seq \in DOMAIN more, NEW k \in 1..Len(more[seq].children)
      PROVE  Leads(more, more[seq], k)
  <2>1. CASE seq \in DOMAIN nodes
    BY <1>2, <2>1
  <2>2. CASE seq \in SeqsDownFrom(branch, i)
    <3>1. PICK j \in i..Len(branch) : seq = branch[j].seq
      BY <2>2 DEF SeqsDownFrom
    <3>2. more[seq].children = branch[j].children
      BY <1>1, <3>1
    <3>3. k \in 1..Len(branch[j].children)
      BY <3>2
    <3>4. QED
      BY <1>3, <3>1, <3>3
  <2>3. QED
    BY <2>1, <2>2
<1>5. QED
  BY <1>4 DEF AllLead

\* A node whose last child has just been written gets the next one, which begins
\* where that one ends.
LEMMA AddedPending ==
    ASSUME NEW nodes, NEW node \in MemoryNode, Pending(nodes, node),
           NEW child, IsLastChild(child, node), child.seq \in DOMAIN nodes,
           nodes[child.seq].begin = child.begin,
           nodes[child.seq].parent = child.parent,
           NEW ts \in Int, nodes[child.seq].end = ts, NEW seq \in Nat
    PROVE  Pending(nodes, AddChild(node, ts, seq))
<1> DEFINE other == AddChild(node, ts, seq)
           pointer == [begin |-> ts, seq |-> seq]
           last == Len(node.children)
<1>1. /\ other.seq = node.seq /\ other.begin = node.begin
      /\ other.closed = node.closed /\ other.children = Append(node.children, pointer)
  BY AddChildFields
<1>2. /\ node.children \in Seq(ChildPointer) /\ pointer \in ChildPointer
      /\ last \in Nat
  BY DEF MemoryNode, ChildPointer
<1>3. /\ child.parent = node.seq /\ node.children # <<>>
      /\ node.children[last] = [begin |-> child.begin, seq |-> child.seq]
  BY DEF IsLastChild
<1>4. pointer.begin = ts
  OBVIOUS
<1> HIDE DEF other, pointer
<1>5. /\ Len(other.children) = last + 1 /\ other.children[last + 1] = pointer
      /\ \A k \in 1..last : other.children[k] = node.children[k]
      /\ last >= 1 /\ other.children # <<>>
  BY <1>1, <1>2, <1>3
<1>6. /\ node.children[last].begin = child.begin /\ node.children[last].seq = child.seq
      /\ node.children[1].begin = node.begin
  BY <1>3 DEF Pending, FirstWithParent
<1> HIDE DEF last
<1>7. ASSUME NEW k \in 1..last
      PROVE  Leads(nodes, other, k)
  <2>1. CASE k = last
    <3>1. /\ other.children[k].begin = child.begin /\ other.children[k].seq = child.seq
          /\ k # Len(other.children) /\ other.children[k + 1].begin = ts
      <4>1. other.children[k] = node.children[last]
        BY <1>5, <2>1
      <4>2. k # Len(other.children) /\ other.children[k + 1] = pointer
        BY <1>2, <1>5, <2>1
      <4>3. QED
        BY <1>4, <1>6, <4>1, <4>2
    <3>2. k = 1 => other.children[k].begin = other.begin
      BY <1>1, <1>5, <1>6
    <3>3. QED
      BY <1>1, <1>3, <3>1, <3>2 DEF Leads
  <2>2. CASE k # last
    <3>1. k \in 1..(Len(node.children) - 1) /\ k + 1 \in 1..last
      BY <1>2, <2>2 DEF last
    <3>2. Leads(nodes, node, k)
      BY <3>1 DEF Pending, EarlierLead
    <3>3. /\ other.children[k] = node.children[k]
          /\ other.children[k + 1] = node.children[k + 1]
          /\ k # Len(other.children) /\ k # Len(node.children)
      BY <1>2, <1>5, <2>2, <3>1 DEF last
    <3>4. QED
      BY <1>1, <3>2, <3>3 DEF Leads
  <2>3. QED
    BY <2>1, <2>2
<1>8. EarlierLead(nodes, other)
  <2>1. 1..(Len(other.children) - 1) = 1..last
    BY <1>2, <1>5
  <2>2. QED
    BY <1>7, <2>1 DEF EarlierLead
<1>9. FirstWithParent(other) /\ ~other.closed
  <2>1. 1 \in 1..last
    BY <1>2, <1>5
  <2>2. other.children[1] = node.children[1]
    BY <1>5, <2>1
  <2>3. QED
    BY <1>1, <1>6, <2>2 DEF FirstWithParent, Pending
<1>10. Pending(nodes, other)
  BY <1>8, <1>9 DEF Pending
<1>11. QED
  BY <1>10 DEF other

LEMMA DrawnLeaf ==
    ASSUME NEW parentSeq, NEW firstSeq, NEW count
    PROVE  DrawnNode(parentSeq, firstSeq, count, count).children = <<>>
BY DEF DrawnNode, NewNode

\* A drawn node has one child, that begins with it, or none.
LEMMA DrawnPending ==
    ASSUME NEW nodes, NEW parentSeq \in Nat, NEW firstSeq \in Nat, NEW count \in Nat,
           NEW k \in 1..count
    PROVE  Pending(nodes, DrawnNode(parentSeq, firstSeq, count, k))
<1> DEFINE node == DrawnNode(parentSeq, firstSeq, count, k)
<1>1. node.begin = end /\ ~node.closed
  BY DrawnNodeFields
<1>2. CASE k = count
  <2>1. node.children = <<>>
    BY <1>2, DrawnLeaf
  <2> HIDE DEF node
  <2>2. Len(node.children) = 0
    BY <2>1
  <2>3. Pending(nodes, node)
    BY <1>1, <2>1, <2>2 DEF Pending, EarlierLead, FirstWithParent
  <2>4. QED
    BY <2>3 DEF node
<1>3. CASE k # count
  <2> DEFINE pointer == [begin |-> end, seq |-> firstSeq + k]
  <2>1. k < count
    BY <1>3
  <2>2. node.children = Append(<<>>, pointer)
    BY <2>1, DrawnNodeChildren
  <2>3. pointer.begin = end
    OBVIOUS
  <2> HIDE DEF node, pointer
  <2>4. Len(node.children) = 1 /\ node.children[1] = pointer
    BY <2>2
  <2>5. Pending(nodes, node)
    BY <1>1, <2>3, <2>4 DEF Pending, EarlierLead, FirstWithParent
  <2>6. QED
    BY <2>5 DEF node
<1>4. QED
  BY <1>2, <1>3

(***************************************************************************)
(* The inductive invariant, and the steps that write nodes.                *)
(***************************************************************************)
WrittenRight ==
    \A seq \in DOMAIN file :
        /\ file[seq].seq = seq /\ file[seq].closed
        /\ opened => file[seq].parent # RootParent

BranchPending ==
    opened =>
        /\ \A k \in 1..Len(latestBranch) : Pending(file, latestBranch[k])
        /\ latestBranch[Len(latestBranch)].children = <<>>

ShapeInv ==
    /\ AllLead(file)
    /\ WrittenRight
    /\ BranchPending
    /\ opened => header = NoHeader
    /\ ~opened => FileIsTree

\* What each step starts from.
Before ==
    /\ TypeInv /\ SeqsUnique /\ AllWritten
    /\ BranchPath /\ OrderInv /\ ShapeInv

\* The nodes committed, each under its own number.
LEMMA CommitValues ==
    ASSUME NEW branch \in Seq(MemoryNode), NEW i \in 1..Len(branch),
           \A j, k \in 1..Len(branch) : branch[j].seq = branch[k].seq => j = k
    PROVE  \A j \in i..Len(branch) :
              CommitNodesDownFromIndex(branch, i)[branch[j].seq] =
                 Serialize(CloseNode(branch[j], end))
<1>1. ASSUME NEW j \in i..Len(branch)
      PROVE  CommittedNode(branch, i, branch[j].seq) = Serialize(CloseNode(branch[j], end))
  <2> DEFINE chosen == CHOOSE k \in i..Len(branch) : branch[k].seq = branch[j].seq
  <2>1. chosen \in i..Len(branch) /\ branch[chosen].seq = branch[j].seq
    OBVIOUS
  <2>2. chosen = j
    <3> HIDE DEF chosen
    <3>1. chosen \in 1..Len(branch) /\ j \in 1..Len(branch)
      BY <2>1
    <3>2. QED
      BY <2>1, <3>1
  <2>3. QED
    BY <2>2 DEF CommittedNode
<1>2. QED
  BY <1>1 DEF CommitNodesDownFromIndex, SeqsDownFrom

\* The file of a commit: the nodes written before, and those of the branch from
\* position i down. It keeps the tree, and adds the branch to it.
LEMMA CommitShape ==
    ASSUME AllLead(file), WrittenRight,
           NEW branch \in Seq(MemoryNode), NEW i \in 1..Len(branch), NEW ts \in Int,
           NEW more, CommitOf(file, more, branch, i, ts)
    PROVE  /\ AllLead(more)
           /\ \A seq \in DOMAIN more : more[seq].seq = seq /\ more[seq].closed
           /\ \A j \in i..Len(branch) :
                 /\ branch[j].seq \in DOMAIN more
                 /\ more[branch[j].seq].parent = branch[j].parent
                 /\ more[branch[j].seq].begin = branch[j].begin
                 /\ more[branch[j].seq].end = ts
<1>1. AllLead(more)
  BY CommittedLead
<1> USE DEF CommitOf
<1>2. ASSUME NEW j \in i..Len(branch)
      PROVE  /\ branch[j].seq \in DOMAIN more
             /\ more[branch[j].seq].seq = branch[j].seq
             /\ more[branch[j].seq].closed
             /\ more[branch[j].seq].parent = branch[j].parent
             /\ more[branch[j].seq].begin = branch[j].begin
             /\ more[branch[j].seq].end = ts
  <2>1. branch[j] \in MemoryNode /\ ~branch[j].closed
    BY DEF Pending
  <2>2. branch[j].seq \in DOMAIN more
    BY DEF SeqsDownFrom
  <2>3. more[branch[j].seq] = Serialize(CloseNode(branch[j], ts))
    OBVIOUS
  <2>4. QED
    BY <2>1, <2>2, <2>3, ClosedNodeFields
<1>3. ASSUME NEW seq \in DOMAIN more
      PROVE  more[seq].seq = seq /\ more[seq].closed
  <2>1. CASE seq \in DOMAIN file
    BY <2>1 DEF WrittenRight
  <2>2. CASE seq \in SeqsDownFrom(branch, i)
    <3>1. PICK j \in i..Len(branch) : seq = branch[j].seq
      BY <2>2 DEF SeqsDownFrom
    <3>2. QED
      BY <1>2, <3>1
  <2>3. QED
    BY <2>1, <2>2
<1>4. QED
  BY <1>1, <1>2, <1>3

\* A node pending stays so while nodes are added to the file.
LEMMA PendingKept ==
    ASSUME NEW nodes, NEW more, NEW node, Pending(nodes, node),
           DOMAIN nodes \subseteq DOMAIN more,
           \A seq \in DOMAIN nodes : more[seq] = nodes[seq]
    PROVE  Pending(more, node)
<1>1. ASSUME NEW k \in 1..(Len(node.children) - 1)
      PROVE  Leads(more, node, k)
  <2>1. Leads(nodes, node, k)
    BY DEF Pending, EarlierLead
  <2>2. QED
    BY <2>1, LeadsKept
<1>2. QED
  BY <1>1 DEF Pending, EarlierLead

LEMMA OpenShape ==
    ASSUME NEW ts \in BeginTimes, Open(ts) PROVE ShapeInv'
<1> DEFINE leaf == NewNode(0, RootParent, ts, 0)
<1>1. leaf.children = <<>> /\ ~leaf.closed
  BY DEF NewNode
<1>2. /\ latestBranch' = <<leaf>> /\ opened' /\ file' = <<>> /\ header' = NoHeader
  BY DEF Open, Truncated
<1> HIDE DEF leaf
<1>3. Len(latestBranch') = 1 /\ latestBranch'[1] = leaf /\ DOMAIN file' = {}
  BY <1>2
<1>4. Pending(file', leaf)
  <2>1. Len(leaf.children) = 0
    BY <1>1
  <2>2. QED
    BY <1>1, <2>1 DEF Pending, EarlierLead, FirstWithParent
<1>5. BranchPending'
  BY <1>1, <1>3, <1>4 DEF BranchPending
<1>6. AllLead(file')
  BY <1>3 DEF AllLead
<1>7. WrittenRight'
  BY <1>3 DEF WrittenRight
<1>8. QED
  BY <1>2, <1>5, <1>6, <1>7 DEF ShapeInv

LEMMA OpenUnknownSerDesShape ==
    ASSUME OpenUnknownSerDes PROVE ShapeInv'
<1>1. ~opened' /\ file' = <<>> /\ header' = NoHeader
  BY DEF OpenUnknownSerDes, Truncated
<1>2. DOMAIN file' = {}
  BY <1>1
<1>3. AllLead(file')
  BY <1>2 DEF AllLead
<1>4. WrittenRight'
  BY <1>2 DEF WrittenRight
<1>5. FileIsTree'
  BY <1>1 DEF FileIsTree
<1>6. QED
  BY <1>1, <1>3, <1>4, <1>5 DEF ShapeInv, BranchPending

LEMMA SameTreeShape ==
    ASSUME ShapeInv, SameTree PROVE ShapeInv'
<1>1. /\ opened' = opened /\ latestBranch' = latestBranch /\ file' = file
      /\ header' = header
  BY DEF SameTree
<1>2. AllLead(file') /\ WrittenRight' /\ BranchPending'
  BY <1>1 DEF ShapeInv, WrittenRight, BranchPending
<1>3. FileIsTree' = FileIsTree
  BY <1>1 DEF FileIsTree, Follows
<1>4. QED
  BY <1>1, <1>2, <1>3 DEF ShapeInv

LEMMA AddToTargetShape ==
    ASSUME Before, AddToTarget PROVE ShapeInv'
<1>1. /\ opened /\ opened' /\ file' = file /\ header' = header
      /\ Len(latestBranch') = Len(latestBranch)
      /\ latestBranch \in Seq(MemoryNode) /\ Len(latestBranch) \in Nat \ {0}
  BY AddToTargetFields DEF AddToTarget, Before, TypeInv, TypeOK, RootTakesAll
<1>2. ASSUME NEW k \in 1..Len(latestBranch)
      PROVE  /\ latestBranch'[k].seq = latestBranch[k].seq
             /\ latestBranch'[k].begin = latestBranch[k].begin
             /\ latestBranch'[k].children = latestBranch[k].children
  BY AddToTargetFields DEF Before
<1>3. \A k \in 1..Len(latestBranch') : ~latestBranch'[k].closed
  <2>1. OrderInv'
    BY AddToTargetOrderInv DEF Before
  <2>2. QED
    BY <1>1, <2>1 DEF OrderInv, NodesCanBeClosed
<1>4. ASSUME NEW k \in 1..Len(latestBranch)
      PROVE  Pending(file, latestBranch'[k])
  <2> DEFINE old == latestBranch[k]
             new == latestBranch'[k]
  <2>1. Pending(file, old)
    BY <1>1 DEF Before, ShapeInv, BranchPending
  <2>2. /\ new.seq = old.seq /\ new.begin = old.begin /\ new.children = old.children
        /\ ~new.closed
    BY <1>1, <1>2, <1>3
  <2>3. old.children \in Seq(ChildPointer)
    <3>1. old \in MemoryNode
      BY <1>1
    <3> HIDE DEF old
    <3>2. QED
      BY <3>1 DEF MemoryNode
  <2> HIDE DEF old, new
  <2>4. ASSUME NEW j \in 1..(Len(new.children) - 1)
        PROVE  Leads(file, new, j)
    <3>1. j \in 1..(Len(old.children) - 1) /\ j # Len(old.children)
      BY <2>2, <2>3
    <3>2. Leads(file, old, j)
      BY <2>1, <3>1 DEF Pending, EarlierLead
    <3>3. QED
      BY <2>2, <3>1, <3>2, LeadsSame
  <2>5. Pending(file, new)
    BY <2>1, <2>2, <2>4 DEF Pending, EarlierLead, FirstWithParent
  <2>6. QED
    BY <2>5 DEF new
<1>5. latestBranch'[Len(latestBranch')].children = <<>>
  BY <1>1, <1>2 DEF Before, ShapeInv, BranchPending
<1>6. BranchPending'
  BY <1>1, <1>4, <1>5 DEF BranchPending
<1>7. AllLead(file') /\ WrittenRight' /\ header' = NoHeader
  BY <1>1 DEF Before, ShapeInv, WrittenRight
<1>8. QED
  BY <1>1, <1>6, <1>7 DEF ShapeInv

\* The nodes of the branch, from position i down, can join the file's.
LEMMA BranchCommit ==
    ASSUME Before, opened, NEW branch \in Seq(MemoryNode), NEW i \in 1..Len(branch),
           Len(branch) = Len(latestBranch),
           \A k \in 1..Len(branch) : branch[k].seq = latestBranch[k].seq,
           \A k \in 1..Len(branch) : Pending(file, branch[k]),
           \A k \in 2..Len(branch) : IsLastChild(branch[k], branch[k - 1]),
           branch[Len(branch)].children = <<>>
    PROVE  CommitOf(file, CommitNodesDownFromIndex(branch, i), branch, i, end)
<1> DEFINE more == CommitNodesDownFromIndex(branch, i)
<1>1. \A j, k \in 1..Len(branch) : branch[j].seq = branch[k].seq => j = k
  BY DEF Before, SeqsUnique
<1>2. \A j \in i..Len(branch) :
         more[branch[j].seq] = Serialize(CloseNode(branch[j], end))
  BY <1>1, CommitValues
<1>3. DOMAIN more = DOMAIN file \cup SeqsDownFrom(branch, i)
  BY CommitDomain
<1>4. \A seq \in DOMAIN file : more[seq] = file[seq]
  <2>1. ASSUME NEW seq \in SeqsDownFrom(branch, i) PROVE seq \notin DOMAIN file
    <3>1. PICK j \in i..Len(branch) : seq = branch[j].seq
      BY DEF SeqsDownFrom
    <3>2. j \in 1..Len(latestBranch) /\ seq = latestBranch[j].seq
      BY <3>1
    <3>3. seq \in BranchSeqs
      BY <3>2, SeqsOfBranch
    <3>4. QED
      BY <3>3 DEF Before, SeqsUnique
  <2>2. QED
    BY <2>1, CommitDomain
<1>5. \A j \in i..Len(branch) : Pending(file, branch[j])
  OBVIOUS
<1>6. \A j \in (i + 1)..Len(branch) : IsLastChild(branch[j], branch[j - 1])
  OBVIOUS
<1> HIDE DEF more
<1>7. CommitOf(file, more, branch, i, end)
  BY <1>2, <1>3, <1>4, <1>5, <1>6 DEF CommitOf
<1>8. QED
  BY <1>7 DEF more

\* No node written under a branch node is a root.
LEMMA CommittedParents ==
    ASSUME Before, opened, NEW branch \in Seq(MemoryNode), NEW i \in 1..Len(branch),
           NEW more, CommitOf(file, more, branch, i, end),
           \A j \in i..Len(branch) : more[branch[j].seq].parent = branch[j].parent,
           \A j \in i..Len(branch) : branch[j].parent \in Nat
    PROVE  \A seq \in DOMAIN more : more[seq].parent # RootParent
<1>1. ASSUME NEW seq \in DOMAIN more PROVE more[seq].parent # RootParent
  <2>1. CASE seq \in DOMAIN file
    BY <2>1 DEF CommitOf, Before, ShapeInv, WrittenRight
  <2>2. CASE seq \in SeqsDownFrom(branch, i)
    <3>1. PICK j \in i..Len(branch) : seq = branch[j].seq
      BY <2>2 DEF SeqsDownFrom
    <3>2. more[seq].parent \in Nat
      BY <3>1
    <3>3. QED
      BY <3>2 DEF RootParent
  <2>3. QED
    BY <2>1, <2>2 DEF CommitOf
<1>2. QED
  BY <1>1

\* A node of the branch is below another, unless it is the root.
LEMMA BranchParents ==
    ASSUME Before, opened, NEW k \in 2..Len(latestBranch)
    PROVE  latestBranch[k].parent \in Nat
<1>1. latestBranch \in Seq(MemoryNode) /\ k - 1 \in 1..Len(latestBranch)
  BY DEF Before, TypeInv, TypeOK
<1>2. latestBranch[k - 1].seq \in Nat
  BY <1>1, NodeOfBranch
<1>3. IsLastChild(latestBranch[k], latestBranch[k - 1])
  BY DEF Before, BranchPath
<1>4. QED
  BY <1>2, <1>3 DEF IsLastChild

\* What a sibling, a new root and a close write.
LEMMA SiblingCommit ==
    ASSUME Before, Sibling
    PROVE  CommitOf(file, file', latestBranch, index, end)
<1>1. TypeInv /\ BranchPath /\ ShapeInv
  BY DEF Before
<1>2. /\ latestBranch \in Seq(MemoryNode) /\ index \in 1..Len(latestBranch) /\ opened
      /\ file' = CommitNodesDownFromIndex(latestBranch, index)
  BY <1>1 DEF Sibling, TypeInv, TypeOK
<1>3. /\ \A k \in 1..Len(latestBranch) : Pending(file, latestBranch[k])
      /\ latestBranch[Len(latestBranch)].children = <<>>
      /\ \A k \in 2..Len(latestBranch) :
            IsLastChild(latestBranch[k], latestBranch[k - 1])
  BY <1>1, <1>2 DEF ShapeInv, BranchPending, BranchPath
<1>4. QED
  BY <1>2, <1>3, BranchCommit

LEMMA SiblingShape ==
    ASSUME Before, Sibling PROVE ShapeInv'
<1>1. TypeInv /\ BranchPath /\ ShapeInv
  BY DEF Before
<1>2. /\ latestBranch \in Seq(MemoryNode) /\ index \in 2..Len(latestBranch)
      /\ index \in 1..Len(latestBranch)
      /\ Len(latestBranch) \in Nat /\ Len(latestBranch') = Len(latestBranch)
      /\ end \in Int /\ maxChildren \in Nat /\ nodeCount \in Nat
      /\ opened /\ opened' /\ header' = header
      /\ file' = CommitNodesDownFromIndex(latestBranch, index)
  BY <1>1, SiblingBranch DEF Sibling, TypeInv, TypeOK
<1>3. /\ \A k \in 1..Len(latestBranch) : Pending(file, latestBranch[k])
      /\ latestBranch[Len(latestBranch)].children = <<>>
      /\ \A k \in 2..Len(latestBranch) :
            IsLastChild(latestBranch[k], latestBranch[k - 1])
      /\ AllLead(file) /\ WrittenRight /\ header = NoHeader
  BY <1>1, <1>2 DEF ShapeInv, BranchPending, BranchPath
<1>4. CommitOf(file, file', latestBranch, index, end)
  BY SiblingCommit
<1>5. /\ AllLead(file')
      /\ \A seq \in DOMAIN file' : file'[seq].seq = seq /\ file'[seq].closed
      /\ \A j \in index..Len(latestBranch) :
            /\ latestBranch[j].seq \in DOMAIN file'
            /\ file'[latestBranch[j].seq].parent = latestBranch[j].parent
            /\ file'[latestBranch[j].seq].begin = latestBranch[j].begin
            /\ file'[latestBranch[j].seq].end = end
  BY <1>2, <1>3, <1>4, CommitShape
<1>6. WrittenRight'
  <2>1. \A j \in index..Len(latestBranch) : latestBranch[j].parent \in Nat
    BY <1>2, BranchParents
  <2>2. \A seq \in DOMAIN file' : file'[seq].parent # RootParent
    <3>1. /\ latestBranch \in Seq(MemoryNode) /\ index \in 1..Len(latestBranch) /\ opened
          /\ \A j \in index..Len(latestBranch) :
                file'[latestBranch[j].seq].parent = latestBranch[j].parent
      BY <1>2, <1>5
    <3>2. QED
      BY <1>4, <2>1, <3>1, CommittedParents
  <2>3. QED
    BY <1>5, <2>2 DEF WrittenRight
<1>7. DOMAIN file \subseteq DOMAIN file' /\ \A seq \in DOMAIN file : file'[seq] = file[seq]
  BY <1>4 DEF CommitOf
<1> DEFINE above == latestBranch[index - 1]
           child == latestBranch[index]
           count == Len(latestBranch) - index + 1
<1>8. above \in MemoryNode /\ above.seq \in Nat
  <2>1. index - 1 \in 1..Len(latestBranch)
    BY <1>2
  <2>2. QED
    BY <1>2, <2>1, NodeOfBranch
<1>9. Pending(file', AddChild(above, end, nodeCount))
  <2>1. /\ Pending(file, above) /\ IsLastChild(child, above)
        /\ child.seq \in DOMAIN file' /\ file'[child.seq].begin = child.begin
        /\ file'[child.seq].parent = child.parent /\ file'[child.seq].end = end
    BY <1>2, <1>3, <1>5
  <2>2. Pending(file', above)
    BY <1>7, <2>1, PendingKept
  <2> HIDE DEF above, child
  <2>3. QED
    BY <1>2, <1>8, <2>1, <2>2, AddedPending
<1>10. /\ \A k \in 1..(index - 2) : latestBranch'[k] = latestBranch[k]
       /\ latestBranch'[index - 1] = AddChild(above, end, nodeCount)
       /\ \A k \in index..Len(latestBranch) :
             latestBranch'[k] = DrawnNode(above.seq, nodeCount, count, k - index + 1)
  BY <1>1, SiblingBranch
<1>11. count \in Nat /\ \A k \in index..Len(latestBranch) : k - index + 1 \in 1..count
  BY <1>2
<1> HIDE DEF above, child
<1>12. ASSUME NEW k \in 1..Len(latestBranch)
       PROVE  Pending(file', latestBranch'[k])
  <2>1. CASE k \in 1..(index - 2)
    <3>1. Pending(file, latestBranch[k])
      BY <1>3
    <3>2. QED
      BY <1>7, <1>10, <2>1, <3>1, PendingKept
  <2>2. CASE k = index - 1
    BY <1>9, <1>10, <2>2
  <2>3. CASE k \in index..Len(latestBranch)
    <3> DEFINE i == k - index + 1
    <3>1. i \in 1..count /\ latestBranch'[k] = DrawnNode(above.seq, nodeCount, count, i)
      BY <1>10, <1>11, <2>3
    <3> HIDE DEF i, count
    <3>2. QED
      BY <1>2, <1>8, <1>11, <3>1, DrawnPending
  <2>4. QED
    BY <1>2, <2>1, <2>2, <2>3
<1>13. latestBranch'[Len(latestBranch')].children = <<>>
  <2>1. /\ Len(latestBranch) \in index..Len(latestBranch)
        /\ Len(latestBranch) - index + 1 = count
    BY <1>2
  <2>2. latestBranch'[Len(latestBranch)] = DrawnNode(above.seq, nodeCount, count, count)
    BY <1>10, <2>1
  <2> HIDE DEF count
  <2>3. QED
    BY <1>2, <2>2, DrawnLeaf
<1>14. BranchPending'
  BY <1>2, <1>12, <1>13 DEF BranchPending
<1>15. QED
  BY <1>2, <1>3, <1>5, <1>6, <1>14 DEF ShapeInv

\* The branch under the new root, and the new root that has it as a child.
LEMMA UnderNewRoot ==
    ASSUME Before, opened, index \in 1..Len(latestBranch)
    PROVE  /\ \A k \in 1..Len(latestBranch) : Pending(file, BranchUnderNewRoot[k])
           /\ \A k \in 2..Len(latestBranch) :
                 IsLastChild(BranchUnderNewRoot[k], BranchUnderNewRoot[k - 1])
           /\ BranchUnderNewRoot[Len(latestBranch)].children = <<>>
           /\ \A k \in 1..Len(latestBranch) : BranchUnderNewRoot[k].parent \in Nat
           /\ IsLastChild(BranchUnderNewRoot[1], NewRootWithChild)
           /\ \A nodes : Pending(nodes, NewRootWithChild)
<1>1. /\ TypeOK /\ latestBranch \in Seq(MemoryNode) /\ Len(latestBranch) \in Nat
      /\ 1 \in 1..Len(latestBranch) /\ nodeCount \in Nat
      /\ latestBranch[1].begin = begin
  BY DEF Before, TypeInv, TypeOK, RootTakesAll
<1>2. /\ \A k \in 1..Len(latestBranch) : Pending(file, latestBranch[k])
      /\ latestBranch[Len(latestBranch)].children = <<>>
      /\ \A k \in 2..Len(latestBranch) :
            IsLastChild(latestBranch[k], latestBranch[k - 1])
  BY DEF Before, ShapeInv, BranchPending, BranchPath
<1> DEFINE old == latestBranch[1]
           top == [old EXCEPT !.parent = nodeCount]
           branch == BranchUnderNewRoot
           new == NewRootWithChild
           pointer == [begin |-> old.begin, seq |-> old.seq]
<1>3. branch[1] = top /\ \A k \in 2..Len(latestBranch) : branch[k] = latestBranch[k]
  BY <1>1, BranchUnderNewRootType
<1>4. old \in MemoryNode
  BY <1>1
<1>5. /\ new.seq = nodeCount /\ new.begin = begin /\ ~new.closed
      /\ new.children = Append(<<>>, pointer)
  BY <1>1, NewRootType
<1>6. Pending(file, old) /\ old.begin = begin
  BY <1>1, <1>2
<1>7. pointer.begin = old.begin /\ pointer.seq = old.seq
  OBVIOUS
<1> HIDE DEF old
<1>8. /\ top.seq = old.seq /\ top.begin = old.begin /\ top.children = old.children
      /\ top.closed = old.closed /\ top.parent = nodeCount
      /\ old.children \in Seq(ChildPointer)
  BY <1>4 DEF MemoryNode
<1>9. pointer = [begin |-> top.begin, seq |-> top.seq]
  BY <1>8
<1> HIDE DEF top, branch, new, pointer
<1>10. Pending(file, top)
  <2>1. ASSUME NEW k \in 1..(Len(top.children) - 1)
        PROVE  Leads(file, top, k)
    <3>1. k \in 1..(Len(old.children) - 1) /\ k # Len(old.children)
      BY <1>8
    <3>2. Leads(file, old, k)
      BY <1>6, <3>1 DEF Pending, EarlierLead
    <3>3. QED
      BY <1>8, <3>1, <3>2, LeadsSame
  <2>2. QED
    BY <1>6, <1>8, <2>1 DEF Pending, EarlierLead, FirstWithParent
<1>11. ASSUME NEW k \in 1..Len(latestBranch) PROVE Pending(file, branch[k])
  <2>1. CASE k = 1
    BY <1>3, <1>10, <2>1
  <2>2. CASE k # 1
    BY <1>1, <1>2, <1>3, <2>2
  <2>3. QED
    BY <2>1, <2>2
<1>12. ASSUME NEW k \in 2..Len(latestBranch)
       PROVE  IsLastChild(branch[k], branch[k - 1])
  <2>1. IsLastChild(latestBranch[k], latestBranch[k - 1])
    BY <1>2
  <2>2. CASE k = 2
    <3>1. branch[k] = latestBranch[k] /\ branch[k - 1] = top /\ latestBranch[k - 1] = old
      BY <1>3, <2>2 DEF old
    <3>2. QED
      BY <1>8, <2>1, <3>1 DEF IsLastChild
  <2>3. CASE k # 2
    <3>1. k - 1 \in 2..Len(latestBranch)
      BY <1>1, <2>3
    <3>2. QED
      BY <1>3, <2>1, <3>1
  <2>4. QED
    BY <2>2, <2>3
<1>13. branch[Len(latestBranch)].children = <<>>
  <2>1. CASE Len(latestBranch) = 1
    BY <1>2, <1>3, <1>8, <2>1 DEF old
  <2>2. CASE Len(latestBranch) # 1
    <3> DEFINE last == Len(latestBranch)
    <3>1. last \in 2..last
      <4>1. last \in Nat /\ 1 \in 1..last /\ last # 1
        BY <1>1, <2>2
      <4> HIDE DEF last
      <4>2. QED
        BY <4>1
    <3>2. QED
      BY <1>2, <1>3, <3>1
  <2>3. QED
    BY <2>1, <2>2
<1>14. ASSUME NEW k \in 1..Len(latestBranch) PROVE branch[k].parent \in Nat
  <2>1. CASE k = 1
    BY <1>1, <1>3, <1>8, <2>1
  <2>2. CASE k # 1
    <3>1. k \in 2..Len(latestBranch)
      BY <1>1, <2>2
    <3>2. QED
      BY <1>3, <3>1, BranchParents
  <2>3. QED
    BY <2>1, <2>2
<1>15. /\ Len(new.children) = 1 /\ new.children[1] = pointer /\ new.children # <<>>
  BY <1>5
<1>16. IsLastChild(branch[1], new)
  BY <1>3, <1>5, <1>8, <1>9, <1>15 DEF IsLastChild
<1>17. ASSUME NEW nodes PROVE Pending(nodes, new)
  BY <1>5, <1>6, <1>7, <1>15 DEF Pending, EarlierLead, FirstWithParent
<1>18. QED
  BY <1>11, <1>12, <1>13, <1>14, <1>16, <1>17 DEF branch, new

LEMMA GrowRootCommit ==
    ASSUME Before, GrowRoot
    PROVE  CommitOf(file, file', BranchUnderNewRoot, 1, end)
<1> DEFINE branch == BranchUnderNewRoot
           one == 1
<1>1. /\ TypeInv /\ opened /\ index \in 1..Len(latestBranch)
      /\ Len(latestBranch) \in Nat \ {0} /\ file' = CommitNodesDownFromIndex(branch, one)
  BY DEF GrowRoot, Before, TypeInv, TypeOK, RootTakesAll
<1>2. /\ branch \in Seq(MemoryNode) /\ Len(branch) = Len(latestBranch)
      /\ \A k \in 1..Len(latestBranch) : branch[k].seq = latestBranch[k].seq
  BY <1>1, BranchUnderNewRootType DEF TypeInv
<1>3. /\ \A k \in 1..Len(branch) : Pending(file, branch[k])
      /\ \A k \in 2..Len(branch) : IsLastChild(branch[k], branch[k - 1])
      /\ branch[Len(branch)].children = <<>>
  BY <1>1, <1>2, UnderNewRoot
<1>4. one \in 1..Len(branch)
  BY <1>1, <1>2
<1> HIDE DEF branch, one
<1>5. CommitOf(file, file', branch, one, end)
  BY <1>1, <1>2, <1>3, <1>4, BranchCommit
<1>6. QED
  BY <1>5 DEF branch, one

LEMMA GrowRootShape ==
    ASSUME Before, GrowRoot PROVE ShapeInv'
<1>1. TypeInv /\ TypeOK /\ ShapeInv
  BY DEF Before, TypeInv
<1>2. /\ index \in 1..Len(latestBranch) /\ 1 \in 1..Len(latestBranch)
      /\ Len(latestBranch) \in Nat /\ Len(latestBranch') = Len(latestBranch) + 1
      /\ end \in Int /\ maxChildren \in Nat /\ nodeCount \in Nat /\ nodeCount + 1 \in Nat
      /\ opened /\ opened' /\ header' = header
      /\ file' = CommitNodesDownFromIndex(BranchUnderNewRoot, 1)
  BY <1>1, GrowRootBranch DEF GrowRoot, TypeInv, TypeOK
<1> DEFINE branch == BranchUnderNewRoot
           new == NewRootWithChild
           one == 1
           first == nodeCount + 1
           count == Len(latestBranch)
<1>3. /\ branch \in Seq(MemoryNode) /\ Len(branch) = Len(latestBranch)
      /\ \A k \in 1..Len(latestBranch) : branch[k].seq = latestBranch[k].seq
  BY <1>1, <1>2, BranchUnderNewRootType
<1>4. /\ \A k \in 1..Len(branch) : Pending(file, branch[k])
      /\ \A k \in 2..Len(branch) : IsLastChild(branch[k], branch[k - 1])
      /\ branch[Len(branch)].children = <<>>
      /\ \A k \in 1..Len(branch) : branch[k].parent \in Nat
      /\ IsLastChild(branch[1], new)
      /\ \A nodes : Pending(nodes, new)
  BY <1>2, <1>3, UnderNewRoot
<1>5. /\ latestBranch'[1] = AddChild(new, end, first)
      /\ \A k \in 2..(Len(latestBranch) + 1) :
            latestBranch'[k] = DrawnNode(nodeCount, first, count, k - 1)
  BY <1>1, GrowRootBranch
<1>6. new \in MemoryNode
  BY <1>1, <1>2, NewRootType
<1>7. /\ AllLead(file) /\ WrittenRight /\ header = NoHeader
      /\ one \in 1..Len(branch) /\ one = 1
      /\ file' = CommitNodesDownFromIndex(branch, one)
      /\ first \in Nat /\ count \in Nat /\ count >= 1
  BY <1>1, <1>2, <1>3 DEF ShapeInv
<1>8. CommitOf(file, file', branch, one, end)
  BY GrowRootCommit
<1> HIDE DEF branch, new, one, first
<1>9. /\ AllLead(file')
      /\ \A seq \in DOMAIN file' : file'[seq].seq = seq /\ file'[seq].closed
      /\ \A j \in one..Len(branch) :
            /\ branch[j].seq \in DOMAIN file'
            /\ file'[branch[j].seq].parent = branch[j].parent
            /\ file'[branch[j].seq].begin = branch[j].begin
            /\ file'[branch[j].seq].end = end
  BY <1>2, <1>3, <1>7, <1>8, CommitShape
<1>10. WrittenRight'
  <2>1. \A j \in one..Len(branch) : branch[j].parent \in Nat
    BY <1>4, <1>7
  <2>2. \A seq \in DOMAIN file' : file'[seq].parent # RootParent
    BY <1>2, <1>3, <1>7, <1>8, <1>9, <2>1, CommittedParents
  <2>3. QED
    BY <1>9, <2>2 DEF WrittenRight
<1>11. Pending(file', AddChild(new, end, first))
  <2> DEFINE child == branch[1]
  <2>1. /\ child.seq \in DOMAIN file' /\ file'[child.seq].begin = child.begin
        /\ file'[child.seq].parent = child.parent /\ file'[child.seq].end = end
        /\ IsLastChild(child, new) /\ Pending(file', new)
    BY <1>4, <1>7, <1>9
  <2> HIDE DEF child
  <2>2. QED
    BY <1>2, <1>6, <1>7, <2>1, AddedPending
<1>12. ASSUME NEW k \in 1..Len(latestBranch')
       PROVE  Pending(file', latestBranch'[k])
  <2>1. CASE k = 1
    BY <1>5, <1>11, <2>1
  <2>2. CASE k # 1
    <3> DEFINE i == k - 1
    <3>1. i \in 1..count /\ latestBranch'[k] = DrawnNode(nodeCount, first, count, i)
      BY <1>2, <1>5, <2>2
    <3> HIDE DEF i, count
    <3>2. QED
      BY <1>2, <1>7, <3>1, DrawnPending
  <2>3. QED
    BY <2>1, <2>2
<1>13. latestBranch'[Len(latestBranch')].children = <<>>
  <2>1. latestBranch'[Len(latestBranch')] = DrawnNode(nodeCount, first, count, count)
    BY <1>2, <1>5, <1>7
  <2> HIDE DEF count
  <2>2. QED
    BY <2>1, DrawnLeaf
<1>14. BranchPending'
  BY <1>12, <1>13 DEF BranchPending
<1>15. QED
  BY <1>2, <1>7, <1>9, <1>10, <1>14 DEF ShapeInv

LEMMA CloseCommit ==
    ASSUME Before, NEW ts \in CloseTimes \cup {end}, Close(ts)
    PROVE  CommitOf(file, file', latestBranch, 1, end')
<1>1. /\ latestBranch \in Seq(MemoryNode) /\ Len(latestBranch) \in Nat \ {0}
      /\ opened /\ ~opened' /\ end \in Int /\ nodeCount \in Nat
      /\ header' = [nodeCount |-> nodeCount, root |-> root]
      /\ latestBranch' = [k \in 1..Len(latestBranch) |-> CloseNode(latestBranch[k], end')]
      /\ file' = CommitNodesDownFromIndex(latestBranch', 1)
  BY DEF Close, Before, TypeInv, TypeOK, RootTakesAll
<1>2. end' \in Int
  BY <1>1, TimesAssumption DEF Close, ClosingEnd
<1>3. ASSUME NEW k \in 1..Len(latestBranch)
      PROVE  /\ CloseNode(latestBranch[k], end') \in MemoryNode
             /\ CloseNode(latestBranch[k], end').closed
             /\ CloseNode(latestBranch[k], end').seq = latestBranch[k].seq
  <2>1. latestBranch[k] \in MemoryNode
    BY <1>1
  <2>2. CloseNode(latestBranch[k], end').closed
        /\ CloseNode(latestBranch[k], end').seq = latestBranch[k].seq
    BY <2>1 DEF CloseNode, MemoryNode
  <2>3. QED
    BY <1>2, <2>1, <2>2, CloseNodeType
<1> DEFINE branch == latestBranch'
           one == 1
           ending == end'
<1>4. /\ branch \in Seq(MemoryNode) /\ Len(branch) = Len(latestBranch)
      /\ \A k \in 1..Len(latestBranch) :
            /\ branch[k] = CloseNode(latestBranch[k], ending) /\ branch[k].closed
            /\ branch[k].seq = latestBranch[k].seq
  BY <1>1, <1>3
<1>5. /\ one \in 1..Len(branch) /\ one \in 1..Len(latestBranch) /\ one = 1
      /\ file' = CommitNodesDownFromIndex(branch, one) /\ ending \in Int
  BY <1>1, <1>2, <1>4
<1> HIDE DEF branch, one, ending
<1>6. \A j, k \in 1..Len(branch) : branch[j].seq = branch[k].seq => j = k
  BY <1>1, <1>4 DEF Before, SeqsUnique
<1>7. \A j \in one..Len(branch) : file'[branch[j].seq] = Serialize(CloseNode(branch[j], end))
  <2>1. branch \in Seq(MemoryNode) /\ one \in 1..Len(branch)
    BY <1>4, <1>5
  <2>2. \A j \in one..Len(branch) :
           CommitNodesDownFromIndex(branch, one)[branch[j].seq] =
              Serialize(CloseNode(branch[j], end))
    BY <1>6, <2>1, CommitValues
  <2>3. QED
    BY <1>5, <2>2
<1>8. CommitOf(file, file', latestBranch, one, ending)
  <2>1. /\ DOMAIN file' = DOMAIN file \cup BranchSeqs
        /\ \A seq \in DOMAIN file \ BranchSeqs : file'[seq] = file[seq]
    BY CloseCommitsBranch DEF Before
  <2>2. BranchSeqs = SeqsDownFrom(latestBranch, one) /\ DOMAIN file \cap BranchSeqs = {}
    BY <1>1, <1>5 DEF BranchSeqs, Before, SeqsUnique
  <2>3. ASSUME NEW j \in one..Len(latestBranch)
        PROVE  file'[latestBranch[j].seq] = Serialize(CloseNode(latestBranch[j], ending))
    <3>1. j \in one..Len(branch) /\ j \in 1..Len(latestBranch)
      BY <1>4, <1>5
    <3>2. /\ branch[j].seq = latestBranch[j].seq /\ branch[j].closed
          /\ branch[j] = CloseNode(latestBranch[j], ending)
      BY <1>4, <3>1
    <3>3. CloseNode(branch[j], end) = branch[j]
      BY <3>2 DEF CloseNode
    <3>4. file'[branch[j].seq] = Serialize(branch[j])
      BY <1>7, <3>1, <3>3
    <3>5. QED
      BY <3>2, <3>4
  <2>4. /\ \A j \in one..Len(latestBranch) : Pending(file, latestBranch[j])
        /\ latestBranch[Len(latestBranch)].children = <<>>
        /\ \A j \in (one + 1)..Len(latestBranch) :
              IsLastChild(latestBranch[j], latestBranch[j - 1])
    BY <1>1, <1>5 DEF Before, ShapeInv, BranchPending, BranchPath
  <2>5. QED
    BY <2>1, <2>2, <2>3, <2>4 DEF CommitOf
<1>9. QED
  BY <1>5, <1>8 DEF ending

LEMMA CloseShape ==
    ASSUME Before, NEW ts \in CloseTimes \cup {end}, Close(ts) PROVE ShapeInv'
<1>1. /\ latestBranch \in Seq(MemoryNode) /\ Len(latestBranch) \in Nat \ {0}
      /\ opened /\ ~opened' /\ end \in Int /\ nodeCount \in Nat
      /\ header' = [nodeCount |-> nodeCount, root |-> root]
  BY DEF Close, Before, TypeInv, TypeOK, RootTakesAll
<1> DEFINE one == 1
           ending == end'
<1>2. one \in 1..Len(latestBranch) /\ one = 1
  BY <1>1
<1>5. ending \in Int
  BY <1>1, TimesAssumption DEF Close, ClosingEnd
<1>8. CommitOf(file, file', latestBranch, one, ending)
  BY CloseCommit
<1> HIDE DEF one, ending
<1>9. AllLead(file) /\ WrittenRight /\ latestBranch[1].seq = root
      /\ latestBranch[1].parent = RootParent
  BY <1>1 DEF Before, ShapeInv, BranchPath
<1>10. /\ AllLead(file')
       /\ \A seq \in DOMAIN file' : file'[seq].seq = seq /\ file'[seq].closed
       /\ \A j \in one..Len(latestBranch) :
             /\ latestBranch[j].seq \in DOMAIN file'
             /\ file'[latestBranch[j].seq].parent = latestBranch[j].parent
  <2>1. /\ latestBranch \in Seq(MemoryNode) /\ one \in 1..Len(latestBranch)
        /\ ending \in Int /\ AllLead(file) /\ WrittenRight
    BY <1>1, <1>2, <1>5, <1>9
  <2>2. QED
    BY <1>8, <2>1, CommitShape
<1>11. WrittenRight'
  BY <1>1, <1>10 DEF WrittenRight
<1>12. FileIsTree'
  <2>1. DOMAIN file' = 0..(nodeCount - 1)
    BY <1>1, CloseCommitsBranch DEF Before, AllWritten
  <2>2. root \in DOMAIN file' /\ header'.root = root /\ header'.nodeCount = nodeCount
    BY <1>1, <1>2, <1>5, <1>9, <1>10
  <2>3. ASSUME NEW seq \in DOMAIN file'
        PROVE  file'[seq].parent = RootParent <=> seq = root
    <3>1. CASE seq \in DOMAIN file
      <4>1. file'[seq].parent # RootParent
        BY <1>1, <1>8, <1>9, <3>1 DEF CommitOf, WrittenRight
      <4>2. root \in BranchSeqs
        BY <1>1, <1>2, <1>5, <1>9, SeqsOfBranch
      <4>3. QED
        BY <1>1, <3>1, <4>1, <4>2 DEF Before, SeqsUnique
    <3>2. CASE seq \in SeqsDownFrom(latestBranch, one)
      <4>1. PICK j \in one..Len(latestBranch) : seq = latestBranch[j].seq
        BY <3>2 DEF SeqsDownFrom
      <4>2. file'[seq].parent = latestBranch[j].parent
        BY <1>10, <4>1
      <4>3. CASE j = 1
        BY <1>9, <4>1, <4>2, <4>3
      <4>4. CASE j # 1
        <5>1. j \in 2..Len(latestBranch) /\ j \in 1..Len(latestBranch)
              /\ 1 \in 1..Len(latestBranch)
          BY <1>1, <1>2, <1>5, <4>4
        <5>2. latestBranch[j].parent # RootParent
          <6>1. latestBranch[j].parent \in Nat
            BY <1>1, <5>1, BranchParents
          <6>2. QED
            BY <6>1 DEF RootParent
        <5>3. seq # root
          BY <1>1, <1>9, <4>1, <4>4, <5>1 DEF Before, SeqsUnique
        <5>4. QED
          BY <4>2, <5>2, <5>3
      <4>5. QED
        BY <4>3, <4>4
    <3>3. QED
      BY <1>8, <3>1, <3>2 DEF CommitOf
  <2>4. ASSUME NEW seq \in DOMAIN file', NEW k \in 1..Len(file'[seq].children)
        PROVE  /\ file'[seq].children[k].seq \in DOMAIN file'
               /\ Follows(file[seq], k)'
    <3>1. Leads(file', file'[seq], k)
      BY <1>10 DEF AllLead
    <3>2. QED
      BY <3>1 DEF Leads, Follows
  <2>5. QED
    BY <1>10, <2>1, <2>2, <2>3, <2>4 DEF FileIsTree
<1>13. QED
  BY <1>1, <1>10, <1>11, <1>12 DEF ShapeInv, BranchPending

LEMMA InitShape == Init => ShapeInv
BY DEF Init, ShapeInv, AllLead, WrittenRight, BranchPending, FileIsTree

LEMMA NextShape ==
    ASSUME \A max \in MaxChildrenValues : max >= 2
    PROVE  Before /\ [Next]_vars => ShapeInv'
<1> SUFFICES ASSUME Before, [Next]_vars PROVE ShapeInv'
  OBVIOUS
<1>1. CASE SameTree
  BY <1>1, SameTreeShape DEF Before
<1>2. CASE \E ts \in BeginTimes : Open(ts)
  BY <1>2, OpenShape
<1>3. CASE \E ts \in CloseTimes \cup {end} : Close(ts)
  BY <1>3, CloseShape
<1>4. CASE GrowRootNoChild \/ GrowRootOneChild
  <2>1. index \in 1..Len(latestBranch) /\ maxChildren >= 2
    BY <1>4 DEF GrowRootNoChild, GrowRootOneChild, Before, TypeInv, TypeOK
  <2>2. QED
    BY <1>4, <2>1, NewRootHasRoom DEF GrowRootNoChild, GrowRootOneChild, Before
<1>5. QED
  BY <1>1, <1>2, <1>3, <1>4, StepsOfNext, OpenUnknownSerDesShape, AddToTargetShape,
     SiblingShape, GrowRootShape

LEMMA BeforeInvariant ==
    ASSUME \A max \in MaxChildrenValues : max >= 2
    PROVE  Spec => []Before
<1>1. Init => AllWritten /\ ShapeInv
  BY InitShape DEF Init, AllWritten
<1>2. \A max \in MaxChildrenValues : max >= 1
  BY MaxChildrenAssumption
<1>3. Before <=> TreeInv /\ AllWritten /\ BranchPath /\ OrderInv /\ ShapeInv
  BY DEF Before, TreeInv
<1>4. Spec => []BranchPath
  BY <1>2, BranchPathInvariant
<1>5. QED
  BY <1>1, <1>3, <1>4, TreeInvariant, OrderInvariant, NextAllWritten, NextShape, PTL
     DEF Spec

\* A closed history's file is a whole tree whatever was added to it: every number
\* below the header's count is a written node, its root is the only one without
\* a parent, and the children of a node cover its range without gap or overlap.
THEOREM ClosedFileIsTree ==
    ASSUME \A max \in MaxChildrenValues : max >= 2
    PROVE  Spec => []FileIsTree
<1>1. Before => FileIsTree
  <2>1. NoHeader = header => FileIsTree
    BY DEF FileIsTree
  <2>2. QED
    BY <2>1 DEF Before, ShapeInv
<1>2. QED
  BY <1>1, BeforeInvariant, PTL
=============================================================================
