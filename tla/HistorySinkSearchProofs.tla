------------------------ MODULE HistorySinkSearchProofs ------------------------
(***************************************************************************)
(* A descent from the root finds every interval stored that intersects the *)
(* timestamp, and no other, for every value of the constants of            *)
(* HistorySink that lets a node have two children.                         *)
(***************************************************************************)
EXTENDS HistorySinkTreeProofs, FiniteSetTheorems, WellFoundedInduction

USE DEF Timestamp, attributes, disk, call

(***************************************************************************)
(* Numbers. A set of natural numbers has a least one, because there is no  *)
(* endless chain of finite sets, each strictly in the one before.          *)
(***************************************************************************)
LEMMA LeastNat ==
    ASSUME NEW T \in SUBSET Nat, T # {}
    PROVE  \E m \in T : \A n \in T : m <= n
<1> DEFINE Upto(n) == 1..n
           finite == FiniteSubsetsOf(Nat)
           sets == {Upto(n) : n \in T}
<1>1. IsWellFoundedOn(StrictSubsetOrdering(Nat), finite)
  BY FS_StrictSubsetOrderingWellFounded
<1>2. ASSUME NEW n \in T PROVE Upto(n) \in finite
  <2>1. n \in Nat /\ Upto(n) \subseteq Nat
    OBVIOUS
  <2>2. IsFiniteSet(Upto(n))
    BY <2>1, FS_Interval
  <2>3. QED
    BY <2>1, <2>2 DEF FiniteSubsetsOf
<1>3. sets \subseteq finite /\ sets # {}
  BY <1>2
<1>4. PICK least \in sets :
         \A other \in sets : <<other, least>> \notin StrictSubsetOrdering(Nat)
  <2> HIDE DEF sets, finite
  <2>1. QED
    BY <1>1, <1>3, WFMin
<1>5. PICK m \in T : least = Upto(m)
  BY <1>4
<1>6. ASSUME NEW n \in T, n < m PROVE FALSE
  <2>1. Upto(n) \subseteq Upto(m) /\ m \in Upto(m) /\ m \notin Upto(n)
    BY <1>6
  <2>2. Upto(n) \in sets /\ Upto(m) \in sets
    OBVIOUS
  <2>3. Upto(n) \in SUBSET Nat /\ Upto(m) \in SUBSET Nat /\ Upto(n) # Upto(m)
    BY <2>1
  <2> HIDE DEF Upto, sets
  <2>4. <<Upto(n), Upto(m)>> \in StrictSubsetOrdering(Nat)
    BY <2>1, <2>3 DEF StrictSubsetOrdering
  <2>5. QED
    BY <1>4, <1>5, <2>2, <2>4
<1>7. QED
  BY <1>6

LEMMA MinOf ==
    ASSUME NEW n \in Nat, NEW S \in SUBSET (1..n), S # {}
    PROVE  Min(S) \in S /\ \A k \in S : Min(S) <= k
<1>1. \E m \in S : \A k \in S : m <= k
  BY LeastNat
<1>2. QED
  BY <1>1 DEF Min

LEMMA MaxOf ==
    ASSUME NEW n \in Nat, NEW S \in SUBSET (1..n), S # {}
    PROVE  Max(S) \in S /\ \A k \in S : k <= Max(S)
<1> DEFINE T == {n - k : k \in S}
<1>1. \A k \in S : k \in Nat /\ k <= n /\ n - k \in Nat
  OBVIOUS
<1>2. T \in SUBSET Nat /\ T # {}
  BY <1>1
<1>3. PICK m \in T : \A t \in T : m <= t
  BY <1>2, LeastNat
<1>4. PICK most \in S : m = n - most
  BY <1>3
<1>5. \A k \in S : most >= k
  <2> TAKE k \in S
  <2>1. m <= n - k
    BY <1>3
  <2>2. m = n - most /\ most \in Nat /\ k \in Nat
    BY <1>1, <1>4
  <2> HIDE DEF T
  <2>3. QED
    BY <2>1, <2>2
<1>6. most \in S
  BY <1>4
<1>7. \E other \in S : \A k \in S : other >= k
  BY <1>5, <1>6
<1>8. QED
  BY <1>7 DEF Max

(***************************************************************************)
(* One node: the scan finds the intervals that intersect the timestamp.    *)
(***************************************************************************)
LEMMA EndsOfIntervals ==
    ASSUME NEW intervals \in Seq(Interval)
    PROVE  /\ Len(intervals) \in Nat
           /\ \A k \in 1..Len(intervals) : intervals[k].end \in Int
<1>1. \A interval \in Interval : interval.end \in Int
  BY DEF Interval
<1>2. QED
  BY <1>1

LEMMA FirstItIsPartition ==
    ASSUME NEW node, node.intervals \in Seq(Interval), NEW ts \in Int
    PROVE  /\ FirstItForTs(node, ts) \in 1..(Len(node.intervals) + 1)
           /\ \A j \in 1..(FirstItForTs(node, ts) - 1) : node.intervals[j].end <= ts
           /\ FirstItForTs(node, ts) <= Len(node.intervals) =>
                 ts < node.intervals[FirstItForTs(node, ts)].end
<1> DEFINE last == Len(node.intervals)
           after == {k \in 1..last : ts < node.intervals[k].end}
           Is(k) == /\ \A j \in 1..(k - 1) : node.intervals[j].end <= ts
                    /\ k <= last => ts < node.intervals[k].end
<1>1. last \in Nat /\ \A k \in 1..last : node.intervals[k].end \in Int
  BY EndsOfIntervals
<1> HIDE DEF last
<1>2. \E k \in 1..(last + 1) : Is(k)
  <2>1. CASE after = {}
    <3>1. \A j \in 1..last : node.intervals[j].end <= ts
      BY <1>1, <2>1
    <3>2. Is(last + 1) /\ last + 1 \in 1..(last + 1)
      BY <1>1, <3>1
    <3>3. QED
      BY <3>2
  <2>2. CASE after # {}
    <3>1. after \in SUBSET Nat
      OBVIOUS
    <3>2. PICK k \in after : \A j \in after : k <= j
      BY <2>2, <3>1, LeastNat
    <3>3. \A j \in 1..(k - 1) : j \in 1..last /\ j \notin after
      BY <1>1, <3>2
    <3>4. Is(k)
      BY <1>1, <3>2, <3>3
    <3>5. QED
      BY <1>1, <3>4
  <2>3. QED
    BY <2>1, <2>2
<1>3. FirstItForTs(node, ts) = CHOOSE k \in 1..(last + 1) : Is(k)
  BY DEF FirstItForTs, last
<1>4. FirstItForTs(node, ts) \in 1..(last + 1) /\ Is(FirstItForTs(node, ts))
  <2> HIDE DEF Is
  <2>1. QED
    BY <1>2, <1>3
<1>5. QED
  BY <1>4 DEF last

LEMMA FoundAtTs ==
    ASSUME NEW node, node.intervals \in Seq(Interval), Ordered(node), NEW ts \in Int
    PROVE  FoundAt(node, ts) = {k \in 1..Len(node.intervals) :
                                   /\ node.intervals[k].begin <= ts
                                   /\ ts < node.intervals[k].end}
<1> DEFINE first == FirstItForTs(node, ts)
           last == Len(node.intervals)
<1>1. /\ first \in 1..(last + 1)
      /\ \A j \in 1..(first - 1) : node.intervals[j].end <= ts
      /\ first <= last => ts < node.intervals[first].end
  BY FirstItIsPartition
<1>2. last \in Nat /\ \A k \in 1..last : node.intervals[k].end \in Int
  BY EndsOfIntervals
<1>3. \A j, k \in 1..last : j <= k => node.intervals[j].end <= node.intervals[k].end
  BY DEF Ordered
<1> HIDE DEF first, last
<1>4. ASSUME NEW k \in 1..last
      PROVE  k \in first..last <=> ts < node.intervals[k].end
  <2>1. CASE k < first
    <3>1. k \in 1..(first - 1)
      BY <1>1, <1>2, <2>1
    <3>2. QED
      BY <1>1, <1>2, <2>1, <3>1
  <2>2. CASE k >= first
    <3>1. first \in 1..last /\ node.intervals[first].end <= node.intervals[k].end
      BY <1>1, <1>2, <1>3, <2>2
    <3>2. QED
      BY <1>1, <1>2, <2>2, <3>1
  <2>3. QED
    BY <1>1, <2>1, <2>2
<1>5. first..last \subseteq 1..last
  BY <1>1, <1>2
<1>6. FoundAt(node, ts) = {k \in first..last : node.intervals[k].begin <= ts}
  BY DEF FoundAt, first, last
<1>7. FoundAt(node, ts) = {k \in 1..last : /\ node.intervals[k].begin <= ts
                                          /\ ts < node.intervals[k].end}
  BY <1>4, <1>5, <1>6
<1>8. QED
  BY <1>7 DEF last

\* The intervals of a node that intersect the timestamp are those findAll finds.
LEMMA FindAllAtTs ==
    ASSUME NEW node, node.intervals \in Seq(Interval), Ordered(node), NEW ts \in Int
    PROVE  FindAll(node, ts) =
              {interval \in Range(node.intervals) :
                  interval.begin <= ts /\ ts < interval.end}
<1>1. FoundAt(node, ts) = {k \in 1..Len(node.intervals) :
                              /\ node.intervals[k].begin <= ts
                              /\ ts < node.intervals[k].end}
  BY FoundAtTs
<1>2. DOMAIN node.intervals = 1..Len(node.intervals)
  OBVIOUS
<1>3. QED
  BY <1>1, <1>2 DEF FindAll, Range

(***************************************************************************)
(* A tree of nodes, some of them closed: the path of a timestamp.          *)
(***************************************************************************)

\* The k-th child of a node is in the tree and begins where its pointer says. The
\* ranges of the children follow each other, up to the last one, which ends
\* with a parent that is closed.
Edge(nodes, parent, k) ==
    LET pointer == parent.children[k]
        last == Len(parent.children)
    IN  /\ pointer.seq \in DOMAIN nodes
        /\ nodes[pointer.seq].begin = pointer.begin
        /\ k = 1 => pointer.begin = parent.begin
        /\ k # last => /\ nodes[pointer.seq].closed
                       /\ nodes[pointer.seq].end = parent.children[k + 1].begin
        /\ k = last /\ parent.closed => /\ nodes[pointer.seq].closed
                                        /\ nodes[pointer.seq].end = parent.end

SoundNode(node) ==
    /\ node \in WrittenNode
    /\ Ordered(node)
    /\ node.closed => node.begin <= node.end

\* A node's children are strictly below it, and no node is above the top.
HasHeights(nodes, top, height) ==
    /\ height \in [DOMAIN nodes -> Nat]
    /\ \A seq \in DOMAIN nodes : height[seq] <= height[top]
    /\ \A seq \in DOMAIN nodes : \A k \in 1..Len(nodes[seq].children) :
          height[nodes[seq].children[k].seq] < height[seq]

PointsTo(parent, seq) ==
    \E k \in 1..Len(parent.children) : parent.children[k].seq = seq

IsTree(nodes, top) ==
    /\ top \in DOMAIN nodes
    /\ \A seq \in DOMAIN nodes :
          /\ nodes[seq].seq = seq
          /\ SoundNode(nodes[seq])
          /\ \A k \in 1..Len(nodes[seq].children) : Edge(nodes, nodes[seq], k)
    /\ \A seq \in DOMAIN nodes \ {top} :
          \E parent \in DOMAIN nodes : PointsTo(nodes[parent], seq)
    /\ \E height : HasHeights(nodes, top, height)

\* A node that is not closed has no end yet.
Covers(node, ts) == node.begin <= ts /\ (node.closed => ts < node.end)

LEMMA WrittenFields ==
    ASSUME NEW node \in WrittenNode
    PROVE  /\ node.seq \in Nat
           /\ node.begin \in Int /\ node.end \in Int /\ node.closed \in BOOLEAN
           /\ Len(node.children) \in Nat
           /\ \A k \in 1..Len(node.children) :
                 node.children[k].begin \in Int /\ node.children[k].seq \in Nat
           /\ node.intervals \in Seq(Interval)
<1>1. /\ node.seq \in Nat /\ node.begin \in Int /\ node.end \in Int
      /\ node.closed \in BOOLEAN
      /\ node.children \in Seq(ChildPointer) /\ node.intervals \in Seq(Interval)
  BY DEF WrittenNode
<1>2. \A pointer \in ChildPointer : pointer.begin \in Int /\ pointer.seq \in Nat
  BY DEF ChildPointer
<1>3. QED
  BY <1>1, <1>2

\* The children of a node begin one after the other.
LEMMA ChildrenAscend ==
    ASSUME NEW nodes, NEW top, IsTree(nodes, top), NEW seq \in DOMAIN nodes,
           NEW j \in 1..Len(nodes[seq].children),
           NEW k \in 1..Len(nodes[seq].children), j <= k
    PROVE  nodes[seq].children[j].begin <= nodes[seq].children[k].begin
<1> DEFINE children == nodes[seq].children
           last == Len(children)
           wrong == {n \in 1..last : j <= n /\ ~(children[j].begin <= children[n].begin)}
<1>1. last \in Nat /\ \A n \in 1..last : children[n].begin \in Int
  BY WrittenFields DEF IsTree, SoundNode
<1>2. ASSUME NEW n \in 1..last, n # last
      PROVE  children[n].begin <= children[n + 1].begin
  <2> DEFINE child == nodes[children[n].seq]
  <2>1. /\ child.begin = children[n].begin /\ child.closed
        /\ child.end = children[n + 1].begin /\ children[n].seq \in DOMAIN nodes
    BY <1>2 DEF IsTree, Edge
  <2>2. child.begin <= child.end
    BY <2>1 DEF IsTree, SoundNode
  <2>3. QED
    BY <2>1, <2>2
<1> HIDE DEF children, last
<1>3. ASSUME wrong # {} PROVE FALSE
  <2>1. wrong \in SUBSET Nat
    BY <1>1
  <2>2. PICK n \in wrong : \A m \in wrong : n <= m
    BY <1>3, <2>1, LeastNat
  <2>3. n # j /\ n \in 1..last /\ j \in 1..last
    BY <1>1, <2>2 DEF last, children
  <2>4. n - 1 \in 1..last /\ j <= n - 1 /\ n - 1 # last /\ (n - 1) + 1 = n
    BY <1>1, <2>2, <2>3
  <2>5. n - 1 \notin wrong
    BY <2>2, <2>4
  <2>6. children[j].begin <= children[n - 1].begin
    BY <2>4, <2>5
  <2>7. children[n - 1].begin <= children[n].begin
    BY <1>2, <2>4
  <2>8. children[j].begin <= children[n].begin
    BY <1>1, <2>3, <2>4, <2>6, <2>7
  <2>9. QED
    BY <2>2, <2>8
<1>4. QED
  BY <1>3 DEF last, children

\* If a node covers a timestamp, so does the one that points to it, and the
\* descent goes from that one to this one.
LEMMA ParentCovers ==
    ASSUME NEW nodes, NEW top, IsTree(nodes, top), NEW ts \in Int,
           NEW seq \in DOMAIN nodes, NEW parent \in DOMAIN nodes,
           PointsTo(nodes[parent], seq), Covers(nodes[seq], ts)
    PROVE  /\ Covers(nodes[parent], ts)
           /\ GetChildSeqAtTs(nodes[parent], ts) = seq
<1> DEFINE children == nodes[parent].children
           last == Len(children)
<1>1. /\ last \in Nat
      /\ \A n \in 1..last : children[n].begin \in Int /\ children[n].seq \in DOMAIN nodes
      /\ \A n \in 1..last : Edge(nodes, nodes[parent], n)
      /\ nodes[parent].begin \in Int /\ nodes[parent].end \in Int
  BY WrittenFields DEF IsTree, SoundNode, Edge
<1>2. \A n \in DOMAIN nodes : /\ nodes[n].begin \in Int /\ nodes[n].end \in Int
                              /\ nodes[n].closed => nodes[n].begin <= nodes[n].end
  BY WrittenFields DEF IsTree, SoundNode
<1>3. PICK k \in 1..last : children[k].seq = seq
  BY DEF PointsTo
<1>4. /\ nodes[seq].begin = children[k].begin
      /\ k # last => nodes[seq].closed /\ nodes[seq].end = children[k + 1].begin
      /\ k = last /\ nodes[parent].closed =>
            nodes[seq].closed /\ nodes[seq].end = nodes[parent].end
  BY <1>1, <1>3 DEF Edge
<1>5. children[k].begin <= ts /\ (nodes[seq].closed => ts < nodes[seq].end)
  BY <1>4 DEF Covers
<1>6. \A i, j \in 1..last : i <= j => children[i].begin <= children[j].begin
  BY ChildrenAscend
<1>7. 1 \in 1..last /\ last \in 1..last /\ nodes[parent].begin = children[1].begin
  <2>1. 1 \in 1..last /\ last \in 1..last
    BY <1>1, <1>3
  <2>2. QED
    BY <1>1, <2>1 DEF Edge
<1> HIDE DEF children, last
<1>8. nodes[parent].begin <= ts
  <2>1. children[1].begin <= children[k].begin
    BY <1>1, <1>3, <1>6, <1>7
  <2>2. QED
    BY <1>1, <1>3, <1>5, <1>7, <2>1
<1>9. ASSUME nodes[parent].closed PROVE ts < nodes[parent].end
  <2>1. CASE k = last
    BY <1>4, <1>5, <1>9, <2>1
  <2>2. CASE k # last
    <3>1. k + 1 \in 1..last /\ ts < children[k + 1].begin
      BY <1>1, <1>3, <1>4, <1>5, <2>2
    <3>2. children[k + 1].begin <= children[last].begin
      BY <1>1, <1>6, <1>7, <3>1
    <3>3. PICK n \in DOMAIN nodes : /\ nodes[n].begin = children[last].begin
                                    /\ nodes[n].closed /\ nodes[n].end = nodes[parent].end
      BY <1>1, <1>7, <1>9 DEF Edge, last, children
    <3>4. children[last].begin <= nodes[parent].end
      BY <1>2, <3>3
    <3>5. QED
      BY <1>1, <1>7, <3>1, <3>2, <3>4
  <2>3. QED
    BY <2>1, <2>2
<1>10. Covers(nodes[parent], ts)
  BY <1>8, <1>9 DEF Covers
<1> DEFINE leading == LeadingChildren(nodes[parent], ts)
<1>11. leading = {n \in 1..last : \A j \in 1..n : children[j].begin <= ts}
  BY DEF LeadingChildren, last, children
<1>12. k \in leading
  <2>1. ASSUME NEW j \in 1..k PROVE children[j].begin <= ts
    <3>1. j \in 1..last /\ j <= k
      BY <1>1, <1>3
    <3>2. children[j].begin <= children[k].begin
      BY <1>3, <1>6, <3>1
    <3>3. QED
      BY <1>1, <1>3, <1>5, <3>1, <3>2
  <2>2. QED
    BY <1>3, <1>11, <2>1
<1>13. ASSUME NEW n \in leading PROVE n <= k
  <2>1. n \in 1..last /\ \A j \in 1..n : children[j].begin <= ts
    BY <1>11
  <2>2. ASSUME n > k PROVE FALSE
    <3>1. k # last /\ k + 1 \in 1..n /\ k + 1 \in 1..last
      BY <1>1, <1>3, <2>1, <2>2
    <3>2. children[k + 1].begin <= ts /\ ts < children[k + 1].begin
      BY <1>4, <1>5, <2>1, <3>1
    <3>3. QED
      BY <1>1, <3>1, <3>2
  <2>3. QED
    BY <1>1, <1>3, <2>1, <2>2
<1>14. leading \in SUBSET (1..last) /\ leading # {}
  BY <1>11, <1>12
<1> HIDE DEF leading
<1>15. Max(leading) = k
  <2>1. Max(leading) \in leading /\ \A n \in leading : n <= Max(leading)
    BY <1>1, <1>14, MaxOf
  <2>2. Max(leading) \in 1..last /\ Max(leading) <= k /\ k <= Max(leading)
    BY <1>12, <1>13, <1>14, <2>1
  <2>3. QED
    BY <1>1, <1>3, <2>2
<1>16. GetChildSeqAtTs(nodes[parent], ts) = children[Max(leading)].seq
  BY <1>14 DEF GetChildSeqAtTs, leading, children
<1>17. QED
  BY <1>3, <1>10, <1>15, <1>16

\* A set of nodes that has the top, and with each node the one the descent goes to
\* from there, has every node that covers the timestamp.
LEMMA PathIsVisited ==
    ASSUME NEW nodes, NEW top, IsTree(nodes, top), NEW ts \in Int,
           NEW visited, top \in visited,
           \A seq \in DOMAIN nodes \cap visited :
              GetChildSeqAtTs(nodes[seq], ts) \in visited
    PROVE  \A seq \in DOMAIN nodes : Covers(nodes[seq], ts) => seq \in visited
<1> DEFINE missed == {seq \in DOMAIN nodes \ visited : Covers(nodes[seq], ts)}
<1>1. PICK height : HasHeights(nodes, top, height)
  BY DEF IsTree
<1>2. /\ \A seq \in DOMAIN nodes : height[seq] \in Nat /\ height[seq] <= height[top]
      /\ height[top] \in Nat
  BY <1>1 DEF HasHeights, IsTree
<1> DEFINE depths == {height[top] - height[seq] : seq \in missed}
<1>3. ASSUME missed # {} PROVE FALSE
  <2>1. depths \in SUBSET Nat /\ depths # {}
    BY <1>2, <1>3
  <2>2. PICK depth \in depths : \A other \in depths : depth <= other
    <3> HIDE DEF depths
    <3>1. QED
      BY <2>1, LeastNat
  <2>3. PICK seq \in missed : depth = height[top] - height[seq]
    BY <2>2
  <2>4. seq \in DOMAIN nodes \ {top}
    BY <2>3
  <2>5. PICK parent \in DOMAIN nodes : PointsTo(nodes[parent], seq)
    BY <2>4 DEF IsTree
  <2>6. Covers(nodes[parent], ts) /\ GetChildSeqAtTs(nodes[parent], ts) = seq
    <3>1. seq \in DOMAIN nodes /\ Covers(nodes[seq], ts)
      BY <2>3
    <3> HIDE DEF missed, depths
    <3>2. QED
      BY <2>5, <3>1, ParentCovers
  <2>7. height[seq] < height[parent]
    BY <1>1, <2>5 DEF PointsTo, HasHeights
  <2>8. parent \notin missed
    <3>1. ASSUME parent \in missed PROVE FALSE
      <4>1. depth <= height[top] - height[parent]
        BY <2>2, <3>1
      <4> HIDE DEF missed, depths
      <4>2. QED
        BY <1>2, <2>3, <2>4, <2>7, <4>1
    <3>2. QED
      BY <3>1
  <2>9. parent \in visited
    BY <2>6, <2>8
  <2>10. seq \in visited
    BY <2>6, <2>9
  <2>11. QED
    BY <2>3, <2>10
<1>4. QED
  BY <1>3

\* The intervals of a tree, and those among them that intersect a timestamp.
StoredAt(nodes, ts) ==
    {interval \in UNION {Range(nodes[seq].intervals) : seq \in DOMAIN nodes} :
        interval.begin <= ts /\ ts < interval.end}

LEMMA NodeFindsAtTs ==
    ASSUME NEW nodes, NEW top, IsTree(nodes, top), NEW seq \in DOMAIN nodes,
           NEW ts \in Int
    PROVE  FindAll(nodes[seq], ts) =
              {interval \in Range(nodes[seq].intervals) :
                  interval.begin <= ts /\ ts < interval.end}
<1>1. nodes[seq].intervals \in Seq(Interval) /\ Ordered(nodes[seq])
  BY WrittenFields DEF IsTree, SoundNode
<1>2. QED
  BY <1>1, FindAllAtTs

\* An interval is in a node that covers what it covers.
LEMMA StoredWhereCovered ==
    ASSUME NEW nodes, NEW top, IsTree(nodes, top), NEW ts \in Int,
           NEW interval \in StoredAt(nodes, ts)
    PROVE  \E seq \in DOMAIN nodes :
              Covers(nodes[seq], ts) /\ interval \in FindAll(nodes[seq], ts)
<1>1. PICK seq \in DOMAIN nodes : interval \in Range(nodes[seq].intervals)
  BY DEF StoredAt
<1>2. interval.begin <= ts /\ ts < interval.end
  BY DEF StoredAt
<1> DEFINE node == nodes[seq]
<1>3. node.intervals \in Seq(Interval) /\ node.begin \in Int /\ node.end \in Int
  BY WrittenFields DEF IsTree, SoundNode
<1>4. PICK k \in 1..Len(node.intervals) : interval = node.intervals[k]
  BY <1>1, <1>3 DEF Range
<1>5. interval.begin \in Int /\ interval.end \in Int
  <2>1. interval \in Interval
    BY <1>3, <1>4
  <2>2. QED
    BY <2>1 DEF Interval
<1>6. node.begin <= interval.begin /\ interval.end <= node.end
  BY <1>4 DEF IsTree, SoundNode, Ordered
<1> HIDE DEF node
<1>7. node.begin <= ts /\ ts < node.end
  BY <1>2, <1>3, <1>5, <1>6
<1>8. interval \in FindAll(node, ts)
  BY <1>1, <1>2, NodeFindsAtTs DEF node
<1>9. QED
  BY <1>7, <1>8 DEF Covers, node

(***************************************************************************)
(* The descent as a recursive function.                                    *)
(***************************************************************************)

\* What is found from a node down.
FromNode(nodes, from, ts, seq) ==
    LET next == GetChildSeqAtTs(nodes[seq], ts)
    IN  FindAll(nodes[seq], ts) \cup
        (IF next = seq \/ next \notin DOMAIN nodes THEN {} ELSE from[next])

IsDescent(nodes, ts, from) ==
    from = [seq \in DOMAIN nodes |-> FromNode(nodes, from, ts, seq)]

LEMMA SearchIsDescent ==
    ASSUME NEW ts
    PROVE  Search(ts) = IF root \in DOMAIN Nodes
                        THEN (CHOOSE from : IsDescent(Nodes, ts, from))[root] ELSE {}
BY DEF Search, IsDescent, FromNode

\* There is one: from a node, the intervals found in the nodes reached.
LEMMA DescentExists ==
    ASSUME NEW nodes, NEW ts
    PROVE  \E from : IsDescent(nodes, ts, from)
<1> DEFINE Child(seq) == GetChildSeqAtTs(nodes[seq], ts)
           Stops(seq) == Child(seq) = seq \/ Child(seq) \notin DOMAIN nodes
           Closed(S) == \A seq \in S : Stops(seq) \/ Child(seq) \in S
           Reached(seq) == {n \in DOMAIN nodes : \A S \in SUBSET DOMAIN nodes :
                               seq \in S /\ Closed(S) => n \in S}
           from == [seq \in DOMAIN nodes |->
                       UNION {FindAll(nodes[n], ts) : n \in Reached(seq)}]
<1>1. ASSUME NEW seq \in DOMAIN nodes, ~Stops(seq)
      PROVE  Reached(seq) = {seq} \cup Reached(Child(seq))
  <2>1. Child(seq) \in DOMAIN nodes
    BY <1>1
  <2>2. ASSUME NEW n \in Reached(Child(seq)) PROVE n \in Reached(seq)
    <3>1. ASSUME NEW S \in SUBSET DOMAIN nodes, seq \in S, Closed(S) PROVE n \in S
      <4>1. Child(seq) \in S
        BY <1>1, <3>1
      <4>2. QED
        BY <2>2, <3>1, <4>1
    <3>2. QED
      BY <2>2, <3>1
  <2>3. ASSUME NEW n \in Reached(seq), n # seq PROVE n \in Reached(Child(seq))
    <3>1. ASSUME NEW S \in SUBSET DOMAIN nodes, Child(seq) \in S, Closed(S) PROVE n \in S
      <4>1. S \cup {seq} \in SUBSET DOMAIN nodes /\ seq \in S \cup {seq}
        OBVIOUS
      <4>2. Closed(S \cup {seq})
        BY <3>1
      <4>3. n \in S \cup {seq}
        BY <2>3, <4>1, <4>2
      <4>4. QED
        BY <2>3, <4>3
    <3>2. QED
      BY <2>3, <3>1
  <2>4. seq \in Reached(seq)
    OBVIOUS
  <2>5. QED
    BY <2>2, <2>3, <2>4
<1>2. ASSUME NEW seq \in DOMAIN nodes, Stops(seq) PROVE Reached(seq) = {seq}
  <2>1. {seq} \in SUBSET DOMAIN nodes /\ seq \in {seq} /\ Closed({seq})
    BY <1>2
  <2>2. QED
    BY <2>1
<1>3. ASSUME NEW seq \in DOMAIN nodes
      PROVE  from[seq] = FromNode(nodes, from, ts, seq)
  <2> HIDE DEF Reached
  <2>1. from[seq] = UNION {FindAll(nodes[n], ts) : n \in Reached(seq)}
    OBVIOUS
  <2>2. CASE Stops(seq)
    BY <1>2, <2>1, <2>2 DEF FromNode
  <2>3. CASE ~Stops(seq)
    <3>1. from[Child(seq)] = UNION {FindAll(nodes[n], ts) : n \in Reached(Child(seq))}
      BY <2>3
    <3>2. from[seq] = FindAll(nodes[seq], ts) \cup from[Child(seq)]
      BY <1>1, <2>1, <2>3, <3>1
    <3>3. QED
      BY <2>3, <3>2 DEF FromNode
  <2>4. QED
    BY <2>2, <2>3
<1>4. from = [seq \in DOMAIN nodes |-> FromNode(nodes, from, ts, seq)]
  <2> HIDE DEF Reached
  <2>1. from = [seq \in DOMAIN nodes |-> from[seq]]
    OBVIOUS
  <2> HIDE DEF from
  <2>2. QED
    BY <1>3, <2>1
<1>5. QED
  BY <1>4 DEF IsDescent

\* The node a descent goes to is a child, unless it stays where it is.
LEMMA ChildIsPointedTo ==
    ASSUME NEW node \in WrittenNode, NEW ts \in Int
    PROVE  \/ GetChildSeqAtTs(node, ts) = node.seq
           \/ PointsTo(node, GetChildSeqAtTs(node, ts))
<1> DEFINE leading == LeadingChildren(node, ts)
           last == Len(node.children)
<1>1. last \in Nat /\ leading \in SUBSET (1..last)
  BY WrittenFields DEF LeadingChildren
<1>2. ASSUME leading # {}
      PROVE  PointsTo(node, GetChildSeqAtTs(node, ts))
  <2> HIDE DEF leading, last
  <2>1. Max(leading) \in 1..last
    BY <1>1, <1>2, MaxOf
  <2>2. GetChildSeqAtTs(node, ts) = node.children[Max(leading)].seq
    BY <1>2 DEF GetChildSeqAtTs, leading
  <2>3. QED
    BY <2>1, <2>2 DEF PointsTo, last
<1>3. leading = {} => GetChildSeqAtTs(node, ts) = node.seq
  BY DEF GetChildSeqAtTs
<1>4. QED
  BY <1>2, <1>3

\* What is found from a node is in a node.
LEMMA DescentIsSound ==
    ASSUME NEW nodes, NEW top, IsTree(nodes, top), NEW ts \in Int,
           NEW from, IsDescent(nodes, ts, from), NEW seq \in DOMAIN nodes
    PROVE  from[seq] \subseteq StoredAt(nodes, ts)
<1>1. PICK height : HasHeights(nodes, top, height)
  BY DEF IsTree
<1>2. \A n \in DOMAIN nodes : height[n] \in Nat
  BY <1>1 DEF HasHeights
<1> DEFINE wrong == {n \in DOMAIN nodes : ~(from[n] \subseteq StoredAt(nodes, ts))}
           heights == {height[n] : n \in wrong}
<1>3. ASSUME wrong # {} PROVE FALSE
  <2>1. heights \in SUBSET Nat /\ heights # {}
    BY <1>2, <1>3
  <2>2. PICK least \in heights : \A other \in heights : least <= other
    <3> HIDE DEF heights
    <3>1. QED
      BY <2>1, LeastNat
  <2>3. PICK n \in wrong : least = height[n]
    BY <2>2
  <2> DEFINE next == GetChildSeqAtTs(nodes[n], ts)
  <2>4. from[n] = FromNode(nodes, from, ts, n)
    BY <2>3 DEF IsDescent
  <2>5. FindAll(nodes[n], ts) \subseteq StoredAt(nodes, ts)
    BY <2>3, NodeFindsAtTs DEF StoredAt
  <2>6. next # n /\ next \in DOMAIN nodes /\ ~(from[next] \subseteq StoredAt(nodes, ts))
    BY <2>3, <2>4, <2>5 DEF FromNode
  <2>7. height[next] < height[n]
    <3>1. next = nodes[n].seq \/ PointsTo(nodes[n], next)
      BY <2>3, ChildIsPointedTo DEF IsTree, SoundNode
    <3>2. nodes[n].seq = n
      BY <2>3 DEF IsTree
    <3>3. PointsTo(nodes[n], next)
      BY <2>6, <3>1, <3>2
    <3>4. QED
      BY <1>1, <2>3, <3>3 DEF PointsTo, HasHeights
  <2>8. least <= height[next]
    BY <2>2, <2>6
  <2>9. QED
    BY <1>2, <2>3, <2>6, <2>7, <2>8
<1>4. QED
  BY <1>3

\* A descent from the top of a tree finds the intervals at the timestamp.
LEMMA DescentFinds ==
    ASSUME NEW nodes, NEW top, IsTree(nodes, top), NEW ts \in Int,
           NEW from, IsDescent(nodes, ts, from)
    PROVE  from[top] = StoredAt(nodes, ts)
<1>1. top \in DOMAIN nodes
  BY DEF IsTree
<1>2. from[top] \subseteq StoredAt(nodes, ts)
  BY <1>1, DescentIsSound
<1>3. ASSUME NEW interval \in StoredAt(nodes, ts), interval \notin from[top]
      PROVE  FALSE
  <2> DEFINE without == {seq \in DOMAIN nodes : interval \notin from[seq]}
  <2>1. PICK n \in DOMAIN nodes :
           Covers(nodes[n], ts) /\ interval \in FindAll(nodes[n], ts)
    BY StoredWhereCovered
  <2>2. \A seq \in DOMAIN nodes : from[seq] = FromNode(nodes, from, ts, seq)
    BY DEF IsDescent
  <2>3. top \in without
    BY <1>1, <1>3
  <2>4. ASSUME NEW seq \in DOMAIN nodes \cap without
        PROVE  GetChildSeqAtTs(nodes[seq], ts) \in without
    <3> DEFINE next == GetChildSeqAtTs(nodes[seq], ts)
    <3>1. next = seq \/ next \in DOMAIN nodes
      <4>1. next = nodes[seq].seq \/ PointsTo(nodes[seq], next)
        BY ChildIsPointedTo DEF IsTree, SoundNode
      <4>2. nodes[seq].seq = seq
        BY DEF IsTree
      <4>3. PointsTo(nodes[seq], next) => next \in DOMAIN nodes
        BY DEF IsTree, Edge, PointsTo
      <4>4. QED
        BY <4>1, <4>2, <4>3
    <3>2. next # seq => from[next] \subseteq from[seq]
      BY <2>2, <3>1 DEF FromNode
    <3>3. QED
      BY <3>1, <3>2
  <2>5. n \in without
    <3> HIDE DEF without
    <3>1. QED
      BY <2>1, <2>3, <2>4, PathIsVisited
  <2>6. interval \in from[n]
    BY <2>1, <2>2 DEF FromNode
  <2>7. QED
    BY <2>5, <2>6
<1>4. QED
  BY <1>2, <1>3

(***************************************************************************)
(* A tree that grows: nodes are added to it with the lower part of a branch*)
(* whose nodes are at its heights, under the node above them or, with a new*)
(* top, over the old one.                                                  *)
(***************************************************************************)
AllPointedTo(nodes, top) ==
    \A seq \in DOMAIN nodes \ {top} :
        \E parent \in DOMAIN nodes : PointsTo(nodes[parent], seq)

BranchHeights(height, branch) ==
    \A k \in 1..Len(branch) : height[branch[k].seq] = Len(branch) - k

Grows(nodes, top, more, branch, first) ==
    /\ DOMAIN more = DOMAIN nodes \cup {branch[k].seq : k \in first..Len(branch)}
    /\ \A seq \in DOMAIN nodes : \A child :
          PointsTo(nodes[seq], child) => PointsTo(more[seq], child)
    /\ \A k \in 2..Len(branch) : PointsTo(more[branch[k - 1].seq], branch[k].seq)
    /\ top # branch[1].seq => PointsTo(more[branch[1].seq], top)
    /\ \A seq \in DOMAIN more : \A child : PointsTo(more[seq], child) =>
          \/ seq \in DOMAIN nodes /\ PointsTo(nodes[seq], child)
          \/ \E k \in 2..Len(branch) : seq = branch[k - 1].seq /\ child = branch[k].seq
          \/ seq = branch[1].seq /\ child = top /\ top # seq

LEMMA TreeGrows ==
    ASSUME NEW nodes, NEW top \in DOMAIN nodes, NEW height,
           AllPointedTo(nodes, top), HasHeights(nodes, top, height),
           \A seq \in DOMAIN nodes : \A child :
              PointsTo(nodes[seq], child) => child \in DOMAIN nodes,
           NEW branch, Len(branch) \in Nat \ {0}, NEW first \in 1..(Len(branch) + 1),
           NEW more, Grows(nodes, top, more, branch, first),
           \A k \in first..Len(branch) : branch[k].seq \notin DOMAIN nodes,
           \A j, k \in 1..Len(branch) : branch[j].seq = branch[k].seq => j = k,
           \A k \in 1..(first - 1) :
              branch[k].seq \in DOMAIN nodes /\ height[branch[k].seq] = Len(branch) - k,
           top # branch[1].seq => height[top] = Len(branch) - 2
    PROVE  /\ AllPointedTo(more, branch[1].seq)
           /\ \E new : HasHeights(more, branch[1].seq, new) /\ BranchHeights(new, branch)
<1> USE DEF Grows
<1> DEFINE last == Len(branch)
           newTop == branch[1].seq
           Place(seq) == CHOOSE k \in first..last : branch[k].seq = seq
           new == [seq \in DOMAIN more |->
                      IF seq \in DOMAIN nodes THEN height[seq] ELSE last - Place(seq)]
<1>1. /\ last \in Nat \ {0} /\ first \in 1..(last + 1)
      /\ \A k \in first..last : k \in 1..last
      /\ \A k \in 1..last : k \in 1..(first - 1) \/ k \in first..last
  OBVIOUS
<1>2. \A k \in 1..last : branch[k].seq \in DOMAIN more
  BY <1>1
<1>3. AllPointedTo(more, newTop)
  <2> SUFFICES ASSUME NEW seq \in DOMAIN more, seq # newTop
               PROVE  \E parent \in DOMAIN more : PointsTo(more[parent], seq)
    BY DEF AllPointedTo
  <2>1. CASE seq \in DOMAIN nodes /\ seq # top
    BY <2>1 DEF AllPointedTo
  <2>2. CASE seq = top
    BY <1>1, <1>2, <2>2
  <2>3. CASE seq \notin DOMAIN nodes
    <3>1. PICK k \in first..last : seq = branch[k].seq
      BY <2>3
    <3>2. k \in 2..last /\ k - 1 \in 1..last
      BY <1>1, <3>1
    <3>3. branch[k - 1].seq \in DOMAIN more
      BY <1>2, <3>2
    <3>4. PointsTo(more[branch[k - 1].seq], branch[k].seq)
      BY <3>1, <3>2
    <3>5. QED
      BY <3>1, <3>3, <3>4
  <2>4. QED
    BY <2>1, <2>2, <2>3
<1>4. \A seq \in DOMAIN nodes : height[seq] \in Nat /\ height[seq] <= height[top]
  BY DEF HasHeights
<1>5. ASSUME NEW k \in 1..last PROVE new[branch[k].seq] = last - k
  <2>1. CASE k \in 1..(first - 1)
    BY <1>2, <2>1
  <2>2. CASE k \in first..last
    <3>1. branch[k].seq \notin DOMAIN nodes /\ branch[k].seq \in DOMAIN more
      BY <1>2, <2>2
    <3>2. Place(branch[k].seq) \in first..last
          /\ branch[Place(branch[k].seq)].seq = branch[k].seq
      BY <2>2
    <3>3. Place(branch[k].seq) = k
      <4> HIDE DEF Place
      <4>1. QED
        BY <1>1, <3>2
    <3>4. QED
      BY <3>1, <3>3
  <2>3. QED
    BY <1>1, <2>1, <2>2
<1>6. \A seq \in DOMAIN nodes : seq \in DOMAIN more /\ new[seq] = height[seq]
  OBVIOUS
<1>7. DOMAIN new = DOMAIN more /\ new = [seq \in DOMAIN more |-> new[seq]]
  OBVIOUS
<1>8. \A seq \in DOMAIN more :
         seq \in DOMAIN nodes \/ \E k \in first..last : seq = branch[k].seq
  OBVIOUS
<1> HIDE DEF new
<1>9. new[newTop] = last - 1 /\ height[top] <= last - 1
  <2>1. new[newTop] = last - 1
    BY <1>1, <1>5
  <2>2. CASE top = newTop
    BY <1>1, <1>4, <1>6, <2>1, <2>2
  <2>3. CASE top # newTop
    BY <1>1, <2>1, <2>3
  <2>4. QED
    BY <2>1, <2>2, <2>3
<1>10. ASSUME NEW seq \in DOMAIN more
       PROVE  new[seq] \in Nat /\ new[seq] <= new[newTop]
  <2>1. CASE seq \in DOMAIN nodes
    <3>1. new[seq] = height[seq] /\ height[seq] \in Nat /\ height[top] \in Nat
          /\ height[seq] <= height[top]
      BY <1>4, <1>6, <2>1
    <3> HIDE DEF newTop, last
    <3>2. QED
      BY <1>1, <1>9, <3>1
  <2>2. CASE seq \notin DOMAIN nodes
    <3>1. PICK k \in first..last : seq = branch[k].seq
      BY <1>8, <2>2
    <3>2. k \in 1..last /\ new[seq] = last - k
      BY <1>1, <1>5, <3>1
    <3>3. QED
      BY <1>1, <1>9, <3>2
  <2>3. QED
    BY <2>1, <2>2
<1>11. ASSUME NEW seq \in DOMAIN more, NEW child, PointsTo(more[seq], child)
       PROVE  new[child] < new[seq]
  <2>1. CASE seq \in DOMAIN nodes /\ PointsTo(nodes[seq], child)
    <3>1. height[child] < height[seq] /\ child \in DOMAIN nodes
      BY <2>1 DEF HasHeights, PointsTo
    <3>2. QED
      BY <1>6, <2>1, <3>1
  <2>2. CASE \E k \in 2..last : seq = branch[k - 1].seq /\ child = branch[k].seq
    <3>1. PICK k \in 2..last : seq = branch[k - 1].seq /\ child = branch[k].seq
      BY <2>2
    <3>2. k \in 1..last /\ k - 1 \in 1..last
      BY <1>1
    <3>3. new[seq] = last - (k - 1) /\ new[child] = last - k
      BY <1>5, <3>1, <3>2
    <3>4. QED
      BY <1>1, <3>2, <3>3
  <2>3. CASE seq = newTop /\ child = top /\ top # newTop
    BY <1>1, <1>6, <1>9, <2>3
  <2>4. QED
    BY <1>11, <2>1, <2>2, <2>3
<1>12. HasHeights(more, newTop, new)
  <2>1. new \in [DOMAIN more -> Nat]
    BY <1>7, <1>10
  <2>2. QED
    BY <1>10, <1>11, <2>1 DEF HasHeights, PointsTo
<1>13. QED
  BY <1>3, <1>5, <1>12 DEF BranchHeights

(***************************************************************************)
(* The nodes of the sink's tree.                                           *)
(***************************************************************************)
InParts(nodes, written, branch) ==
    /\ DOMAIN nodes = DOMAIN written \cup {branch[k].seq : k \in 1..Len(branch)}
    /\ \A seq \in DOMAIN written : nodes[seq] = written[seq]
    /\ \A k \in 1..Len(branch) : nodes[branch[k].seq] = Serialize(branch[k])

NodesOf(written, branch) ==
    [seq \in DOMAIN written \cup SeqsDownFrom(branch, 1) |->
        IF seq \in SeqsDownFrom(branch, 1)
        THEN Serialize(branch[CHOOSE k \in 1..Len(branch) : branch[k].seq = seq])
        ELSE written[seq]]

LEMMA NodesOfInParts ==
    ASSUME NEW written, NEW branch,
           \A j, k \in 1..Len(branch) : branch[j].seq = branch[k].seq => j = k,
           DOMAIN written \cap SeqsDownFrom(branch, 1) = {}
    PROVE  InParts(NodesOf(written, branch), written, branch)
<1> DEFINE nodes == NodesOf(written, branch)
           Place(seq) == CHOOSE k \in 1..Len(branch) : branch[k].seq = seq
<1>1. SeqsDownFrom(branch, 1) = {branch[k].seq : k \in 1..Len(branch)}
  BY DEF SeqsDownFrom
<1>2. ASSUME NEW k \in 1..Len(branch) PROVE nodes[branch[k].seq] = Serialize(branch[k])
  <2>1. /\ Place(branch[k].seq) \in 1..Len(branch)
        /\ branch[Place(branch[k].seq)].seq = branch[k].seq
    OBVIOUS
  <2>2. Place(branch[k].seq) = k
    <3> HIDE DEF Place
    <3>1. QED
      BY <2>1
  <2>3. branch[k].seq \in SeqsDownFrom(branch, 1)
    BY <1>1
  <2>4. nodes[branch[k].seq] = Serialize(branch[Place(branch[k].seq)])
    BY <2>3 DEF NodesOf
  <2>5. QED
    BY <2>2, <2>4
<1>3. /\ DOMAIN nodes = DOMAIN written \cup {branch[k].seq : k \in 1..Len(branch)}
      /\ \A seq \in DOMAIN written : nodes[seq] = written[seq]
  BY <1>1 DEF NodesOf
<1>4. QED
  BY <1>2, <1>3 DEF InParts

LEMMA OpenedNodes ==
    /\ SeqsUnique /\ opened => InParts(Nodes, file, latestBranch)
    /\ (SeqsUnique /\ opened => InParts(Nodes, file, latestBranch))'
<1>1. /\ opened => Nodes = NodesOf(file, latestBranch)
      /\ (opened => Nodes = NodesOf(file, latestBranch))'
  BY DEF Nodes, NodesOf, BranchSeqs, BranchNode
<1>2. SeqsUnique /\ opened =>
         /\ \A j, k \in 1..Len(latestBranch) : latestBranch[j].seq = latestBranch[k].seq => j = k
         /\ DOMAIN file \cap SeqsDownFrom(latestBranch, 1) = {}
  BY DEF SeqsUnique, BranchSeqs
<1>3. (SeqsUnique /\ opened =>
         /\ \A j, k \in 1..Len(latestBranch) : latestBranch[j].seq = latestBranch[k].seq => j = k
         /\ DOMAIN file \cap SeqsDownFrom(latestBranch, 1) = {})'
  BY DEF SeqsUnique, BranchSeqs
<1>4. QED
  BY <1>1, <1>2, <1>3, NodesOfInParts

LEMMA ClosedNodes ==
    /\ TypeOK /\ ~opened => Nodes = file
    /\ (TypeOK /\ ~opened => Nodes = file)'
<1>1. /\ ~opened => Nodes = [seq \in DOMAIN file |-> file[seq]]
      /\ (~opened => Nodes = [seq \in DOMAIN file |-> file[seq]])'
  BY DEF Nodes, BranchSeqs
<1>2. TypeOK => file = [seq \in DOMAIN file |-> file[seq]]
  BY DEF TypeOK
<1>3. (TypeOK => file = [seq \in DOMAIN file |-> file[seq]])'
  BY DEF TypeOK
<1>4. QED
  BY <1>1, <1>2, <1>3

(***************************************************************************)
(* The inductive invariant: a node begins no later than it ends or than the*)
(* history does so far; the file a closed history leaves has its root and  *)
(* its range; each node but the root is pointed to, and the branch has a   *)
(* node at each height.                                                    *)
(***************************************************************************)
Readable == opened \/ header # NoHeader

BeginsRight ==
    /\ opened => \A k \in 1..Len(latestBranch) : latestBranch[k].begin <= end
    /\ \A seq \in DOMAIN file : file[seq].begin <= file[seq].end

ClosedRight ==
    header # NoHeader =>
        /\ header.root = root /\ header.nodeCount = nodeCount
        /\ root \in DOMAIN file
        /\ file[root].begin = begin /\ file[root].end = end

Joined ==
    Readable =>
        /\ AllPointedTo(Nodes, root)
        /\ \E height : /\ HasHeights(Nodes, root, height)
                       /\ opened => BranchHeights(height, latestBranch)

PathInv == BeginsRight /\ ClosedRight /\ Joined

LEMMA SerializeFields ==
    ASSUME NEW node
    PROVE  /\ Serialize(node).seq = node.seq /\ Serialize(node).parent = node.parent
           /\ Serialize(node).begin = node.begin /\ Serialize(node).end = node.end
           /\ Serialize(node).closed = node.closed
           /\ Serialize(node).children = node.children
           /\ Serialize(node).intervals = node.intervals
BY DEF Serialize

\* A written node's edges stay in a tree that has more nodes.
LEMMA LeadsEdge ==
    ASSUME NEW written, NEW nodes, NEW parent, NEW k, Leads(written, parent, k),
           DOMAIN written \subseteq DOMAIN nodes,
           \A seq \in DOMAIN written : nodes[seq] = written[seq] /\ written[seq].closed
    PROVE  Edge(nodes, parent, k)
BY DEF Leads, Edge

LEMMA BranchEdge ==
    ASSUME Before, opened, NEW nodes, InParts(nodes, file, latestBranch),
           NEW j \in 1..Len(latestBranch), NEW k \in 1..Len(latestBranch[j].children)
    PROVE  Edge(nodes, Serialize(latestBranch[j]), k)
<1> DEFINE parent == latestBranch[j]
           last == Len(parent.children)
<1>1. /\ latestBranch \in Seq(MemoryNode) /\ Len(latestBranch) \in Nat
      /\ Pending(file, parent) /\ parent \in MemoryNode
      /\ latestBranch[Len(latestBranch)].children = <<>>
      /\ \A seq \in DOMAIN file : file[seq].closed
  BY DEF Before, TypeInv, TypeOK, ShapeInv, BranchPending, WrittenRight
<1>2. parent.children \in Seq(ChildPointer) /\ last \in Nat
  <2>1. parent.children \in Seq(ChildPointer)
    BY <1>1 DEF MemoryNode
  <2>2. QED
    BY <2>1
<1>3. CASE k # last
  <2>1. k \in 1..(last - 1)
    BY <1>2, <1>3
  <2>2. Leads(file, parent, k)
    BY <1>1, <2>1 DEF Pending, EarlierLead
  <2>3. Leads(file, Serialize(parent), k)
    BY <1>3, <2>2, LeadsSame, SerializeFields
  <2>4. QED
    BY <1>1, <2>3, LeadsEdge DEF InParts
<1>4. CASE k = last
  <2> DEFINE child == latestBranch[j + 1]
  <2>1. parent.children # <<>>
    BY <1>2
  <2>2. j # Len(latestBranch)
    BY <1>1, <2>1
  <2>3. j + 1 \in 2..Len(latestBranch) /\ j + 1 \in 1..Len(latestBranch) /\ (j + 1) - 1 = j
    BY <1>1, <2>2
  <2>4. IsLastChild(child, parent)
    BY <2>3 DEF Before, BranchPath
  <2>5. child.seq \in DOMAIN nodes /\ nodes[child.seq].begin = child.begin
    BY <2>3, SerializeFields DEF InParts
  <2>6. parent.children[last] = [begin |-> child.begin, seq |-> child.seq]
    BY <2>4 DEF IsLastChild
  <2>7. 1 = k => parent.children[1].begin = parent.begin
    BY <1>1, <2>1 DEF Pending, FirstWithParent
  <2>8. ~parent.closed
    BY <1>1 DEF Pending
  <2> HIDE DEF parent, child
  <2>9. Edge(nodes, Serialize(parent), k)
    BY <1>4, <2>5, <2>6, <2>7, <2>8, SerializeFields DEF Edge, last
  <2>10. QED
    BY <2>9 DEF parent
<1>5. QED
  BY <1>3, <1>4

\* The nodes of the history are a tree under its root.
LEMMA NodesAreTree ==
    ASSUME Before, PathInv, Readable
    PROVE  IsTree(Nodes, root)
<1>1. AllPointedTo(Nodes, root) /\ \E height : HasHeights(Nodes, root, height)
  BY DEF PathInv, Joined
<1>2. /\ TypeOK /\ AllLead(file) /\ NodesOrdered /\ NodesCanBeClosed
      /\ \A seq \in DOMAIN file : file[seq].seq = seq /\ file[seq].closed
      /\ \A seq \in DOMAIN file : file[seq].begin <= file[seq].end
  BY DEF Before, TypeInv, ShapeInv, OrderInv, PathInv, BeginsRight, WrittenRight
<1>3. \A seq \in DOMAIN file : SoundNode(file[seq])
  <2>1. file \in [DOMAIN file -> WrittenNode]
    BY <1>2 DEF TypeOK
  <2>2. QED
    BY <1>2, <2>1 DEF SoundNode, NodesOrdered
<1>4. CASE ~opened
  <2>1. Nodes = file
    BY <1>2, <1>4, ClosedNodes
  <2>2. root \in DOMAIN file
    BY <1>4 DEF Readable, PathInv, ClosedRight
  <2>3. \A seq \in DOMAIN file : \A k \in 1..Len(file[seq].children) :
           Edge(file, file[seq], k)
    BY <1>2, LeadsEdge DEF AllLead
  <2>4. QED
    BY <1>1, <1>2, <1>3, <2>1, <2>2, <2>3 DEF IsTree, AllPointedTo
<1>5. CASE opened
  <2>1. InParts(Nodes, file, latestBranch)
    BY <1>5, OpenedNodes DEF Before
  <2>2. root \in DOMAIN Nodes
    <3>1. 1 \in 1..Len(latestBranch) /\ latestBranch[1].seq = root
      BY <1>2, <1>5 DEF TypeOK, Before, BranchPath
    <3>2. QED
      BY <2>1, <3>1 DEF InParts
  <2>3. ASSUME NEW k \in 1..Len(latestBranch)
        PROVE  SoundNode(Serialize(latestBranch[k]))
    <3>1. /\ latestBranch[k] \in MemoryNode /\ ~latestBranch[k].closed
          /\ Ordered(latestBranch[k])
      BY <1>2, <1>5 DEF TypeOK, NodesCanBeClosed, NodesOrdered
    <3>2. QED
      BY <3>1, SerializeFields, SerializeType, SerializeOrdered DEF SoundNode
  <2>4. ASSUME NEW seq \in DOMAIN Nodes
        PROVE  /\ Nodes[seq].seq = seq
               /\ SoundNode(Nodes[seq])
               /\ \A k \in 1..Len(Nodes[seq].children) : Edge(Nodes, Nodes[seq], k)
    <3>1. CASE seq \in DOMAIN file
      <4>1. Nodes[seq] = file[seq]
        BY <2>1, <3>1 DEF InParts
      <4>2. ASSUME NEW k \in 1..Len(file[seq].children)
            PROVE  Edge(Nodes, file[seq], k)
        <5>1. Leads(file, file[seq], k)
          BY <1>2, <3>1 DEF AllLead
        <5>2. QED
          BY <1>2, <2>1, <5>1, LeadsEdge DEF InParts
      <4>3. QED
        BY <1>2, <1>3, <3>1, <4>1, <4>2
    <3>2. CASE seq \notin DOMAIN file
      <4>1. PICK j \in 1..Len(latestBranch) : seq = latestBranch[j].seq
        BY <2>1, <3>2 DEF InParts
      <4>2. Nodes[seq] = Serialize(latestBranch[j])
        BY <2>1, <4>1 DEF InParts
      <4>3. \A k \in 1..Len(Nodes[seq].children) : Edge(Nodes, Nodes[seq], k)
        BY <1>5, <2>1, <4>2, BranchEdge, SerializeFields
      <4>4. QED
        BY <2>3, <4>1, <4>2, <4>3, SerializeFields
    <3>3. QED
      BY <3>1, <3>2
  <2>5. QED
    BY <1>1, <2>2, <2>4 DEF IsTree, AllPointedTo
<1>6. QED
  BY <1>4, <1>5

(***************************************************************************)
(* What each step keeps of it.                                             *)
(***************************************************************************)
LEMMA CommitBegins ==
    ASSUME NEW more, NEW branch \in Seq(MemoryNode), NEW i \in 1..Len(branch),
           NEW ts \in Int, CommitOf(file, more, branch, i, ts),
           \A k \in i..Len(branch) : branch[k].begin <= ts,
           \A seq \in DOMAIN file : file[seq].begin <= file[seq].end
    PROVE  \A seq \in DOMAIN more : more[seq].begin <= more[seq].end
<1> TAKE seq \in DOMAIN more
<1>1. CASE seq \in DOMAIN file
  BY <1>1 DEF CommitOf
<1>2. CASE seq \in SeqsDownFrom(branch, i)
  <2>1. PICK j \in i..Len(branch) : seq = branch[j].seq
    BY <1>2 DEF SeqsDownFrom
  <2>2. branch[j] \in MemoryNode /\ ~branch[j].closed
    BY DEF CommitOf, Pending
  <2>3. more[seq] = Serialize(CloseNode(branch[j], ts))
    BY <2>1 DEF CommitOf
  <2>4. more[seq].begin = branch[j].begin /\ more[seq].end = ts
    BY <2>2, <2>3, ClosedNodeFields
  <2>5. QED
    BY <2>4
<1>3. QED
  BY <1>1, <1>2 DEF CommitOf

LEMMA BranchFields ==
    ASSUME NEW branch \in Seq(MemoryNode), NEW k \in 1..Len(branch)
    PROVE  /\ branch[k] \in MemoryNode
           /\ branch[k].seq \in Nat /\ branch[k].begin \in Int
           /\ branch[k].children \in Seq(ChildPointer)
<1>1. branch[k] \in MemoryNode
  BY NodeOfBranch
<1>2. QED
  BY <1>1 DEF MemoryNode

LEMMA OpenBegins ==
    ASSUME NEW ts \in BeginTimes, Open(ts) PROVE BeginsRight' /\ ClosedRight'
<1> DEFINE leaf == NewNode(0, RootParent, ts, 0)
<1>1. leaf.begin = ts /\ ts \in Int
  BY TimesAssumption DEF NewNode
<1>2. latestBranch' = <<leaf>> /\ file' = <<>> /\ end' = ts /\ header' = NoHeader
  BY DEF Open, Truncated
<1> HIDE DEF leaf
<1>3. QED
  BY <1>1, <1>2 DEF BeginsRight, ClosedRight, NoHeader

LEMMA NextBegins ==
    ASSUME \A max \in MaxChildrenValues : max >= 2, Before, BeginsRight, [Next]_vars
    PROVE  BeginsRight'
<1>1. /\ TypeInv /\ TypeOK /\ latestBranch \in Seq(MemoryNode) /\ end \in Int /\ begin \in Int
      /\ Len(latestBranch) \in Nat
      /\ opened => begin <= end
      /\ opened => 1 \in 1..Len(latestBranch)
      /\ \A k \in 1..Len(latestBranch) : latestBranch[k].begin \in Int
  <2>1. TypeInv /\ TypeOK /\ latestBranch \in Seq(MemoryNode) /\ end \in Int /\ begin \in Int
    BY DEF Before, TypeInv, TypeOK
  <2>2. \A k \in 1..Len(latestBranch) : latestBranch[k].begin \in Int
    BY <2>1, BranchFields
  <2>3. QED
    BY <2>1, <2>2 DEF Before, OrderInv, RangeRight, TypeInv, RootTakesAll
<1>2. CASE SameTree
  BY <1>2 DEF SameTree, BeginsRight
<1>3. CASE \E ts \in BeginTimes : Open(ts)
  BY <1>3, OpenBegins
<1>4. CASE OpenUnknownSerDes
  BY <1>4 DEF OpenUnknownSerDes, Truncated, BeginsRight
<1>5. ASSUME NEW ts \in CloseTimes \cup {end}, Close(ts) PROVE BeginsRight'
  <2>1. /\ opened /\ ~opened' /\ end' \in Int /\ end <= end'
    BY <1>1, <1>5, TimesAssumption DEF Close, ClosingEnd
  <2> DEFINE one == 1
             ending == end'
  <2>2. CommitOf(file, file', latestBranch, one, ending)
    BY <1>5, CloseCommit
  <2>3. \A k \in one..Len(latestBranch) : latestBranch[k].begin <= ending
    BY <1>1, <2>1 DEF BeginsRight
  <2>4. one \in 1..Len(latestBranch)
    BY <1>1, <2>1
  <2> HIDE DEF one, ending
  <2>5. ending \in Int
    BY <2>1 DEF ending
  <2>6. \A seq \in DOMAIN file' : file'[seq].begin <= file'[seq].end
    BY <1>1, <2>2, <2>3, <2>4, <2>5, CommitBegins DEF BeginsRight
  <2>7. QED
    BY <2>1, <2>6 DEF BeginsRight
<1>6. CASE AddToTarget
  <2>1. /\ Len(latestBranch') = Len(latestBranch) /\ file' = file /\ end' = intr.end
        /\ \A k \in 1..Len(latestBranch) : latestBranch'[k].begin = latestBranch[k].begin
    BY <1>1, <1>6, AddToTargetFields DEF AddToTarget
  <2>2. opened /\ intr.end \in Int /\ intr.end >= end
    BY <1>1, <1>6 DEF AddToTarget, TypeInv, TypeOK, RootTakesAll, Interval
  <2>3. QED
    BY <1>1, <2>1, <2>2 DEF BeginsRight
<1>7. CASE Sibling
  <2>1. /\ index \in 2..Len(latestBranch) /\ index \in 1..Len(latestBranch)
        /\ opened /\ nodeCount \in Nat /\ maxChildren \in Nat /\ end' = end
    BY <1>1, <1>7, SiblingBranch DEF Sibling, TypeOK
  <2>2. CommitOf(file, file', latestBranch, index, end)
    BY <1>7, SiblingCommit
  <2>3. \A seq \in DOMAIN file' : file'[seq].begin <= file'[seq].end
    BY <1>1, <2>1, <2>2, CommitBegins DEF BeginsRight
  <2>4. ASSUME NEW k \in 1..Len(latestBranch)
        PROVE  latestBranch'[k].begin <= end
    <3> DEFINE above == latestBranch[index - 1]
               count == Len(latestBranch) - index + 1
    <3>1. CASE k \in 1..(index - 2)
      BY <1>1, <1>7, <2>1, <3>1, SiblingBranch DEF BeginsRight
    <3>2. CASE k = index - 1
      <4>1. latestBranch'[k] = AddChild(above, end, nodeCount)
        BY <1>1, <1>7, <3>2, SiblingBranch
      <4>2. /\ k \in 1..Len(latestBranch) /\ above \in MemoryNode
            /\ above.begin <= end
        BY <1>1, <2>1, <3>2 DEF BeginsRight
      <4> HIDE DEF above
      <4>3. AddChild(above, end, nodeCount).begin = above.begin
        BY <1>1, <2>1, <4>2, AddChildFields
      <4>4. QED
        BY <4>1, <4>2, <4>3
    <3>3. CASE k \in index..Len(latestBranch)
      <4> DEFINE i == k - index + 1
      <4>1. latestBranch'[k] = DrawnNode(above.seq, nodeCount, count, i)
        BY <1>1, <1>7, <3>3, SiblingBranch
      <4>2. i \in 1..count /\ count \in Nat
        BY <1>1, <2>1, <3>3
      <4> HIDE DEF above, count, i
      <4>3. DrawnNode(above.seq, nodeCount, count, i).begin = end
        BY DrawnNodeFields
      <4>4. QED
        BY <1>1, <4>1, <4>3
    <3>4. QED
      BY <2>1, <3>1, <3>2, <3>3
  <2>5. Len(latestBranch') = Len(latestBranch)
    BY <1>1, <1>7, SiblingBranch
  <2>6. QED
    BY <2>1, <2>3, <2>4, <2>5 DEF BeginsRight
<1>8. CASE GrowRoot
  <2>1. /\ index \in 1..Len(latestBranch) /\ opened /\ nodeCount \in Nat
        /\ nodeCount + 1 \in Nat /\ maxChildren \in Nat /\ end' = end
    BY <1>1, <1>8 DEF GrowRoot, TypeOK
  <2> DEFINE one == 1
             first == nodeCount + 1
             count == Len(latestBranch)
             branch == BranchUnderNewRoot
  <2>2. CommitOf(file, file', branch, one, end)
    BY <1>8, GrowRootCommit
  <2>3. /\ branch \in Seq(MemoryNode) /\ one \in 1..Len(branch)
        /\ \A k \in one..Len(branch) : branch[k].begin <= end
    <3>1. /\ branch \in Seq(MemoryNode) /\ Len(branch) = Len(latestBranch)
          /\ branch[1].begin = latestBranch[1].begin
          /\ \A k \in 2..Len(latestBranch) : branch[k] = latestBranch[k]
      BY <1>1, <2>1, BranchUnderNewRootType
    <3>2. \A k \in one..Len(branch) : k \in 1..Len(latestBranch)
                                    /\ (k = 1 \/ k \in 2..Len(latestBranch))
      BY <1>1, <3>1
    <3>3. \A k \in 1..Len(latestBranch) : latestBranch[k].begin <= end
      BY <2>1 DEF BeginsRight
    <3> HIDE DEF branch
    <3>4. \A k \in one..Len(branch) : branch[k].begin <= end
      BY <3>1, <3>2, <3>3
    <3>5. QED
      BY <1>1, <2>1, <3>1, <3>4
  <2> HIDE DEF one, branch
  <2>4. \A seq \in DOMAIN file' : file'[seq].begin <= file'[seq].end
    BY <1>1, <2>2, <2>3, CommitBegins DEF BeginsRight
  <2>5. latestBranch'[1].begin <= end
    <3>1. NewRootWithChild \in MemoryNode /\ NewRootWithChild.begin = begin
      BY <1>1, <2>1, NewRootType
    <3>2. latestBranch'[1] = AddChild(NewRootWithChild, end, first)
      BY <1>1, <1>8, GrowRootBranch
    <3>3. AddChild(NewRootWithChild, end, first).begin = begin
      <4> HIDE DEF branch, one
      <4>1. QED
        BY <1>1, <2>1, <3>1, AddChildFields
    <3>4. QED
      BY <1>1, <2>1, <3>2, <3>3
  <2>6. ASSUME NEW k \in 2..(Len(latestBranch) + 1)
        PROVE  latestBranch'[k].begin <= end
    <3> DEFINE i == k - 1
    <3>1. latestBranch'[k] = DrawnNode(nodeCount, first, count, i)
      BY <1>1, <1>8, GrowRootBranch
    <3>2. i \in 1..count /\ count \in Nat /\ first \in Nat
      BY <1>1, <2>1
    <3> HIDE DEF first, count, i
    <3>3. latestBranch'[k].begin = end
      BY <1>1, <2>1, <3>1, <3>2, DrawnNodeSeqs
    <3>4. QED
      BY <1>1, <3>3
  <2>7. Len(latestBranch') = Len(latestBranch) + 1
    BY <1>1, <1>8, GrowRootBranch
  <2>8. \A k \in 1..Len(latestBranch') : k = 1 \/ k \in 2..(Len(latestBranch) + 1)
    BY <1>1, <2>7
  <2>9. QED
    BY <2>1, <2>4, <2>5, <2>6, <2>8 DEF BeginsRight
<1>9. CASE GrowRootNoChild \/ GrowRootOneChild
  <2>1. index \in 1..Len(latestBranch) /\ maxChildren >= 2
    BY <1>9 DEF GrowRootNoChild, GrowRootOneChild, Before, TypeInv, TypeOK
  <2>2. QED
    BY <1>9, <2>1, NewRootHasRoom DEF GrowRootNoChild, GrowRootOneChild, Before
<1>10. QED
  BY <1>2, <1>3, <1>4, <1>5, <1>6, <1>7, <1>8, <1>9, StepsOfNext

\* The file of a closed history has its root, with the history's range.
LEMMA NextClosed ==
    ASSUME Before, ClosedRight, [Next]_vars PROVE ClosedRight'
<1>1. CASE SameTree
  BY <1>1 DEF SameTree, ClosedRight
<1>2. CASE (\E ts \in BeginTimes : Open(ts)) \/ OpenUnknownSerDes
  BY <1>2 DEF Open, OpenUnknownSerDes, Truncated, ClosedRight, NoHeader
<1>3. ASSUME NEW ts \in CloseTimes \cup {end}, Close(ts) PROVE ClosedRight'
  <2> DEFINE one == 1
             ending == end'
             top == latestBranch[one]
  <2>1. /\ header'.root = root /\ header'.nodeCount = nodeCount
        /\ root' = root /\ nodeCount' = nodeCount /\ begin' = begin
        /\ end \in Int /\ ending \in Int /\ opened
    BY <1>3, TimesAssumption DEF Close, ClosingEnd, Before, TypeInv, TypeOK
  <2>2. /\ one \in 1..Len(latestBranch) /\ top \in MemoryNode
        /\ top.seq = root /\ top.begin = begin
    BY <2>1 DEF Before, TypeInv, TypeOK, RootTakesAll, BranchPath
  <2>3. CommitOf(file, file', latestBranch, one, ending)
    BY <1>3, CloseCommit
  <2> HIDE DEF one, ending
  <2>4. root \in DOMAIN file' /\ file'[root] = Serialize(CloseNode(top, ending))
    BY <2>2, <2>3 DEF CommitOf, SeqsDownFrom
  <2>5. ~top.closed
    BY <2>2, <2>3 DEF CommitOf, Pending
  <2> HIDE DEF top
  <2>6. file'[root].begin = begin /\ file'[root].end = ending
    BY <2>1, <2>2, <2>4, <2>5, ClosedNodeFields
  <2>7. QED
    BY <2>1, <2>4, <2>6 DEF ClosedRight, ending
<1>4. CASE AddToTarget \/ Sibling \/ GrowRoot \/ GrowRootNoChild \/ GrowRootOneChild
  <2>1. opened /\ header' = header
    BY <1>4 DEF AddToTarget, Sibling, GrowRoot, GrowRootNoChild, GrowRootOneChild,
                Before, TypeInv, TypeOK
  <2>2. header' = NoHeader
    BY <2>1 DEF Before, ShapeInv
  <2>3. QED
    BY <2>2 DEF ClosedRight, NoHeader
<1>5. QED
  BY <1>1, <1>2, <1>3, <1>4, StepsOfNext

(***************************************************************************)
(* The pointers of the nodes a step changes.                               *)
(***************************************************************************)
LEMMA SameChildrenPoint ==
    ASSUME NEW node, NEW other, other.children = node.children
    PROVE  \A child : PointsTo(other, child) <=> PointsTo(node, child)
BY DEF PointsTo

LEMMA AddChildPoints ==
    ASSUME NEW node \in MemoryNode, NEW ts \in Int, NEW seq \in Nat
    PROVE  \A child : PointsTo(AddChild(node, ts, seq), child) <=>
                         PointsTo(node, child) \/ child = seq
<1> DEFINE other == AddChild(node, ts, seq)
           pointer == [begin |-> ts, seq |-> seq]
           last == Len(node.children)
<1>1. other.children = Append(node.children, pointer)
  BY AddChildFields
<1>2. node.children \in Seq(ChildPointer) /\ pointer \in ChildPointer /\ pointer.seq = seq
  BY DEF MemoryNode, ChildPointer
<1> HIDE DEF other, pointer
<1>3. /\ last \in Nat /\ Len(other.children) = last + 1
      /\ \A k \in 1..last : other.children[k] = node.children[k]
      /\ other.children[last + 1] = pointer
  BY <1>1, <1>2
<1> HIDE DEF last
<1>4. \A k \in 1..(last + 1) : k \in 1..last \/ k = last + 1
  BY <1>3
<1>5. \A k \in 1..last : k \in 1..(last + 1)
  BY <1>3
<1>6. last + 1 \in 1..(last + 1)
  BY <1>3
<1>7. ASSUME NEW child
      PROVE  PointsTo(other, child) <=> PointsTo(node, child) \/ child = seq
  <2>1. PointsTo(other, child) <=>
           \E k \in 1..(last + 1) : other.children[k].seq = child
    BY <1>3 DEF PointsTo
  <2>2. PointsTo(node, child) <=> \E k \in 1..last : other.children[k].seq = child
    BY <1>3 DEF PointsTo, last
  <2>3. QED
    BY <1>2, <1>3, <1>4, <1>5, <1>6, <2>1, <2>2
<1>8. QED
  BY <1>7 DEF other

LEMMA DrawnPoints ==
    ASSUME NEW parentSeq \in Nat, NEW firstSeq \in Nat, NEW count \in Nat,
           NEW k \in 1..count
    PROVE  \A child : PointsTo(DrawnNode(parentSeq, firstSeq, count, k), child) =>
                         k # count /\ child = firstSeq + k
<1> DEFINE node == DrawnNode(parentSeq, firstSeq, count, k)
<1>1. CASE k = count
  <2>1. node.children = <<>>
    BY <1>1, DrawnLeaf
  <2>2. QED
    BY <2>1 DEF PointsTo
<1>2. CASE k # count
  <2> DEFINE pointer == [begin |-> end, seq |-> firstSeq + k]
  <2>1. node.children = Append(<<>>, pointer)
    BY <1>2, DrawnNodeChildren
  <2> HIDE DEF node, pointer
  <2>2. Len(node.children) = 1 /\ node.children[1] = pointer
    BY <2>1
  <2>3. \A i \in 1..1 : i = 1
    OBVIOUS
  <2>4. \A child : PointsTo(node, child) => child = pointer.seq
    BY <2>2, <2>3 DEF PointsTo
  <2>5. QED
    BY <1>2, <2>4 DEF pointer, node
<1>3. QED
  BY <1>1, <1>2

LEMMA LastChildPoints ==
    ASSUME NEW child, NEW parent \in MemoryNode, IsLastChild(child, parent)
    PROVE  PointsTo(parent, child.seq)
<1> DEFINE last == Len(parent.children)
<1>1. parent.children \in Seq(ChildPointer) /\ parent.children # <<>>
  BY DEF MemoryNode, IsLastChild
<1>2. last \in 1..last
  BY <1>1
<1>3. parent.children[last].seq = child.seq
  BY DEF IsLastChild
<1>4. QED
  BY <1>2, <1>3 DEF PointsTo

LEMMA PathPoints ==
    ASSUME NEW nodes, NEW written, NEW branch \in Seq(MemoryNode),
           InParts(nodes, written, branch),
           \A k \in 2..Len(branch) : IsLastChild(branch[k], branch[k - 1])
    PROVE  \A k \in 2..Len(branch) : PointsTo(nodes[branch[k - 1].seq], branch[k].seq)
<1> TAKE k \in 2..Len(branch)
<1>1. k - 1 \in 1..Len(branch)
  OBVIOUS
<1> DEFINE parent == branch[k - 1]
<1>2. nodes[parent.seq] = Serialize(parent) /\ parent \in MemoryNode
  BY <1>1, BranchFields DEF InParts
<1>3. PointsTo(parent, branch[k].seq)
  BY <1>2, LastChildPoints
<1> HIDE DEF parent
<1>4. PointsTo(Serialize(parent), branch[k].seq)
  BY <1>3, SerializeFields, SameChildrenPoint
<1>5. QED
  BY <1>2, <1>4 DEF parent

\* A node committed keeps its pointers.
LEMMA CommittedPoints ==
    ASSUME NEW nodes, NEW written, NEW branch \in Seq(MemoryNode),
           InParts(nodes, written, branch),
           NEW more, NEW other \in Seq(MemoryNode), Len(other) = Len(branch),
           \A k \in 1..Len(branch) : /\ other[k].seq = branch[k].seq
                                     /\ other[k].children = branch[k].children,
           NEW first \in 1..Len(branch), NEW ts \in Int,
           CommitOf(written, more, other, first, ts)
    PROVE  /\ DOMAIN more = DOMAIN written \cup {branch[k].seq : k \in first..Len(branch)}
           /\ \A seq \in DOMAIN more : \A child :
                 PointsTo(more[seq], child) <=> PointsTo(nodes[seq], child)
<1>1. DOMAIN more = DOMAIN written \cup {other[k].seq : k \in first..Len(branch)}
  BY DEF CommitOf, SeqsDownFrom
<1>2. \A k \in first..Len(branch) : k \in 1..Len(branch)
  OBVIOUS
<1>3. DOMAIN more = DOMAIN written \cup {branch[k].seq : k \in first..Len(branch)}
  BY <1>1, <1>2
<1>4. ASSUME NEW k \in first..Len(branch), NEW child
      PROVE  PointsTo(more[branch[k].seq], child) <=>
                PointsTo(nodes[branch[k].seq], child)
  <2>1. /\ other[k] \in MemoryNode /\ ~other[k].closed
        /\ more[branch[k].seq] = Serialize(CloseNode(other[k], ts))
    BY <1>2 DEF CommitOf, Pending
  <2>2. more[branch[k].seq].children = branch[k].children
    BY <1>2, <2>1, ClosedNodeFields
  <2>3. nodes[branch[k].seq].children = branch[k].children
    BY <1>2, SerializeFields DEF InParts
  <2>4. QED
    BY <2>2, <2>3, SameChildrenPoint
<1>5. \A seq \in DOMAIN written : more[seq] = nodes[seq]
  BY DEF CommitOf, InParts
<1>6. QED
  BY <1>3, <1>4, <1>5

\* Nodes with the same pointers are under the same top.
LEMMA SamePoints ==
    ASSUME NEW nodes, NEW top, NEW height,
           AllPointedTo(nodes, top), HasHeights(nodes, top, height),
           NEW more, DOMAIN more = DOMAIN nodes,
           \A seq \in DOMAIN nodes : \A child :
              PointsTo(more[seq], child) <=> PointsTo(nodes[seq], child)
    PROVE  AllPointedTo(more, top) /\ HasHeights(more, top, height)
<1>1. AllPointedTo(more, top)
  BY DEF AllPointedTo
<1>2. ASSUME NEW seq \in DOMAIN more, NEW child, PointsTo(more[seq], child)
      PROVE  height[child] < height[seq]
  <2>1. PointsTo(nodes[seq], child)
    BY <1>2
  <2>2. PICK k \in 1..Len(nodes[seq].children) : nodes[seq].children[k].seq = child
    BY <2>1 DEF PointsTo
  <2>3. QED
    BY <2>2 DEF HasHeights
<1>3. QED
  BY <1>1, <1>2 DEF HasHeights, PointsTo

(***************************************************************************)
(* The tree after each step.                                               *)
(***************************************************************************)

\* What the tree is before a step of an opened sink.
LEMMA OpenedTree ==
    ASSUME Before, PathInv, opened
    PROVE  /\ latestBranch \in Seq(MemoryNode) /\ Len(latestBranch) \in Nat \ {0}
           /\ latestBranch[1].seq = root /\ root \in DOMAIN Nodes
           /\ nodeCount \in Nat /\ maxChildren \in Nat /\ end \in Int
           /\ InParts(Nodes, file, latestBranch)
           /\ DOMAIN Nodes \subseteq 0..(nodeCount - 1)
           /\ AllPointedTo(Nodes, root)
           /\ \A seq \in DOMAIN Nodes : \A child :
                 PointsTo(Nodes[seq], child) => child \in DOMAIN Nodes
           /\ \E height : /\ HasHeights(Nodes, root, height)
                          /\ BranchHeights(height, latestBranch)
<1>1. IsTree(Nodes, root)
  BY NodesAreTree DEF Readable
<1>2. InParts(Nodes, file, latestBranch)
  BY OpenedNodes DEF Before
<1>3. DOMAIN Nodes \subseteq 0..(nodeCount - 1)
  BY DEF Before, SeqsUnique, Nodes
<1>4. /\ latestBranch \in Seq(MemoryNode) /\ Len(latestBranch) \in Nat \ {0}
      /\ latestBranch[1].seq = root
      /\ nodeCount \in Nat /\ maxChildren \in Nat /\ end \in Int
  BY DEF Before, TypeInv, TypeOK, BranchPath
<1>5. \A seq \in DOMAIN Nodes : \A child :
         PointsTo(Nodes[seq], child) => child \in DOMAIN Nodes
  BY <1>1 DEF IsTree, Edge, PointsTo
<1>6. root \in DOMAIN Nodes
  BY <1>1 DEF IsTree
<1>7. QED
  BY <1>2, <1>3, <1>4, <1>5, <1>6 DEF PathInv, Joined, Readable

LEMMA OpenJoined ==
    ASSUME NEW ts \in BeginTimes, Open(ts) PROVE Joined'
<1> DEFINE leaf == NewNode(0, RootParent, ts, 0)
           height == [seq \in {0} |-> 0]
<1>1. /\ leaf.seq = 0 /\ leaf.children = <<>>
      /\ latestBranch' = <<leaf>> /\ file' = <<>> /\ root' = 0 /\ opened'
  BY DEF NewNode, Open, Truncated
<1> HIDE DEF leaf
<1>2. /\ Len(latestBranch') = 1 /\ latestBranch'[1] = leaf
      /\ \A k \in 1..Len(latestBranch') : k = 1
  BY <1>1
<1>3. InParts(Nodes', file', latestBranch')
  <2>1. SeqsUnique'
    BY OpenSeqsUnique
  <2>2. QED
    BY <1>1, <2>1, OpenedNodes
<1>4. DOMAIN Nodes' = {0} /\ Nodes'[0].children = <<>>
  <2>1. DOMAIN file' = {}
    BY <1>1
  <2>2. Nodes'[0] = Serialize(leaf) /\ DOMAIN Nodes' = {0}
    BY <1>1, <1>2, <1>3, <2>1 DEF InParts
  <2>3. QED
    BY <1>1, <2>2, SerializeFields
<1>5. AllPointedTo(Nodes', root')
  BY <1>1, <1>4 DEF AllPointedTo
<1>6. HasHeights(Nodes', root', height)
  BY <1>1, <1>4 DEF HasHeights
<1>7. BranchHeights(height, latestBranch')
  BY <1>1, <1>2 DEF BranchHeights
<1>8. QED
  BY <1>5, <1>6, <1>7 DEF Joined

LEMMA CloseJoined ==
    ASSUME Before, PathInv, NEW ts \in CloseTimes \cup {end}, Close(ts) PROVE Joined'
<1>1. /\ opened /\ ~opened' /\ root' = root /\ end' \in Int
  BY TimesAssumption DEF Close, ClosingEnd, Before, TypeInv, TypeOK
<1>2. /\ latestBranch \in Seq(MemoryNode) /\ Len(latestBranch) \in Nat \ {0}
      /\ InParts(Nodes, file, latestBranch) /\ AllPointedTo(Nodes, root)
  BY <1>1, OpenedTree
<1>3. PICK height : HasHeights(Nodes, root, height)
  BY <1>1, OpenedTree
<1>4. Nodes' = file'
  <2>1. TypeInv'
    BY CloseTypeInv DEF Before
  <2>2. QED
    BY <1>1, <2>1, ClosedNodes DEF TypeInv
<1> DEFINE one == 1
           ending == end'
<1>5. CommitOf(file, file', latestBranch, one, ending) /\ one \in 1..Len(latestBranch)
  BY <1>2, CloseCommit
<1>6. \A k \in one..Len(latestBranch) : k \in 1..Len(latestBranch)
  OBVIOUS
<1>7. \A k \in 1..Len(latestBranch) : k \in one..Len(latestBranch)
  OBVIOUS
<1>8. ending \in Int
  BY <1>1
<1> HIDE DEF one, ending
<1>9. /\ DOMAIN file' = DOMAIN file \cup {latestBranch[k].seq : k \in one..Len(latestBranch)}
      /\ \A seq \in DOMAIN file' : \A child :
            PointsTo(file'[seq], child) <=> PointsTo(Nodes[seq], child)
  BY <1>2, <1>5, <1>8, CommittedPoints
<1>10. DOMAIN file' = DOMAIN Nodes
  BY <1>2, <1>6, <1>7, <1>9 DEF InParts
<1>11. AllPointedTo(file', root) /\ HasHeights(file', root, height)
  BY <1>2, <1>3, <1>9, <1>10, SamePoints
<1>12. QED
  BY <1>1, <1>4, <1>11 DEF Joined

LEMMA AddToTargetJoined ==
    ASSUME Before, PathInv, AddToTarget PROVE Joined'
<1>1. opened /\ opened' /\ root' = root /\ file' = file
  BY DEF AddToTarget, Before, TypeInv, TypeOK
<1>2. /\ latestBranch \in Seq(MemoryNode) /\ Len(latestBranch) \in Nat \ {0}
      /\ InParts(Nodes, file, latestBranch) /\ AllPointedTo(Nodes, root)
  BY <1>1, OpenedTree
<1>3. PICK height : HasHeights(Nodes, root, height) /\ BranchHeights(height, latestBranch)
  BY <1>1, OpenedTree
<1>4. /\ Len(latestBranch') = Len(latestBranch)
      /\ \A k \in 1..Len(latestBranch) :
            /\ latestBranch'[k].seq = latestBranch[k].seq
            /\ latestBranch'[k].children = latestBranch[k].children
  BY AddToTargetFields DEF Before
<1>5. InParts(Nodes', file', latestBranch')
  <2>1. SeqsUnique'
    BY AddToTargetSeqsUnique DEF Before
  <2>2. QED
    BY <1>1, <2>1, OpenedNodes
<1>6. DOMAIN Nodes' = DOMAIN Nodes
  BY <1>1, <1>2, <1>4, <1>5 DEF InParts
<1>7. ASSUME NEW seq \in DOMAIN Nodes
      PROVE  \A child : PointsTo(Nodes'[seq], child) <=> PointsTo(Nodes[seq], child)
  <2>1. CASE seq \in DOMAIN file
    BY <1>1, <1>2, <1>5, <2>1 DEF InParts
  <2>2. CASE seq \notin DOMAIN file
    <3>1. PICK k \in 1..Len(latestBranch) : seq = latestBranch[k].seq
      BY <1>2, <2>2 DEF InParts
    <3>2. /\ Nodes[seq] = Serialize(latestBranch[k])
          /\ Nodes'[seq] = Serialize(latestBranch'[k])
      BY <1>2, <1>4, <1>5, <3>1 DEF InParts
    <3>3. Nodes'[seq].children = Nodes[seq].children
      BY <1>4, <3>2, SerializeFields
    <3>4. QED
      BY <3>3, SameChildrenPoint
  <2>3. QED
    BY <2>1, <2>2
<1>8. AllPointedTo(Nodes', root) /\ HasHeights(Nodes', root, height)
  BY <1>2, <1>3, <1>6, <1>7, SamePoints
<1>9. BranchHeights(height, latestBranch')
  BY <1>3, <1>4 DEF BranchHeights
<1>10. QED
  BY <1>1, <1>8, <1>9 DEF Joined

LEMMA SiblingJoined ==
    ASSUME Before, PathInv, Sibling PROVE Joined'
<1> DEFINE last == Len(latestBranch)
           branch == latestBranch'
           more == Nodes'
<1>1. /\ opened /\ opened' /\ root' = root
      /\ index \in 2..last /\ index \in 1..last /\ index - 1 \in 1..last
  <2>1. opened /\ opened' /\ root' = root
    BY DEF Sibling, Before, TypeInv, TypeOK
  <2>2. index \in 2..last
    BY SiblingBranch DEF Before
  <2>3. QED
    BY <2>1, <2>2
<1>2. /\ latestBranch \in Seq(MemoryNode) /\ last \in Nat \ {0}
      /\ latestBranch[1].seq = root /\ root \in DOMAIN Nodes
      /\ nodeCount \in Nat /\ maxChildren \in Nat /\ end \in Int
      /\ InParts(Nodes, file, latestBranch)
      /\ DOMAIN Nodes \subseteq 0..(nodeCount - 1)
      /\ AllPointedTo(Nodes, root)
      /\ \A seq \in DOMAIN Nodes : \A child :
            PointsTo(Nodes[seq], child) => child \in DOMAIN Nodes
  BY <1>1, OpenedTree
<1>3. PICK height : HasHeights(Nodes, root, height) /\ BranchHeights(height, latestBranch)
  BY <1>1, OpenedTree
<1>4. /\ branch \in Seq(MemoryNode)
      /\ \A j, k \in 1..Len(branch) : branch[j].seq = branch[k].seq => j = k
      /\ InParts(more, file', branch)
      /\ \A k \in 2..Len(branch) : IsLastChild(branch[k], branch[k - 1])
      /\ branch[1].seq = root
  <2>1. SeqsUnique' /\ BranchPath' /\ TypeInv'
    BY SiblingSeqsUnique, SiblingPath, SiblingTypeInv DEF Before
  <2>2. InParts(more, file', branch)
    BY <1>1, <2>1, OpenedNodes
  <2>3. QED
    BY <1>1, <2>1, <2>2 DEF SeqsUnique, BranchPath, TypeInv, TypeOK
<1>5. /\ Len(branch) = last
      /\ \A k \in 1..(index - 1) : branch[k].seq = latestBranch[k].seq
      /\ \A k \in index..last : branch[k].seq = nodeCount + k - index
  BY SiblingSeqs DEF Before
<1>6. /\ \A k \in 1..last : k \in 1..(index - 1) \/ k \in index..last
      /\ \A k \in 1..(index - 1) : k \in 1..last
      /\ \A k \in index..last : k \in 1..last
  BY <1>1, <1>2
<1>7. /\ DOMAIN file' = DOMAIN file \cup {latestBranch[k].seq : k \in index..last}
      /\ \A seq \in DOMAIN file' : \A child :
            PointsTo(file'[seq], child) <=> PointsTo(Nodes[seq], child)
  BY <1>1, <1>2, SiblingCommit, CommittedPoints
<1>8. DOMAIN more = DOMAIN Nodes \cup {branch[k].seq : k \in index..last}
  <2>1. DOMAIN more = DOMAIN file' \cup {branch[k].seq : k \in 1..last}
    BY <1>4, <1>5 DEF InParts
  <2>2. DOMAIN Nodes = DOMAIN file \cup {latestBranch[k].seq : k \in 1..last}
    BY <1>2 DEF InParts
  <2>3. ASSUME NEW seq \in DOMAIN more
        PROVE  seq \in DOMAIN Nodes \cup {branch[k].seq : k \in index..last}
    <3> HIDE DEF branch, more, last
    <3>1. QED
      BY <1>5, <1>6, <1>7, <2>1, <2>2, <2>3
  <2>4. ASSUME NEW seq \in DOMAIN Nodes PROVE seq \in DOMAIN more
    <3> HIDE DEF branch, more, last
    <3>1. CASE seq \in DOMAIN file
      BY <1>7, <2>1, <3>1
    <3>2. CASE seq \notin DOMAIN file
      <4>1. PICK k \in 1..last : seq = latestBranch[k].seq
        BY <2>2, <3>2
      <4>2. CASE k \in 1..(index - 1)
        BY <1>5, <1>6, <2>1, <4>1, <4>2
      <4>3. CASE k \in index..last
        BY <1>7, <2>1, <4>1, <4>3
      <4>4. QED
        BY <1>6, <4>2, <4>3
    <3>3. QED
      BY <3>1, <3>2
  <2>5. \A k \in index..last : branch[k].seq \in DOMAIN more
    BY <1>6, <2>1
  <2>6. QED
    BY <2>3, <2>4, <2>5
<1>9. \A k \in 2..last : PointsTo(more[branch[k - 1].seq], branch[k].seq)
  <2> HIDE DEF branch, more
  <2>1. QED
    BY <1>4, <1>5, PathPoints
<1>10. ASSUME NEW k \in 1..(index - 1), NEW child
       PROVE  PointsTo(more[latestBranch[k].seq], child) <=>
                 \/ PointsTo(Nodes[latestBranch[k].seq], child)
                 \/ k = index - 1 /\ child = nodeCount
  <2> DEFINE node == latestBranch[k]
  <2>1. /\ k \in 1..last /\ node \in MemoryNode
        /\ Nodes[node.seq] = Serialize(node)
        /\ more[node.seq] = Serialize(branch[k])
    <3>1. k \in 1..last /\ branch[k].seq = node.seq
      BY <1>5, <1>6
    <3>2. node \in MemoryNode /\ Nodes[node.seq] = Serialize(node)
      BY <1>2, <3>1, BranchFields DEF InParts
    <3>3. more[branch[k].seq] = Serialize(branch[k])
      BY <1>4, <1>5, <3>1 DEF InParts
    <3>4. QED
      BY <3>1, <3>2, <3>3
  <2>2. /\ PointsTo(Nodes[node.seq], child) <=> PointsTo(node, child)
        /\ PointsTo(more[node.seq], child) <=> PointsTo(branch[k], child)
    BY <2>1, SerializeFields, SameChildrenPoint
  <2>3. CASE k = index - 1
    <3>1. branch[k] = AddChild(node, end, nodeCount)
      BY <2>3, SiblingBranch DEF Before
    <3> HIDE DEF node, branch, more
    <3>2. PointsTo(branch[k], child) <=> PointsTo(node, child) \/ child = nodeCount
      BY <1>2, <2>1, <3>1, AddChildPoints
    <3>3. QED
      BY <2>2, <2>3, <3>2 DEF node
  <2>4. CASE k # index - 1
    <3>1. k \in 1..(index - 2)
      BY <1>1, <2>4
    <3>2. branch[k] = node
      BY <3>1, SiblingBranch DEF Before
    <3>3. QED
      BY <2>2, <2>4, <3>2
  <2>5. QED
    BY <2>3, <2>4
<1>11. ASSUME NEW k \in index..last, NEW child, PointsTo(more[branch[k].seq], child)
       PROVE  k + 1 \in 2..last /\ child = branch[k + 1].seq
  <2> DEFINE above == latestBranch[index - 1].seq
             count == last - index + 1
             i == k - index + 1
  <2>1. branch[k] = DrawnNode(above, nodeCount, count, i)
    BY SiblingBranch DEF Before
  <2>2. above \in Nat /\ count \in Nat /\ i \in 1..count
    BY <1>1, <1>2, BranchFields
  <2>3. more[branch[k].seq] = Serialize(branch[k])
    BY <1>4, <1>5, <1>6 DEF InParts
  <2>4. PointsTo(branch[k], child)
    BY <1>11, <2>3, SerializeFields, SameChildrenPoint
  <2> HIDE DEF above, count, i, branch, more
  <2>5. i # count /\ child = nodeCount + i
    BY <1>2, <2>1, <2>2, <2>4, DrawnPoints
  <2>6. k + 1 \in index..last /\ k + 1 \in 2..last
        /\ nodeCount + i = nodeCount + (k + 1) - index
    BY <1>1, <1>2, <2>5 DEF i, count
  <2>7. QED
    BY <1>5, <2>5, <2>6
<1>12. ASSUME NEW seq \in DOMAIN Nodes
       PROVE  \/ \A child : PointsTo(more[seq], child) <=> PointsTo(Nodes[seq], child)
              \/ \E k \in 1..(index - 1) : seq = latestBranch[k].seq
  <2>1. CASE seq \in DOMAIN file'
    <3>1. more[seq] = file'[seq]
      BY <1>4, <2>1 DEF InParts
    <3>2. QED
      BY <1>7, <2>1, <3>1
  <2>2. CASE seq \notin DOMAIN file'
    <3>1. PICK k \in 1..last : seq = latestBranch[k].seq
      BY <1>2, <1>7, <2>2 DEF InParts
    <3>2. k \notin index..last
      BY <1>7, <2>2, <3>1
    <3>3. QED
      BY <1>6, <3>1, <3>2
  <2>3. QED
    BY <2>1, <2>2
<1> HIDE DEF branch, more, last
<1>13. branch[index].seq = nodeCount
  <2>1. index \in index..last /\ nodeCount + index - index = nodeCount
    BY <1>1, <1>2
  <2>2. QED
    BY <1>5, <2>1
<1>14. Grows(Nodes, root, more, branch, index)
  <2>1. \A seq \in DOMAIN Nodes : \A child :
           PointsTo(Nodes[seq], child) => PointsTo(more[seq], child)
    BY <1>10, <1>12
  <2>2. ASSUME NEW seq \in DOMAIN more, NEW child, PointsTo(more[seq], child)
        PROVE  \/ seq \in DOMAIN Nodes /\ PointsTo(Nodes[seq], child)
               \/ \E k \in 2..last : seq = branch[k - 1].seq /\ child = branch[k].seq
    <3>1. CASE seq \in DOMAIN Nodes
      <4>1. ASSUME NEW k \in 1..(index - 1), seq = latestBranch[k].seq,
                   k = index - 1, child = nodeCount
            PROVE  seq = branch[index - 1].seq /\ child = branch[index].seq
        BY <1>5, <1>13, <4>1
      <4>2. QED
        BY <1>1, <1>10, <1>12, <2>2, <3>1, <4>1
    <3>2. CASE seq \notin DOMAIN Nodes
      <4>1. PICK k \in index..last : seq = branch[k].seq
        BY <1>8, <3>2
      <4>2. k + 1 \in 2..last /\ child = branch[k + 1].seq
        BY <1>11, <2>2, <4>1
      <4>3. (k + 1) - 1 = k
        OBVIOUS
      <4>4. QED
        BY <4>1, <4>2, <4>3
    <3>3. QED
      BY <3>1, <3>2
  <2>3. /\ DOMAIN more = DOMAIN Nodes \cup {branch[k].seq : k \in index..Len(branch)}
        /\ \A k \in 2..Len(branch) : PointsTo(more[branch[k - 1].seq], branch[k].seq)
        /\ \A seq \in DOMAIN more : \A child : PointsTo(more[seq], child) =>
              \/ seq \in DOMAIN Nodes /\ PointsTo(Nodes[seq], child)
              \/ \E k \in 2..Len(branch) : seq = branch[k - 1].seq /\ child = branch[k].seq
    BY <1>5, <1>8, <1>9, <2>2
  <2>4. root # branch[1].seq => PointsTo(more[branch[1].seq], root)
    BY <1>4
  <2>5. \A seq \in DOMAIN more : \A child : PointsTo(more[seq], child) =>
           \/ seq \in DOMAIN Nodes /\ PointsTo(Nodes[seq], child)
           \/ \E k \in 2..Len(branch) : seq = branch[k - 1].seq /\ child = branch[k].seq
           \/ seq = branch[1].seq /\ child = root /\ root # seq
    BY <2>3
  <2>6. QED
    BY <2>1, <2>3, <2>4, <2>5, Zenon DEF Grows
<1>15. \A k \in index..Len(branch) : branch[k].seq \notin DOMAIN Nodes
  <2>1. \A k \in index..last : branch[k].seq >= nodeCount
    BY <1>1, <1>2, <1>5
  <2>2. \A seq \in DOMAIN Nodes : seq < nodeCount
    BY <1>2
  <2>3. QED
    BY <1>2, <1>5, <2>1, <2>2
<1>16. \A k \in 1..(index - 1) :
          branch[k].seq \in DOMAIN Nodes /\ height[branch[k].seq] = Len(branch) - k
  <2>1. \A k \in 1..last : latestBranch[k].seq \in DOMAIN Nodes
    BY <1>2 DEF InParts, last
  <2>2. \A k \in 1..last : height[latestBranch[k].seq] = last - k
    BY <1>3 DEF BranchHeights, last
  <2>3. QED
    BY <1>5, <1>6, <2>1, <2>2
<1>17. index \in 1..(Len(branch) + 1) /\ Len(branch) \in Nat \ {0}
  BY <1>1, <1>2, <1>5
<1>18. /\ AllPointedTo(more, branch[1].seq)
       /\ \E new : HasHeights(more, branch[1].seq, new) /\ BranchHeights(new, branch)
  <2>1. /\ root \in DOMAIN Nodes
        /\ \A seq \in DOMAIN Nodes : \A child :
              PointsTo(Nodes[seq], child) => child \in DOMAIN Nodes
        /\ AllPointedTo(Nodes, root) /\ HasHeights(Nodes, root, height)
    BY <1>2, <1>3
  <2>2. /\ \A j, k \in 1..Len(branch) : branch[j].seq = branch[k].seq => j = k
        /\ root # branch[1].seq => height[root] = Len(branch) - 2
    BY <1>4
  <2>3. QED
    BY <1>14, <1>15, <1>16, <1>17, <2>1, <2>2, TreeGrows
<1>19. QED
  BY <1>1, <1>4, <1>18 DEF Joined, more, branch

LEMMA GrowRootJoined ==
    ASSUME Before, PathInv, GrowRoot PROVE Joined'
<1> DEFINE last == Len(latestBranch)
           under == BranchUnderNewRoot
           branch == latestBranch'
           more == Nodes'
           one == 1
<1>1. opened /\ opened' /\ root' = nodeCount /\ index \in 1..last
  BY DEF GrowRoot, Before, TypeInv, TypeOK
<1>2. /\ latestBranch \in Seq(MemoryNode) /\ last \in Nat \ {0}
      /\ latestBranch[1].seq = root /\ root \in DOMAIN Nodes
      /\ nodeCount \in Nat /\ maxChildren \in Nat /\ end \in Int
      /\ InParts(Nodes, file, latestBranch)
      /\ DOMAIN Nodes \subseteq 0..(nodeCount - 1)
      /\ AllPointedTo(Nodes, root)
      /\ \A seq \in DOMAIN Nodes : \A child :
            PointsTo(Nodes[seq], child) => child \in DOMAIN Nodes
  BY <1>1, OpenedTree
<1>3. PICK height : HasHeights(Nodes, root, height) /\ BranchHeights(height, latestBranch)
  BY <1>1, OpenedTree
<1>4. /\ branch \in Seq(MemoryNode)
      /\ \A j, k \in 1..Len(branch) : branch[j].seq = branch[k].seq => j = k
      /\ InParts(more, file', branch)
      /\ \A k \in 2..Len(branch) : IsLastChild(branch[k], branch[k - 1])
      /\ branch[1].seq = nodeCount
  <2>1. SeqsUnique' /\ BranchPath' /\ TypeInv'
    BY GrowRootSeqsUnique, GrowRootPath, GrowRootTypeInv DEF Before
  <2>2. InParts(more, file', branch)
    BY <1>1, <2>1, OpenedNodes
  <2>3. QED
    BY <1>1, <2>1, <2>2 DEF SeqsUnique, BranchPath, TypeInv, TypeOK
<1>5. /\ Len(branch) = last + 1
      /\ \A k \in 1..(last + 1) : branch[k].seq = nodeCount + k - 1
  BY GrowRootSeqs DEF Before
<1>6. /\ under \in Seq(MemoryNode) /\ Len(under) = last
      /\ \A k \in 1..last : /\ under[k].seq = latestBranch[k].seq
                            /\ under[k].children = latestBranch[k].children
  <2>1. /\ under \in Seq(MemoryNode) /\ Len(under) = last
        /\ \A k \in 1..last : under[k].seq = latestBranch[k].seq
        /\ \A k \in 2..last : under[k] = latestBranch[k]
        /\ under[1] = [latestBranch[1] EXCEPT !.parent = nodeCount]
    BY <1>1, BranchUnderNewRootType DEF Before, TypeInv
  <2>2. latestBranch[1] \in MemoryNode
    BY <1>2
  <2>3. under[1].children = latestBranch[1].children
    BY <2>1, <2>2 DEF MemoryNode
  <2>4. \A k \in 1..last : k = 1 \/ k \in 2..last
    BY <1>2
  <2> HIDE DEF under, last
  <2>5. QED
    BY <2>1, <2>3, <2>4
<1>7. CommitOf(file, file', under, one, end) /\ one \in 1..last
  BY <1>2, GrowRootCommit
<1> HIDE DEF under, one
<1>8. /\ DOMAIN file' = DOMAIN file \cup {latestBranch[k].seq : k \in one..last}
      /\ \A seq \in DOMAIN file' : \A child :
            PointsTo(file'[seq], child) <=> PointsTo(Nodes[seq], child)
  BY <1>2, <1>6, <1>7, CommittedPoints
<1>9. /\ DOMAIN file' = DOMAIN Nodes
      /\ \A seq \in DOMAIN file' : more[seq] = file'[seq]
  BY <1>2, <1>4, <1>8 DEF InParts, one
<1>10. DOMAIN more = DOMAIN Nodes \cup {branch[k].seq : k \in 1..Len(branch)}
  BY <1>4, <1>9 DEF InParts
<1>11. \A k \in 2..(last + 1) : PointsTo(more[branch[k - 1].seq], branch[k].seq)
  <2> HIDE DEF branch, more
  <2>1. QED
    BY <1>4, <1>5, PathPoints
<1>12. ASSUME NEW child
       PROVE  PointsTo(more[nodeCount], child) <=> child = root \/ child = nodeCount + 1
  <2> DEFINE node == NewRootWithChild
             pointer == [begin |-> latestBranch[1].begin, seq |-> latestBranch[1].seq]
  <2>1. node \in MemoryNode /\ node.children = Append(<<>>, pointer)
    BY <1>1, NewRootType DEF Before, TypeInv
  <2>2. branch[1] = AddChild(node, end, nodeCount + 1)
    BY GrowRootBranch DEF Before
  <2>3. more[nodeCount] = Serialize(branch[1])
    <3>1. 1 \in 1..Len(branch)
      BY <1>2, <1>5
    <3>2. QED
      BY <1>4, <3>1 DEF InParts
  <2>4. pointer.seq = root
    BY <1>2
  <2> HIDE DEF node, pointer, branch, more
  <2>5. Len(node.children) = 1 /\ node.children[1] = pointer
    BY <2>1
  <2>6. \A i \in 1..1 : i = 1
    OBVIOUS
  <2>7. PointsTo(node, child) <=> child = root
    <3>1. 1 \in 1..1
      OBVIOUS
    <3>2. QED
      BY <2>4, <2>5, <2>6, <3>1 DEF PointsTo
  <2>8. PointsTo(branch[1], child) <=> PointsTo(node, child) \/ child = nodeCount + 1
    BY <1>2, <2>1, <2>2, AddChildPoints
  <2>9. PointsTo(more[nodeCount], child) <=> PointsTo(branch[1], child)
    BY <2>3, SerializeFields, SameChildrenPoint
  <2>10. QED
    BY <2>7, <2>8, <2>9
<1>13. ASSUME NEW k \in 2..(last + 1), NEW child, PointsTo(more[branch[k].seq], child)
       PROVE  k + 1 \in 2..(last + 1) /\ child = branch[k + 1].seq
  <2> DEFINE first == nodeCount + 1
             i == k - 1
  <2>1. branch[k] = DrawnNode(nodeCount, first, last, i)
    BY GrowRootBranch DEF Before
  <2>2. first \in Nat /\ last \in Nat /\ i \in 1..last
    BY <1>2
  <2>3. more[branch[k].seq] = Serialize(branch[k])
    <3>1. k \in 1..Len(branch)
      BY <1>5
    <3>2. QED
      BY <1>4, <3>1 DEF InParts
  <2>4. PointsTo(branch[k], child)
    BY <1>13, <2>3, SerializeFields, SameChildrenPoint
  <2> HIDE DEF first, i, branch, more, last
  <2>5. i # last /\ child = first + i
    BY <1>2, <2>1, <2>2, <2>4, DrawnPoints, SMTT(30)
  <2>6. k + 1 \in 1..(last + 1) /\ k + 1 \in 2..(last + 1)
        /\ first + i = nodeCount + (k + 1) - 1
    BY <1>2, <2>5 DEF i, first
  <2>7. QED
    BY <1>5, <2>5, <2>6
<1> HIDE DEF branch, more, last
<1>14. ASSUME NEW k \in 1..Len(branch) PROVE branch[k].seq \notin DOMAIN Nodes
  <2>1. branch[k].seq >= nodeCount
    BY <1>2, <1>5
  <2>2. \A seq \in DOMAIN Nodes : seq < nodeCount
    BY <1>2
  <2>3. QED
    BY <1>2, <1>5, <2>1, <2>2
<1>15. \A seq \in DOMAIN Nodes : \A child :
          PointsTo(more[seq], child) <=> PointsTo(Nodes[seq], child)
  BY <1>8, <1>9
<1>16. Grows(Nodes, root, more, branch, one)
  <2>1. ASSUME NEW seq \in DOMAIN more, NEW child, PointsTo(more[seq], child)
        PROVE  \/ seq \in DOMAIN Nodes /\ PointsTo(Nodes[seq], child)
               \/ \E k \in 2..Len(branch) : seq = branch[k - 1].seq /\ child = branch[k].seq
               \/ seq = branch[1].seq /\ child = root /\ root # seq
    <3>1. CASE seq \in DOMAIN Nodes
      BY <1>15, <2>1, <3>1
    <3>2. CASE seq = nodeCount
      <4>1. nodeCount \notin DOMAIN Nodes
        BY <1>2
      <4>2. CASE child = root
        BY <1>2, <1>4, <3>2, <4>1, <4>2
      <4>3. CASE child = nodeCount + 1
        <5>1. 2 \in 2..(last + 1) /\ 2 \in 1..(last + 1) /\ 2 - 1 = 1
              /\ nodeCount + 2 - 1 = nodeCount + 1
          BY <1>2
        <5>2. branch[2].seq = child
          BY <1>5, <4>3, <5>1
        <5>3. QED
          BY <1>4, <1>5, <3>2, <5>1, <5>2
      <4>4. QED
        BY <1>12, <2>1, <3>2, <4>2, <4>3
    <3>3. CASE seq \notin DOMAIN Nodes /\ seq # nodeCount
      <4>1. PICK k \in 1..Len(branch) : seq = branch[k].seq
        BY <1>10, <3>3
      <4>2. k # 1
        BY <1>4, <3>3, <4>1
      <4>3. k \in 2..(last + 1)
        BY <1>2, <1>5, <4>2
      <4>4. k + 1 \in 2..(last + 1) /\ child = branch[k + 1].seq
        BY <1>13, <2>1, <4>1, <4>3
      <4>5. (k + 1) - 1 = k
        BY <4>3
      <4>6. QED
        BY <1>5, <4>1, <4>4, <4>5
    <3>4. QED
      BY <3>1, <3>2, <3>3
  <2>2. \A seq \in DOMAIN Nodes : \A child :
           PointsTo(Nodes[seq], child) => PointsTo(more[seq], child)
    BY <1>15
  <2>3. \A k \in 2..Len(branch) : PointsTo(more[branch[k - 1].seq], branch[k].seq)
    BY <1>5, <1>11
  <2>4. PointsTo(more[branch[1].seq], root)
    BY <1>4, <1>12
  <2>5. DOMAIN more = DOMAIN Nodes \cup {branch[k].seq : k \in one..Len(branch)}
    BY <1>10 DEF one
  <2>6. QED
    BY <2>1, <2>2, <2>3, <2>4, <2>5, Zenon DEF Grows
<1>17. /\ AllPointedTo(more, branch[1].seq)
       /\ \E new : HasHeights(more, branch[1].seq, new) /\ BranchHeights(new, branch)
  <2>1. /\ root \in DOMAIN Nodes
        /\ \A seq \in DOMAIN Nodes : \A child :
              PointsTo(Nodes[seq], child) => child \in DOMAIN Nodes
        /\ AllPointedTo(Nodes, root) /\ HasHeights(Nodes, root, height)
    BY <1>2, <1>3
  <2>2. \A j, k \in 1..Len(branch) : branch[j].seq = branch[k].seq => j = k
    BY <1>4
  <2>3. height[root] = Len(branch) - 2
    <3>1. height[latestBranch[1].seq] = last - 1
      BY <1>2, <1>3 DEF BranchHeights, last
    <3>2. QED
      BY <1>2, <1>5, <3>1
  <2>4. /\ one \in 1..(Len(branch) + 1) /\ Len(branch) \in Nat \ {0}
        /\ \A k \in one..Len(branch) : branch[k].seq \notin DOMAIN Nodes
        /\ \A k \in 1..(one - 1) :
              branch[k].seq \in DOMAIN Nodes /\ height[branch[k].seq] = Len(branch) - k
    BY <1>2, <1>5, <1>14 DEF one
  <2>5. QED
    BY <1>16, <2>1, <2>2, <2>3, <2>4, TreeGrows
<1>18. QED
  BY <1>1, <1>4, <1>17 DEF Joined, more, branch

LEMMA SameTreeJoined ==
    ASSUME Joined, SameTree PROVE Joined'
<1>1. BranchSeqs' = BranchSeqs
  BY DEF SameTree, BranchSeqs, SeqsDownFrom
<1>2. \A seq : BranchNode(seq)' = BranchNode(seq)
  BY DEF SameTree, BranchNode
<1>3. Nodes' = Nodes
  BY <1>1, <1>2 DEF Nodes, SameTree
<1>4. QED
  BY <1>3 DEF SameTree, Joined, Readable

LEMMA NextJoined ==
    ASSUME \A max \in MaxChildrenValues : max >= 2, Before, PathInv, [Next]_vars
    PROVE  Joined'
<1>1. CASE SameTree
  BY <1>1, SameTreeJoined DEF PathInv
<1>2. CASE \E ts \in BeginTimes : Open(ts)
  BY <1>2, OpenJoined
<1>3. CASE OpenUnknownSerDes
  BY <1>3 DEF OpenUnknownSerDes, Truncated, Joined, Readable
<1>4. CASE \E ts \in CloseTimes \cup {end} : Close(ts)
  BY <1>4, CloseJoined
<1>5. CASE GrowRootNoChild \/ GrowRootOneChild
  <2>1. index \in 1..Len(latestBranch) /\ maxChildren >= 2
    BY <1>5 DEF GrowRootNoChild, GrowRootOneChild, Before, TypeInv, TypeOK
  <2>2. QED
    BY <1>5, <2>1, NewRootHasRoom DEF GrowRootNoChild, GrowRootOneChild, Before
<1>6. QED
  BY <1>1, <1>2, <1>3, <1>4, <1>5, StepsOfNext, AddToTargetJoined, SiblingJoined,
     GrowRootJoined

LEMMA PathInvariant ==
    ASSUME \A max \in MaxChildrenValues : max >= 2
    PROVE  Spec => [](Before /\ PathInv)
<1>1. Init => PathInv
  <2>1. Init => BeginsRight
    BY DEF Init, BeginsRight
  <2>2. Init => ClosedRight /\ Joined
    BY DEF Init, ClosedRight, Joined, Readable
  <2>3. QED
    BY <2>1, <2>2 DEF PathInv
<1>2. ASSUME Before, PathInv, [Next]_vars PROVE PathInv'
  BY <1>2, NextBegins, NextClosed, NextJoined DEF PathInv
<1>3. QED
  BY <1>1, <1>2, BeforeInvariant, PTL DEF Spec

\* A search of a readable tree finds what the history holds at a timestamp.
LEMMA SearchOfTree ==
    ASSUME Before, PathInv, Readable, NEW ts \in Int
    PROVE  Search(ts) = H!At(ts)
<1>1. IsTree(Nodes, root)
  BY NodesAreTree
<1> DEFINE from == CHOOSE from : IsDescent(Nodes, ts, from)
<1>2. IsDescent(Nodes, ts, from)
  BY DescentExists
<1>3. root \in DOMAIN Nodes
  BY <1>1 DEF IsTree
<1>4. Search(ts) = from[root]
  BY <1>3, SearchIsDescent
<1> HIDE DEF from
<1>5. Search(ts) = StoredAt(Nodes, ts)
  BY <1>1, <1>2, <1>4, DescentFinds
<1>6. QED
  BY <1>5 DEF StoredAt, H!At, Contents

\* Whatever has been added, and at any point of a call: the descent a query makes
\* for a timestamp of the history finds each interval accepted so far that
\* intersects it, and no other. (With one child at most, a new root
\* has no room for its second child and the call throws half-way: that history
\* is only model-checked.)
THEOREM QueriesFindAll ==
    ASSUME \A max \in MaxChildrenValues : max >= 2
    PROVE  Spec => []SearchFindsAll
<1>1. ASSUME Before, PathInv PROVE SearchFindsAll
  <2>1. begin \in Int /\ end \in Int
    BY <1>1 DEF Before, TypeInv, TypeOK
  <2>2. ASSUME Readable, NEW ts \in begin..(end - 1) PROVE Search(ts) = H!At(ts)
    <3>1. ts \in Int
      BY <2>1
    <3>2. QED
      BY <1>1, <2>2, <3>1, SearchOfTree
  <2>3. QED
    BY <2>2 DEF SearchFindsAll, Readable
<1>2. QED
  BY <1>1, PathInvariant, PTL

(***************************************************************************)
(* The sink among others: its process may die, it may be destroyed, and its*)
(* file may be read. A file left without a header is not a tree.           *)
(***************************************************************************)
SinkInv ==
    /\ TreeInv /\ AllWritten /\ BranchPath /\ OrderInv
    /\ Readable => ShapeInv /\ PathInv

LEMMA SinkInvBefore ==
    ASSUME SinkInv, Readable PROVE Before /\ PathInv
BY DEF SinkInv, Before, TreeInv

LEMMA InitSinkInv == Init => SinkInv
<1> SUFFICES ASSUME Init PROVE SinkInv
  OBVIOUS
<1>1. TreeInv /\ OrderInv
  BY InitTypeInv, InitSeqsUnique, InitOrderInv DEF TreeInv
<1>2. AllWritten /\ BranchPath /\ ~Readable
  BY DEF Init, AllWritten, BranchPath, Readable
<1>3. QED
  BY <1>1, <1>2 DEF SinkInv

LEMMA NextSinkInv ==
    ASSUME \A max \in MaxChildrenValues : max >= 2, SinkInv, [Next]_vars
    PROVE  SinkInv'
<1>1. \A max \in MaxChildrenValues : max >= 1
  BY MaxChildrenAssumption
<1>2. TreeInv' /\ AllWritten' /\ BranchPath' /\ OrderInv'
  BY <1>1, NextTypeInv, NextSeqsUnique, NextAllWritten, NextPath, NextOrderInv
     DEF SinkInv, TreeInv
<1>3. CASE Readable
  <2>1. ShapeInv' /\ PathInv'
    BY <1>3, SinkInvBefore, NextShape, NextBegins, NextClosed, NextJoined DEF PathInv
  <2>2. QED
    BY <1>2, <2>1 DEF SinkInv
<1>4. CASE ~Readable
  <2>1. ~opened /\ header = NoHeader /\ pc \notin {"try", "sibling"}
    BY <1>4 DEF Readable, SinkInv, TreeInv, TypeInv, TypeOK
  <2>2. CASE \E ts \in BeginTimes : Open(ts)
    <3>1. ShapeInv' /\ PathInv'
      BY <2>2, OpenShape, OpenBegins, OpenJoined DEF PathInv
    <3>2. QED
      BY <1>2, <3>1 DEF SinkInv
  <2>3. CASE OpenUnknownSerDes \/ SameTree
    <3>1. ~Readable'
      BY <2>1, <2>3 DEF OpenUnknownSerDes, Truncated, SameTree, Readable
    <3>2. QED
      BY <1>2, <3>1 DEF SinkInv
  <2>4. ~(\E ts \in CloseTimes \cup {end} : Close(ts)) /\ ~AddToTarget /\ ~Sibling
        /\ ~GrowRoot /\ ~GrowRootNoChild /\ ~GrowRootOneChild
    BY <2>1 DEF Close, AddToTarget, Sibling, GrowRoot, GrowRootNoChild, GrowRootOneChild
  <2>5. QED
    BY <2>2, <2>3, <2>4, StepsOfNext
<1>5. QED
  BY <1>3, <1>4

\* The sink is destroyed while it has no history opened, and another is built.
LEMMA SinkReplaced ==
    ASSUME SinkInv, ~opened, streamOpen' = FALSE, outcome' = "ok",
           UNCHANGED <<opened, attributes, latestBranch, disk, call, adds>>
    PROVE  SinkInv'
<1>1. SameTree /\ UNCHANGED <<maxChildren, pc, intr, index, adds>>
  BY DEF SameTree
<1>2. TypeInv'
  <2>1. TypeOK /\ RootTakesAll
    BY DEF SinkInv, TreeInv, TypeInv
  <2>2. streamOpen' \in BOOLEAN
    OBVIOUS
  <2>3. outcome' \in {"ok", "IO", "IntervalOutOfRange", "NodeFull", "UnknownNodeSerDesType"}
    OBVIOUS
  <2>4. opened' \in BOOLEAN /\ ~opened' /\ pc' \notin {"try", "sibling"}
    <3>1. opened \in BOOLEAN /\ pc \notin {"try", "sibling"}
      BY <2>1 DEF TypeOK
    <3>2. opened' = opened /\ pc' = pc
      BY <1>1 DEF SameTree
    <3>3. QED
      BY <3>1, <3>2
  <2>5. (/\ begin \in Timestamp /\ end \in Timestamp
         /\ maxChildren \in Nat /\ nodeCount \in Nat /\ root \in Nat
         /\ latestBranch \in Seq(MemoryNode)
         /\ DOMAIN file \subseteq Nat
         /\ file \in [DOMAIN file -> WrittenNode]
         /\ header \in [nodeCount : Nat, root : Nat \cup {RootParent}]
         /\ pc \in {"idle", "try", "sibling", "overrun"}
         /\ intr \in Interval /\ index \in Nat /\ adds \in 0..MaxAdds)'
    BY <1>1, <2>1 DEF TypeOK, SameTree
  <2>6. TypeOK'
    BY <2>2, <2>3, <2>4, <2>5 DEF TypeOK
  <2>7. RootTakesAll'
    BY <1>1, <2>1 DEF RootTakesAll, SameTree
  <2>8. QED
    BY <2>6, <2>7 DEF TypeInv
<1>3. ~opened'
  BY <1>1 DEF SameTree
<1>4. SeqsUnique' /\ AllWritten' /\ BranchPath'
  BY <1>3 DEF SeqsUnique, AllWritten, BranchPath
<1>5. OrderInv'
  BY <1>1 DEF SinkInv, OrderInv, NodesOrdered, NodesCanBeClosed, RangeRight, SameTree
<1>6. ASSUME Readable' PROVE ShapeInv' /\ PathInv'
  <2>1. Readable
    BY <1>1, <1>6 DEF Readable, SameTree
  <2>2. ShapeInv /\ PathInv
    BY <2>1 DEF SinkInv
  <2>3. BeginsRight' /\ ClosedRight'
    BY <1>1, <2>2 DEF SameTree, PathInv, BeginsRight, ClosedRight
  <2>4. QED
    BY <1>1, <2>2, <2>3, SameTreeShape, SameTreeJoined DEF PathInv
<1>7. QED
  BY <1>2, <1>4, <1>5, <1>6 DEF SinkInv, TreeInv

\* The sink's process dies, and some nodes never reach the file.
LEMMA SinkCrashed ==
    ASSUME SinkInv, opened, opened' = FALSE, streamOpen' = FALSE, outcome' = "ok",
           begin' = 0, end' = 0, maxChildren' = 0, nodeCount' = 0, root' = 0,
           latestBranch' = <<>>, pc' = "idle", intr' = NoInterval, index' = 0,
           UNCHANGED <<header, adds>>,
           NEW lost, file' = [seq \in DOMAIN file \ lost |-> file[seq]]
    PROVE  SinkInv'
<1>1. /\ DOMAIN file' = DOMAIN file \ lost
      /\ \A seq \in DOMAIN file' : file'[seq] = file[seq]
      /\ Len(latestBranch') = 0
  OBVIOUS
<1>2. TypeInv'
  <2>1. latestBranch' \in Seq(MemoryNode)
    OBVIOUS
  <2>2. (DOMAIN file \subseteq Nat /\ file \in [DOMAIN file -> WrittenNode])'
    BY <1>1 DEF SinkInv, TreeInv, TypeInv, TypeOK
  <2>3. intr' \in Interval
    BY NoIntervalType
  <2>4. header' \in [nodeCount : Nat, root : Nat \cup {RootParent}] /\ adds' \in 0..MaxAdds
    BY DEF SinkInv, TreeInv, TypeInv, TypeOK
  <2>5. opened' \in BOOLEAN /\ streamOpen' \in BOOLEAN /\ ~opened'
    OBVIOUS
  <2>6. RootTakesAll'
    BY <2>5 DEF RootTakesAll
  <2>7. TypeOK'
    BY <2>1, <2>2, <2>3, <2>4, <2>5 DEF TypeOK
  <2>8. QED
    BY <2>6, <2>7 DEF TypeInv
<1>3. SeqsUnique' /\ AllWritten' /\ BranchPath'
  BY DEF SeqsUnique, AllWritten, BranchPath
<1>4. OrderInv'
  <2>1. \A seq \in DOMAIN file' : Ordered(file'[seq])
    BY <1>1 DEF SinkInv, OrderInv, NodesOrdered
  <2>2. QED
    BY <1>1, <2>1 DEF OrderInv, NodesOrdered, NodesCanBeClosed, RangeRight
<1>5. ~Readable'
  <2>1. header = NoHeader
    BY DEF SinkInv, Readable, ShapeInv
  <2>2. QED
    BY <2>1 DEF Readable, NoHeader
<1>6. QED
  BY <1>2, <1>3, <1>4, <1>5 DEF SinkInv, TreeInv

\* While its file has a header, a sink that leaves the file alone leaves the
\* history alone.
LEMMA SinkQuiet ==
    ASSUME SinkInv, header # NoHeader, disk' = disk, [Next]_vars
    PROVE  ~opened /\ SameTree
<1>1. ~opened /\ pc \notin {"try", "sibling"}
  BY DEF SinkInv, Readable, ShapeInv, TreeInv, TypeInv, TypeOK
<1>2. header' # NoHeader
  OBVIOUS
<1>3. ~(\E ts \in BeginTimes : Open(ts)) /\ ~OpenUnknownSerDes
  BY <1>2 DEF Open, OpenUnknownSerDes, Truncated, NoHeader
<1>4. ~(\E ts \in CloseTimes \cup {end} : Close(ts)) /\ ~AddToTarget /\ ~Sibling
      /\ ~GrowRoot /\ ~GrowRootNoChild /\ ~GrowRootOneChild
  BY <1>1 DEF Close, AddToTarget, Sibling, GrowRoot, GrowRootNoChild, GrowRootOneChild
<1>5. QED
  BY <1>1, <1>3, <1>4, StepsOfNext

\* What a file with a header holds.
LEMMA FileWhole ==
    ASSUME SinkInv, header # NoHeader
    PROVE  /\ ~opened
           /\ IsTree(file, header.root)
           /\ header.nodeCount \in Nat /\ header.root \in Nat
           /\ DOMAIN file = 0..(header.nodeCount - 1)
           /\ file[header.root].begin = begin /\ file[header.root].end = end
           /\ \A ts : H!At(ts) = StoredAt(file, ts)
           /\ Contents = UNION {Range(file[seq].intervals) : seq \in DOMAIN file}
<1>1. ~opened /\ Readable
  BY DEF SinkInv, Readable, ShapeInv
<1>2. Before /\ PathInv
  BY <1>1, SinkInvBefore
<1>3. Nodes = file
  BY <1>1, <1>2, ClosedNodes DEF Before, TypeInv
<1>4. FileIsTree
  BY <1>1, <1>2 DEF Before, ShapeInv
<1>5. /\ header.root = root
      /\ file[header.root].begin = begin /\ file[header.root].end = end
  BY <1>2 DEF PathInv, ClosedRight
<1>6. IsTree(file, header.root)
  BY <1>1, <1>2, <1>3, <1>5, NodesAreTree
<1>7. /\ Contents = UNION {Range(file[seq].intervals) : seq \in DOMAIN file}
      /\ \A ts : H!At(ts) = StoredAt(file, ts)
  BY <1>3 DEF Contents, H!At, StoredAt
<1>8. /\ header.nodeCount \in Nat /\ root \in Nat
      /\ DOMAIN file = 0..(header.nodeCount - 1)
  BY <1>2, <1>4 DEF Before, TypeInv, TypeOK, FileIsTree
<1>9. QED
  BY <1>1, <1>5, <1>6, <1>7, <1>8
=============================================================================
