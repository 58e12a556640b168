-------------------------------- MODULE Node --------------------------------
(***************************************************************************)
(* A tree node (class Node) and the sizes the aligned node serializer      *)
(* gives to its parts (class AlignedNodeSerDes), as operators on records.  *)
(* A child pointer is [begin, seq]; an interval is a record with the       *)
(* fields key, begin, end and size, its serialized size in bytes.          *)
(***************************************************************************)
EXTENDS Integers, Sequences, FiniteSetsExt

CONSTANTS NodeSize,     \* bytes of a serialized node (argument of open)
          SizeMod       \* number of values of a std::size_t, 2^64 in a build

\* Node::ROOT_PARENT_SEQ_NUMBER(): no node has this sequence number.
RootParent == -1

NodeHeaderBytes == 32
ChildPointerBytes == 16

NewNode(seq, parent, begin, maxChildren) ==
    [seq |-> seq, parent |-> parent, begin |-> begin, end |-> begin,
     closed |-> FALSE, maxChildren |-> maxChildren, children |-> <<>>,
     intervals |-> <<>>, curIntervalsSize |-> 0]

IsFull(node) == Len(node.children) >= node.maxChildren

\* Mutant of AddChild: the pointer gets the parent's begin timestamp.
AddChildAtParentBegin(node, begin, seq) ==
    [node EXCEPT !.children = Append(@, [begin |-> node.begin, seq |-> seq])]

\* Only for a node that is not full: the code throws NodeFull otherwise.
AddChild(node, begin, seq) ==
    [node EXCEPT !.children = Append(@, [begin |-> begin, seq |-> seq])]

\* The header of a node counts all the children the node may ever get.
HeaderSize(node) == NodeHeaderBytes + node.maxChildren * ChildPointerBytes

\* Mutant of CurSize: the intervals are not counted.
CurSizeOfChildren(node) ==
    HeaderSize(node) + Len(node.children) * ChildPointerBytes

CurSize(node) ==
    HeaderSize(node) + Len(node.children) * ChildPointerBytes
                     + node.curIntervalsSize

\* The free space is a difference of two std::size_t: it wraps around.
FreeSpace(node) == (NodeSize - CurSize(node)) % SizeMod

\* Mutant of IntervalFits: the last byte of the node is not used.
IntervalFitsWithMargin(node, interval) == interval.size < FreeSpace(node)

IntervalFits(node, interval) == interval.size <= FreeSpace(node)

\* Mutant of AddIntervalToNode: only the last interval is counted.
AddIntervalToNodeAlone(node, interval) ==
    [node EXCEPT !.intervals = Append(@, interval),
                 !.curIntervalsSize = interval.size,
                 !.end = interval.end]

AddIntervalToNode(node, interval) ==
    [node EXCEPT !.intervals = Append(@, interval),
                 !.curIntervalsSize = @ + interval.size,
                 !.end = interval.end]

\* Mutant of CloseNode: the node keeps the end of its last interval.
CloseNodeAtItsEnd(node, end) == [node EXCEPT !.closed = TRUE]

\* Only for end >= node.end: the code throws TimestampOutOfRange otherwise.
CloseNode(node, end) ==
    IF node.closed THEN node ELSE [node EXCEPT !.closed = TRUE, !.end = end]

(***************************************************************************)
(* What serializeNode writes: the header fields, the pointers to the       *)
(* children and the intervals, in the order in which they were added.      *)
(***************************************************************************)
SerializedSize(node) ==
    NodeHeaderBytes + Len(node.children) * ChildPointerBytes
                    + node.curIntervalsSize

FitsBuffer(node) == SerializedSize(node) <= NodeSize

Serialize(node) ==
    [seq |-> node.seq, parent |-> node.parent, begin |-> node.begin,
     end |-> node.end, closed |-> node.closed, children |-> node.children,
     intervals |-> node.intervals]

(***************************************************************************)
(* Queries, on a node in memory or on a serialized one.                    *)
(***************************************************************************)

\* Mutant of LeadingChildren: a child that begins at ts is not tried.
ChildrenBefore(node, ts) ==
    {k \in 1..Len(node.children) :
        \A j \in 1..k : node.children[j].begin < ts}

\* The children tried before the first one that begins after ts.
LeadingChildren(node, ts) ==
    {k \in 1..Len(node.children) :
        \A j \in 1..k : node.children[j].begin <= ts}

\* The last leading child, the node itself if there is none.
GetChildSeqAtTs(node, ts) ==
    IF LeadingChildren(node, ts) = {}
    THEN node.seq
    ELSE node.children[Max(LeadingChildren(node, ts))].seq

\* Mutant of FirstItForTs: std::lower_bound, which keeps the ends equal to ts.
FirstItFromTs(node, ts) ==
    CHOOSE k \in 1..(Len(node.intervals) + 1) :
        /\ \A j \in 1..(k - 1) : node.intervals[j].end < ts
        /\ k <= Len(node.intervals) => ts <= node.intervals[k].end

\* The partition point std::upper_bound looks for: the first interval that
\* ends after ts, when the ends ascend.
FirstItForTs(node, ts) ==
    CHOOSE k \in 1..(Len(node.intervals) + 1) :
        /\ \A j \in 1..(k - 1) : node.intervals[j].end <= ts
        /\ k <= Len(node.intervals) => ts < node.intervals[k].end

\* Every interval from there on that begins at ts or before: the scan trusts
\* the order of the ends and does not test them again.
FoundAt(node, ts) ==
    {k \in FirstItForTs(node, ts)..Len(node.intervals) :
        node.intervals[k].begin <= ts}

FindAll(node, ts) == {node.intervals[k] : k \in FoundAt(node, ts)}

Matches(node, ts, key) == {k \in FoundAt(node, ts) : node.intervals[k].key = key}

\* Only for a key with a match.
FindOne(node, ts, key) == node.intervals[Min(Matches(node, ts, key))]

\* The jar once the node's intervals are inserted: a key keeps its interval.
FindAllInto(node, ts, jar) ==
    [key \in DOMAIN jar \cup {interval.key : interval \in FindAll(node, ts)} |->
        IF key \in DOMAIN jar THEN jar[key] ELSE FindOne(node, ts, key)]
=============================================================================
