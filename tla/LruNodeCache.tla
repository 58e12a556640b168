---------------------------- MODULE LruNodeCache ----------------------------
(***************************************************************************)
(* A cache that keeps the nodes used last (class LruNodeCache): a list of  *)
(* nodes, the last one used in front, and a map to the iterators of its    *)
(* elements. An iterator is the address of an element: it dangles once its *)
(* element is erased, until the allocator gives the address out again.     *)
(***************************************************************************)
EXTENDS Integers, FiniteSets, SequencesExt

CONSTANTS Seqs,         \* the sequence numbers a node may be asked by
          Versions,     \* the different nodes there may be for one number
          Sizes,        \* the sizes given to the constructor
          Iterators,    \* the addresses the allocator may give an element
          NoNode        \* the null pointer

ASSUME SeqsAssumption == Seqs \subseteq Nat

ASSUME SizesAssumption == Sizes \subseteq Nat

\* The allocator always has an address for the node in excess.
ASSUME IteratorsAssumption ==
    IsFiniteSet(Iterators) => \A n \in Sizes : Cardinality(Iterators) > n

Node == [seq : Seqs, version : Versions]

ASSUME NoNodeAssumption == NoNode \notin Node

VARIABLES
    owner,      \* what getNodeFromOwner returns, by sequence number
    size,       \* getSize()
    list,       \* _list: the iterators of its elements, from the front
    element,    \* the node an iterator of the list leads to
    map,        \* _map: an iterator, by sequence number
    answer,     \* what the last getNode returned: [seq, node]
    lastFreedFirst, \* the allocator gives out the address freed last
    dangling,   \* an iterator that leads nowhere has been used
    recent      \* history: the numbers of the nodes got since the last
                \* invalidation, the latest first

cacheVars == <<size, list, element, map, dangling>>
vars == <<owner, cacheVars, answer, recent, lastFreedFirst>>

\* The owner gives a node the number it is stored under, or no node.
Owners ==
    {f \in [Seqs -> Node \cup {NoNode}] :
        \A seq \in Seqs : f[seq] # NoNode => f[seq].seq = seq}

NoAnswer == [seq |-> 0, node |-> NoNode]

\* The constructor has run, and no callback is set yet.
Init ==
    /\ size \in Sizes
    /\ list = <<>> /\ element = <<>> /\ map = <<>>
    /\ owner = [seq \in Seqs |-> NoNode]
    /\ answer = NoAnswer
    /\ dangling = FALSE
    /\ lastFreedFirst \in BOOLEAN
    /\ recent = <<>>

(***************************************************************************)
(* getNode.                                                                *)
(***************************************************************************)
InList == Range(list)

Answer(seq, node) == answer' = [seq |-> seq, node |-> node]

\* The numbers without one, which is among them once at most.
Without(numbers, seq) ==
    IF seq \in Range(numbers)
    THEN RemoveAt(numbers, CHOOSE k \in 1..Len(numbers) : numbers[k] = seq)
    ELSE numbers

Used(seq) == recent' = <<seq>> \o Without(recent, seq)

NodeIsCached(seq) == seq \in DOMAIN map

\* The nodes of the elements once one with this node is at it.
NodeOf(i, it, node) == IF i = it THEN node ELSE element[i]

\* Mutant of MovedToFront: the element stays where it is.
MovedInPlace(it, old) == [k \in 1..Len(list) |-> IF list[k] = old THEN it ELSE list[k]]

\* The list without the element at old, and with one at it in front.
MovedToFront(it, old) ==
    <<it>> \o RemoveAt(list, CHOOSE k \in 1..Len(list) : list[k] = old)

\* The element is erased and its node pushed in front, in a new element: the
\* iterator in the map stays the old one.
GetCached(seq) ==
    /\ ~dangling
    /\ NodeIsCached(seq)
    /\ map[seq] \in InList
    /\ \E it \in Iterators \ (InList \ {map[seq]}) :
          /\ lastFreedFirst => it = map[seq]
          /\ list' = MovedToFront(it, map[seq])
          /\ element' = [i \in (InList \ {map[seq]}) \cup {it} |->
                            NodeOf(i, it, element[map[seq]])]
    /\ Answer(seq, element[map[seq]])
    /\ Used(seq)
    /\ UNCHANGED <<owner, size, map, dangling, lastFreedFirst>>

\* Undefined behaviour: nothing is known from there on.
GetDangling(seq) ==
    /\ ~dangling
    /\ NodeIsCached(seq)
    /\ map[seq] \notin InList
    /\ dangling' = TRUE
    /\ UNCHANGED <<owner, size, list, element, map, answer, recent, lastFreedFirst>>

\* Mutant of IsFull: one node too many is kept.
IsFullPlusOne == Len(list) > size

\* Pushing a node makes the list longer than the cache's size.
IsFull == Len(list) >= size

Pushed(it) == <<it>> \o list

\* Mutant of Mapped: the front of the list before the node is pushed.
MappedToOldFront(seq, it) ==
    [s \in DOMAIN map \cup {seq} |->
        IF s = seq THEN IF list = <<>> THEN it ELSE Head(list) ELSE map[s]]

Mapped(seq, it) ==
    [s \in DOMAIN map \cup {seq} |-> IF s = seq THEN it ELSE map[s]]

GetFromOwner(seq) ==
    /\ ~dangling
    /\ ~NodeIsCached(seq)
    /\ owner[seq] # NoNode
    /\ ~IsFull
    /\ \E it \in Iterators \ InList :
          /\ list' = Pushed(it)
          /\ element' = [i \in InList \cup {it} |-> NodeOf(i, it, owner[seq])]
          /\ map' = Mapped(seq, it)
    /\ Answer(seq, owner[seq])
    /\ Used(seq)
    /\ UNCHANGED <<owner, size, dangling, lastFreedFirst>>

\* The last node of the list is dropped: the new one when the size is zero.
GetAndDrop(seq) ==
    /\ ~dangling
    /\ ~NodeIsCached(seq)
    /\ owner[seq] # NoNode
    /\ IsFull
    /\ \E it \in Iterators \ InList :
        LET last == Last(Pushed(it))
            dropped == NodeOf(last, it, owner[seq]).seq
        IN  /\ list' = Front(Pushed(it))
            /\ element' = [i \in (InList \cup {it}) \ {last} |->
                              NodeOf(i, it, owner[seq])]
            /\ map' = [s \in DOMAIN Mapped(seq, it) \ {dropped} |->
                          Mapped(seq, it)[s]]
    /\ Answer(seq, owner[seq])
    /\ Used(seq)
    /\ UNCHANGED <<owner, size, dangling, lastFreedFirst>>

GetUnknown(seq) ==
    /\ ~dangling
    /\ ~NodeIsCached(seq)
    /\ owner[seq] = NoNode
    /\ Answer(seq, NoNode)
    /\ UNCHANGED <<owner, cacheVars, recent, lastFreedFirst>>

(***************************************************************************)
(* invalidate, setGetNodeFromOwnerCb and changes of the owner.             *)
(***************************************************************************)

\* Mutant of Invalidate: the elements are emptied, not removed.
InvalidateInPlace ==
    /\ ~dangling
    /\ element' = [it \in InList |-> NoNode] /\ map' = <<>> /\ recent' = <<>>
    /\ UNCHANGED <<owner, size, list, answer, dangling, lastFreedFirst>>

Invalidate ==
    /\ ~dangling
    /\ list' = <<>> /\ element' = <<>> /\ map' = <<>>
    /\ recent' = <<>>
    /\ UNCHANGED <<owner, size, answer, dangling, lastFreedFirst>>

SetOwner ==
    /\ ~dangling
    /\ owner' \in Owners
    /\ UNCHANGED <<cacheVars, answer, recent, lastFreedFirst>>

Next ==
    \/ \E seq \in Seqs : \/ GetCached(seq) \/ GetDangling(seq)
                         \/ GetFromOwner(seq) \/ GetAndDrop(seq)
                         \/ GetUnknown(seq)
    \/ Invalidate
    \/ SetOwner

Spec == Init /\ [][Next]_vars

(***************************************************************************)
(* Properties.                                                             *)
(***************************************************************************)

\* Every variable has its type.
TypeOK ==
    /\ owner \in Owners
    /\ size \in Sizes
    /\ list \in Seq(Iterators)
    /\ element \in [InList -> Node]
    /\ DOMAIN map \subseteq Seqs
    /\ map \in [DOMAIN map -> Iterators]
    /\ answer \in [seq : Nat, node : Node \cup {NoNode}]
    /\ dangling \in BOOLEAN
    /\ lastFreedFirst \in BOOLEAN
    /\ recent \in Seq(Seqs)

\* Whatever the allocator does, the map knows the numbers of the nodes in the
\* list and no other, each of them once, and the cache never outgrows its size.
MapMatchesList ==
    /\ {element[it].seq : it \in InList} = DOMAIN map
    /\ Cardinality(DOMAIN map) = Len(list)
    /\ Len(list) <= size

\* The list holds the nodes used last, the last one in front: the one dropped
\* is always the least recently used (the class's comment).
LastUsedKept ==
    lastFreedFirst =>
        [k \in 1..Len(list) |-> element[list[k]].seq] =
            SubSeq(recent, 1, Len(list))

\* getNode(seq) returns the node with the sequence number seq, or a null
\* pointer (AbstractNodeCache's comment).
GetReturnsNode ==
    /\ ~dangling
    /\ answer.node # NoNode => answer.node.seq = answer.seq

\* With an allocator that gives out the address freed last, getNode does so: the
\* iterator a hit leaves in the map is the one of the new element.
GetReturnsNodeIfReused == lastFreedFirst => GetReturnsNode

C == INSTANCE NodeCache WITH
        cached <- [seq \in DOMAIN map |-> element[map[seq]]]

\* With such an allocator the cache implements a node cache.
ImplementsNodeCache ==
    /\ lastFreedFirst => C!Init
    /\ [][lastFreedFirst => C!Next \/ UNCHANGED C!vars]_vars
=============================================================================
