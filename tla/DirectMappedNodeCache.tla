------------------------ MODULE DirectMappedNodeCache ------------------------
(***************************************************************************)
(* A cache in which every sequence number has one entry, shared with the   *)
(* others that have the same low bits (class DirectMappedNodeCache). The   *)
(* number asked and the node answered are remembered, so that what a get   *)
(* returns can be stated; a history variable remembers the order of gets.  *)
(***************************************************************************)
EXTENDS Integers, FiniteSets, SequencesExt

CONSTANTS Seqs,         \* the sequence numbers a node may be asked by
          Versions,     \* the different nodes there may be for one number
          Sizes,        \* the sizes given to the constructor
          WordBits,     \* bits of a std::size_t, 64 in a build
          NoNode        \* the null pointer

ASSUME SeqsAssumption == Seqs \subseteq Nat

ASSUME SizesAssumption == Sizes \subseteq 0..(2^WordBits - 1)

Node == [seq : Seqs, version : Versions]

ASSUME NoNodeAssumption == NoNode \notin Node

VARIABLES
    owner,      \* what getNodeFromOwner returns, by sequence number
    size,       \* getSize()
    entries,    \* _cache: the entries, by position
    answer,     \* what the last getNode returned: [seq, node]
    outside,    \* an entry outside of _cache has been used
    recent      \* history: the numbers of the nodes got since the last
                \* invalidation, the latest first

cacheVars == <<size, entries, outside>>
vars == <<owner, cacheVars, answer, recent>>

\* The owner gives a node the number it is stored under, or no node.
Owners ==
    {f \in [Seqs -> Node \cup {NoNode}] :
        \A seq \in Seqs : f[seq] # NoNode => f[seq].seq = seq}

(***************************************************************************)
(* The constructor.                                                        *)
(***************************************************************************)

\* (n & (n - 1)) == 0 on unsigned numbers: true of zero too.
PowerOfTwoTest(n) == n = 0 \/ \E k \in 0..(WordBits - 1) : n = 2^k

NoAnswer == [seq |-> 0, node |-> NoNode]

\* The constructor throws for another size. No callback is set yet.
Init ==
    /\ size \in {n \in Sizes : PowerOfTwoTest(n)}
    /\ entries = [pos \in 0..(size - 1) |-> NoNode]
    /\ owner = [seq \in Seqs |-> NoNode]
    /\ answer = NoAnswer
    /\ outside = FALSE
    /\ recent = <<>>

(***************************************************************************)
(* getNode.                                                                *)
(***************************************************************************)

\* seq & (size - 1), which is all the bits of seq when size is zero.
CachePos(seq) == seq % (IF size = 0 THEN 2^WordBits ELSE size)

\* Mutant of NodeIsCached: any node in the entry will do.
EntryIsTaken(seq) == entries[CachePos(seq)] # NoNode

NodeIsCached(seq) ==
    /\ entries[CachePos(seq)] # NoNode
    /\ entries[CachePos(seq)].seq = seq

InCache(seq) == CachePos(seq) \in DOMAIN entries

Answer(seq, node) == answer' = [seq |-> seq, node |-> node]

\* The numbers without one, which is among them once at most.
Without(numbers, seq) ==
    IF seq \in Range(numbers)
    THEN RemoveAt(numbers, CHOOSE k \in 1..Len(numbers) : numbers[k] = seq)
    ELSE numbers

Used(seq) == recent' = <<seq>> \o Without(recent, seq)

GetCached(seq) ==
    /\ ~outside /\ InCache(seq)
    /\ NodeIsCached(seq)
    /\ Answer(seq, entries[CachePos(seq)])
    /\ Used(seq)
    /\ UNCHANGED <<owner, cacheVars>>

GetFromOwner(seq) ==
    /\ ~outside /\ InCache(seq)
    /\ ~NodeIsCached(seq)
    /\ owner[seq] # NoNode
    /\ entries' = [entries EXCEPT ![CachePos(seq)] = owner[seq]]
    /\ Answer(seq, owner[seq])
    /\ Used(seq)
    /\ UNCHANGED <<owner, size, outside>>

\* A node that does not exist does not replace one that does.
GetUnknown(seq) ==
    /\ ~outside /\ InCache(seq)
    /\ ~NodeIsCached(seq)
    /\ owner[seq] = NoNode
    /\ Answer(seq, NoNode)
    /\ UNCHANGED <<owner, cacheVars, recent>>

\* Undefined behaviour: nothing is known from there on.
GetOutside(seq) ==
    /\ ~outside /\ ~InCache(seq)
    /\ outside' = TRUE
    /\ UNCHANGED <<owner, size, entries, answer, recent>>

(***************************************************************************)
(* invalidate, setGetNodeFromOwnerCb and changes of the owner.             *)
(***************************************************************************)

\* Mutant of Invalidate: the entries are removed, not emptied.
InvalidateClears ==
    /\ ~outside
    /\ entries' = <<>> /\ recent' = <<>>
    /\ UNCHANGED <<owner, size, answer, outside>>

Invalidate ==
    /\ ~outside
    /\ entries' = [pos \in DOMAIN entries |-> NoNode]
    /\ recent' = <<>>
    /\ UNCHANGED <<owner, size, answer, outside>>

SetOwner ==
    /\ ~outside
    /\ owner' \in Owners
    /\ UNCHANGED <<cacheVars, answer, recent>>

Next ==
    \/ \E seq \in Seqs : \/ GetCached(seq) \/ GetFromOwner(seq)
                         \/ GetUnknown(seq) \/ GetOutside(seq)
    \/ Invalidate
    \/ SetOwner

Spec == Init /\ [][Next]_vars

(***************************************************************************)
(* Properties.                                                             *)
(***************************************************************************)

\* Every variable has its type.
TypeOK ==
    /\ owner \in Owners
    /\ size \in Nat
    /\ entries \in [0..(size - 1) -> Node \cup {NoNode}]
    /\ answer \in [seq : Nat, node : Node \cup {NoNode}]
    /\ outside \in BOOLEAN
    /\ recent \in Seq(Seqs)

\* An entry holds the node got last among those that share it: a get evicts at
\* most the node in its own entry, and one that fails evicts nothing.
EntryHoldsLastGot ==
    \A pos \in DOMAIN entries :
        LET got == {k \in 1..Len(recent) : CachePos(recent[k]) = pos}
        IN  IF got = {} THEN entries[pos] = NoNode
            ELSE entries[pos] # NoNode /\ entries[pos].seq = recent[Min(got)]

\* The cache implements a node cache.
CachedSeqs == {seq \in Seqs : InCache(seq) /\ NodeIsCached(seq)}

C == INSTANCE NodeCache WITH
        cached <- [seq \in CachedSeqs |-> entries[CachePos(seq)]]

ImplementsNodeCache == C!Spec
=============================================================================
