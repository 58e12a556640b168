--------------------- MODULE DirectMappedNodeCacheProofs ---------------------
(***************************************************************************)
(* DirectMappedNodeCache implements NodeCache, for every value of the      *)
(* constants. A node may be dropped by the get of another one only if both *)
(* have the same entry, and the numbers of the cached nodes are at most as *)
(* many as the entries, since no two of them have the same one.            *)
(***************************************************************************)
EXTENDS DirectMappedNodeCache, FiniteSetTheorems, SequenceTheorems, TLAPS

TypeInv ==
    /\ owner \in Owners
    /\ size \in Nat
    /\ entries \in [0..(size - 1) -> Node \cup {NoNode}]

(***************************************************************************)
(* The type invariant.                                                     *)
(***************************************************************************)
LEMMA InitTypeInv == Init => TypeInv
<1>1. \A n \in Sizes : n \in Nat
  BY SizesAssumption
<1>2. QED
  BY <1>1 DEF Init, TypeInv, Owners

LEMMA OwnerNode ==
    ASSUME TypeInv, NEW seq \in Seqs, owner[seq] # NoNode
    PROVE  owner[seq] \in Node /\ owner[seq].seq = seq
BY DEF TypeInv, Owners

LEMMA NextTypeInv == TypeInv /\ [Next]_vars => TypeInv'
<1> SUFFICES ASSUME TypeInv, [Next]_vars PROVE TypeInv'
  OBVIOUS
<1>1. CASE UNCHANGED vars
  BY <1>1 DEF vars, cacheVars, TypeInv
<1>2. ASSUME NEW seq \in Seqs, GetFromOwner(seq) PROVE TypeInv'
  BY <1>2, OwnerNode DEF GetFromOwner, InCache, TypeInv
<1>3. ASSUME NEW seq \in Seqs, GetCached(seq) \/ GetUnknown(seq) \/ GetOutside(seq)
      PROVE  TypeInv'
  BY <1>3 DEF GetCached, GetUnknown, GetOutside, cacheVars, TypeInv
<1>4. CASE Invalidate
  BY <1>4 DEF Invalidate, TypeInv
<1>5. CASE SetOwner
  BY <1>5 DEF SetOwner, cacheVars, TypeInv
<1>6. QED
  BY <1>1, <1>2, <1>3, <1>4, <1>5 DEF Next

(***************************************************************************)
(* The cached nodes.                                                       *)
(***************************************************************************)
CachedNodes == [seq \in CachedSeqs |-> entries[CachePos(seq)]]

\* Two cached nodes have two different entries.
LEMMA CachedFits ==
    ASSUME TypeInv
    PROVE  Cardinality(CachedSeqs) <= size
<1> DEFINE f == [seq \in CachedSeqs |-> CachePos(seq)]
<1>1. \A seq \in CachedSeqs : CachePos(seq) \in 0..(size - 1)
  BY DEF CachedSeqs, InCache, TypeInv
<1>2. \A s, t \in CachedSeqs : CachePos(s) = CachePos(t) => s = t
  BY DEF CachedSeqs, NodeIsCached
<1>3. f \in Injection(CachedSeqs, 0..(size - 1))
  <2> HIDE DEF CachedSeqs
  <2>1. f \in [CachedSeqs -> 0..(size - 1)]
    BY <1>1
  <2>2. QED
    BY <1>2, <2>1 DEF Injection, IsInjective
<1>4. IsFiniteSet(0..(size - 1)) /\ Cardinality(0..(size - 1)) = size
  BY FS_Interval DEF TypeInv
<1>5. QED
  BY <1>3, <1>4, FS_Injection

LEMMA CachedFitsInv == TypeInv => Cardinality(CachedSeqs) <= size
BY CachedFits

\* The instance's operator and this module's are the same.
LEMMA SameCardinality == \A S : C!Cardinality(S) = Cardinality(S)
BY DEF C!Cardinality, Cardinality

LEMMA CachedFitsNext == TypeInv' => (Cardinality(CachedSeqs) <= size)'
BY CachedFitsInv, PTL

LEMMA InitImplements == Init => C!Init
<1> SUFFICES ASSUME Init PROVE C!Init
  OBVIOUS
<1>1. size \in Nat
  BY InitTypeInv DEF TypeInv
<1>2. CachedSeqs = {}
  BY DEF Init, CachedSeqs, InCache, NodeIsCached
<1>3. CachedNodes = <<>>
  BY <1>2 DEF CachedNodes
<1>4. QED
  BY <1>1, <1>3 DEF Init, NoAnswer, C!Init, C!NoAnswer, CachedNodes

\* The entries are the same, and so are the cached nodes.
LEMMA SameCached ==
    ASSUME UNCHANGED <<size, entries>>
    PROVE  UNCHANGED CachedNodes
BY DEF CachedNodes, CachedSeqs, InCache, NodeIsCached, CachePos

LEMMA GetFromOwnerImplements ==
    ASSUME TypeInv, TypeInv', NEW seq \in Seqs, GetFromOwner(seq)
    PROVE  C!Get(seq)
<1> DEFINE pos == CachePos(seq)
           evicted == {s \in CachedSeqs : CachePos(s) = pos}
<1>1. /\ pos \in DOMAIN entries /\ seq \notin CachedSeqs
      /\ owner[seq] \in Node /\ owner[seq].seq = seq
      /\ entries' = [entries EXCEPT ![pos] = owner[seq]]
      /\ UNCHANGED <<owner, size>>
      /\ DOMAIN entries' = DOMAIN entries
  BY OwnerNode DEF GetFromOwner, InCache, CachedSeqs, TypeInv
<1>2. \A s : CachePos(s)' = CachePos(s)
  BY <1>1 DEF CachePos
<1>3. owner[seq] # NoNode
  BY <1>1, NoNodeAssumption
<1>4. CachedSeqs' = (CachedSeqs \cup {seq}) \ evicted
  <2>1. ASSUME NEW s \in Seqs, CachePos(s) = pos
        PROVE  s \in CachedSeqs' <=> s = seq
    BY <1>1, <1>2, <1>3, <2>1 DEF CachedSeqs, InCache, NodeIsCached
  <2>2. ASSUME NEW s \in Seqs, CachePos(s) # pos
        PROVE  s \in CachedSeqs' <=> s \in CachedSeqs
    BY <1>1, <1>2, <2>2 DEF CachedSeqs, InCache, NodeIsCached
  <2>3. CachedSeqs \subseteq Seqs /\ CachedSeqs' \subseteq Seqs
    BY DEF CachedSeqs
  <2> HIDE DEF pos
  <2>4. seq \notin evicted
    BY <1>1
  <2>5. \A s \in Seqs : CachePos(s) = pos => (s \in CachedSeqs' <=> s = seq)
    BY <2>1
  <2>6. \A s \in Seqs : CachePos(s) # pos => (s \in CachedSeqs' <=> s \in CachedSeqs)
    BY <2>2
  <2>7. CachePos(seq) = pos
    BY DEF pos
  <2>8. QED
    BY <2>3, <2>4, <2>5, <2>6, <2>7
<1>5. CachedNodes' = [s \in (CachedSeqs \cup {seq}) \ evicted |->
                         IF s = seq THEN owner[seq] ELSE CachedNodes[s]]
  <2>1. ASSUME NEW s \in CachedSeqs'
        PROVE  entries'[CachePos(s)'] =
                  IF s = seq THEN owner[seq] ELSE CachedNodes[s]
    <3>1. CASE s = seq
      BY <1>1, <1>2, <3>1
    <3>2. CASE s # seq
      <4>1. s \in CachedSeqs /\ CachePos(s) # pos
        BY <1>4, <2>1, <3>2
      <4>2. CachedNodes[s] = entries[CachePos(s)]
        BY <4>1 DEF CachedNodes
      <4>3. entries'[CachePos(s)] = entries[CachePos(s)]
        BY <1>1, <4>1 DEF CachedSeqs, InCache
      <4>4. QED
        BY <1>2, <3>2, <4>2, <4>3
    <3>3. QED
      BY <3>1, <3>2
  <2>2. QED
    BY <1>4, <2>1 DEF CachedNodes
<1>6. evicted \in C!AtMostOneOf(CachedSeqs \cup {seq})
  <2>1. \A s, t \in evicted : s = t
    BY DEF CachedSeqs, NodeIsCached
  <2>2. evicted \subseteq CachedSeqs
    OBVIOUS
  <2> HIDE DEF evicted
  <2>3. evicted = {} \/ \E s \in CachedSeqs : evicted = {s}
    BY <2>1, <2>2
  <2>4. QED
    BY <2>3 DEF C!AtMostOneOf
<1>7. Cardinality(CachedSeqs') <= size'
  BY CachedFitsNext
<1>8. DOMAIN CachedNodes = CachedSeqs /\ DOMAIN CachedNodes' = CachedSeqs'
  BY DEF CachedNodes
<1>9. answer' = [seq |-> seq, node |-> owner[seq]]
  BY DEF GetFromOwner, Answer
<1> HIDE DEF evicted, pos
<1>10. \E dropped \in C!AtMostOneOf(CachedSeqs \cup {seq}) :
          CachedNodes' = [s \in (CachedSeqs \cup {seq}) \ dropped |->
                             IF s = seq THEN owner[seq] ELSE CachedNodes[s]]
  BY <1>5, <1>6
<1>11. C!Cardinality(DOMAIN CachedNodes') <= size
  BY <1>1, <1>7, <1>8, SameCardinality
<1>12. \E dropped \in C!AtMostOneOf(DOMAIN CachedNodes \cup {seq}) :
          CachedNodes' = [s \in (DOMAIN CachedNodes \cup {seq}) \ dropped |->
                             IF s = seq THEN owner[seq] ELSE CachedNodes[s]]
  BY <1>8, <1>10
<1>13. seq \notin DOMAIN CachedNodes
  BY <1>1, <1>8
<1>14. QED
  BY <1>1, <1>3, <1>9, <1>11, <1>12, <1>13
     DEF C!Get, C!MissKnown, C!Lookup, C!Cached, CachedNodes

(***************************************************************************)
(* Every step of the cache is a step of a node cache, or leaves it alone.  *)
(***************************************************************************)
LEMMA NextImplements ==
    TypeInv /\ TypeInv' /\ [Next]_vars => [C!Next]_(C!vars)
<1> SUFFICES ASSUME TypeInv, TypeInv', [Next]_vars PROVE [C!Next]_(C!vars)
  OBVIOUS
<1>0. DOMAIN CachedNodes = CachedSeqs
  BY DEF CachedNodes
<1>1. CASE UNCHANGED vars
  <2>1. UNCHANGED <<owner, size, CachedNodes, answer>>
    BY <1>1, SameCached DEF vars, cacheVars
  <2>2. QED
    BY <2>1 DEF C!vars, CachedNodes
<1>2. ASSUME NEW seq \in Seqs, GetCached(seq) PROVE C!Get(seq)
  <2>1. seq \in CachedSeqs
    BY <1>2 DEF GetCached, CachedSeqs
  <2>2. CachedNodes[seq] = entries[CachePos(seq)]
    BY <2>1 DEF CachedNodes
  <2>3. UNCHANGED <<owner, size, CachedNodes>>
    BY <1>2, SameCached DEF GetCached, cacheVars
  <2>4. answer' = [seq |-> seq, node |-> CachedNodes[seq]]
    BY <1>2, <2>2 DEF GetCached, Answer
  <2>5. QED
    BY <1>0, <2>1, <2>3, <2>4 DEF C!Get, C!Hit, C!Lookup, CachedNodes
<1>3. ASSUME NEW seq \in Seqs, GetFromOwner(seq) PROVE C!Get(seq)
  BY <1>3, GetFromOwnerImplements
<1>4. ASSUME NEW seq \in Seqs, GetUnknown(seq) PROVE C!Get(seq)
  <2>1. seq \notin CachedSeqs
    BY <1>4 DEF GetUnknown, CachedSeqs
  <2>2. UNCHANGED <<owner, size, CachedNodes>>
    BY <1>4, SameCached DEF GetUnknown, cacheVars
  <2>3. owner[seq] = NoNode /\ answer' = [seq |-> seq, node |-> NoNode]
    BY <1>4 DEF GetUnknown, Answer
  <2>4. QED
    BY <1>0, <2>1, <2>2, <2>3 DEF C!Get, C!MissUnknown, C!Lookup, CachedNodes
<1>5. ASSUME NEW seq \in Seqs, GetOutside(seq) PROVE UNCHANGED C!vars
  <2>1. UNCHANGED <<owner, size, CachedNodes, answer>>
    BY <1>5, SameCached DEF GetOutside
  <2>2. QED
    BY <2>1 DEF C!vars, CachedNodes
<1>6. CASE Invalidate
  <2>1. CachedSeqs' = {}
    BY <1>6 DEF Invalidate, CachedSeqs, InCache, NodeIsCached, TypeInv
  <2>2. CachedNodes' = <<>>
    BY <2>1 DEF CachedNodes
  <2>3. QED
    BY <1>6, <2>2 DEF Invalidate, C!Next, C!Invalidate, CachedNodes
<1>7. CASE SetOwner
  <2>1. UNCHANGED <<size, CachedNodes, answer>>
    BY <1>7, SameCached DEF SetOwner, cacheVars
  <2>2. DOMAIN owner' = Seqs
    BY <1>7 DEF SetOwner, Owners
  <2>3. QED
    BY <2>1, <2>2 DEF C!Next, C!SetOwner, CachedNodes
<1>8. QED
  BY <1>1, <1>2, <1>3, <1>4, <1>5, <1>6, <1>7 DEF Next, C!Next

\* A direct-mapped cache implements a node cache: a get is answered with the
\* node cached under its number or with the owner's, it drops at most one
\* node, and there are never more nodes than getSize() says (the code:
\* DirectMappedNodeCache::getNodeImpl, nodeIsCachedImpl, invalidateImpl).
THEOREM DirectMappedImplements == Spec => ImplementsNodeCache
<1>1. TypeInv /\ [Next]_vars => TypeInv'
  BY NextTypeInv
<1>2. Spec => []TypeInv
  BY <1>1, InitTypeInv, PTL DEF Spec
<1>3. Init => C!Init
  BY InitImplements
<1>4. TypeInv /\ TypeInv' /\ [Next]_vars => [C!Next]_(C!vars)
  BY NextImplements
<1>5. QED
  BY <1>2, <1>3, <1>4, PTL DEF Spec, ImplementsNodeCache, C!Spec

(***************************************************************************)
(* The order of the gets: each number is there once, and a get moves its   *)
(* own to the front.                                                       *)
(***************************************************************************)
Distinct(numbers) ==
    \A j, k \in 1..Len(numbers) : numbers[j] = numbers[k] => j = k

\* Where a number is, or the place after the last one.
IsPlace(numbers, seq, p) ==
    /\ p \in 1..(Len(numbers) + 1)
    /\ p <= Len(numbers) => numbers[p] = seq
    /\ \A k \in 1..Len(numbers) : numbers[k] = seq => k = p

\* The numbers once seq has been moved to the front from place p.
IsMoved(moved, numbers, seq, p) ==
    /\ Len(moved) = IF p <= Len(numbers) THEN Len(numbers) ELSE Len(numbers) + 1
    /\ moved[1] = seq
    /\ \A k \in 1..Len(moved) :
          k # 1 => moved[k] = IF k <= p THEN numbers[k - 1] ELSE numbers[k]

LEMMA WithoutOne ==
    ASSUME NEW S, NEW numbers \in Seq(S), NEW p \in 1..Len(numbers)
    PROVE  /\ RemoveAt(numbers, p) \in Seq(S)
           /\ Len(RemoveAt(numbers, p)) = Len(numbers) - 1
           /\ \A k \in 1..(Len(numbers) - 1) :
                 RemoveAt(numbers, p)[k] = IF k < p THEN numbers[k] ELSE numbers[k + 1]
<1> DEFINE before == SubSeq(numbers, 1, p - 1)
           after == SubSeq(numbers, p + 1, Len(numbers))
           rest == RemoveAt(numbers, p)
<1>1. /\ before \in Seq(S) /\ Len(before) = p - 1
      /\ \A k \in 1..(p - 1) : before[k] = numbers[k]
  BY SubSeqProperties
<1>2. /\ after \in Seq(S) /\ Len(after) = Len(numbers) - p
      /\ \A k \in 1..(Len(numbers) - p) : after[k] = numbers[p + k]
  <2>1. \A k \in (p + 1)..Len(numbers) : numbers[k] \in S
    OBVIOUS
  <2>2. /\ after \in Seq(S)
        /\ Len(after) = IF p + 1 <= Len(numbers) THEN Len(numbers) - (p + 1) + 1 ELSE 0
        /\ \A k \in 1..(Len(numbers) - (p + 1) + 1) : after[k] = numbers[(p + 1) + k - 1]
    BY <2>1, SubSeqProperties
  <2>3. QED
    BY <2>2
<1>3. rest = before \o after
  BY DEF RemoveAt
<1>4. Len(numbers) \in Nat
  OBVIOUS
<1> HIDE DEF before, after, rest
<1>5. rest \in Seq(S) /\ Len(rest) = Len(numbers) - 1
  BY <1>1, <1>2, <1>3, <1>4, ConcatProperties
<1>6. ASSUME NEW k \in 1..(Len(numbers) - 1)
      PROVE  rest[k] = IF k < p THEN numbers[k] ELSE numbers[k + 1]
  <2>1. k \in Int /\ p \in Int /\ Len(before) = p - 1 /\ k \in 1..(Len(before) + Len(after))
    BY <1>1, <1>2, <1>4
  <2>2. rest[k] = IF k <= Len(before) THEN before[k] ELSE after[k - Len(before)]
    BY <1>1, <1>2, <1>3, <2>1, ConcatProperties
  <2>3. CASE k < p
    <3>1. k <= Len(before) /\ k \in 1..(p - 1)
      BY <2>1, <2>3
    <3>2. rest[k] = numbers[k]
      BY <1>1, <2>2, <3>1
    <3>3. QED
      BY <2>3, <3>2
  <2>4. CASE ~(k < p)
    <3>1. /\ ~(k <= Len(before)) /\ k - Len(before) \in 1..(Len(numbers) - p)
          /\ p + (k - Len(before)) = k + 1
      BY <1>4, <2>1, <2>4
    <3>2. rest[k] = after[k - Len(before)]
      BY <2>2, <3>1
    <3>3. rest[k] = numbers[k + 1]
      BY <1>2, <3>1, <3>2
    <3>4. QED
      BY <2>4, <3>3
  <2>5. QED
    BY <2>3, <2>4
<1>7. QED
  BY <1>5, <1>6 DEF rest

LEMMA MovedFirst ==
    ASSUME NEW S, NEW numbers \in Seq(S), Distinct(numbers), NEW seq \in S,
           NEW moved, moved = <<seq>> \o Without(numbers, seq)
    PROVE  /\ moved \in Seq(S) /\ Distinct(moved)
           /\ \E p : IsPlace(numbers, seq, p) /\ IsMoved(moved, numbers, seq, p)
<1> DEFINE n == Len(numbers)
           rest == Without(numbers, seq)
<1>1. n \in Nat /\ (\A k \in 1..n : numbers[k] \in S)
      /\ Range(numbers) = {numbers[k] : k \in 1..n}
  BY DEF Range
<1>2. PICK p : /\ IsPlace(numbers, seq, p)
               /\ rest \in Seq(S)
               /\ Len(rest) = IF p <= n THEN n - 1 ELSE n
               /\ \A k \in 1..Len(rest) :
                     rest[k] = IF k < p THEN numbers[k] ELSE numbers[k + 1]
  <2>1. CASE seq \in Range(numbers)
    <3> DEFINE p == CHOOSE k \in 1..n : numbers[k] = seq
    <3>1. p \in 1..n /\ numbers[p] = seq
      BY <1>1, <2>1
    <3>2. rest = RemoveAt(numbers, p)
      BY <2>1 DEF Without
    <3> HIDE DEF p
    <3>3. IsPlace(numbers, seq, p)
      BY <1>1, <3>1 DEF IsPlace, Distinct
    <3>4. /\ rest \in Seq(S) /\ Len(rest) = n - 1
          /\ \A k \in 1..(n - 1) :
                rest[k] = IF k < p THEN numbers[k] ELSE numbers[k + 1]
      BY <3>1, <3>2, WithoutOne
    <3> HIDE DEF n, rest
    <3>5. Len(rest) = IF p <= n THEN n - 1 ELSE n
      BY <1>1, <3>1, <3>4
    <3>6. \A k \in 1..Len(rest) :
             rest[k] = IF k < p THEN numbers[k] ELSE numbers[k + 1]
      BY <3>4
    <3>7. QED
      BY <3>3, <3>4, <3>5, <3>6
  <2>2. CASE seq \notin Range(numbers)
    <3>1. rest = numbers /\ \A k \in 1..n : numbers[k] # seq
      BY <1>1, <2>2 DEF Without
    <3>2. IsPlace(numbers, seq, n + 1)
      BY <1>1, <3>1 DEF IsPlace
    <3>3. ~(n + 1 <= n) /\ \A k \in 1..n : k < n + 1
      BY <1>1
    <3>4. QED
      BY <3>1, <3>2, <3>3
  <2>3. QED
    BY <2>1, <2>2
<1>3. /\ moved \in Seq(S) /\ Len(moved) = Len(rest) + 1
      /\ moved[1] = seq /\ \A k \in 1..Len(rest) : moved[k + 1] = rest[k]
  BY <1>2
<1>4. Len(rest) \in Nat /\ p \in 1..(n + 1)
  BY <1>2 DEF IsPlace
<1> HIDE DEF n, rest
<1>5. IsMoved(moved, numbers, seq, p)
  <2>1. Len(moved) = IF p <= n THEN n ELSE n + 1
    BY <1>1, <1>2, <1>3, <1>4
  <2>2. ASSUME NEW k \in 1..Len(moved), k # 1
        PROVE  moved[k] = IF k <= p THEN numbers[k - 1] ELSE numbers[k]
    <3>1. k - 1 \in 1..Len(rest) /\ (k - 1) + 1 = k /\ (k - 1 < p <=> k <= p)
      BY <1>3, <1>4, <2>2
    <3>2. moved[k] = rest[k - 1]
      BY <1>3, <3>1
    <3>3. QED
      BY <1>2, <3>1, <3>2
  <2>3. QED
    BY <1>3, <2>1, <2>2 DEF IsMoved, n
<1>6. Distinct(moved)
  <2>1. \A k \in 1..n : numbers[k] = seq <=> k = p /\ p <= n
    BY <1>1, <1>2, <1>4 DEF IsPlace, n
  <2>2. ASSUME NEW k \in 1..Len(moved), k # 1
        PROVE  \E i \in 1..n : moved[k] = numbers[i] /\ i # p /\ i = IF k <= p THEN k - 1 ELSE k
    <3>1. Len(moved) = (IF p <= n THEN n ELSE n + 1)
          /\ moved[k] = IF k <= p THEN numbers[k - 1] ELSE numbers[k]
      BY <1>5, <2>2 DEF IsMoved, n
    <3>2. CASE k <= p
      BY <1>1, <1>4, <2>2, <3>1, <3>2
    <3>3. CASE k > p
      BY <1>1, <1>4, <2>2, <3>1, <3>3
    <3>4. QED
      BY <1>3, <1>4, <3>2, <3>3
  <2>3. ASSUME NEW j \in 1..Len(moved), NEW k \in 1..Len(moved), moved[j] = moved[k]
        PROVE  j = k
    <3>1. CASE j = 1 \/ k = 1
      <4>1. moved[j] = seq /\ moved[k] = seq
        BY <1>3, <2>3, <3>1
      <4>2. ASSUME NEW i \in 1..Len(moved), i # 1 PROVE moved[i] # seq
        <5>1. PICK place \in 1..n : moved[i] = numbers[place] /\ place # p
          BY <2>2, <4>2
        <5>2. numbers[place] # seq
          BY <2>1, <5>1
        <5>3. QED
          BY <5>1, <5>2
      <4>3. QED
        BY <4>1, <4>2
    <3>2. CASE j # 1 /\ k # 1
      <4>1. PICK i \in 1..n : /\ moved[j] = numbers[i]
                              /\ i # p /\ i = IF j <= p THEN j - 1 ELSE j
        BY <2>2, <3>2
      <4>2. PICK l \in 1..n : /\ moved[k] = numbers[l]
                              /\ l # p /\ l = IF k <= p THEN k - 1 ELSE k
        BY <2>2, <3>2
      <4>3. i = l
        BY <2>3, <4>1, <4>2 DEF Distinct, n
      <4>4. j \in Int /\ k \in Int /\ p \in Int
        BY <1>3, <1>4
      <4>5. CASE j <= p /\ k <= p
        BY <4>1, <4>2, <4>3, <4>4, <4>5
      <4>6. CASE j > p /\ k > p
        BY <4>1, <4>2, <4>3, <4>4, <4>6
      <4>7. CASE j <= p /\ k > p
        BY <4>1, <4>2, <4>3, <4>4, <4>7
      <4>8. CASE j > p /\ k <= p
        BY <4>1, <4>2, <4>3, <4>4, <4>8
      <4>9. QED
        BY <4>4, <4>5, <4>6, <4>7, <4>8
    <3>3. QED
      BY <3>1, <3>2
  <2>4. QED
    BY <2>3 DEF Distinct
<1>7. QED
  BY <1>2, <1>3, <1>5, <1>6

\* The first place where a number of the set is.
FirstIn(numbers, A, k) ==
    /\ k \in 1..Len(numbers)
    /\ numbers[k] \in A
    /\ \A j \in 1..Len(numbers) : numbers[j] \in A => k <= j

LEMMA NoneMoved ==
    ASSUME NEW S, NEW numbers \in Seq(S), NEW moved \in Seq(S), NEW seq, NEW p,
           IsPlace(numbers, seq, p), IsMoved(moved, numbers, seq, p),
           NEW A, seq \notin A,
           \A k \in 1..Len(numbers) : numbers[k] \notin A
    PROVE  \A k \in 1..Len(moved) : moved[k] \notin A
<1> SUFFICES ASSUME NEW k \in 1..Len(moved) PROVE moved[k] \notin A
  OBVIOUS
<1>1. Len(numbers) \in Nat /\ Len(moved) \in Nat /\ p \in 1..(Len(numbers) + 1)
  BY DEF IsPlace
<1>2. CASE k = 1
  BY <1>2 DEF IsMoved
<1>3. CASE k # 1 /\ k <= p
  BY <1>1, <1>3 DEF IsMoved
<1>4. CASE k # 1 /\ k > p
  BY <1>1, <1>4 DEF IsMoved
<1>5. QED
  BY <1>1, <1>2, <1>3, <1>4

\* Another number's get leaves the first place of a set its first.
LEMMA FirstMoved ==
    ASSUME NEW S, NEW numbers \in Seq(S), NEW moved \in Seq(S), NEW seq, NEW p,
           IsPlace(numbers, seq, p), IsMoved(moved, numbers, seq, p),
           NEW A, seq \notin A, NEW k, FirstIn(numbers, A, k)
    PROVE  \E i : FirstIn(moved, A, i) /\ moved[i] = numbers[k]
<1> DEFINE i == IF k < p THEN k + 1 ELSE k
<1>1. Len(numbers) \in Nat /\ Len(moved) \in Nat /\ p \in 1..(Len(numbers) + 1)
  BY DEF IsPlace
<1>2. k \in 1..Len(numbers) /\ k # p
  BY DEF FirstIn, IsPlace
<1>3. i \in 1..Len(moved) /\ i # 1 /\ moved[i] = numbers[k]
  <2>1. CASE k < p
    BY <1>1, <1>2, <2>1 DEF IsMoved
  <2>2. CASE k > p
    BY <1>1, <1>2, <2>2 DEF IsMoved
  <2>3. QED
    BY <1>1, <1>2, <2>1, <2>2
<1>4. ASSUME NEW j \in 1..Len(moved), moved[j] \in A PROVE i <= j
  <2>1. j # 1
    BY <1>4 DEF IsMoved
  <2>2. CASE j <= p
    <3>1. moved[j] = numbers[j - 1] /\ j - 1 \in 1..Len(numbers)
      BY <1>1, <2>1, <2>2 DEF IsMoved
    <3>2. k <= j - 1
      BY <1>4, <3>1 DEF FirstIn
    <3>3. QED
      BY <1>1, <1>2, <2>2, <3>2
  <2>3. CASE j > p
    <3>1. moved[j] = numbers[j] /\ j \in 1..Len(numbers)
      BY <1>1, <2>1, <2>3 DEF IsMoved
    <3>2. k <= j
      BY <1>4, <3>1 DEF FirstIn
    <3>3. QED
      BY <1>1, <1>2, <2>3, <3>2
  <2>4. QED
    BY <1>1, <2>2, <2>3
<1>5. moved[i] \in A
  BY <1>3 DEF FirstIn
<1> HIDE DEF i
<1>6. QED
  BY <1>3, <1>4, <1>5 DEF FirstIn

(***************************************************************************)
(* The numbers remembered are each there once, and the first one that      *)
(* shares an entry is the one the entry holds.                             *)
(***************************************************************************)
Sharing(pos) == {seq \in Seqs : CachePos(seq) = pos}

HeldIsLast(pos) ==
    \/ /\ entries[pos] = NoNode
       /\ \A k \in 1..Len(recent) : recent[k] \notin Sharing(pos)
    \/ /\ entries[pos] # NoNode
       /\ \E k : FirstIn(recent, Sharing(pos), k) /\ entries[pos].seq = recent[k]

OrderInv ==
    /\ recent \in Seq(Seqs)
    /\ Distinct(recent)
    /\ \A pos \in DOMAIN entries : HeldIsLast(pos)

LEMMA InitOrderInv == Init => OrderInv
<1> SUFFICES ASSUME Init PROVE OrderInv
  OBVIOUS
<1>1. recent = <<>> /\ Len(recent) = 0
  BY DEF Init
<1>2. \A pos \in DOMAIN entries : HeldIsLast(pos)
  BY <1>1 DEF Init, HeldIsLast
<1>3. QED
  BY <1>1, <1>2 DEF OrderInv, Distinct

\* A get that puts the node of seq in its entry, or finds it there.
LEMMA GetKeepsOrder ==
    ASSUME TypeInv, OrderInv, NEW seq \in Seqs, InCache(seq), Used(seq),
           NEW node, node # NoNode, node.seq = seq,
           size' = size, entries' = [entries EXCEPT ![CachePos(seq)] = node]
    PROVE  OrderInv'
<1>1. /\ recent' \in Seq(Seqs) /\ Distinct(recent')
      /\ \E p : IsPlace(recent, seq, p) /\ IsMoved(recent', recent, seq, p)
  BY MovedFirst DEF OrderInv, Used
<1>2. PICK p : IsPlace(recent, seq, p) /\ IsMoved(recent', recent, seq, p)
  BY <1>1
<1>3. \A pos : Sharing(pos)' = Sharing(pos)
  BY DEF Sharing, CachePos
<1>4. ASSUME NEW pos \in DOMAIN entries PROVE HeldIsLast(pos)'
  <2>1. CASE pos = CachePos(seq)
    <3>1. entries'[pos] = node /\ seq \in Sharing(pos)
      BY <1>4, <2>1 DEF Sharing, TypeInv
    <3>2. Len(recent') \in Nat /\ Len(recent) \in Nat /\ p \in 1..(Len(recent) + 1)
      BY <1>1, <1>2 DEF OrderInv, IsPlace
    <3>3. 1 \in 1..Len(recent') /\ recent'[1] = seq
      BY <1>2, <3>2 DEF IsMoved
    <3>4. FirstIn(recent', Sharing(pos), 1)
      BY <3>1, <3>2, <3>3 DEF FirstIn
    <3>5. QED
      BY <1>3, <3>1, <3>3, <3>4 DEF HeldIsLast
  <2>2. CASE pos # CachePos(seq)
    <3>1. entries'[pos] = entries[pos] /\ seq \notin Sharing(pos)
      BY <1>4, <2>2 DEF Sharing, TypeInv
    <3>2. HeldIsLast(pos) /\ recent \in Seq(Seqs)
      BY <1>4 DEF OrderInv
    <3>3. CASE \A k \in 1..Len(recent) : recent[k] \notin Sharing(pos)
      <4>1. entries'[pos] = NoNode
        BY <3>1, <3>2, <3>3 DEF HeldIsLast, FirstIn
      <4>2. \A k \in 1..Len(recent') : recent'[k] \notin Sharing(pos)
        BY <1>1, <1>2, <3>1, <3>2, <3>3, NoneMoved
      <4>3. QED
        BY <1>3, <4>1, <4>2 DEF HeldIsLast
    <3>4. CASE ~(\A k \in 1..Len(recent) : recent[k] \notin Sharing(pos))
      <4>1. PICK k : /\ entries[pos] # NoNode /\ entries[pos].seq = recent[k]
                     /\ FirstIn(recent, Sharing(pos), k)
        BY <3>2, <3>4 DEF HeldIsLast
      <4>2. PICK i : FirstIn(recent', Sharing(pos), i) /\ recent'[i] = recent[k]
        BY <1>1, <1>2, <3>1, <3>2, <4>1, FirstMoved
      <4>3. QED
        BY <1>3, <3>1, <4>1, <4>2 DEF HeldIsLast
    <3>5. QED
      BY <3>3, <3>4
  <2>3. QED
    BY <2>1, <2>2
<1>5. DOMAIN entries' = DOMAIN entries
  BY DEF TypeInv
<1>6. QED
  BY <1>1, <1>4, <1>5 DEF OrderInv

LEMMA NextOrderInv == TypeInv /\ OrderInv /\ [Next]_vars => OrderInv'
<1> SUFFICES ASSUME TypeInv, OrderInv, [Next]_vars PROVE OrderInv'
  OBVIOUS
<1>1. ASSUME UNCHANGED <<size, entries, recent>> PROVE OrderInv'
  BY <1>1 DEF OrderInv, HeldIsLast, Sharing, CachePos
<1>2. ASSUME NEW seq \in Seqs, GetFromOwner(seq) PROVE OrderInv'
  BY <1>2, OwnerNode, GetKeepsOrder DEF GetFromOwner
<1>3. ASSUME NEW seq \in Seqs, GetCached(seq) PROVE OrderInv'
  <2> DEFINE node == entries[CachePos(seq)]
  <2>1. node # NoNode /\ node.seq = seq
    BY <1>3 DEF GetCached, NodeIsCached
  <2>2. entries' = [entries EXCEPT ![CachePos(seq)] = node]
    BY <1>3 DEF GetCached, cacheVars, TypeInv
  <2>3. size' = size /\ InCache(seq) /\ Used(seq)
    BY <1>3 DEF GetCached, cacheVars
  <2> HIDE DEF node
  <2>4. QED
    BY <2>1, <2>2, <2>3, GetKeepsOrder
<1>4. CASE Invalidate
  <2>1. recent' = <<>> /\ Len(recent') = 0
    BY <1>4 DEF Invalidate
  <2>2. \A pos \in DOMAIN entries' : HeldIsLast(pos)'
    BY <1>4, <2>1 DEF Invalidate, HeldIsLast
  <2>3. QED
    BY <2>1, <2>2 DEF OrderInv, Distinct
<1>5. QED
  BY <1>1, <1>2, <1>3, <1>4 DEF Next, vars, cacheVars, GetUnknown, GetOutside, SetOwner

\* Whatever the gets, the entry of a number holds the node got last among those
\* that share it, and nothing once none of them has been got: what a caller
\* sees in the cache depends on the order of its gets only.
THEOREM LastGotHeld == Spec => []EntryHoldsLastGot
<1>1. TypeInv /\ OrderInv => EntryHoldsLastGot
  <2> SUFFICES ASSUME TypeInv, OrderInv, NEW pos \in DOMAIN entries
               PROVE  LET got == {k \in 1..Len(recent) : CachePos(recent[k]) = pos}
                      IN  IF got = {} THEN entries[pos] = NoNode
                          ELSE /\ entries[pos] # NoNode
                               /\ entries[pos].seq = recent[Min(got)]
    BY DEF EntryHoldsLastGot
  <2> DEFINE got == {k \in 1..Len(recent) : CachePos(recent[k]) = pos}
  <2>1. HeldIsLast(pos) /\ Len(recent) \in Nat /\ \A k \in 1..Len(recent) : recent[k] \in Seqs
    BY DEF OrderInv
  <2>2. \A k \in 1..Len(recent) : recent[k] \in Sharing(pos) <=> k \in got
    BY <2>1 DEF Sharing
  <2>3. CASE got = {}
    <3>1. entries[pos] = NoNode
      BY <2>1, <2>2, <2>3 DEF HeldIsLast, FirstIn
    <3>2. QED
      BY <2>3, <3>1
  <2>4. CASE got # {}
    <3>1. PICK k : /\ entries[pos] # NoNode /\ entries[pos].seq = recent[k]
                   /\ FirstIn(recent, Sharing(pos), k)
      BY <2>1, <2>2, <2>4 DEF HeldIsLast
    <3>2. k \in got /\ \A j \in got : k <= j
      BY <2>2, <3>1 DEF FirstIn
    <3>3. got \subseteq Nat
      BY <2>1
    <3> HIDE DEF got
    <3>4. \A j \in got : (\A i \in got : j <= i) => j = k
      BY <3>2, <3>3
    <3>5. Min(got) \in got /\ \A i \in got : Min(got) <= i
      BY <3>2 DEF Min
    <3>6. Min(got) = k
      BY <3>4, <3>5
    <3>7. QED
      BY <2>4, <3>1, <3>6 DEF got
  <2>5. QED
    BY <2>3, <2>4
<1>2. QED
  BY <1>1, InitTypeInv, NextTypeInv, InitOrderInv, NextOrderInv, PTL DEF Spec

LEMMA NextAnswer ==
    TypeInv /\ OrderInv /\ TypeOK /\ [Next]_vars => TypeOK'
<1> SUFFICES ASSUME TypeInv, OrderInv, TypeOK, [Next]_vars PROVE TypeOK'
  OBVIOUS
<1>1. TypeInv' /\ OrderInv'
  BY NextTypeInv, NextOrderInv
<1>2. answer' \in [seq : Nat, node : Node \cup {NoNode}] /\ outside' \in BOOLEAN
  <2>1. ASSUME UNCHANGED answer, outside' \in {outside, TRUE}
        PROVE  answer' \in [seq : Nat, node : Node \cup {NoNode}] /\ outside' \in BOOLEAN
    BY <2>1 DEF TypeOK
  <2>2. ASSUME NEW seq \in Seqs, GetCached(seq) \/ GetFromOwner(seq) \/ GetUnknown(seq)
        PROVE  answer' \in [seq : Nat, node : Node \cup {NoNode}] /\ outside' \in BOOLEAN
    <3>1. seq \in Nat /\ outside' = outside
      BY <2>2, SeqsAssumption DEF GetCached, GetFromOwner, GetUnknown, cacheVars
    <3>2. PICK node \in Node \cup {NoNode} : Answer(seq, node)
      BY <2>2 DEF GetCached, GetFromOwner, GetUnknown, InCache, TypeInv, Owners
    <3>3. QED
      BY <3>1, <3>2 DEF Answer, TypeOK
  <2>3. QED
    BY <2>1, <2>2 DEF Next, vars, cacheVars, GetOutside, Invalidate, SetOwner
<1>3. QED
  BY <1>1, <1>2 DEF TypeOK, TypeInv, OrderInv

\* Every variable of the direct mapped cache has its type: the entries are
\* nodes or null pointers, as many as the size the constructor was given.
THEOREM DirectMappedTypes == Spec => []TypeOK
<1>1. Init => TypeOK
  <2> SUFFICES ASSUME Init PROVE TypeOK
    OBVIOUS
  <2>1. NoAnswer \in [seq : Nat, node : Node \cup {NoNode}]
    BY DEF NoAnswer
  <2>2. TypeInv /\ OrderInv /\ answer = NoAnswer /\ outside = FALSE
    BY InitTypeInv, InitOrderInv DEF Init
  <2>3. QED
    BY <2>1, <2>2 DEF TypeInv, OrderInv, TypeOK
<1>2. QED
  BY <1>1, InitTypeInv, NextTypeInv, InitOrderInv, NextOrderInv, NextAnswer, PTL DEF Spec
=============================================================================
