-------------------------- MODULE LruNodeCacheProofs --------------------------
(***************************************************************************)
(* Theorems about LruNodeCache, for every value of its constants. Whatever *)
(* the allocator does, the map knows the numbers of the nodes in the list. *)
(* With an allocator that gives out the last address freed, the iterators  *)
(* of the map lead to these nodes too, and the cache implements NodeCache. *)
(***************************************************************************)
EXTENDS LruNodeCache, FiniteSetTheorems, SequenceTheorems, TLAPS

(***************************************************************************)
(* The inductive invariants.                                               *)
(***************************************************************************)
NumberOf(it) == element[it].seq

\* The elements of the list are different, and so are their nodes' numbers.
ListInv ==
    /\ owner \in Owners
    /\ size \in Nat
    /\ list \in Seq(Iterators)
    /\ \A j, k \in 1..Len(list) : list[j] = list[k] => j = k
    /\ Len(list) <= size
    /\ element \in [InList -> Node]
    /\ \A i, j \in InList : NumberOf(i) = NumberOf(j) => i = j
    /\ DOMAIN map = {NumberOf(i) : i \in InList}

\* The iterators of the map lead to the nodes with these numbers.
LinkInv ==
    /\ ~dangling
    /\ \A seq \in DOMAIN map : map[seq] \in InList /\ NumberOf(map[seq]) = seq

(***************************************************************************)
(* Lists without repetition.                                               *)
(***************************************************************************)
Distinct(s) == \A j, k \in 1..Len(s) : s[j] = s[k] => j = k

LEMMA RangeOfList ==
    ASSUME NEW S, NEW s \in Seq(S)
    PROVE  /\ \A k \in 1..Len(s) : s[k] \in Range(s)
           /\ \A x \in Range(s) : x \in S /\ \E k \in 1..Len(s) : x = s[k]
<1>1. DOMAIN s = 1..Len(s) /\ \A k \in 1..Len(s) : s[k] \in S
  OBVIOUS
<1>2. QED
  BY <1>1 DEF Range

LEMMA PushedList ==
    ASSUME NEW S, NEW s \in Seq(S), NEW it \in S, Distinct(s), it \notin Range(s)
    PROVE  /\ <<it>> \o s \in Seq(S)
           /\ Len(<<it>> \o s) = Len(s) + 1
           /\ Distinct(<<it>> \o s)
           /\ Range(<<it>> \o s) = Range(s) \cup {it}
<1> DEFINE t == <<it>> \o s
<1>1. t \in Seq(S) /\ Len(t) = Len(s) + 1
  OBVIOUS
<1>2. t[1] = it /\ \A k \in 1..Len(s) : t[k + 1] = s[k]
  OBVIOUS
<1> HIDE DEF t
<1>3. \A k \in 1..Len(t) : k # 1 => k - 1 \in 1..Len(s) /\ t[k] = s[k - 1]
  <2>1. ASSUME NEW k \in 1..Len(t), k # 1
        PROVE  k - 1 \in 1..Len(s) /\ t[k] = s[k - 1]
    <3>1. k - 1 \in 1..Len(s) /\ (k - 1) + 1 = k
      BY <1>1, <2>1
    <3>2. QED
      BY <1>2, <3>1
  <2>2. QED
    BY <2>1
<1>4. \A k \in 1..Len(s) : s[k] # it
  BY DEF Range
<1>5. Distinct(t)
  <2>1. ASSUME NEW j \in 1..Len(t), NEW k \in 1..Len(t), t[j] = t[k]
        PROVE  j = k
    <3>1. CASE j = 1
      BY <1>2, <1>3, <1>4, <2>1, <3>1
    <3>2. CASE k = 1
      BY <1>2, <1>3, <1>4, <2>1, <3>2
    <3>3. CASE j # 1 /\ k # 1
      <4>1. j - 1 = k - 1
        BY <1>3, <2>1, <3>3 DEF Distinct
      <4>2. QED
        BY <4>1
    <3>4. QED
      BY <3>1, <3>2, <3>3
  <2>2. QED
    BY <2>1 DEF Distinct
<1>6. Range(t) = Range(s) \cup {it}
  <2>1. ASSUME NEW x \in Range(t) PROVE x \in Range(s) \cup {it}
    BY <1>1, <1>2, <1>3 DEF Range
  <2>2. it \in Range(t)
    BY <1>1, <1>2 DEF Range
  <2>3. ASSUME NEW k \in 1..Len(s) PROVE s[k] \in Range(t)
    <3>1. k + 1 \in 1..Len(t)
      BY <1>1
    <3>2. QED
      BY <1>1, <1>2, <3>1 DEF Range
  <2>4. QED
    BY <2>1, <2>2, <2>3, RangeOfList
<1>7. QED
  BY <1>1, <1>5, <1>6 DEF t

LEMMA FrontList ==
    ASSUME NEW S, NEW s \in Seq(S), Len(s) >= 1, Distinct(s)
    PROVE  /\ Front(s) \in Seq(S)
           /\ Len(Front(s)) = Len(s) - 1
           /\ Distinct(Front(s))
           /\ Last(s) \in Range(s)
           /\ Range(Front(s)) = Range(s) \ {Last(s)}
<1> DEFINE t == Front(s)
<1>1. t \in Seq(S) /\ Len(t) = Len(s) - 1 /\ \A k \in 1..Len(t) : t[k] = s[k]
  <2> DEFINE n == Len(s) - 1
  <2>1. n \in Nat /\ \A k \in 1..n : s[k] \in S
    OBVIOUS
  <2>2. t = SubSeq(s, 1, n)
    BY DEF Front
  <2> HIDE DEF n, t
  <2>3. /\ t \in Seq(S)
        /\ Len(t) = IF 1 <= n THEN n - 1 + 1 ELSE 0
        /\ \A k \in 1..(n - 1 + 1) : t[k] = s[1 + k - 1]
    BY <2>1, <2>2, SubSeqProperties
  <2>4. Len(t) = n
    BY <2>1, <2>3
  <2>5. ASSUME NEW k \in 1..n PROVE t[k] = s[k]
    BY <2>1, <2>3
  <2>6. QED
    BY <2>3, <2>4, <2>5 DEF n
<1>2. Last(s) = s[Len(s)] /\ Len(s) \in Nat
  BY DEF Last
<1> HIDE DEF t
<1>3. Distinct(t)
  BY <1>1, <1>2 DEF Distinct
<1>4. \A k \in 1..Len(t) : s[k] # Last(s)
  BY <1>1, <1>2 DEF Distinct
<1>5. \A k \in 1..Len(s) : s[k] # Last(s) => k \in 1..Len(t)
  BY <1>1, <1>2
<1>6. Range(t) = Range(s) \ {Last(s)}
  <2>1. ASSUME NEW x \in Range(t) PROVE x \in Range(s) /\ x # Last(s)
    <3>1. PICK k \in 1..Len(t) : x = t[k]
      BY <1>1, RangeOfList
    <3>2. k \in 1..Len(s) /\ x = s[k]
      BY <1>1, <1>2, <3>1
    <3>3. QED
      BY <1>4, <3>1, <3>2, RangeOfList
  <2>2. ASSUME NEW x \in Range(s), x # Last(s) PROVE x \in Range(t)
    <3>1. PICK k \in 1..Len(s) : x = s[k]
      BY RangeOfList
    <3>2. k \in 1..Len(t) /\ x = t[k]
      BY <1>1, <1>5, <2>2, <3>1
    <3>3. QED
      BY <1>1, <3>2, RangeOfList
  <2>3. QED
    BY <2>1, <2>2
<1>7. Last(s) \in Range(s)
  BY <1>2 DEF Range
<1>8. QED
  BY <1>1, <1>3, <1>6, <1>7 DEF t

LEMMA RemovedList ==
    ASSUME NEW S, NEW s \in Seq(S), Distinct(s), NEW p \in 1..Len(s)
    PROVE  /\ RemoveAt(s, p) \in Seq(S)
           /\ Len(RemoveAt(s, p)) = Len(s) - 1
           /\ Distinct(RemoveAt(s, p))
           /\ Range(RemoveAt(s, p)) = Range(s) \ {s[p]}
           /\ \A k \in 1..(Len(s) - 1) :
                 RemoveAt(s, p)[k] = IF k < p THEN s[k] ELSE s[k + 1]
<1> DEFINE before == SubSeq(s, 1, p - 1)
           after == SubSeq(s, p + 1, Len(s))
           t == RemoveAt(s, p)
<1>1. /\ before \in Seq(S) /\ Len(before) = p - 1
      /\ \A k \in 1..(p - 1) : before[k] = s[k]
  BY SubSeqProperties
<1>2. /\ after \in Seq(S) /\ Len(after) = Len(s) - p
      /\ \A k \in 1..(Len(s) - p) : after[k] = s[p + k]
  <2>1. \A k \in (p + 1)..Len(s) : s[k] \in S
    OBVIOUS
  <2>2. /\ after \in Seq(S)
        /\ Len(after) = IF p + 1 <= Len(s) THEN Len(s) - (p + 1) + 1 ELSE 0
        /\ \A k \in 1..(Len(s) - (p + 1) + 1) : after[k] = s[(p + 1) + k - 1]
    BY <2>1, SubSeqProperties
  <2>3. QED
    BY <2>2
<1>3. t = before \o after
  BY DEF RemoveAt
<1> HIDE DEF before, after, t
<1>4. /\ t \in Seq(S) /\ Len(t) = Len(s) - 1
      /\ \A k \in 1..Len(t) : t[k] = IF k < p THEN s[k] ELSE s[k + 1]
  <2>1. t \in Seq(S) /\ Len(t) = Len(before) + Len(after)
    BY <1>1, <1>2, <1>3, ConcatProperties
  <2>2. ASSUME NEW k \in 1..Len(t)
        PROVE  t[k] = IF k < p THEN s[k] ELSE s[k + 1]
    <3>1. t[k] = IF k <= Len(before) THEN before[k] ELSE after[k - Len(before)]
      BY <1>1, <1>2, <1>3, <2>1, ConcatProperties
    <3>2. CASE k < p
      BY <1>1, <3>1, <3>2
    <3>3. CASE k >= p
      <4>1. k - (p - 1) \in 1..(Len(s) - p) /\ p + (k - (p - 1)) = k + 1
        BY <1>1, <1>2, <2>1, <3>3
      <4>2. QED
        BY <1>1, <1>2, <3>1, <3>3, <4>1
    <3>4. QED
      BY <3>2, <3>3
  <2>3. QED
    BY <1>1, <1>2, <2>1, <2>2
<1>5. Distinct(t)
  <2>1. ASSUME NEW j \in 1..Len(t), NEW k \in 1..Len(t), t[j] = t[k]
        PROVE  j = k
    <3>1. /\ j \in 1..Len(s) /\ j + 1 \in 1..Len(s)
          /\ k \in 1..Len(s) /\ k + 1 \in 1..Len(s)
      BY <1>4
    <3>2. QED
      BY <1>4, <2>1, <3>1 DEF Distinct
  <2>2. QED
    BY <2>1 DEF Distinct
<1>6. Range(t) = Range(s) \ {s[p]}
  <2>1. ASSUME NEW k \in 1..Len(t) PROVE t[k] \in Range(s) /\ t[k] # s[p]
    BY <1>4 DEF Distinct, Range
  <2>2. ASSUME NEW k \in 1..Len(s), s[k] # s[p] PROVE s[k] \in Range(t)
    <3>1. CASE k < p
      BY <1>4, <3>1 DEF Range
    <3>2. CASE k > p
      <4>1. k - 1 \in 1..Len(t) /\ ~(k - 1 < p) /\ (k - 1) + 1 = k
        BY <1>4, <3>2
      <4>2. t[k - 1] = s[k]
        BY <1>4, <4>1
      <4>3. t[k - 1] \in Range(t)
        BY <1>4, <4>1, RangeOfList
      <4>4. QED
        BY <4>2, <4>3
    <3>3. QED
      BY <2>2, <3>1, <3>2
  <2>3. QED
    BY <2>1, <2>2 DEF Range
<1>7. QED
  BY <1>4, <1>5, <1>6 DEF t

(***************************************************************************)
(* The list and the map, whatever the allocator does.                      *)
(***************************************************************************)
LEMMA InitListInv == Init => ListInv /\ LinkInv
<1> SUFFICES ASSUME Init PROVE ListInv /\ LinkInv
  OBVIOUS
<1>1. size \in Nat
  BY SizesAssumption DEF Init
<1>2. list = <<>> /\ InList = {}
  BY DEF Init, InList, Range
<1>3. list \in Seq(Iterators) /\ Len(list) = 0
  BY <1>2
<1>4. owner \in Owners
  BY DEF Init, Owners
<1>5. element = <<>> /\ DOMAIN map = {}
  BY DEF Init
<1>6. element \in [InList -> Node]
  BY <1>2, <1>5
<1>7. QED
  BY <1>1, <1>2, <1>3, <1>4, <1>5, <1>6 DEF ListInv, LinkInv, Init

LEMMA OwnerNode ==
    ASSUME ListInv, NEW seq \in Seqs, owner[seq] # NoNode
    PROVE  owner[seq] \in Node /\ owner[seq].seq = seq
BY DEF ListInv, Owners

\* The element at it replaces the one at old, with the same node.
LEMMA CachedMoves ==
    ASSUME ListInv, NEW old \in InList, NEW it \in Iterators \ (InList \ {old})
    PROVE  /\ MovedToFront(it, old) \in Seq(Iterators)
           /\ Len(MovedToFront(it, old)) = Len(list)
           /\ Distinct(MovedToFront(it, old))
           /\ Range(MovedToFront(it, old)) = (InList \ {old}) \cup {it}
<1> DEFINE p == CHOOSE k \in 1..Len(list) : list[k] = old
           rest == RemoveAt(list, p)
<1>1. list \in Seq(Iterators) /\ Distinct(list)
  BY DEF ListInv, Distinct
<1>2. p \in 1..Len(list) /\ list[p] = old
  <2>1. \E k \in 1..Len(list) : list[k] = old
    BY <1>1, RangeOfList DEF InList
  <2>2. QED
    BY <2>1
<1> HIDE DEF p
<1>3. /\ rest \in Seq(Iterators) /\ Len(rest) = Len(list) - 1
      /\ Distinct(rest) /\ Range(rest) = InList \ {old}
  BY <1>1, <1>2, RemovedList DEF InList
<1> HIDE DEF rest
<1>4. it \in Iterators /\ it \notin Range(rest)
  BY <1>3
<1>5. /\ <<it>> \o rest \in Seq(Iterators)
      /\ Len(<<it>> \o rest) = Len(rest) + 1
      /\ Distinct(<<it>> \o rest)
      /\ Range(<<it>> \o rest) = Range(rest) \cup {it}
  BY <1>3, <1>4, PushedList
<1>6. MovedToFront(it, old) = <<it>> \o rest
  BY DEF MovedToFront, rest, p
<1>7. Len(list) \in Nat
  BY <1>1
<1>8. QED
  BY <1>3, <1>5, <1>6, <1>7

LEMMA GetCachedListInv ==
    ASSUME ListInv, NEW seq \in Seqs, GetCached(seq) PROVE ListInv'
<1> DEFINE old == map[seq]
<1>1. PICK it \in Iterators \ (InList \ {old}) :
         /\ list' = MovedToFront(it, old)
         /\ element' = [i \in (InList \ {old}) \cup {it} |->
                           NodeOf(i, it, element[old])]
  BY DEF GetCached
<1>2. old \in InList /\ UNCHANGED <<owner, size, map>>
  BY DEF GetCached
<1> HIDE DEF old
<1>3. /\ list' \in Seq(Iterators) /\ Len(list') = Len(list)
      /\ Distinct(list') /\ InList' = (InList \ {old}) \cup {it}
  BY <1>1, <1>2, CachedMoves DEF InList
<1>4. element \in [InList -> Node]
  BY DEF ListInv
<1>5. element' \in [InList' -> Node]
  BY <1>1, <1>2, <1>3, <1>4 DEF NodeOf
<1>6. /\ NumberOf(it)' = NumberOf(old)
      /\ \A i \in InList \ {old} : NumberOf(i)' = NumberOf(i)
      /\ it \notin InList \ {old}
  BY <1>1, <1>3 DEF NumberOf, NodeOf
<1>7. \A i, j \in InList' : NumberOf(i)' = NumberOf(j)' => i = j
  BY <1>2, <1>3, <1>6 DEF ListInv
<1>8. DOMAIN map' = {NumberOf(i)' : i \in InList'}
  BY <1>2, <1>3, <1>6 DEF ListInv
<1>9. QED
  BY <1>2, <1>3, <1>5, <1>7, <1>8 DEF ListInv, Distinct

\* The nodes of the elements, with a new one at it for a number not in the map.
PushedNumber(i, it, seq) == NodeOf(i, it, owner[seq]).seq

LEMMA PushedNumbers ==
    ASSUME ListInv, NEW seq \in Seqs, ~NodeIsCached(seq), owner[seq] # NoNode,
           NEW it \in Iterators \ InList
    PROVE  /\ \A i \in InList \cup {it} : NodeOf(i, it, owner[seq]) \in Node
           /\ PushedNumber(it, it, seq) = seq
           /\ \A i \in InList : PushedNumber(i, it, seq) = NumberOf(i)
           /\ \A i, j \in InList \cup {it} :
                 PushedNumber(i, it, seq) = PushedNumber(j, it, seq) => i = j
           /\ {PushedNumber(i, it, seq) : i \in InList \cup {it}} =
                 DOMAIN map \cup {seq}
<1>1. owner[seq] \in Node /\ owner[seq].seq = seq
  BY OwnerNode
<1>2. \A i \in InList : NumberOf(i) # seq
  BY DEF ListInv, NodeIsCached
<1>3. \A i \in InList \cup {it} : NodeOf(i, it, owner[seq]) \in Node
  BY <1>1 DEF NodeOf, ListInv
<1>4. PushedNumber(it, it, seq) = seq
  BY <1>1 DEF NodeOf, PushedNumber
<1>5. \A i \in InList : PushedNumber(i, it, seq) = NumberOf(i)
  BY DEF NodeOf, PushedNumber, NumberOf
<1>6. \A i, j \in InList \cup {it} :
         PushedNumber(i, it, seq) = PushedNumber(j, it, seq) => i = j
  BY <1>2, <1>4, <1>5 DEF ListInv
<1>7. {PushedNumber(i, it, seq) : i \in InList \cup {it}} =
         {NumberOf(i) : i \in InList} \cup {seq}
  BY <1>4, <1>5
<1>8. QED
  BY <1>3, <1>4, <1>5, <1>6, <1>7 DEF ListInv

LEMMA PushedIsList ==
    ASSUME ListInv, NEW it \in Iterators \ InList
    PROVE  /\ Pushed(it) \in Seq(Iterators) /\ Len(Pushed(it)) = Len(list) + 1
           /\ Distinct(Pushed(it)) /\ Range(Pushed(it)) = InList \cup {it}
<1>1. list \in Seq(Iterators) /\ Distinct(list) /\ it \in Iterators
      /\ it \notin Range(list)
  BY DEF ListInv, Distinct, InList
<1>2. QED
  BY <1>1, PushedList DEF Pushed, InList

LEMMA GetFromOwnerListInv ==
    ASSUME ListInv, NEW seq \in Seqs, GetFromOwner(seq) PROVE ListInv'
<1>1. PICK it \in Iterators \ InList :
         /\ list' = Pushed(it)
         /\ element' = [i \in InList \cup {it} |-> NodeOf(i, it, owner[seq])]
         /\ map' = Mapped(seq, it)
  BY DEF GetFromOwner
<1>2. ~NodeIsCached(seq) /\ owner[seq] # NoNode
      /\ UNCHANGED <<owner, size>> /\ ~(Len(list) >= size)
  BY DEF GetFromOwner, IsFull
<1>3. /\ list' \in Seq(Iterators) /\ Len(list') = Len(list) + 1
      /\ Distinct(list') /\ InList' = InList \cup {it}
  BY <1>1, PushedIsList DEF InList
<1>4. element' \in [InList' -> Node]
  BY <1>1, <1>2, <1>3, PushedNumbers
<1>5. \A i \in InList' : NumberOf(i)' = PushedNumber(i, it, seq)
  BY <1>1, <1>3 DEF NumberOf, PushedNumber
<1>6. \A i, j \in InList' : NumberOf(i)' = NumberOf(j)' => i = j
  BY <1>1, <1>2, <1>3, <1>5, PushedNumbers
<1>7. DOMAIN map' = {NumberOf(i)' : i \in InList'}
  <2>1. DOMAIN map' = DOMAIN map \cup {seq}
    BY <1>1 DEF Mapped
  <2>2. {NumberOf(i)' : i \in InList'} =
           {PushedNumber(i, it, seq) : i \in InList \cup {it}}
    BY <1>3, <1>5
  <2>3. QED
    BY <1>2, <2>1, <2>2, PushedNumbers
<1>8. Len(list') <= size' /\ size' \in Nat /\ owner' \in Owners
  BY <1>2, <1>3 DEF ListInv
<1>9. QED
  BY <1>3, <1>4, <1>6, <1>7, <1>8 DEF ListInv, Distinct

\* What a get that drops the last node leaves in the list and in the map.
LEMMA DroppedLast ==
    ASSUME ListInv, NEW it \in Iterators \ InList, NEW last, last = Last(Pushed(it))
    PROVE  /\ Front(Pushed(it)) \in Seq(Iterators)
           /\ Len(Front(Pushed(it))) = Len(list)
           /\ Distinct(Front(Pushed(it)))
           /\ last \in InList \cup {it}
           /\ Range(Front(Pushed(it))) = (InList \cup {it}) \ {last}
<1> DEFINE all == InList \cup {it}
<1>1. /\ Pushed(it) \in Seq(Iterators) /\ Len(Pushed(it)) = Len(list) + 1
      /\ Distinct(Pushed(it)) /\ Range(Pushed(it)) = all
      /\ Len(list) \in Nat
  BY PushedIsList DEF ListInv
<1>2. /\ Front(Pushed(it)) \in Seq(Iterators)
      /\ Len(Front(Pushed(it))) = Len(list)
      /\ Distinct(Front(Pushed(it)))
      /\ last \in all
      /\ Range(Front(Pushed(it))) = all \ {last}
  BY <1>1, FrontList
<1>3. QED
  BY <1>2

LEMMA GetAndDropListInv ==
    ASSUME ListInv, NEW seq \in Seqs, GetAndDrop(seq) PROVE ListInv'
<1>1. PICK it \in Iterators \ InList :
         /\ list' = Front(Pushed(it))
         /\ element' = [i \in (InList \cup {it}) \ {Last(Pushed(it))} |->
                           NodeOf(i, it, owner[seq])]
         /\ map' = [s \in DOMAIN Mapped(seq, it) \
                          {PushedNumber(Last(Pushed(it)), it, seq)} |->
                       Mapped(seq, it)[s]]
  BY DEF GetAndDrop, PushedNumber
<1>2. ~NodeIsCached(seq) /\ owner[seq] # NoNode /\ UNCHANGED <<owner, size>>
  BY DEF GetAndDrop
<1> DEFINE last == Last(Pushed(it))
<1>3. last = Last(Pushed(it))
  OBVIOUS
<1> HIDE DEF last
<1>4. /\ list' \in Seq(Iterators) /\ Len(list') = Len(list)
      /\ Distinct(list') /\ InList' = (InList \cup {it}) \ {last}
      /\ last \in InList \cup {it}
  <2> DEFINE front == Front(Pushed(it))
  <2>1. /\ front \in Seq(Iterators) /\ Len(front) = Len(list)
        /\ Distinct(front) /\ Range(front) = (InList \cup {it}) \ {last}
        /\ last \in InList \cup {it}
    BY <1>3, DroppedLast
  <2>2. list' = front /\ InList' = Range(list')
    BY <1>1 DEF InList
  <2> HIDE DEF front
  <2>3. /\ list' \in Seq(Iterators) /\ Len(list') = Len(list)
        /\ Distinct(list') /\ InList' = (InList \cup {it}) \ {last}
    BY <2>1, <2>2
  <2>4. QED
    BY <2>1, <2>3
<1>5. element' \in [InList' -> Node]
  BY <1>1, <1>2, <1>3, <1>4, PushedNumbers
<1>6. \A i \in InList' : NumberOf(i)' = PushedNumber(i, it, seq)
  BY <1>1, <1>3, <1>4 DEF NumberOf, PushedNumber
<1>7. \A i, j \in InList' : NumberOf(i)' = NumberOf(j)' => i = j
  BY <1>2, <1>4, <1>6, PushedNumbers
<1>8. DOMAIN map' = {NumberOf(i)' : i \in InList'}
  <2>1. DOMAIN map' = (DOMAIN map \cup {seq}) \ {PushedNumber(last, it, seq)}
    BY <1>1, <1>3 DEF Mapped
  <2>2. {NumberOf(i)' : i \in InList'} =
           {PushedNumber(i, it, seq) : i \in (InList \cup {it}) \ {last}}
    BY <1>4, <1>6
  <2>3. \A i \in InList \cup {it} :
           PushedNumber(i, it, seq) = PushedNumber(last, it, seq) <=> i = last
    BY <1>2, <1>4, PushedNumbers
  <2>4. {PushedNumber(i, it, seq) : i \in InList \cup {it}} = DOMAIN map \cup {seq}
    BY <1>2, PushedNumbers
  <2> DEFINE all == InList \cup {it}
  <2> HIDE DEF all
  <2>5. {PushedNumber(i, it, seq) : i \in all \ {last}} =
           {PushedNumber(i, it, seq) : i \in all} \ {PushedNumber(last, it, seq)}
    BY <1>4, <2>3 DEF all
  <2>6. QED
    BY <2>1, <2>2, <2>4, <2>5 DEF all
<1>9. Len(list') <= size' /\ size' \in Nat /\ owner' \in Owners
  BY <1>2, <1>4 DEF ListInv
<1>10. QED
  BY <1>4, <1>5, <1>7, <1>8, <1>9 DEF ListInv, Distinct

LEMMA NextListInv == ListInv /\ [Next]_vars => ListInv'
<1> SUFFICES ASSUME ListInv, [Next]_vars PROVE ListInv'
  OBVIOUS
<1>1. ASSUME UNCHANGED <<owner, size, list, element, map>> PROVE ListInv'
  BY <1>1 DEF ListInv, InList, NumberOf
<1>2. ASSUME NEW seq \in Seqs, GetCached(seq) PROVE ListInv'
  BY <1>2, GetCachedListInv
<1>3. ASSUME NEW seq \in Seqs, GetFromOwner(seq) PROVE ListInv'
  BY <1>3, GetFromOwnerListInv
<1>4. ASSUME NEW seq \in Seqs, GetAndDrop(seq) PROVE ListInv'
  BY <1>4, GetAndDropListInv
<1>5. ASSUME NEW seq \in Seqs, GetDangling(seq) \/ GetUnknown(seq) PROVE ListInv'
  BY <1>1, <1>5 DEF GetDangling, GetUnknown, cacheVars
<1>6. CASE Invalidate
  <2>1. list' = <<>> /\ element' = <<>> /\ map' = <<>> /\ InList' = {}
    BY <1>6 DEF Invalidate, InList, Range
  <2>2. list' \in Seq(Iterators) /\ Len(list') = 0
    BY <2>1
  <2>3. element' \in [InList' -> Node] /\ DOMAIN map' = {}
    BY <2>1
  <2>4. UNCHANGED <<owner, size>>
    BY <1>6 DEF Invalidate
  <2>5. QED
    BY <2>1, <2>2, <2>3, <2>4 DEF ListInv
<1>7. CASE SetOwner
  BY <1>7 DEF SetOwner, cacheVars, ListInv, InList, NumberOf
<1>8. CASE UNCHANGED vars
  BY <1>1, <1>8 DEF vars, cacheVars
<1>9. QED
  BY <1>2, <1>3, <1>4, <1>5, <1>6, <1>7, <1>8 DEF Next

LEMMA ListInvMatches == ListInv => MapMatchesList
<1> SUFFICES ASSUME ListInv PROVE MapMatchesList
  OBVIOUS
<1> DEFINE n == Len(list)
           f == [k \in 1..n |-> NumberOf(list[k])]
<1>1. /\ n \in Nat /\ n <= size
      /\ \A k \in 1..n : list[k] \in InList
      /\ \A x \in InList : \E k \in 1..n : x = list[k]
  BY RangeOfList DEF ListInv, InList
<1>2. DOMAIN map = {NumberOf(i) : i \in InList}
  BY DEF ListInv
<1>3. \A j, k \in 1..n : NumberOf(list[j]) = NumberOf(list[k]) => j = k
  BY <1>1 DEF ListInv
<1> HIDE DEF n
<1>4. f \in [1..n -> DOMAIN map]
  BY <1>1, <1>2
<1>5. f \in Surjection(1..n, DOMAIN map)
  <2>1. ASSUME NEW s \in DOMAIN map PROVE \E k \in 1..n : f[k] = s
    BY <1>1, <1>2
  <2>2. QED
    BY <1>4, <2>1 DEF Surjection
<1>6. f \in Injection(1..n, DOMAIN map)
  BY <1>3, <1>4 DEF Injection, IsInjective
<1>7. IsFiniteSet(1..n) /\ Cardinality(1..n) = n
  BY <1>1, FS_Interval
<1>8. Cardinality(DOMAIN map) = n
  BY <1>5, <1>6, <1>7, FS_Surjection
<1>9. QED
  BY <1>1, <1>2, <1>8 DEF MapMatchesList, NumberOf, n

\* nodeIsCached is right about every number, and the cache never holds more
\* nodes than its size, whatever addresses the allocator gives out: even when
\* an iterator of the map dangles, only what getNode returns is lost (the code:
\* LruNodeCache::getNodeImpl, nodeIsCachedImpl).
THEOREM MapKnowsList == Spec => []MapMatchesList
<1>1. Init => ListInv
  BY InitListInv
<1>2. ListInv /\ [Next]_vars => ListInv'
  BY NextListInv
<1>3. ListInv => MapMatchesList
  BY ListInvMatches
<1>4. QED
  BY <1>1, <1>2, <1>3, PTL DEF Spec

(***************************************************************************)
(* The iterators of the map, when the allocator gives out the last address *)
(* freed.                                                                  *)
(***************************************************************************)
LEMMA GetCachedInPlace ==
    ASSUME lastFreedFirst, ListInv, LinkInv, NEW seq \in Seqs, GetCached(seq)
    PROVE  InList' = InList /\ \A i \in InList : element'[i] = element[i]
<1> DEFINE old == map[seq]
<1>1. /\ old \in InList
      /\ list' = MovedToFront(old, old)
      /\ element' = [i \in (InList \ {old}) \cup {old} |->
                        NodeOf(i, old, element[old])]
  BY DEF GetCached
<1> HIDE DEF old
<1>2. old \in Iterators
  BY <1>1, RangeOfList DEF ListInv, InList
<1>3. InList' = (InList \ {old}) \cup {old}
  BY <1>1, <1>2, CachedMoves DEF InList
<1>4. QED
  BY <1>1, <1>3 DEF NodeOf

LEMMA NextLinkInv == lastFreedFirst /\ ListInv /\ LinkInv /\ [Next]_vars => LinkInv'
<1> SUFFICES ASSUME lastFreedFirst, ListInv, LinkInv, [Next]_vars PROVE LinkInv'
  OBVIOUS
<1>1. ASSUME UNCHANGED <<list, element, map, dangling>> PROVE LinkInv'
  BY <1>1 DEF LinkInv, InList, NumberOf
<1>2. ASSUME NEW seq \in Seqs, GetCached(seq) PROVE LinkInv'
  <2>1. UNCHANGED <<map, dangling>>
    BY <1>2 DEF GetCached
  <2>2. InList' = InList /\ \A i \in InList : element'[i] = element[i]
    BY <1>2, GetCachedInPlace
  <2>3. QED
    BY <2>1, <2>2 DEF LinkInv, NumberOf
<1>3. ASSUME NEW seq \in Seqs, GetFromOwner(seq) PROVE LinkInv'
  <2>1. PICK it \in Iterators \ InList :
           /\ list' = Pushed(it)
           /\ element' = [i \in InList \cup {it} |-> NodeOf(i, it, owner[seq])]
           /\ map' = Mapped(seq, it)
    BY <1>3 DEF GetFromOwner
  <2>2. ~NodeIsCached(seq) /\ owner[seq] # NoNode /\ UNCHANGED dangling
    BY <1>3 DEF GetFromOwner
  <2>3. InList' = InList \cup {it}
    BY <2>1, PushedIsList DEF InList
  <2>4. /\ NumberOf(it)' = seq
        /\ \A i \in InList : NumberOf(i)' = NumberOf(i)
    BY <2>1, <2>2, PushedNumbers DEF NumberOf, PushedNumber
  <2>5. QED
    BY <2>1, <2>2, <2>3, <2>4 DEF LinkInv, Mapped, NodeIsCached
<1>4. ASSUME NEW seq \in Seqs, GetAndDrop(seq) PROVE LinkInv'
  <2>1. PICK it \in Iterators \ InList :
           /\ list' = Front(Pushed(it))
           /\ element' = [i \in (InList \cup {it}) \ {Last(Pushed(it))} |->
                             NodeOf(i, it, owner[seq])]
           /\ map' = [s \in DOMAIN Mapped(seq, it) \
                            {PushedNumber(Last(Pushed(it)), it, seq)} |->
                         Mapped(seq, it)[s]]
    BY <1>4 DEF GetAndDrop, PushedNumber
  <2>2. ~NodeIsCached(seq) /\ owner[seq] # NoNode /\ UNCHANGED dangling
    BY <1>4 DEF GetAndDrop
  <2> DEFINE last == Last(Pushed(it))
  <2>3. last = Last(Pushed(it))
    OBVIOUS
  <2> HIDE DEF last
  <2>4. InList' = (InList \cup {it}) \ {last} /\ last \in InList \cup {it}
    BY <2>1, <2>3, DroppedLast DEF InList
  <2>5. /\ PushedNumber(it, it, seq) = seq
        /\ \A i \in InList : PushedNumber(i, it, seq) = NumberOf(i)
    BY <2>2, PushedNumbers
  <2>6. \A i \in InList' : element'[i].seq = PushedNumber(i, it, seq)
    BY <2>1, <2>3, <2>4 DEF PushedNumber
  <2>7. ASSUME NEW s \in DOMAIN map'
        PROVE  map'[s] \in InList' /\ element'[map'[s]].seq = s
    <3>1. /\ s \in DOMAIN map \cup {seq}
          /\ s # PushedNumber(last, it, seq)
          /\ map'[s] = IF s = seq THEN it ELSE map[s]
      BY <2>1, <2>3 DEF Mapped
    <3>2. CASE s = seq
      <4>1. map'[s] = it /\ it # last
        BY <2>5, <3>1, <3>2
      <4>2. it \in InList'
        BY <2>4, <4>1
      <4>3. QED
        BY <2>5, <2>6, <3>2, <4>1, <4>2
    <3>3. CASE s # seq
      <4>1. map'[s] = map[s] /\ map[s] \in InList /\ NumberOf(map[s]) = s
        BY <3>1, <3>3 DEF LinkInv
      <4>2. map[s] # last
        BY <2>5, <3>1, <4>1
      <4>3. map[s] \in InList'
        BY <2>4, <4>1, <4>2
      <4>4. QED
        BY <2>5, <2>6, <4>1, <4>3
    <3>4. QED
      BY <3>2, <3>3
  <2>8. QED
    BY <2>2, <2>7 DEF LinkInv, NumberOf
<1>5. ASSUME NEW seq \in Seqs PROVE ~GetDangling(seq)
  BY DEF GetDangling, LinkInv, NodeIsCached
<1>6. ASSUME NEW seq \in Seqs, GetUnknown(seq) PROVE LinkInv'
  BY <1>1, <1>6 DEF GetUnknown, cacheVars
<1>7. CASE Invalidate
  BY <1>7 DEF Invalidate, LinkInv
<1>8. CASE SetOwner
  BY <1>1, <1>8 DEF SetOwner, cacheVars
<1>9. CASE UNCHANGED vars
  BY <1>1, <1>9 DEF vars, cacheVars
<1>10. QED
  BY <1>2, <1>3, <1>4, <1>5, <1>6, <1>7, <1>8, <1>9 DEF Next

LEMMA AnswerIsNode ==
    lastFreedFirst /\ ListInv /\ LinkInv /\ GetReturnsNode /\ [Next]_vars
        => GetReturnsNode'
<1> SUFFICES ASSUME lastFreedFirst, ListInv, LinkInv, GetReturnsNode, [Next]_vars
             PROVE  GetReturnsNode'
  OBVIOUS
<1>1. ~dangling'
  BY NextLinkInv DEF LinkInv
<1>2. ASSUME NEW seq \in Seqs, GetCached(seq) PROVE GetReturnsNode'
  <2>1. answer' = [seq |-> seq, node |-> element[map[seq]]]
    BY <1>2 DEF GetCached, Answer
  <2>2. element[map[seq]].seq = seq
    BY <1>2 DEF GetCached, NodeIsCached, LinkInv, NumberOf
  <2>3. QED
    BY <1>1, <2>1, <2>2 DEF GetReturnsNode
<1>3. ASSUME NEW seq \in Seqs, GetFromOwner(seq) \/ GetAndDrop(seq)
      PROVE  GetReturnsNode'
  <2>1. answer' = [seq |-> seq, node |-> owner[seq]] /\ owner[seq] # NoNode
    BY <1>3 DEF GetFromOwner, GetAndDrop, Answer
  <2>2. QED
    BY <1>1, <2>1, OwnerNode DEF GetReturnsNode
<1>4. ASSUME NEW seq \in Seqs, GetUnknown(seq) PROVE GetReturnsNode'
  BY <1>1, <1>4 DEF GetUnknown, Answer, GetReturnsNode
<1>5. ASSUME NEW seq \in Seqs PROVE ~GetDangling(seq)
  BY DEF GetDangling, LinkInv, NodeIsCached
<1>6. CASE Invalidate \/ SetOwner \/ UNCHANGED vars
  BY <1>1, <1>6 DEF Invalidate, SetOwner, vars, GetReturnsNode
<1>7. QED
  BY <1>2, <1>3, <1>4, <1>5, <1>6 DEF Next

LEMMA SameAllocator ==
    (lastFreedFirst \in BOOLEAN) /\ [Next]_vars => lastFreedFirst' = lastFreedFirst
BY DEF Next, vars, GetCached, GetDangling, GetFromOwner, GetAndDrop, GetUnknown,
       Invalidate, SetOwner

\* getNode(seq) returns the node numbered seq or a null pointer, and never uses
\* an iterator that dangles: what AbstractNodeCache::getNode says, as long as the
\* allocator gives out the address freed last (LruNodeCache::getNodeImpl).
THEOREM GetIsRight == Spec => []GetReturnsNodeIfReused
<1> DEFINE Allocator == lastFreedFirst \in BOOLEAN
           Links == lastFreedFirst => LinkInv
           Answered == lastFreedFirst => GetReturnsNode
<1>1. Init => Allocator /\ ListInv /\ Links /\ Answered
  BY InitListInv DEF Init, GetReturnsNode, NoAnswer
<1>2. ListInv /\ [Next]_vars => ListInv'
  BY NextListInv
<1>3. Allocator /\ [Next]_vars => Allocator'
  BY SameAllocator
<1>4. Allocator /\ ListInv /\ Links /\ [Next]_vars => Links'
  BY NextLinkInv, SameAllocator
<1>5. Allocator /\ ListInv /\ Links /\ Answered /\ [Next]_vars => Answered'
  BY AnswerIsNode, SameAllocator
<1>6. QED
  BY <1>1, <1>2, <1>3, <1>4, <1>5, PTL DEF Spec, GetReturnsNodeIfReused

(***************************************************************************)
(* The cache implements a node cache.                                      *)
(***************************************************************************)
CachedNodes == [seq \in DOMAIN map |-> element[map[seq]]]

\* The instance's operator and this module's are the same.
LEMMA SameCardinality == \A S : C!Cardinality(S) = Cardinality(S)
BY DEF C!Cardinality, Cardinality

LEMMA CachedFitsInv == ListInv => Cardinality(DOMAIN map) <= size
BY ListInvMatches DEF MapMatchesList

LEMMA CachedFitsNext == ListInv' => (Cardinality(DOMAIN map) <= size)'
BY CachedFitsInv, PTL

LEMMA InitImplements == Init => C!Init
<1> SUFFICES ASSUME Init PROVE C!Init
  OBVIOUS
<1>1. size \in Nat
  BY InitListInv DEF ListInv
<1>2. CachedNodes = <<>>
  BY DEF Init, CachedNodes
<1>3. QED
  BY <1>1, <1>2 DEF Init, NoAnswer, C!Init, C!NoAnswer, CachedNodes

\* A get from the owner, in terms of the cached nodes alone.
LEMMA MissStep ==
    ASSUME ListInv', NEW seq \in Seqs, ~NodeIsCached(seq), owner[seq] # NoNode,
           Answer(seq, owner[seq]), UNCHANGED <<owner, size>>,
           NEW dropped, dropped \in C!AtMostOneOf(DOMAIN map \cup {seq}),
           CachedNodes' = [s \in (DOMAIN map \cup {seq}) \ dropped |->
                              IF s = seq THEN owner[seq] ELSE CachedNodes[s]]
    PROVE  C!Get(seq)
<1>1. DOMAIN CachedNodes = DOMAIN map /\ DOMAIN CachedNodes' = DOMAIN map'
  BY DEF CachedNodes
<1>2. C!Cardinality(DOMAIN CachedNodes') <= size
  BY <1>1, CachedFitsNext, SameCardinality
<1>3. \E d \in C!AtMostOneOf(DOMAIN CachedNodes \cup {seq}) :
         CachedNodes' = [s \in (DOMAIN CachedNodes \cup {seq}) \ d |->
                            IF s = seq THEN owner[seq] ELSE CachedNodes[s]]
  BY <1>1
<1>4. seq \notin DOMAIN CachedNodes /\ answer' = [seq |-> seq, node |-> owner[seq]]
  BY <1>1 DEF NodeIsCached, Answer
<1>5. QED
  BY <1>2, <1>3, <1>4 DEF C!Get, C!MissKnown, C!Lookup, C!Cached, CachedNodes

LEMMA GetFromOwnerImplements ==
    ASSUME ListInv, ListInv', LinkInv, NEW seq \in Seqs, GetFromOwner(seq)
    PROVE  C!Get(seq)
<1>1. PICK it \in Iterators \ InList :
         /\ element' = [i \in InList \cup {it} |-> NodeOf(i, it, owner[seq])]
         /\ map' = Mapped(seq, it)
  BY DEF GetFromOwner
<1>2. /\ ~NodeIsCached(seq) /\ owner[seq] # NoNode
      /\ Answer(seq, owner[seq]) /\ UNCHANGED <<owner, size>>
  BY DEF GetFromOwner
<1>3. CachedNodes' = [s \in (DOMAIN map \cup {seq}) \ {} |->
                         IF s = seq THEN owner[seq] ELSE CachedNodes[s]]
  <2>1. DOMAIN map' = (DOMAIN map \cup {seq}) \ {}
    BY <1>1 DEF Mapped
  <2>2. ASSUME NEW s \in DOMAIN map'
        PROVE  element'[map'[s]] = IF s = seq THEN owner[seq] ELSE CachedNodes[s]
    <3>1. CASE s = seq
      BY <1>1, <3>1 DEF Mapped, NodeOf
    <3>2. CASE s # seq
      <4>1. s \in DOMAIN map /\ map'[s] = map[s] /\ map[s] \in InList
        BY <1>1, <3>2 DEF Mapped, LinkInv
      <4>2. element'[map[s]] = element[map[s]]
        BY <1>1, <4>1 DEF NodeOf
      <4>3. QED
        BY <3>2, <4>1, <4>2 DEF CachedNodes
    <3>3. QED
      BY <3>1, <3>2
  <2>3. QED
    BY <2>1, <2>2 DEF CachedNodes
<1>4. {} \in C!AtMostOneOf(DOMAIN map \cup {seq})
  BY DEF C!AtMostOneOf
<1>5. QED
  BY <1>2, <1>3, <1>4, MissStep

LEMMA GetAndDropImplements ==
    ASSUME ListInv, ListInv', LinkInv, LinkInv', NEW seq \in Seqs, GetAndDrop(seq)
    PROVE  C!Get(seq)
<1>1. PICK it \in Iterators \ InList :
         /\ list' = Front(Pushed(it))
         /\ element' = [i \in (InList \cup {it}) \ {Last(Pushed(it))} |->
                           NodeOf(i, it, owner[seq])]
         /\ map' = [s \in DOMAIN Mapped(seq, it) \
                          {PushedNumber(Last(Pushed(it)), it, seq)} |->
                       Mapped(seq, it)[s]]
  BY DEF GetAndDrop, PushedNumber
<1>2. /\ ~NodeIsCached(seq) /\ owner[seq] # NoNode
      /\ Answer(seq, owner[seq]) /\ UNCHANGED <<owner, size>>
  BY DEF GetAndDrop
<1> DEFINE last == Last(Pushed(it))
           number == PushedNumber(last, it, seq)
<1>3. last \in InList \cup {it}
      /\ InList' = (InList \cup {it}) \ {last}
  BY <1>1, DroppedLast DEF InList
<1>4. number \in DOMAIN map \cup {seq}
  BY <1>2, <1>3, PushedNumbers
<1>5. CachedNodes' = [s \in (DOMAIN map \cup {seq}) \ {number} |->
                         IF s = seq THEN owner[seq] ELSE CachedNodes[s]]
  <2>1. DOMAIN map' = (DOMAIN map \cup {seq}) \ {number}
    BY <1>1 DEF Mapped
  <2>2. ASSUME NEW s \in DOMAIN map'
        PROVE  element'[map'[s]] = IF s = seq THEN owner[seq] ELSE CachedNodes[s]
    <3>1. map'[s] = (IF s = seq THEN it ELSE map[s]) /\ s \in DOMAIN map \cup {seq}
      BY <1>1, <2>1 DEF Mapped
    <3>2. map'[s] \in InList'
      BY DEF LinkInv
    <3>3. element'[map'[s]] = NodeOf(map'[s], it, owner[seq])
      BY <1>1, <1>3, <3>2
    <3>4. CASE s = seq
      BY <3>1, <3>3, <3>4 DEF NodeOf
    <3>5. CASE s # seq
      <4>1. s \in DOMAIN map /\ map'[s] = map[s] /\ map[s] \in InList
        BY <3>1, <3>5 DEF LinkInv
      <4>2. QED
        BY <3>3, <3>5, <4>1 DEF NodeOf, CachedNodes
    <3>6. QED
      BY <3>4, <3>5
  <2>3. QED
    BY <2>1, <2>2 DEF CachedNodes
<1>6. {number} \in C!AtMostOneOf(DOMAIN map \cup {seq})
  BY <1>4 DEF C!AtMostOneOf
<1> HIDE DEF number
<1>7. QED
  BY <1>2, <1>5, <1>6, MissStep

LEMMA NextImplements ==
    lastFreedFirst /\ ListInv /\ ListInv' /\ LinkInv /\ LinkInv' /\ [Next]_vars
        => [C!Next]_(C!vars)
<1> SUFFICES ASSUME lastFreedFirst, ListInv, ListInv', LinkInv, LinkInv', [Next]_vars
             PROVE  [C!Next]_(C!vars)
  OBVIOUS
<1>1. DOMAIN CachedNodes = DOMAIN map
  BY DEF CachedNodes
<1>2. CASE UNCHANGED vars
  BY <1>2 DEF vars, cacheVars, C!vars
<1>3. ASSUME NEW seq \in Seqs, GetCached(seq) PROVE C!Get(seq)
  <2>1. UNCHANGED <<owner, size, map>> /\ seq \in DOMAIN map
    BY <1>3 DEF GetCached, NodeIsCached
  <2>2. \A i \in InList : element'[i] = element[i]
    BY <1>3, GetCachedInPlace
  <2>3. CachedNodes' = CachedNodes
    BY <2>1, <2>2 DEF CachedNodes, LinkInv
  <2>4. answer' = [seq |-> seq, node |-> CachedNodes[seq]]
    BY <1>3, <2>1 DEF GetCached, Answer, CachedNodes
  <2>5. QED
    BY <1>1, <2>1, <2>3, <2>4 DEF C!Get, C!Hit, C!Lookup, CachedNodes
<1>4. ASSUME NEW seq \in Seqs, GetFromOwner(seq) PROVE C!Get(seq)
  BY <1>4, GetFromOwnerImplements
<1>5. ASSUME NEW seq \in Seqs, GetAndDrop(seq) PROVE C!Get(seq)
  BY <1>5, GetAndDropImplements
<1>6. ASSUME NEW seq \in Seqs, GetUnknown(seq) PROVE C!Get(seq)
  <2>1. UNCHANGED <<owner, size, CachedNodes>>
    BY <1>6 DEF GetUnknown, cacheVars, CachedNodes
  <2>2. seq \notin DOMAIN CachedNodes /\ owner[seq] = NoNode
        /\ answer' = [seq |-> seq, node |-> NoNode]
    BY <1>1, <1>6 DEF GetUnknown, NodeIsCached, Answer
  <2>3. QED
    BY <2>1, <2>2 DEF C!Get, C!MissUnknown, C!Lookup, CachedNodes
<1>7. ASSUME NEW seq \in Seqs PROVE ~GetDangling(seq)
  BY DEF GetDangling, LinkInv, NodeIsCached
<1>8. CASE Invalidate
  <2>1. CachedNodes' = <<>> /\ UNCHANGED <<owner, size, answer>>
    BY <1>8 DEF Invalidate, CachedNodes
  <2>2. QED
    BY <2>1 DEF C!Next, C!Invalidate, CachedNodes
<1>9. CASE SetOwner
  <2>1. UNCHANGED <<size, CachedNodes, answer>> /\ DOMAIN owner' = Seqs
    BY <1>9 DEF SetOwner, cacheVars, Owners, CachedNodes
  <2>2. QED
    BY <2>1 DEF C!Next, C!SetOwner, CachedNodes
<1>10. QED
  BY <1>2, <1>3, <1>4, <1>5, <1>6, <1>7, <1>8, <1>9 DEF Next, C!Next

\* An LRU cache implements a node cache, as long as the allocator gives out the
\* address freed last: a get is answered with the node cached under its number
\* or with the owner's, at most one node is dropped, and there are never more
\* than getSize() says (the code: LruNodeCache::getNodeImpl, invalidateImpl).
THEOREM LruImplements == Spec => ImplementsNodeCache
<1> DEFINE Allocator == lastFreedFirst \in BOOLEAN
           Links == lastFreedFirst => LinkInv
           Step == lastFreedFirst => C!Next \/ UNCHANGED C!vars
<1>1. Init => Allocator /\ ListInv /\ Links /\ (lastFreedFirst => C!Init)
  BY InitListInv, InitImplements DEF Init
<1>2. ListInv /\ [Next]_vars => ListInv'
  BY NextListInv
<1>3. Allocator /\ [Next]_vars => Allocator'
  BY SameAllocator
<1>4. Allocator /\ ListInv /\ Links /\ [Next]_vars => Links'
  BY NextLinkInv, SameAllocator
<1>5. Allocator /\ ListInv /\ ListInv' /\ Links /\ Links' /\ [Next]_vars
         => [Step]_vars
  BY NextImplements, SameAllocator
<1>6. QED
  BY <1>1, <1>2, <1>3, <1>4, <1>5, PTL DEF Spec, ImplementsNodeCache

(***************************************************************************)
(* The order of the gets: each number is there once, and a get moves its   *)
(* own to the front. A hit does the same to the list.                      *)
(***************************************************************************)
\* Where a number is, or the place after the last one.
IsPlace(numbers, seq, p) ==
    /\ p \in 1..(Len(numbers) + 1)
    /\ p <= Len(numbers) => numbers[p] = seq
    /\ \A k \in 1..Len(numbers) : numbers[k] = seq => k = p

\* The numbers once seq has been moved to the front from place p.
IsMoved(moved, numbers, seq, p) ==
    /\ Len(moved) = IF p <= Len(numbers) THEN Len(numbers) ELSE Len(numbers) + 1
    /\ moved[1] = seq
    /\ \A k \in 1..Len(moved) :
          k # 1 => moved[k] = IF k <= p THEN numbers[k - 1] ELSE numbers[k]

LEMMA MovedFirst ==
    ASSUME NEW S, NEW numbers \in Seq(S), Distinct(numbers), NEW seq \in S,
           NEW moved, moved = <<seq>> \o Without(numbers, seq)
    PROVE  /\ moved \in Seq(S) /\ Distinct(moved)
           /\ \E p : IsPlace(numbers, seq, p) /\ IsMoved(moved, numbers, seq, p)
<1> DEFINE n == Len(numbers)
           rest == Without(numbers, seq)
<1>1. n \in Nat /\ (\A k \in 1..n : numbers[k] \in S)
      /\ Range(numbers) = {numbers[k] : k \in 1..n}
  BY DEF Range
<1>2. PICK p : /\ IsPlace(numbers, seq, p)
               /\ rest \in Seq(S)
               /\ Len(rest) = IF p <= n THEN n - 1 ELSE n
               /\ \A k \in 1..Len(rest) :
                     rest[k] = IF k < p THEN numbers[k] ELSE numbers[k + 1]
  <2>1. CASE seq \in Range(numbers)
    <3> DEFINE p == CHOOSE k \in 1..n : numbers[k] = seq
    <3>1. p \in 1..n /\ numbers[p] = seq
      BY <1>1, <2>1
    <3>2. rest = RemoveAt(numbers, p)
      BY <2>1 DEF Without
    <3> HIDE DEF p
    <3>3. IsPlace(numbers, seq, p)
      BY <1>1, <3>1 DEF IsPlace, Distinct
    <3>4. /\ rest \in Seq(S) /\ Len(rest) = n - 1
          /\ \A k \in 1..(n - 1) :
                rest[k] = IF k < p THEN numbers[k] ELSE numbers[k + 1]
      <4> DEFINE removed == RemoveAt(numbers, p)
      <4>1. /\ removed \in Seq(S) /\ Len(removed) = n - 1
            /\ \A k \in 1..(n - 1) :
                  removed[k] = IF k < p THEN numbers[k] ELSE numbers[k + 1]
        BY <3>1, RemovedList
      <4>2. QED
        BY <3>2, <4>1
    <3>5. QED
      BY <1>1, <3>1, <3>3, <3>4
  <2>2. CASE seq \notin Range(numbers)
    <3>1. rest = numbers /\ \A k \in 1..n : numbers[k] # seq
      BY <1>1, <2>2 DEF Without
    <3>2. IsPlace(numbers, seq, n + 1)
      BY <1>1, <3>1 DEF IsPlace
    <3>3. ~(n + 1 <= n) /\ \A k \in 1..n : k < n + 1
      BY <1>1
    <3>4. QED
      BY <3>1, <3>2, <3>3
  <2>3. QED
    BY <2>1, <2>2
<1>3. /\ moved \in Seq(S) /\ Len(moved) = Len(rest) + 1
      /\ moved[1] = seq /\ \A k \in 1..Len(rest) : moved[k + 1] = rest[k]
  BY <1>2
<1>4. Len(rest) \in Nat /\ p \in 1..(n + 1)
  BY <1>2 DEF IsPlace
<1> HIDE DEF n, rest
<1>5. IsMoved(moved, numbers, seq, p)
  <2>1. Len(moved) = IF p <= n THEN n ELSE n + 1
    BY <1>1, <1>2, <1>3, <1>4
  <2>2. ASSUME NEW k \in 1..Len(moved), k # 1
        PROVE  moved[k] = IF k <= p THEN numbers[k - 1] ELSE numbers[k]
    <3>1. k - 1 \in 1..Len(rest) /\ (k - 1) + 1 = k /\ (k - 1 < p <=> k <= p)
      BY <1>3, <1>4, <2>2
    <3>2. moved[k] = rest[k - 1]
      BY <1>3, <3>1
    <3>3. QED
      BY <1>2, <3>1, <3>2
  <2>3. QED
    BY <1>3, <2>1, <2>2 DEF IsMoved, n
<1>6. Distinct(moved)
  <2>1. \A k \in 1..n : numbers[k] = seq <=> k = p /\ p <= n
    BY <1>1, <1>2, <1>4 DEF IsPlace, n
  <2>2. ASSUME NEW k \in 1..Len(moved), k # 1
        PROVE  \E i \in 1..n : moved[k] = numbers[i] /\ i # p /\ i = IF k <= p THEN k - 1 ELSE k
    <3>1. Len(moved) = (IF p <= n THEN n ELSE n + 1)
          /\ moved[k] = IF k <= p THEN numbers[k - 1] ELSE numbers[k]
      BY <1>5, <2>2 DEF IsMoved, n
    <3>2. CASE k <= p
      BY <1>1, <1>4, <2>2, <3>1, <3>2
    <3>3. CASE k > p
      BY <1>1, <1>4, <2>2, <3>1, <3>3
    <3>4. QED
      BY <1>3, <1>4, <3>2, <3>3
  <2>3. ASSUME NEW j \in 1..Len(moved), NEW k \in 1..Len(moved), moved[j] = moved[k]
        PROVE  j = k
    <3>1. CASE j = 1 \/ k = 1
      <4>1. moved[j] = seq /\ moved[k] = seq
        BY <1>3, <2>3, <3>1
      <4>2. ASSUME NEW i \in 1..Len(moved), i # 1 PROVE moved[i] # seq
        <5>1. PICK place \in 1..n : moved[i] = numbers[place] /\ place # p
          BY <2>2, <4>2
        <5>2. numbers[place] # seq
          BY <2>1, <5>1
        <5>3. QED
          BY <5>1, <5>2
      <4>3. QED
        BY <4>1, <4>2
    <3>2. CASE j # 1 /\ k # 1
      <4>1. PICK i \in 1..n : /\ moved[j] = numbers[i]
                              /\ i # p /\ i = IF j <= p THEN j - 1 ELSE j
        BY <2>2, <3>2
      <4>2. PICK l \in 1..n : /\ moved[k] = numbers[l]
                              /\ l # p /\ l = IF k <= p THEN k - 1 ELSE k
        BY <2>2, <3>2
      <4>3. i = l
        BY <2>3, <4>1, <4>2 DEF Distinct, n
      <4>4. j \in Int /\ k \in Int /\ p \in Int
        BY <1>3, <1>4
      <4>5. CASE j <= p /\ k <= p
        BY <4>1, <4>2, <4>3, <4>4, <4>5
      <4>6. CASE j > p /\ k > p
        BY <4>1, <4>2, <4>3, <4>4, <4>6
      <4>7. CASE j <= p /\ k > p
        BY <4>1, <4>2, <4>3, <4>4, <4>7
      <4>8. CASE j > p /\ k <= p
        BY <4>1, <4>2, <4>3, <4>4, <4>8
      <4>9. QED
        BY <4>4, <4>5, <4>6, <4>7, <4>8
    <3>3. QED
      BY <3>1, <3>2
  <2>4. QED
    BY <2>3 DEF Distinct
<1>7. QED
  BY <1>2, <1>3, <1>5, <1>6

(***************************************************************************)
(* The nodes of the list are those of the first numbers, in their order.   *)
(***************************************************************************)
GotInv ==
    /\ recent \in Seq(Seqs)
    /\ Distinct(recent)

OrderInv ==
    /\ Len(list) <= Len(recent)
    /\ \A k \in 1..Len(list) : NumberOf(list[k]) = recent[k]

LEMMA InitOrderInv == Init => GotInv /\ OrderInv
<1> SUFFICES ASSUME Init PROVE GotInv /\ OrderInv
  OBVIOUS
<1>1. recent = <<>> /\ Len(recent) = 0 /\ Len(list) = 0
  BY DEF Init
<1>2. QED
  BY <1>1 DEF GotInv, OrderInv, Distinct

LEMMA GetMoves ==
    ASSUME GotInv, NEW seq \in Seqs, Used(seq)
    PROVE  /\ recent' \in Seq(Seqs) /\ Distinct(recent')
           /\ \E p : IsPlace(recent, seq, p) /\ IsMoved(recent', recent, seq, p)
BY MovedFirst DEF GotInv, Used

LEMMA NextGotInv == GotInv /\ [Next]_vars => GotInv'
<1> SUFFICES ASSUME GotInv, [Next]_vars PROVE GotInv'
  OBVIOUS
<1>1. ASSUME NEW seq \in Seqs, GetCached(seq) \/ GetFromOwner(seq) \/ GetAndDrop(seq)
      PROVE  GotInv'
  <2>1. Used(seq)
    BY <1>1 DEF GetCached, GetFromOwner, GetAndDrop
  <2>2. QED
    BY <2>1, GetMoves DEF GotInv
<1>2. CASE UNCHANGED recent
  BY <1>2 DEF GotInv
<1>3. CASE Invalidate
  BY <1>3 DEF Invalidate, GotInv, Distinct
<1>4. QED
  BY <1>1, <1>2, <1>3 DEF Next, vars, GetDangling, GetUnknown, SetOwner

LEMMA GetCachedOrder ==
    ASSUME lastFreedFirst, ListInv, LinkInv, GotInv, OrderInv, NEW seq \in Seqs,
           GetCached(seq)
    PROVE  OrderInv'
<1> DEFINE old == map[seq]
<1>1. /\ old \in InList /\ NumberOf(old) = seq
      /\ list' = MovedToFront(old, old)
      /\ Used(seq)
  BY DEF GetCached, LinkInv, NodeIsCached
<1>2. \A i \in InList : element'[i].seq = NumberOf(i)
  BY GetCachedInPlace DEF NumberOf
<1> HIDE DEF old
<1>3. /\ list \in Seq(Iterators) /\ Distinct(list) /\ old \in Iterators
      /\ list' = <<old>> \o Without(list, old)
  BY <1>1, RangeOfList DEF ListInv, Distinct, InList, MovedToFront, Without
<1>4. PICK q : IsPlace(list, old, q) /\ IsMoved(list', list, old, q)
  BY <1>3, MovedFirst
<1>5. PICK p : IsPlace(recent, seq, p) /\ IsMoved(recent', recent, seq, p)
  BY <1>1, GetMoves
<1>6. Len(list) \in Nat /\ Len(recent) \in Nat /\ Len(list) <= Len(recent)
  BY <1>3 DEF GotInv, OrderInv
<1>7. q \in 1..Len(list) /\ list[q] = old
  <2>1. \E k \in 1..Len(list) : list[k] = old
    BY <1>1, <1>3, RangeOfList DEF InList
  <2>2. QED
    BY <1>4, <2>1 DEF IsPlace
<1>8. p = q
  <2>1. recent[q] = seq /\ q \in 1..Len(recent)
    BY <1>1, <1>6, <1>7 DEF OrderInv
  <2>2. QED
    BY <1>5, <2>1 DEF IsPlace
<1>9. Len(list') = Len(list) /\ Len(recent') = Len(recent)
  BY <1>4, <1>5, <1>6, <1>7, <1>8 DEF IsMoved
<1>10. ASSUME NEW k \in 1..Len(list') PROVE element'[list'[k]].seq = recent'[k]
  <2>1. CASE k = 1
    BY <1>1, <1>2, <1>4, <1>5, <2>1 DEF IsMoved
  <2>2. ASSUME k # 1, NEW i \in 1..Len(list), list'[k] = list[i], recent'[k] = recent[i]
        PROVE  element'[list'[k]].seq = recent'[k]
    <3>1. list[i] \in InList /\ NumberOf(list[i]) = recent[i]
      BY <1>3, RangeOfList DEF InList, OrderInv
    <3>2. QED
      BY <1>2, <2>2, <3>1
  <2>3. CASE k # 1 /\ k <= q
    <3>1. /\ k - 1 \in 1..Len(list) /\ k \in 1..Len(recent')
      BY <1>6, <1>9, <2>3
    <3>2. list'[k] = list[k - 1] /\ recent'[k] = recent[k - 1]
      BY <1>4, <1>5, <1>8, <2>3, <3>1 DEF IsMoved
    <3>3. QED
      BY <2>2, <2>3, <3>1, <3>2
  <2>4. CASE k # 1 /\ ~(k <= q)
    <3>1. /\ k \in 1..Len(list) /\ k \in 1..Len(recent')
      BY <1>6, <1>9
    <3>2. list'[k] = list[k] /\ recent'[k] = recent[k]
      BY <1>4, <1>5, <1>8, <2>4, <3>1 DEF IsMoved
    <3>3. QED
      BY <2>2, <2>4, <3>1, <3>2
  <2>5. QED
    BY <2>1, <2>3, <2>4
<1>11. QED
  BY <1>6, <1>9, <1>10 DEF OrderInv, NumberOf

\* A get of a node that is not in the list: its number was got before those of
\* the list, or never.
LEMMA PushedOrder ==
    ASSUME ListInv, GotInv, OrderInv, NEW seq \in Seqs, Used(seq),
           ~NodeIsCached(seq), owner[seq] # NoNode, NEW it \in Iterators \ InList
    PROVE  /\ Len(list) + 1 <= Len(recent')
           /\ \A k \in 1..(Len(list) + 1) :
                 /\ Pushed(it)[k] \in InList \cup {it}
                 /\ PushedNumber(Pushed(it)[k], it, seq) = recent'[k]
<1>1. PICK p : IsPlace(recent, seq, p) /\ IsMoved(recent', recent, seq, p)
  BY GetMoves
<1>2. /\ Len(list) \in Nat /\ Len(recent) \in Nat /\ Len(list) <= Len(recent)
      /\ list \in Seq(Iterators)
  BY DEF ListInv, GotInv, OrderInv
<1>3. Len(list) < p
  <2>1. \A k \in 1..Len(list) : recent[k] # seq
    BY <1>2, RangeOfList DEF OrderInv, ListInv, InList, NodeIsCached
  <2>2. p \in 1..(Len(recent) + 1) /\ (p <= Len(recent) => recent[p] = seq)
    BY <1>1 DEF IsPlace
  <2>3. QED
    BY <1>2, <2>1, <2>2
<1>4. /\ p \in 1..(Len(recent) + 1) /\ recent'[1] = seq
      /\ Len(recent') = IF p <= Len(recent) THEN Len(recent) ELSE Len(recent) + 1
      /\ \A k \in 1..Len(recent') :
            k # 1 => recent'[k] = IF k <= p THEN recent[k - 1] ELSE recent[k]
  BY <1>1 DEF IsPlace, IsMoved
<1>5. Len(list) + 1 <= Len(recent')
  BY <1>2, <1>3, <1>4
<1>6. ASSUME NEW k \in 1..(Len(list) + 1)
      PROVE  /\ Pushed(it)[k] \in InList \cup {it}
             /\ PushedNumber(Pushed(it)[k], it, seq) = recent'[k]
  <2>1. /\ PushedNumber(it, it, seq) = seq
        /\ \A i \in InList : PushedNumber(i, it, seq) = NumberOf(i)
    BY PushedNumbers
  <2>2. CASE k = 1
    <3>1. Pushed(it)[k] = it
      BY <1>2, <2>2 DEF Pushed
    <3>2. QED
      BY <1>4, <2>1, <2>2, <3>1
  <2>3. CASE k # 1
    <3>1. k - 1 \in 1..Len(list) /\ Pushed(it)[k] = list[k - 1]
      BY <1>2, <2>3 DEF Pushed
    <3>2. list[k - 1] \in InList /\ NumberOf(list[k - 1]) = recent[k - 1]
      BY <1>2, <3>1, RangeOfList DEF InList, OrderInv
    <3>3. k \in 1..Len(recent') /\ k <= p
      BY <1>2, <1>3, <1>4, <1>5, <3>1
    <3>4. recent'[k] = recent[k - 1]
      BY <1>4, <2>3, <3>3
    <3>5. QED
      BY <2>1, <3>1, <3>2, <3>4
  <2>4. QED
    BY <2>2, <2>3
<1>7. QED
  BY <1>5, <1>6

LEMMA GetFromOwnerOrder ==
    ASSUME ListInv, GotInv, OrderInv, NEW seq \in Seqs, GetFromOwner(seq)
    PROVE  OrderInv'
<1>1. PICK it \in Iterators \ InList :
         /\ list' = Pushed(it)
         /\ element' = [i \in InList \cup {it} |-> NodeOf(i, it, owner[seq])]
  BY DEF GetFromOwner
<1>2. ~NodeIsCached(seq) /\ owner[seq] # NoNode /\ Used(seq)
  BY DEF GetFromOwner
<1>3. /\ Len(list) + 1 <= Len(recent')
      /\ \A k \in 1..(Len(list) + 1) :
            /\ Pushed(it)[k] \in InList \cup {it}
            /\ PushedNumber(Pushed(it)[k], it, seq) = recent'[k]
  BY <1>1, <1>2, PushedOrder
<1>4. Len(list') = Len(list) + 1
  BY <1>1, PushedIsList
<1>5. QED
  BY <1>1, <1>3, <1>4 DEF OrderInv, NumberOf, PushedNumber

LEMMA GetAndDropOrder ==
    ASSUME ListInv, GotInv, OrderInv, NEW seq \in Seqs, GetAndDrop(seq)
    PROVE  OrderInv'
<1>1. PICK it \in Iterators \ InList :
         /\ list' = Front(Pushed(it))
         /\ element' = [i \in (InList \cup {it}) \ {Last(Pushed(it))} |->
                           NodeOf(i, it, owner[seq])]
  BY DEF GetAndDrop
<1>2. ~NodeIsCached(seq) /\ owner[seq] # NoNode /\ Used(seq)
  BY DEF GetAndDrop
<1>3. /\ Len(list) + 1 <= Len(recent')
      /\ \A k \in 1..(Len(list) + 1) :
            /\ Pushed(it)[k] \in InList \cup {it}
            /\ PushedNumber(Pushed(it)[k], it, seq) = recent'[k]
  BY <1>1, <1>2, PushedOrder
<1> DEFINE all == Pushed(it)
           kept == (InList \cup {it}) \ {Last(Pushed(it))}
<1>4. /\ all \in Seq(Iterators) /\ Len(all) = Len(list) + 1
  BY <1>1, PushedIsList
<1>5. /\ list' \in Seq(Iterators) /\ Len(list') = Len(list) /\ Range(list') = kept
  BY <1>1, DroppedLast
<1>6. Len(list) \in Nat /\ Len(recent') \in Nat
  BY <1>2, GetMoves DEF ListInv
<1>7. ASSUME NEW k \in 1..Len(list') PROVE element'[list'[k]].seq = recent'[k]
  <2>1. k \in 1..(Len(list) + 1) /\ k \in 1..(Len(all) - 1)
    BY <1>4, <1>5, <1>6
  <2>2. list'[k] = all[k]
    <3> HIDE DEF all
    <3>1. Front(all)[k] = all[k]
      BY <1>4, <2>1 DEF Front
    <3>2. QED
      BY <1>1, <3>1 DEF all
  <2>3. list'[k] \in kept
    BY <1>5, RangeOfList
  <2>4. element'[list'[k]] = NodeOf(list'[k], it, owner[seq])
    BY <1>1, <2>3
  <2>5. PushedNumber(all[k], it, seq) = recent'[k]
    BY <1>3, <2>1
  <2>6. QED
    BY <2>2, <2>4, <2>5 DEF PushedNumber
<1>8. QED
  BY <1>3, <1>5, <1>6, <1>7 DEF OrderInv, NumberOf

LEMMA NextOrderInv ==
    lastFreedFirst /\ ListInv /\ LinkInv /\ GotInv /\ OrderInv /\ [Next]_vars => OrderInv'
<1> SUFFICES ASSUME lastFreedFirst, ListInv, LinkInv, GotInv, OrderInv, [Next]_vars
             PROVE  OrderInv'
  OBVIOUS
<1>1. ASSUME UNCHANGED <<list, element, recent>> PROVE OrderInv'
  BY <1>1 DEF OrderInv, NumberOf
<1>2. ASSUME NEW seq \in Seqs, GetCached(seq) PROVE OrderInv'
  BY <1>2, GetCachedOrder
<1>3. ASSUME NEW seq \in Seqs, GetFromOwner(seq) \/ GetAndDrop(seq) PROVE OrderInv'
  BY <1>3, GetFromOwnerOrder, GetAndDropOrder
<1>4. CASE Invalidate
  <2>1. Len(list') = 0 /\ Len(recent') = 0
    BY <1>4 DEF Invalidate
  <2>2. QED
    BY <2>1 DEF OrderInv
<1>5. QED
  BY <1>1, <1>2, <1>3, <1>4
     DEF Next, vars, cacheVars, GetDangling, GetUnknown, SetOwner

\* The list holds the nodes got last, the last one in front, as many as there is
\* room for: the node a get drops is the one used the longest ago (the class's
\* comment), as long as the allocator gives out the address freed last.
THEOREM LastUsedStay == Spec => []LastUsedKept
<1> DEFINE Allocator == lastFreedFirst \in BOOLEAN
           Links == lastFreedFirst => LinkInv
           Ordered == lastFreedFirst => OrderInv
<1>1. Init => Allocator /\ ListInv /\ Links /\ GotInv /\ Ordered
  BY InitListInv, InitOrderInv DEF Init
<1>2. ListInv /\ [Next]_vars => ListInv'
  BY NextListInv
<1>3. Allocator /\ [Next]_vars => Allocator'
  BY SameAllocator
<1>4. Allocator /\ ListInv /\ Links /\ [Next]_vars => Links'
  BY NextLinkInv, SameAllocator
<1>5. GotInv /\ [Next]_vars => GotInv'
  BY NextGotInv
<1>6. Allocator /\ ListInv /\ Links /\ GotInv /\ Ordered /\ [Next]_vars => Ordered'
  BY NextOrderInv, SameAllocator
<1>7. ListInv /\ GotInv /\ Ordered => LastUsedKept
  <2> SUFFICES ASSUME ListInv, GotInv, OrderInv
               PROVE  [k \in 1..Len(list) |-> element[list[k]].seq] =
                         SubSeq(recent, 1, Len(list))
    BY DEF LastUsedKept
  <2> DEFINE n == Len(list)
             first == SubSeq(recent, 1, n)
  <2>1. /\ n \in Nat /\ n <= Len(recent) /\ Len(recent) \in Nat
        /\ \A k \in 1..n : element[list[k]].seq = recent[k]
    BY DEF ListInv, GotInv, OrderInv, NumberOf
  <2> HIDE DEF n
  <2>2. /\ first \in Seq(Seqs) /\ Len(first) = n
        /\ \A k \in 1..n : first[k] = recent[k]
    <3>1. \A k \in 1..n : recent[k] \in Seqs
      BY <2>1 DEF GotInv
    <3>2. /\ first \in Seq(Seqs)
          /\ Len(first) = IF 1 <= n THEN n - 1 + 1 ELSE 0
          /\ \A k \in 1..(n - 1 + 1) : first[k] = recent[1 + k - 1]
      BY <2>1, <3>1, SubSeqProperties DEF GotInv
    <3>3. QED
      BY <2>1, <3>2
  <2> HIDE DEF first
  <2>3. DOMAIN first = 1..n /\ first = [k \in DOMAIN first |-> first[k]]
    BY <2>2
  <2>4. [k \in 1..n |-> element[list[k]].seq] = first
    BY <2>1, <2>2, <2>3
  <2>5. QED
    BY <2>4 DEF n, first
<1>8. QED
  BY <1>1, <1>2, <1>3, <1>4, <1>5, <1>6, <1>7, PTL DEF Spec

(***************************************************************************)
(* The types.                                                              *)
(***************************************************************************)
Answers == [seq : Nat, node : Node \cup {NoNode}]

OtherTypes ==
    /\ size \in Sizes
    /\ map \in [DOMAIN map -> Iterators]
    /\ answer \in Answers
    /\ dangling \in BOOLEAN
    /\ lastFreedFirst \in BOOLEAN

LEMMA NextOtherTypes == ListInv /\ OtherTypes /\ [Next]_vars => OtherTypes'
<1> SUFFICES ASSUME ListInv, OtherTypes, [Next]_vars PROVE OtherTypes'
  OBVIOUS
<1>1. \A seq \in Seqs : \A node \in Node \cup {NoNode} :
         [seq |-> seq, node |-> node] \in Answers
  BY SeqsAssumption DEF Answers
<1>2. ASSUME NEW seq \in Seqs, GetCached(seq) PROVE OtherTypes'
  <2>1. element[map[seq]] \in Node
    BY <1>2 DEF GetCached, ListInv
  <2>2. answer' \in Answers
    BY <1>1, <1>2, <2>1 DEF GetCached, Answer
  <2>3. QED
    BY <1>2, <2>2 DEF GetCached, OtherTypes
<1>3. ASSUME NEW seq \in Seqs, NEW it \in Iterators
      PROVE  Mapped(seq, it) \in [DOMAIN map \cup {seq} -> Iterators]
  BY DEF Mapped, OtherTypes
<1>4. ASSUME NEW seq \in Seqs, GetFromOwner(seq) PROVE OtherTypes'
  <2>1. PICK it \in Iterators : map' = Mapped(seq, it)
    BY <1>4 DEF GetFromOwner
  <2>2. map' \in [DOMAIN map' -> Iterators]
    BY <1>3, <2>1
  <2>3. answer' \in Answers
    BY <1>1, <1>4, OwnerNode DEF GetFromOwner, Answer
  <2>4. QED
    BY <1>4, <2>2, <2>3 DEF GetFromOwner, OtherTypes
<1>5. ASSUME NEW seq \in Seqs, GetAndDrop(seq) PROVE OtherTypes'
  <2>1. PICK it \in Iterators : \E dropped :
           map' = [s \in DOMAIN Mapped(seq, it) \ {dropped} |-> Mapped(seq, it)[s]]
    BY <1>5 DEF GetAndDrop
  <2>2. map' \in [DOMAIN map' -> Iterators]
    <3>0. PICK dropped :
             map' = [s \in DOMAIN Mapped(seq, it) \ {dropped} |-> Mapped(seq, it)[s]]
      BY <2>1
    <3> DEFINE all == Mapped(seq, it)
               kept == DOMAIN all \ {dropped}
    <3>a. all \in [DOMAIN map \cup {seq} -> Iterators]
      BY <1>3
    <3>b. kept \subseteq DOMAIN all
      OBVIOUS
    <3> HIDE DEF all, kept
    <3>1. \A s \in kept : all[s] \in Iterators
      BY <3>a, <3>b
    <3>2. map' = [s \in kept |-> all[s]]
      BY <3>0 DEF all, kept
    <3>3. QED
      BY <3>1, <3>2
  <2>3. answer' \in Answers
    BY <1>1, <1>5, OwnerNode DEF GetAndDrop, Answer
  <2>4. QED
    BY <1>5, <2>2, <2>3 DEF GetAndDrop, OtherTypes
<1>6. ASSUME NEW seq \in Seqs, GetUnknown(seq) PROVE OtherTypes'
  BY <1>1, <1>6 DEF GetUnknown, Answer, cacheVars, OtherTypes
<1>7. ASSUME NEW seq \in Seqs, GetDangling(seq) PROVE OtherTypes'
  BY <1>7 DEF GetDangling, OtherTypes
<1>8. CASE Invalidate
  BY <1>8 DEF Invalidate, OtherTypes
<1>9. CASE SetOwner \/ UNCHANGED vars
  BY <1>9 DEF SetOwner, vars, cacheVars, OtherTypes
<1>10. QED
  BY <1>2, <1>4, <1>5, <1>6, <1>7, <1>8, <1>9 DEF Next

\* Every variable of the least recently used cache has its type, whatever the
\* allocator does: the elements of the list are those that have a node.
THEOREM LruTypes == Spec => []TypeOK
<1>1. Init => ListInv /\ GotInv /\ OtherTypes
  <2> SUFFICES ASSUME Init PROVE OtherTypes
    BY InitListInv, InitOrderInv
  <2>1. answer \in Answers
    BY DEF Init, NoAnswer, Answers
  <2>2. map \in [DOMAIN map -> Iterators]
    BY DEF Init
  <2>3. QED
    BY <2>1, <2>2 DEF Init, OtherTypes
<1>2. ListInv /\ GotInv /\ OtherTypes => TypeOK
  <2> SUFFICES ASSUME ListInv, GotInv, OtherTypes PROVE TypeOK
    OBVIOUS
  <2>1. DOMAIN map \subseteq Seqs
    BY DEF ListInv, NumberOf, Node
  <2>2. QED
    BY <2>1 DEF ListInv, GotInv, OtherTypes, Answers, TypeOK
<1>3. QED
  BY <1>1, <1>2, NextListInv, NextGotInv, NextOtherTypes, PTL DEF Spec
=============================================================================
