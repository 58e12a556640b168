--------------------------- MODULE NodeSerDesProofs ---------------------------
(***************************************************************************)
(* Theorems about NodeSerDes, for every value of its constants: the parts  *)
(* of a serialized node stay apart in its buffer, and a node read back is  *)
(* the node written.                                                       *)
(***************************************************************************)
EXTENDS NodeSerDes, FiniteSetTheorems, SequenceTheorems, WellFoundedInduction, TLAPS

(***************************************************************************)
(* Numbers. A set of natural numbers has a least one, because there is no  *)
(* endless chain of finite sets, each strictly in the one before.          *)
(***************************************************************************)
LEMMA LeastNat ==
    ASSUME NEW T \in SUBSET Nat, T # {}
    PROVE  \E m \in T : \A n \in T : m <= n
<1> DEFINE Upto(n) == 1..n
           finite == FiniteSubsetsOf(Nat)
           sets == {Upto(n) : n \in T}
<1>1. IsWellFoundedOn(StrictSubsetOrdering(Nat), finite)
  BY FS_StrictSubsetOrderingWellFounded
<1>2. ASSUME NEW n \in T PROVE Upto(n) \in finite
  <2>1. n \in Nat /\ Upto(n) \subseteq Nat
    OBVIOUS
  <2>2. IsFiniteSet(Upto(n))
    BY <2>1, FS_Interval
  <2>3. QED
    BY <2>1, <2>2 DEF FiniteSubsetsOf
<1>3. sets \subseteq finite /\ sets # {}
  BY <1>2
<1>4. PICK least \in sets :
         \A other \in sets : <<other, least>> \notin StrictSubsetOrdering(Nat)
  <2> HIDE DEF sets, finite
  <2>1. QED
    BY <1>1, <1>3, WFMin
<1>5. PICK m \in T : least = Upto(m)
  BY <1>4
<1>6. ASSUME NEW n \in T, n < m PROVE FALSE
  <2>1. Upto(n) \subseteq Upto(m) /\ m \in Upto(m) /\ m \notin Upto(n)
    BY <1>6
  <2>2. Upto(n) \in sets /\ Upto(m) \in sets
    OBVIOUS
  <2>3. Upto(n) \in SUBSET Nat /\ Upto(m) \in SUBSET Nat /\ Upto(n) # Upto(m)
    BY <2>1
  <2> HIDE DEF Upto, sets
  <2>4. <<Upto(n), Upto(m)>> \in StrictSubsetOrdering(Nat)
    BY <2>1, <2>3 DEF StrictSubsetOrdering
  <2>5. QED
    BY <1>4, <1>5, <2>2, <2>4
<1>7. QED
  BY <1>6

\* The quotient and the rest are the two numbers packed in one.
LEMMA Unpacked ==
    ASSUME NEW mod \in Nat \ {0}, NEW high \in Nat, NEW low \in 0..(mod - 1)
    PROVE  /\ (high * mod + low) \div mod = high
           /\ (high * mod + low) % mod = low
           /\ high * mod \in Nat
<1> DEFINE product == high * mod
           quotient == (product + low) \div mod
           rest == (product + low) % mod
<1>1. product \in Nat
  OBVIOUS
<1>2. /\ quotient \in Int /\ rest \in 0..(mod - 1)
      /\ product + low = mod * quotient + rest
  BY <1>1
<1>3. product = mod * high
  OBVIOUS
<1>4. quotient < high + 1
  <2>1. SUFFICES ASSUME quotient >= high + 1 PROVE FALSE
    BY <1>2
  <2>2. mod * quotient >= mod * (high + 1)
    BY <1>2, <2>1
  <2>3. mod * (high + 1) = mod * high + mod
    OBVIOUS
  <2> HIDE DEF product, quotient, rest
  <2>4. QED
    BY <1>1, <1>2, <1>3, <2>2, <2>3
<1>5. quotient > high - 1
  <2>1. SUFFICES ASSUME quotient <= high - 1 PROVE FALSE
    BY <1>2
  <2>2. mod * quotient <= mod * (high - 1)
    BY <1>2, <2>1
  <2>3. mod * (high - 1) = mod * high - mod
    OBVIOUS
  <2> HIDE DEF product, quotient, rest
  <2>4. QED
    BY <1>1, <1>2, <1>3, <2>2, <2>3
<1>6. quotient = high
  BY <1>2, <1>4, <1>5
<1> HIDE DEF product, quotient, rest
<1>7. rest = low
  BY <1>1, <1>2, <1>3, <1>6
<1>8. QED
  BY <1>1, <1>6, <1>7 DEF product, quotient, rest

LEMMA PackedParity ==
    ASSUME NEW mod \in Nat \ {0}, mod % 2 = 0, NEW high \in Nat, NEW low \in 0..1
    PROVE  (high * mod + low) % 2 = low
<1> DEFINE half == mod \div 2
           two == 2
<1>1. half \in Nat /\ mod = half * two
  OBVIOUS
<1>2. high * half \in Nat /\ two \in Nat \ {0} /\ low \in 0..(two - 1)
  BY <1>1
<1>3. high * mod = (high * half) * two
  <2> HIDE DEF half
  <2>1. QED
    BY <1>1
<1> HIDE DEF half, two
<1>4. ((high * half) * two + low) % two = low
  BY <1>2, Unpacked
<1>5. QED
  BY <1>3, <1>4 DEF two

LEMMA UnsignedIsIn ==
    ASSUME NEW mod \in Nat \ {0}, NEW v \in Int
    PROVE  Unsigned(v, mod) \in 0..(mod - 1)
BY DEF Unsigned

LEMMA UnsignedIs ==
    ASSUME NEW mod \in Nat \ {0}, NEW u \in 0..(mod - 1)
    PROVE  Unsigned(u, mod) = u
<1> DEFINE zero == 0
<1>1. zero \in Nat /\ zero * mod = 0
  OBVIOUS
<1> HIDE DEF zero
<1>2. (zero * mod + u) % mod = u
  BY <1>1, Unpacked
<1>3. QED
  BY <1>1, <1>2 DEF Unsigned

\* A number below zero is in the upper half of the words.
LEMMA UnsignedOfNegative ==
    ASSUME NEW mod \in Nat \ {0}, NEW v \in Int, -mod <= v, v < 0
    PROVE  Unsigned(v, mod) = v + mod
<1> DEFINE rest == v % mod
           quotient == v \div mod
<1>1. quotient \in Int /\ rest \in 0..(mod - 1) /\ v = mod * quotient + rest
  OBVIOUS
<1>2. quotient < 0
  <2>1. SUFFICES ASSUME quotient >= 0 PROVE FALSE
    BY <1>1
  <2>2. mod * quotient >= 0
    BY <1>1, <2>1
  <2> HIDE DEF rest, quotient
  <2>3. QED
    BY <1>1, <2>2
<1>3. quotient > -2
  <2>1. SUFFICES ASSUME quotient <= -2 PROVE FALSE
    BY <1>1
  <2>2. mod * quotient <= mod * (-2)
    BY <1>1, <2>1
  <2>3. mod * (-2) = -mod - mod
    OBVIOUS
  <2> HIDE DEF rest, quotient
  <2>4. QED
    BY <1>1, <2>2, <2>3
<1>4. quotient = -1
  BY <1>1, <1>2, <1>3
<1>5. mod * (-1) = -mod
  OBVIOUS
<1> HIDE DEF rest, quotient
<1>6. rest = v + mod
  BY <1>1, <1>4, <1>5
<1>7. QED
  BY <1>6 DEF Unsigned, rest

LEMMA SignedOfUnsigned ==
    ASSUME NEW mod \in Nat \ {0}, mod % 2 = 0,
           NEW v \in -(mod \div 2)..(mod \div 2 - 1)
    PROVE  Signed(Unsigned(v, mod), mod) = v
<1>1. mod \div 2 \in Nat /\ mod = 2 * (mod \div 2)
  OBVIOUS
<1>2. CASE v >= 0
  <2>1. Unsigned(v, mod) = v
    BY <1>1, <1>2, UnsignedIs
  <2>2. QED
    BY <1>2, <2>1 DEF Signed
<1>3. CASE v < 0
  <2>1. Unsigned(v, mod) = v + mod
    BY <1>1, <1>3, UnsignedOfNegative
  <2>2. ~(v + mod < mod \div 2)
    BY <1>1
  <2>3. QED
    BY <2>1, <2>2 DEF Signed
<1>4. QED
  BY <1>2, <1>3

LEMMA UnsignedOfSigned ==
    ASSUME NEW mod \in Nat \ {0}, NEW u \in 0..(mod - 1)
    PROVE  Unsigned(Signed(u, mod), mod) = u
<1>1. CASE u < mod \div 2
  BY <1>1, UnsignedIs DEF Signed
<1>2. CASE ~(u < mod \div 2)
  <2>1. Signed(u, mod) = u - mod
    BY <1>2 DEF Signed
  <2>2. Unsigned(u - mod, mod) = u - mod + mod
    BY UnsignedOfNegative
  <2>3. QED
    BY <2>1, <2>2
<1>3. QED
  BY <1>1, <1>2

LEMMA KeyRest ==
    ASSUME NEW mod \in Nat \ {0}, NEW key \in Nat
    PROVE  (key - (key % mod)) % mod = 0
<1> DEFINE quotient == key \div mod
           zero == 0
<1>1. quotient \in Nat /\ key - (key % mod) = quotient * mod + zero
  OBVIOUS
<1>2. zero \in 0..(mod - 1)
  OBVIOUS
<1> HIDE DEF quotient, zero
<1>3. (quotient * mod + zero) % mod = zero
  BY <1>1, <1>2, Unpacked
<1>4. QED
  BY <1>1, <1>3 DEF zero

LEMMA TruncatedIs ==
    /\ \A u \in Nat : Truncated(2 * u) = u
    /\ \A halves \in Int :
          /\ Truncated(halves) \in Int
          /\ 2 * Truncated(halves) - halves \in -1..1
          /\ halves >= 0 => 2 * Truncated(halves) <= halves
BY DEF Truncated

LEMMA Induction ==
    ASSUME NEW n \in Nat, NEW S, 0 \in S, \A k \in 1..n : k - 1 \in S => k \in S
    PROVE  0..n \subseteq S
<1> DEFINE T == (0..n) \ S
<1>1. SUFFICES ASSUME T # {} PROVE FALSE
  OBVIOUS
<1>2. T \in SUBSET Nat
  OBVIOUS
<1>3. PICK least \in T : \A k \in T : least <= k
  <2> HIDE DEF T
  <2>1. QED
    BY <1>1, <1>2, LeastNat
<1>4. least \in 1..n
  BY <1>3
<1>5. least - 1 \in S
  BY <1>3, <1>4
<1>6. QED
  BY <1>3, <1>4, <1>5

(***************************************************************************)
(* Sums over sequences. The recursive function of SumUpTo exists: its      *)
(* restrictions to longer and longer intervals do.                         *)
(***************************************************************************)
IsSum(sum, numbers, n) ==
    sum = [j \in 0..n |-> IF j = 0 THEN 0 ELSE sum[j - 1] + numbers[j]]

LEMMA SumExists ==
    ASSUME NEW numbers \in Seq(Nat)
    PROVE  \E sum : IsSum(sum, numbers, Len(numbers))
<1> DEFINE summed == {n \in 0..Len(numbers) : \E sum : IsSum(sum, numbers, n)}
<1>1. 0 \in summed
  <2>1. IsSum([j \in 0..0 |-> 0], numbers, 0)
    BY DEF IsSum
  <2>2. QED
    BY <2>1
<1>2. ASSUME NEW n \in 1..Len(numbers), n - 1 \in summed PROVE n \in summed
  <2>1. PICK sum : IsSum(sum, numbers, n - 1)
    BY <1>2
  <2> DEFINE next == [j \in 0..n |-> IF j = n THEN sum[n - 1] + numbers[n] ELSE sum[j]]
  <2>2. ASSUME NEW j \in 0..n
        PROVE  next[j] = IF j = 0 THEN 0 ELSE next[j - 1] + numbers[j]
    <3>1. sum[0] = 0 /\ \A i \in 1..(n - 1) : sum[i] = sum[i - 1] + numbers[i]
      BY <2>1 DEF IsSum
    <3>2. CASE j = 0
      BY <3>1, <3>2
    <3>3. CASE j \in 1..(n - 1)
      BY <3>1, <3>3
    <3>4. CASE j = n
      BY <3>4
    <3>5. QED
      BY <3>2, <3>3, <3>4
  <2>3. next = [j \in 0..n |-> IF j = 0 THEN 0 ELSE next[j - 1] + numbers[j]]
    <3> DEFINE other == [j \in 0..n |-> IF j = 0 THEN 0 ELSE next[j - 1] + numbers[j]]
    <3>1. DOMAIN next = 0..n /\ DOMAIN other = 0..n
      OBVIOUS
    <3>2. \A j \in 0..n : next[j] = other[j]
      BY <2>2
    <3>3. next = [j \in 0..n |-> next[j]] /\ other = [j \in 0..n |-> other[j]]
      OBVIOUS
    <3> HIDE DEF next, other
    <3>4. QED
      BY <3>2, <3>3 DEF other
  <2>4. IsSum(next, numbers, n)
    <3> HIDE DEF next
    <3>1. QED
      BY <2>3 DEF IsSum
  <2>5. QED
    BY <2>4
<1>3. 0..Len(numbers) \subseteq summed
  <2> HIDE DEF summed
  <2>1. QED
    BY <1>1, <1>2, Induction, Len(numbers) \in Nat
<1>4. Len(numbers) \in summed
  <2> HIDE DEF summed
  <2>1. QED
    BY <1>3, Len(numbers) \in Nat
<1>5. QED
  BY <1>4

LEMMA SumOf ==
    ASSUME NEW numbers \in Seq(Nat)
    PROVE  /\ SumUpTo(numbers, 0) = 0
           /\ \A k \in 1..Len(numbers) :
                 SumUpTo(numbers, k) = SumUpTo(numbers, k - 1) + numbers[k]
           /\ \A k \in 0..Len(numbers) : SumUpTo(numbers, k) \in Nat
<1> DEFINE sum == CHOOSE sum : IsSum(sum, numbers, Len(numbers))
<1>1. IsSum(sum, numbers, Len(numbers))
  BY SumExists
<1>2. \A k : SumUpTo(numbers, k) = sum[k]
  BY DEF SumUpTo, IsSum
<1> HIDE DEF sum
<1>3. /\ sum[0] = 0
      /\ \A k \in 1..Len(numbers) : sum[k] = sum[k - 1] + numbers[k]
  <2>1. Len(numbers) \in Nat
    OBVIOUS
  <2>2. 0 \in 0..Len(numbers) /\ \A k \in 1..Len(numbers) : k \in 0..Len(numbers) /\ k # 0
    BY <2>1
  <2>3. \A k \in 0..Len(numbers) : sum[k] = IF k = 0 THEN 0 ELSE sum[k - 1] + numbers[k]
    BY <1>1 DEF IsSum
  <2>4. QED
    BY <2>2, <2>3
<1> DEFINE natural == {k \in 0..Len(numbers) : sum[k] \in Nat}
<1>4. 0 \in natural
  BY <1>3
<1>5. ASSUME NEW k \in 1..Len(numbers), k - 1 \in natural PROVE k \in natural
  <2>1. Len(numbers) \in Nat /\ numbers[k] \in Nat
    OBVIOUS
  <2>2. sum[k] = sum[k - 1] + numbers[k] /\ sum[k - 1] \in Nat
    BY <1>3, <1>5
  <2>3. k \in 0..Len(numbers) /\ sum[k] \in Nat
    BY <2>1, <2>2
  <2>4. QED
    BY <2>3
<1>6. 0..Len(numbers) \subseteq natural
  <2> HIDE DEF natural
  <2>1. QED
    BY <1>4, <1>5, Induction, Len(numbers) \in Nat
<1>7. QED
  BY <1>2, <1>3, <1>6

\* A sum of more numbers, none of them below zero, is no less.
LEMMA SumGrows ==
    ASSUME NEW numbers \in Seq(Nat),
           NEW j \in 0..Len(numbers), NEW k \in j..Len(numbers)
    PROVE  SumUpTo(numbers, j) <= SumUpTo(numbers, k)
<1> DEFINE above == {i \in 0..Len(numbers) :
                        j <= i => SumUpTo(numbers, j) <= SumUpTo(numbers, i)}
<1>1. 0 \in above
  BY SumOf
<1>2. ASSUME NEW i \in 1..Len(numbers), i - 1 \in above PROVE i \in above
  <2>1. SumUpTo(numbers, i) = SumUpTo(numbers, i - 1) + numbers[i] /\ numbers[i] \in Nat
    BY SumOf
  <2>2. /\ SumUpTo(numbers, i - 1) \in Nat /\ SumUpTo(numbers, i) \in Nat
        /\ SumUpTo(numbers, j) \in Nat
    BY SumOf
  <2>3. CASE j = i
    BY <2>2, <2>3
  <2>4. CASE j # i /\ j <= i
    <3>1. SumUpTo(numbers, j) <= SumUpTo(numbers, i - 1)
      BY <1>2, <2>4
    <3> HIDE DEF above
    <3>2. SumUpTo(numbers, j) <= SumUpTo(numbers, i)
      BY <2>1, <2>2, <3>1
    <3>3. QED
      BY <3>2 DEF above
  <2>5. CASE ~(j <= i)
    BY <2>5
  <2>6. QED
    BY <2>3, <2>4, <2>5
<1>3. 0..Len(numbers) \subseteq above
  <2> HIDE DEF above
  <2>1. QED
    BY <1>1, <1>2, Induction, Len(numbers) \in Nat
<1>4. QED
  BY <1>3

LEMMA SumOfPrefix ==
    ASSUME NEW a \in Seq(Nat), NEW b \in Seq(Nat),
           NEW n \in 0..Len(a), n <= Len(b), \A k \in 1..n : a[k] = b[k]
    PROVE  \A k \in 0..n : SumUpTo(a, k) = SumUpTo(b, k)
<1> DEFINE same == {k \in 0..n : SumUpTo(a, k) = SumUpTo(b, k)}
<1>1. 0 \in same
  BY SumOf
<1>2. ASSUME NEW k \in 1..n, k - 1 \in same PROVE k \in same
  <2>0. Len(a) \in Nat /\ Len(b) \in Nat /\ n \in Nat /\ n <= Len(a)
    <3> HIDE DEF same
    <3>1. QED
      OBVIOUS
  <2>1. k \in 1..Len(a) /\ k \in 1..Len(b) /\ a[k] = b[k]
    <3> HIDE DEF same
    <3>1. a[k] = b[k]
      OBVIOUS
    <3>2. k \in 1..Len(a) /\ k \in 1..Len(b)
      BY <2>0
    <3>3. QED
      BY <3>1, <3>2
  <2>2. /\ SumUpTo(a, k) = SumUpTo(a, k - 1) + a[k]
        /\ SumUpTo(b, k) = SumUpTo(b, k - 1) + b[k]
    BY <2>1, SumOf
  <2>3. QED
    BY <1>2, <2>1, <2>2
<1>3. 0..n \subseteq same
  <2> HIDE DEF same
  <2>1. QED
    BY <1>1, <1>2, Induction, n \in Nat
<1>4. QED
  BY <1>3

LEMMA SumsAdded ==
    ASSUME NEW a \in Nat, NEW b \in Nat, NEW c \in Nat,
           NEW x \in Nat, NEW y \in Nat, NEW z \in Nat
    PROVE  /\ a + b <= c /\ x + y <= z => (a + y) + (b + x) <= c + z
           /\ a + b = c /\ x + y = z => (a + y) + (b + x) = c + z
OBVIOUS

\* The data and the headers of the first intervals, against the sizes counted.
LEMMA SumWithHeaders ==
    ASSUME NEW data \in Seq(Nat), NEW sizes \in Seq(Nat), Len(data) = Len(sizes)
    PROVE  /\ (\A k \in 1..Len(data) : IntervalHeaderBytes + data[k] <= sizes[k]) =>
                 \A k \in 0..Len(data) :
                    SumUpTo(data, k) + k * IntervalHeaderBytes <= SumUpTo(sizes, k)
           /\ (\A k \in 1..Len(data) : IntervalHeaderBytes + data[k] = sizes[k]) =>
                 \A k \in 0..Len(data) :
                    SumUpTo(data, k) + k * IntervalHeaderBytes = SumUpTo(sizes, k)
<1> DEFINE n == Len(data)
           less == {k \in 0..n :
               SumUpTo(data, k) + k * IntervalHeaderBytes <= SumUpTo(sizes, k)}
           same == {k \in 0..n :
               SumUpTo(data, k) + k * IntervalHeaderBytes = SumUpTo(sizes, k)}
<1>0. n \in Nat
  OBVIOUS
<1>1. 0 \in less /\ 0 \in same
  BY SumOf DEF IntervalHeaderBytes
<1>2. ASSUME NEW k \in 1..n
      PROVE  /\ SumUpTo(data, k) = SumUpTo(data, k - 1) + data[k]
             /\ SumUpTo(sizes, k) = SumUpTo(sizes, k - 1) + sizes[k]
             /\ SumUpTo(data, k - 1) \in Nat /\ SumUpTo(sizes, k - 1) \in Nat
             /\ data[k] \in Nat /\ sizes[k] \in Nat
  <2> HIDE DEF less, same
  <2>1. /\ k \in 1..Len(data) /\ k \in 1..Len(sizes)
        /\ k - 1 \in 0..Len(data) /\ k - 1 \in 0..Len(sizes)
    BY <1>0
  <2>2. /\ SumUpTo(data, k) = SumUpTo(data, k - 1) + data[k]
        /\ SumUpTo(data, k - 1) \in Nat
    BY <2>1, SumOf
  <2>3. /\ SumUpTo(sizes, k) = SumUpTo(sizes, k - 1) + sizes[k]
        /\ SumUpTo(sizes, k - 1) \in Nat
    BY <2>1, SumOf
  <2>4. data[k] \in Nat /\ sizes[k] \in Nat
    BY <2>1, ElementOfSeq
  <2>5. QED
    BY <2>2, <2>3, <2>4
<1>3. ASSUME \A k \in 1..n : IntervalHeaderBytes + data[k] <= sizes[k]
      PROVE  0..n \subseteq less
  <2>1. ASSUME NEW k \in 1..n, k - 1 \in less PROVE k \in less
    <3>1. /\ SumUpTo(data, k - 1) + (k - 1) * IntervalHeaderBytes <= SumUpTo(sizes, k - 1)
          /\ IntervalHeaderBytes + data[k] <= sizes[k]
      BY <1>3, <2>1
    <3>2. /\ SumUpTo(data, k) = SumUpTo(data, k - 1) + data[k]
          /\ SumUpTo(sizes, k) = SumUpTo(sizes, k - 1) + sizes[k]
          /\ SumUpTo(data, k - 1) \in Nat /\ SumUpTo(sizes, k - 1) \in Nat
          /\ data[k] \in Nat /\ sizes[k] \in Nat
      BY <1>2
    <3>3. k * IntervalHeaderBytes = (k - 1) * IntervalHeaderBytes + IntervalHeaderBytes
      BY <1>0 DEF IntervalHeaderBytes
    <3>4. (k - 1) * IntervalHeaderBytes \in Nat /\ IntervalHeaderBytes \in Nat
      BY <1>0 DEF IntervalHeaderBytes
    <3>5. SumUpTo(data, k) + k * IntervalHeaderBytes <= SumUpTo(sizes, k)
      <4> DEFINE bytes == SumUpTo(data, k - 1)
                 headers == (k - 1) * IntervalHeaderBytes
                 counted == SumUpTo(sizes, k - 1)
                 more == data[k]
                 size == sizes[k]
                 header == IntervalHeaderBytes
      <4>1. /\ bytes + headers <= counted /\ header + more <= size
            /\ bytes \in Nat /\ headers \in Nat /\ counted \in Nat
            /\ header \in Nat /\ more \in Nat /\ size \in Nat
        BY <3>1, <3>2, <3>4
      <4> HIDE DEF bytes, headers, counted, more, size, header, less, same
      <4>2. (bytes + more) + (headers + header) <= counted + size
        BY <4>1, SumsAdded
      <4>3. QED
        BY <3>2, <3>3, <4>2 DEF bytes, headers, counted, more, size, header
    <3>6. QED
      BY <1>0, <3>5
  <2> HIDE DEF less
  <2>2. QED
    BY <1>0, <1>1, <2>1, Induction
<1>4. ASSUME \A k \in 1..n : IntervalHeaderBytes + data[k] = sizes[k]
      PROVE  0..n \subseteq same
  <2>1. ASSUME NEW k \in 1..n, k - 1 \in same PROVE k \in same
    <3>1. /\ SumUpTo(data, k - 1) + (k - 1) * IntervalHeaderBytes = SumUpTo(sizes, k - 1)
          /\ IntervalHeaderBytes + data[k] = sizes[k]
      BY <1>4, <2>1
    <3>2. /\ SumUpTo(data, k) = SumUpTo(data, k - 1) + data[k]
          /\ SumUpTo(sizes, k) = SumUpTo(sizes, k - 1) + sizes[k]
          /\ SumUpTo(data, k - 1) \in Nat /\ SumUpTo(sizes, k - 1) \in Nat
          /\ data[k] \in Nat /\ sizes[k] \in Nat
      BY <1>2
    <3>3. k * IntervalHeaderBytes = (k - 1) * IntervalHeaderBytes + IntervalHeaderBytes
      BY <1>0 DEF IntervalHeaderBytes
    <3>4. (k - 1) * IntervalHeaderBytes \in Nat /\ IntervalHeaderBytes \in Nat
      BY <1>0 DEF IntervalHeaderBytes
    <3>5. SumUpTo(data, k) + k * IntervalHeaderBytes = SumUpTo(sizes, k)
      <4> DEFINE bytes == SumUpTo(data, k - 1)
                 headers == (k - 1) * IntervalHeaderBytes
                 counted == SumUpTo(sizes, k - 1)
                 more == data[k]
                 size == sizes[k]
                 header == IntervalHeaderBytes
      <4>1. /\ bytes + headers = counted /\ header + more = size
            /\ bytes \in Nat /\ headers \in Nat /\ counted \in Nat
            /\ header \in Nat /\ more \in Nat /\ size \in Nat
        BY <3>1, <3>2, <3>4
      <4> HIDE DEF bytes, headers, counted, more, size, header, less, same
      <4>2. (bytes + more) + (headers + header) = counted + size
        BY <4>1, SumsAdded
      <4>3. QED
        BY <3>2, <3>3, <4>2 DEF bytes, headers, counted, more, size, header
    <3>6. QED
      BY <1>0, <3>5
  <2> HIDE DEF same
  <2>2. QED
    BY <1>0, <1>1, <2>1, Induction
<1>5. QED
  BY <1>3, <1>4

(***************************************************************************)
(* Intervals and values.                                                   *)
(***************************************************************************)
Stored ==
    [type : StandardTypes, key : Nat, begin : Int, end : Int, value : Seq(Int),
     fixed : Word, data : [bytes : Nat, content : Seq(Int)], size : Nat]

\* An interval of the node: its word and its data are those of its value.
WellFormed(interval) ==
    /\ interval \in Stored
    /\ HasType(interval.type, interval.value)
    /\ interval.fixed = Fixed(interval.type, interval.value, interval.fixed)
    /\ interval.data = Data(interval.type, interval.value)

NumberTypes == {INT32, UINT32, FLOAT32, INT64, UINT64}

USE DEF INT32, STR, UINT32, FLOAT32, NUL, INT64, UINT64

LEMMA Widths ==
    /\ WordMod \in Nat \ {0} /\ LongMod \in Nat \ {0} /\ LongBytes \in Nat \ {0}
    /\ KeyMod \in Nat \ {0} /\ FlagMod \in Nat \ {0}
    /\ WordMod % 2 = 0 /\ LongMod % 2 = 0 /\ FlagMod % 2 = 0
    /\ 7 * KeyMod <= WordMod
    /\ MaxChildren \in Nat /\ MaxChildren * FlagMod < WordMod
    /\ NodeSize \in Nat /\ NodeSize < WordMod
    /\ Uninitialized \subseteq Word
<1> DEFINE upTo == 0..6
           six == 6
<1>1. upTo = StandardTypes
  BY DEF StandardTypes
<1>2. IsFiniteSet(upTo) /\ Cardinality(upTo) = 7
  <2>1. 0 \in Int /\ six \in Int /\ ~(0 > six) /\ six - 0 + 1 = 7
    OBVIOUS
  <2>2. upTo = 0..six
    OBVIOUS
  <2> HIDE DEF upTo, six
  <2>3. QED
    BY <2>1, <2>2, FS_Interval
<1>3. Cardinality(StandardTypes) = 7
  BY <1>1, <1>2
<1>4. WordMod # 0
  BY WidthsAssumption, <1>3
<1>5. QED
  BY <1>3, <1>4, WidthsAssumption

LEMMA NumberValue ==
    ASSUME NEW type \in NumberTypes, NEW value, HasType(type, value)
    PROVE  /\ value[1] \in Numbers(type) /\ value[1] \in Int
           /\ value = <<value[1]>> /\ value \in Seq(Int)
<1>1. Len(value) = 1 /\ value \in Seq(Numbers(type))
  BY DEF HasType, NumberTypes
<1>2. value[1] \in Numbers(type) /\ value = <<value[1]>>
  <2> DEFINE numbers == Numbers(type)
  <2>1. Len(value) = 1 /\ value \in Seq(numbers)
    BY <1>1
  <2> HIDE DEF numbers
  <2>2. value[1] \in numbers
    <3>1. 1 \in 1..Len(value)
      BY <2>1
    <3>2. QED
      BY <2>1, <3>1, ElementOfSeq
  <2>3. <<value[1]>> \in Seq(numbers) /\ Len(<<value[1]>>) = Len(value)
    BY <2>1, <2>2
  <2>4. \A k \in 1..Len(value) : value[k] = <<value[1]>>[k]
    BY <2>1
  <2>5. value = <<value[1]>>
    BY <2>1, <2>3, <2>4, SeqEqual
  <2>6. QED
    BY <2>2, <2>5 DEF numbers
<1>3. Numbers(type) \subseteq Int
  BY Widths DEF NumberTypes, Numbers, Word
<1>4. value \in Seq(Int)
  BY <1>1, <1>3, SeqMonotonic
<1>5. value[1] \in Int
  BY <1>2, <1>3
<1>6. QED
  BY <1>2, <1>4, <1>5

LEMMA ValueIsSequence ==
    ASSUME NEW type \in StandardTypes, NEW value, HasType(type, value)
    PROVE  value \in Seq(Int)
<1>1. CASE type \in NumberTypes
  BY <1>1, NumberValue
<1>2. CASE type = STR
  BY <1>2 DEF HasType
<1>3. CASE type = NUL
  BY <1>3 DEF HasType
<1>4. QED
  BY <1>1, <1>2, <1>3 DEF StandardTypes, NumberTypes

LEMMA FixedIsWord ==
    ASSUME NEW type \in StandardTypes, NEW value, HasType(type, value), NEW word \in Word
    PROVE  Fixed(type, value, word) \in Word
<1>1. CASE type \in {INT32, UINT32}
  <2>1. value[1] \in Int
    BY <1>1, NumberValue DEF NumberTypes
  <2>2. Unsigned(value[1], WordMod) \in Word
    BY <2>1, Widths, UnsignedIsIn DEF Word
  <2>3. QED
    BY <1>1, <2>2 DEF Fixed
<1>2. CASE type \notin {INT32, UINT32}
  <2>1. CASE type = FLOAT32 /\ Truncated(value[1]) \in Word
    BY <2>1 DEF Fixed
  <2>2. CASE ~(type = FLOAT32 /\ Truncated(value[1]) \in Word)
    BY <1>2, <2>2 DEF Fixed
  <2>3. QED
    BY <2>1, <2>2
<1>3. QED
  BY <1>1, <1>2

\* Setting a value that a word already holds changes nothing.
LEMMA FixedAgain ==
    ASSUME NEW type, NEW value, NEW word
    PROVE  Fixed(type, value, Fixed(type, value, word)) = Fixed(type, value, word)
<1>1. CASE type \in {INT32, UINT32}
  BY <1>1 DEF Fixed
<1>2. CASE type = FLOAT32 /\ Truncated(value[1]) \in Word
  BY <1>2 DEF Fixed
<1>3. CASE type \notin {INT32, UINT32} /\ ~(type = FLOAT32 /\ Truncated(value[1]) \in Word)
  BY <1>3 DEF Fixed
<1>4. QED
  BY <1>1, <1>2, <1>3

LEMMA DataType ==
    ASSUME NEW type \in StandardTypes, NEW value, HasType(type, value)
    PROVE  /\ Data(type, value) \in [bytes : Nat, content : Seq(Int)]
           /\ Data(type, value).bytes > 0 <=> type \in {STR, INT64, UINT64}
           /\ type = STR => Data(type, value) = StringData(value)
           /\ type \in {INT64, UINT64} => Data(type, value) = LongData(value)
           /\ type \notin {STR, INT64, UINT64} => Data(type, value) = NoData
<1>1. CASE type \in {INT64, UINT64}
  <2>1. value[1] \in Int
    BY <1>1, NumberValue DEF NumberTypes
  <2>2. Unsigned(value[1], LongMod) \in Int
    <3>1. Unsigned(value[1], LongMod) \in 0..(LongMod - 1) /\ LongMod \in Nat
      BY <2>1, Widths, UnsignedIsIn
    <3>2. QED
      BY <3>1
  <2>3. Data(type, value) = LongData(value)
    BY <1>1 DEF Data
  <2>4. LongBytes \in Nat /\ LongBytes > 0
    BY Widths
  <2>5. <<Unsigned(value[1], LongMod)>> \in Seq(Int)
    BY <2>2
  <2>6. QED
    BY <1>1, <2>3, <2>4, <2>5 DEF LongData
<1>2. CASE type = STR
  <2>1. value \in Seq(Int) /\ Len(value) \in Nat
    BY ValueIsSequence
  <2>2. QED
    BY <1>2, <2>1 DEF Data, StringData
<1>3. CASE type \in {INT32, UINT32, FLOAT32, NUL}
  BY <1>3 DEF Data, NoData
<1>4. QED
  BY <1>1, <1>2, <1>3 DEF StandardTypes

LEMMA NewIntervalIs ==
    ASSUME NEW offer, offer.type \in StandardTypes, offer.key \in Nat,
           offer.begin \in Int, offer.end \in Int,
           HasType(offer.type, offer.value), NEW word \in Word
    PROVE  /\ WellFormed(NewInterval(offer, word))
           /\ NewInterval(offer, word).size = Size(NewInterval(offer, word))
<1> DEFINE fixed == Fixed(offer.type, offer.value, word)
           data == Data(offer.type, offer.value)
<1>1. fixed \in Word /\ Fixed(offer.type, offer.value, fixed) = fixed
  BY FixedIsWord, FixedAgain
<1>2. data \in [bytes : Nat, content : Seq(Int)]
  BY DataType
<1>3. data.bytes \in Nat /\ offer.value \in Seq(Int)
  BY <1>2, ValueIsSequence
<1>4. NewInterval(offer, word) =
         [type |-> offer.type, key |-> offer.key, begin |-> offer.begin,
          end |-> offer.end, value |-> offer.value, fixed |-> fixed,
          data |-> data, size |-> IntervalHeaderBytes + data.bytes]
  BY DEF NewInterval
<1> HIDE DEF fixed, data
<1>5. NewInterval(offer, word) \in Stored
  BY <1>1, <1>2, <1>3, <1>4 DEF Stored, IntervalHeaderBytes
<1>6. QED
  BY <1>1, <1>4, <1>5 DEF WellFormed, Size, fixed, data

(***************************************************************************)
(* The node in memory.                                                     *)
(***************************************************************************)
NodeFields ==
    [seq : Nat, parent : Int, begin : Int, end : Int, closed : BOOLEAN,
     maxChildren : Nat, children : Seq([begin : Int, seq : Nat]),
     intervals : Seq(Stored), curIntervalsSize : Nat]

Sizes(intervals) == [k \in 1..Len(intervals) |-> intervals[k].size]

LastEnd(n) ==
    IF Len(n.intervals) = 0 THEN n.begin ELSE n.intervals[Len(n.intervals)].end

\* The node counts the sizes its intervals had when it took them, and ends with
\* the last of them until it is closed.
IsNode(n) ==
    /\ n \in NodeFields
    /\ Len(n.children) <= MaxChildren /\ n.maxChildren = MaxChildren
    /\ \A k \in 1..Len(n.intervals) : WellFormed(n.intervals[k])
    /\ n.curIntervalsSize = SumUpTo(Sizes(n.intervals), Len(n.intervals))
    /\ ~n.closed => n.end = LastEnd(n)

LEMMA SizesType ==
    ASSUME NEW intervals \in Seq(Stored)
    PROVE  /\ Sizes(intervals) \in Seq(Nat) /\ Len(Sizes(intervals)) = Len(intervals)
           /\ DataBytes(intervals) \in Seq(Nat)
           /\ Len(DataBytes(intervals)) = Len(intervals)
           /\ Len(intervals) \in Nat
           /\ \A k \in 1..Len(intervals) :
                 /\ intervals[k] \in Stored
                 /\ intervals[k].size \in Nat /\ intervals[k].data.bytes \in Nat
<1>1. Len(intervals) \in Nat
  OBVIOUS
<1>2. ASSUME NEW k \in 1..Len(intervals)
      PROVE  /\ intervals[k] \in Stored
             /\ intervals[k].size \in Nat /\ intervals[k].data.bytes \in Nat
  <2>1. intervals[k] \in Stored
    BY ElementOfSeq
  <2>2. QED
    BY <2>1 DEF Stored
<1>3. Sizes(intervals) \in Seq(Nat) /\ Len(Sizes(intervals)) = Len(intervals)
  BY <1>1, <1>2 DEF Sizes
<1>4. DataBytes(intervals) \in Seq(Nat) /\ Len(DataBytes(intervals)) = Len(intervals)
  BY <1>1, <1>2 DEF DataBytes
<1>5. QED
  BY <1>1, <1>2, <1>3, <1>4

LEMMA NewNodeIs ==
    ASSUME NEW seq \in Nat, NEW parent \in Int, NEW begin \in Int
    PROVE  IsNode(NewNode(seq, parent, begin, MaxChildren))
<1> DEFINE n == NewNode(seq, parent, begin, MaxChildren)
<1>1. n \in NodeFields
  BY Widths DEF NewNode, NodeFields
<1>2. /\ n.children = <<>> /\ n.intervals = <<>> /\ n.curIntervalsSize = 0
      /\ n.maxChildren = MaxChildren /\ n.end = n.begin
  BY DEF NewNode
<1>3. <<>> \in Seq(Stored) /\ Len(<<>>) = 0
  OBVIOUS
<1>4. Sizes(<<>>) \in Seq(Nat)
  BY <1>3, SizesType
<1>5. SumUpTo(Sizes(<<>>), 0) = 0
  BY <1>4, SumOf
<1>6. 0 <= MaxChildren
  BY Widths
<1> HIDE DEF n
<1>7. IsNode(n)
  BY <1>1, <1>2, <1>3, <1>5, <1>6 DEF IsNode, LastEnd
<1>8. QED
  BY <1>7 DEF n

LEMMA AddChildIs ==
    ASSUME NEW n, IsNode(n), ~IsFull(n), NEW begin \in Int, NEW seq \in Nat
    PROVE  IsNode(AddChild(n, begin, seq))
<1> DEFINE children == Append(n.children, [begin |-> begin, seq |-> seq])
           next == AddChild(n, begin, seq)
<1>1. n \in NodeFields /\ n.children \in Seq([begin : Int, seq : Nat]) /\ n.maxChildren \in Nat
  BY DEF IsNode, NodeFields
<1>2. children \in Seq([begin : Int, seq : Nat]) /\ Len(children) = Len(n.children) + 1
  BY <1>1
<1>3. Len(children) <= MaxChildren
  <2>1. Len(n.children) \in Nat /\ MaxChildren \in Nat /\ n.maxChildren = MaxChildren
    BY <1>1, Widths DEF IsNode
  <2>2. QED
    BY <1>2, <2>1 DEF IsFull
<1>4. next = [n EXCEPT !.children = children]
  BY DEF AddChild
<1> HIDE DEF children, next
<1>5. /\ next \in NodeFields /\ next.children = children /\ next.intervals = n.intervals
      /\ next.maxChildren = n.maxChildren /\ next.curIntervalsSize = n.curIntervalsSize
      /\ next.begin = n.begin /\ next.end = n.end /\ next.closed = n.closed
  BY <1>1, <1>2, <1>4 DEF NodeFields
<1>6. IsNode(next)
  BY <1>3, <1>5 DEF IsNode, LastEnd
<1>7. QED
  BY <1>6 DEF next

LEMMA SumOfSizes ==
    ASSUME NEW intervals \in Seq(Stored), NEW interval \in Stored
    PROVE  SumUpTo(Sizes(Append(intervals, interval)), Len(intervals) + 1) =
              SumUpTo(Sizes(intervals), Len(intervals)) + interval.size
<1> DEFINE longer == Append(intervals, interval)
           n == Len(intervals)
<1>1. longer \in Seq(Stored) /\ Len(longer) = n + 1 /\ n \in Nat
  OBVIOUS
<1>2. longer[n + 1] = interval /\ \A k \in 1..n : longer[k] = intervals[k]
  BY <1>1
<1> HIDE DEF longer, n
<1>3. /\ Sizes(longer) \in Seq(Nat) /\ Len(Sizes(longer)) = n + 1
      /\ Sizes(intervals) \in Seq(Nat) /\ Len(Sizes(intervals)) = n
  BY <1>1, SizesType DEF n
<1>4. Sizes(longer)[n + 1] = interval.size
  BY <1>1, <1>2 DEF Sizes
<1>5. \A k \in 1..n : Sizes(longer)[k] = Sizes(intervals)[k]
  BY <1>1, <1>2 DEF Sizes, n
<1>6. n \in 0..Len(Sizes(longer)) /\ n <= Len(Sizes(intervals)) /\ n \in 0..n
  BY <1>1, <1>3
<1>7. SumUpTo(Sizes(longer), n) = SumUpTo(Sizes(intervals), n)
  BY <1>3, <1>5, <1>6, SumOfPrefix
<1>8. n + 1 \in 1..Len(Sizes(longer)) /\ (n + 1) - 1 = n
  BY <1>1, <1>3
<1>9. SumUpTo(Sizes(longer), n + 1) = SumUpTo(Sizes(longer), n) + Sizes(longer)[n + 1]
  BY <1>3, <1>8, SumOf
<1>10. QED
  BY <1>4, <1>7, <1>9 DEF longer, n

LEMMA AddIntervalIs ==
    ASSUME NEW n, IsNode(n), NEW interval, WellFormed(interval)
    PROVE  IsNode(AddIntervalToNode(n, interval))
<1> DEFINE intervals == Append(n.intervals, interval)
           size == n.curIntervalsSize + interval.size
           next == AddIntervalToNode(n, interval)
<1>1. n \in NodeFields /\ n.intervals \in Seq(Stored) /\ n.curIntervalsSize \in Nat
  BY DEF IsNode, NodeFields
<1>2. interval \in Stored /\ interval.size \in Nat /\ interval.end \in Int
  BY DEF WellFormed, Stored
<1>3. /\ intervals \in Seq(Stored) /\ Len(intervals) = Len(n.intervals) + 1
      /\ Len(n.intervals) \in Nat
  BY <1>1, <1>2
<1>4. /\ intervals[Len(intervals)] = interval
      /\ \A k \in 1..Len(n.intervals) : intervals[k] = n.intervals[k]
  BY <1>1, <1>2, <1>3
<1>5. \A k \in 1..Len(intervals) : WellFormed(intervals[k])
  <2> TAKE k \in 1..Len(intervals)
  <2>1. CASE k = Len(intervals)
    BY <1>4, <2>1
  <2>2. CASE k \in 1..Len(n.intervals)
    BY <1>4, <2>2 DEF IsNode
  <2>3. QED
    BY <1>3, <2>1, <2>2
<1>6. size = SumUpTo(Sizes(intervals), Len(intervals)) /\ size \in Nat
  BY <1>1, <1>2, <1>3, SumOfSizes DEF IsNode
<1>7. next = [n EXCEPT !.intervals = intervals, !.curIntervalsSize = size,
                       !.end = interval.end]
  BY DEF AddIntervalToNode
<1> HIDE DEF intervals, size, next
<1>8. /\ next \in NodeFields /\ next.children = n.children /\ next.intervals = intervals
      /\ next.maxChildren = n.maxChildren /\ next.curIntervalsSize = size
      /\ next.begin = n.begin /\ next.end = interval.end /\ next.closed = n.closed
  BY <1>1, <1>2, <1>3, <1>6, <1>7 DEF NodeFields
<1>9. LastEnd(next) = interval.end
  BY <1>3, <1>4, <1>8 DEF LastEnd
<1>10. IsNode(next)
  BY <1>5, <1>6, <1>8, <1>9 DEF IsNode
<1>11. QED
  BY <1>10 DEF next

LEMMA CloseNodeIs ==
    ASSUME NEW n, IsNode(n), NEW end \in Int
    PROVE  IsNode(CloseNode(n, end))
<1> DEFINE next == CloseNode(n, end)
<1>1. CASE n.closed
  BY <1>1 DEF CloseNode
<1>2. CASE ~n.closed
  <2>1. next = [n EXCEPT !.closed = TRUE, !.end = end] /\ n \in NodeFields
    BY <1>2 DEF CloseNode, IsNode
  <2> HIDE DEF next
  <2>2. /\ next \in NodeFields /\ next.children = n.children /\ next.intervals = n.intervals
        /\ next.maxChildren = n.maxChildren /\ next.curIntervalsSize = n.curIntervalsSize
        /\ next.closed
    BY <2>1 DEF NodeFields
  <2>3. IsNode(next)
    BY <2>2 DEF IsNode
  <2>4. QED
    BY <2>3 DEF next
<1>3. QED
  BY <1>1, <1>2

\* The string changes, and the node does not know.
LEMMA ChangeStringIs ==
    ASSUME NEW n, IsNode(n), NEW k \in 1..Len(n.intervals),
           n.intervals[k].type = STR, NEW string, HasType(STR, string)
    PROVE  IsNode([n EXCEPT !.intervals[k].value = string,
                            !.intervals[k].data = StringData(string)])
<1> DEFINE interval == [n.intervals[k] EXCEPT !.value = string, !.data = StringData(string)]
           intervals == [n.intervals EXCEPT ![k] = interval]
           next == [n EXCEPT !.intervals[k].value = string,
                             !.intervals[k].data = StringData(string)]
<1>1. /\ n \in NodeFields /\ n.intervals \in Seq(Stored) /\ Len(n.intervals) \in Nat
      /\ n.intervals[k] \in Stored /\ WellFormed(n.intervals[k])
  BY ElementOfSeq DEF IsNode, NodeFields
<1>2. string \in Seq(Int) /\ STR \in StandardTypes
  BY ValueIsSequence DEF StandardTypes
<1>3. StringData(string) = Data(STR, string)
  BY DEF Data
<1>4. StringData(string) \in [bytes : Nat, content : Seq(Int)]
  BY <1>2, <1>3, DataType
<1>5. /\ interval \in Stored /\ interval.value = string
      /\ interval.data = StringData(string) /\ interval.type = STR
      /\ interval.size = n.intervals[k].size /\ interval.end = n.intervals[k].end
  BY <1>1, <1>2, <1>4 DEF Stored
<1>6. Fixed(STR, string, interval.fixed) = interval.fixed
  BY DEF Fixed
<1>7. WellFormed(interval)
  BY <1>3, <1>5, <1>6 DEF WellFormed
<1>8. next = [n EXCEPT !.intervals = intervals]
  <2>1. DOMAIN n.intervals = 1..Len(n.intervals) /\ k \in DOMAIN n.intervals
    BY <1>1
  <2>2. n = [seq |-> n.seq, parent |-> n.parent, begin |-> n.begin, end |-> n.end,
             closed |-> n.closed, maxChildren |-> n.maxChildren,
             children |-> n.children, intervals |-> n.intervals,
             curIntervalsSize |-> n.curIntervalsSize]
    BY <1>1 DEF NodeFields
  <2>3. QED
    BY <2>1, <2>2
<1> HIDE DEF interval, next
<1>9. /\ intervals \in Seq(Stored) /\ Len(intervals) = Len(n.intervals)
      /\ \A j \in 1..Len(n.intervals) :
            intervals[j] = IF j = k THEN interval ELSE n.intervals[j]
  BY <1>1, <1>5, ExceptSeq
<1> HIDE DEF intervals
<1>10. \A j \in 1..Len(intervals) :
          /\ WellFormed(intervals[j])
          /\ intervals[j].size = n.intervals[j].size
          /\ intervals[j].end = n.intervals[j].end
  BY <1>5, <1>7, <1>9 DEF IsNode
<1>11. Sizes(intervals) = Sizes(n.intervals)
  BY <1>9, <1>10 DEF Sizes
<1>12. /\ next \in NodeFields /\ next.children = n.children /\ next.intervals = intervals
       /\ next.maxChildren = n.maxChildren /\ next.curIntervalsSize = n.curIntervalsSize
       /\ next.begin = n.begin /\ next.end = n.end /\ next.closed = n.closed
  BY <1>1, <1>8, <1>9 DEF NodeFields
<1>13. LastEnd(next) = LastEnd(n)
  BY <1>1, <1>9, <1>10, <1>12 DEF LastEnd
<1>14. IsNode(next)
  BY <1>9, <1>10, <1>11, <1>12, <1>13 DEF IsNode
<1>15. QED
  BY <1>14 DEF next

(***************************************************************************)
(* The layout of a serialized node: the header, the pointers to the        *)
(* children and the headers of the intervals from the front, the data of   *)
(* the intervals from the back.                                            *)
(***************************************************************************)
ChildPart(n, k) == Part(ChildAt(k), ChildPointerBytes, n.children[k])

IntervalPart(n, k) ==
    Part(IntervalAt(Len(n.children), k), IntervalHeaderBytes,
         IntervalContent(n.intervals[k], VarOffset(n.intervals, k)))

DataPart(n, k) ==
    Part(NodeSize - VarOffset(n.intervals, k), n.intervals[k].data.bytes,
         n.intervals[k].data.content)

WithData(n) == {k \in 1..Len(n.intervals) : HasData(n.intervals[k])}

LEMMA PartsAre ==
    ASSUME NEW n
    PROVE  SerializedParts(n) =
              {HeaderPart(n)} \cup {ChildPart(n, k) : k \in 1..Len(n.children)}
                \cup {IntervalPart(n, k) : k \in 1..Len(n.intervals)}
                \cup {DataPart(n, k) : k \in WithData(n)}
BY DEF SerializedParts, ChildParts, IntervalParts, DataParts, ChildPart,
       IntervalPart, DataPart, WithData

LEMMA Offsets ==
    ASSUME NEW n, IsNode(n)
    PROVE  /\ VarOffset(n.intervals, 0) = 0
           /\ \A k \in 0..Len(n.intervals) : VarOffset(n.intervals, k) \in Nat
           /\ \A k \in 1..Len(n.intervals) :
                 /\ n.intervals[k].data.bytes \in Nat
                 /\ VarOffset(n.intervals, k) =
                       VarOffset(n.intervals, k - 1) + n.intervals[k].data.bytes
           /\ \A j, k \in 0..Len(n.intervals) :
                 j <= k => VarOffset(n.intervals, j) <= VarOffset(n.intervals, k)
<1> DEFINE data == DataBytes(n.intervals)
<1>1. n.intervals \in Seq(Stored)
  BY DEF IsNode, NodeFields
<1>2. /\ data \in Seq(Nat) /\ Len(data) = Len(n.intervals) /\ Len(n.intervals) \in Nat
      /\ \A k \in 1..Len(n.intervals) : n.intervals[k].data.bytes \in Nat
  BY <1>1, SizesType
<1>3. \A k \in 1..Len(n.intervals) : data[k] = n.intervals[k].data.bytes
  BY DEF DataBytes
<1>4. \A k : VarOffset(n.intervals, k) = SumUpTo(data, k)
  BY DEF VarOffset
<1> HIDE DEF data
<1>5. /\ SumUpTo(data, 0) = 0
      /\ \A k \in 0..Len(n.intervals) : SumUpTo(data, k) \in Nat
      /\ \A k \in 1..Len(n.intervals) :
            SumUpTo(data, k) = SumUpTo(data, k - 1) + data[k]
  BY <1>2, SumOf
<1>6. \A j, k \in 0..Len(n.intervals) : j <= k => SumUpTo(data, j) <= SumUpTo(data, k)
  <2>1. SUFFICES ASSUME NEW j \in 0..Len(n.intervals), NEW k \in 0..Len(n.intervals), j <= k
                 PROVE  SumUpTo(data, j) <= SumUpTo(data, k)
    OBVIOUS
  <2>2. j \in 0..Len(data) /\ k \in j..Len(data)
    BY <1>2, <2>1
  <2>3. QED
    BY <1>2, <2>2, SumGrows
<1>7. QED
  BY <1>2, <1>3, <1>4, <1>5, <1>6

\* The data and the headers have room when no interval has grown.
HasRoom(n) ==
    NodeHeaderBytes + Len(n.children) * ChildPointerBytes
        + Len(n.intervals) * IntervalHeaderBytes
        + VarOffset(n.intervals, Len(n.intervals)) <= NodeSize

LEMMA RoomIsCounted ==
    ASSUME NEW n, IsNode(n),
           \A k \in 1..Len(n.intervals) : Size(n.intervals[k]) <= n.intervals[k].size
    PROVE  FitsBuffer(n) => HasRoom(n)
<1> DEFINE data == DataBytes(n.intervals)
           sizes == Sizes(n.intervals)
           last == Len(n.intervals)
<1>1. n.intervals \in Seq(Stored) /\ Len(n.children) \in Nat /\ n.curIntervalsSize \in Nat
  BY DEF IsNode, NodeFields
<1>2. /\ data \in Seq(Nat) /\ Len(data) = last /\ last \in Nat
      /\ sizes \in Seq(Nat) /\ Len(sizes) = last
  BY <1>1, SizesType
<1>3. \A k \in 1..last : IntervalHeaderBytes + data[k] <= sizes[k]
  BY DEF DataBytes, Sizes, Size
<1>4. n.curIntervalsSize = SumUpTo(sizes, last) /\ VarOffset(n.intervals, last) = SumUpTo(data, last)
  BY DEF IsNode, VarOffset
<1> HIDE DEF data, sizes
<1>5. SumUpTo(data, last) + last * IntervalHeaderBytes <= SumUpTo(sizes, last)
  BY <1>2, <1>3, SumWithHeaders
<1>6. SumUpTo(data, last) \in Nat
  BY <1>2, SumOf
<1> HIDE DEF last
<1>7. /\ Len(n.children) * ChildPointerBytes \in Nat /\ NodeHeaderBytes \in Nat
      /\ last * IntervalHeaderBytes \in Nat /\ NodeSize \in Nat
  BY <1>1, <1>2, Widths DEF ChildPointerBytes, NodeHeaderBytes, IntervalHeaderBytes
<1>8. \A header, children, intervals, offset, size \in Nat :
         offset + intervals <= size /\ header + children + size <= NodeSize
            => header + children + intervals + offset <= NodeSize
  BY <1>7
<1>9. SUFFICES ASSUME NodeHeaderBytes + Len(n.children) * ChildPointerBytes
                         + n.curIntervalsSize <= NodeSize
               PROVE  HasRoom(n)
  BY DEF FitsBuffer, SerializedSize
<1>10. NodeHeaderBytes + Len(n.children) * ChildPointerBytes
          + last * IntervalHeaderBytes + SumUpTo(data, last) <= NodeSize
  BY <1>1, <1>4, <1>5, <1>6, <1>7, <1>8, <1>9
<1>11. QED
  BY <1>4, <1>10 DEF HasRoom, last

\* Where each part is, from the numbers of children and of intervals.
LEMMA HeaderPlaced ==
    ASSUME NEW n
    PROVE  HeaderPart(n).at = 0 /\ HeaderPart(n).bytes = 32
BY DEF HeaderPart, Part, NodeHeaderBytes

LEMMA ChildPlaced ==
    ASSUME NEW n, NEW k \in 1..Len(n.children)
    PROVE  ChildPart(n, k).at = 32 + (k - 1) * 16 /\ ChildPart(n, k).bytes = 16
BY DEF ChildPart, Part, ChildAt, NodeHeaderBytes, ChildPointerBytes

LEMMA IntervalPlaced ==
    ASSUME NEW n, IsNode(n), NEW k \in 1..Len(n.intervals)
    PROVE  /\ IntervalPart(n, k).at = 32 + Len(n.children) * 16 + (k - 1) * 24
           /\ IntervalPart(n, k).bytes = 24
<1>1. Len(n.children) \in Nat /\ Len(n.intervals) \in Nat
  BY DEF IsNode, NodeFields
<1>2. QED
  BY <1>1 DEF IntervalPart, Part, IntervalAt, ChildAt, NodeHeaderBytes,
              ChildPointerBytes, IntervalHeaderBytes

LEMMA DataPlaced ==
    ASSUME NEW n, IsNode(n), NEW k \in WithData(n)
    PROVE  /\ DataPart(n, k).at = NodeSize - VarOffset(n.intervals, k)
           /\ DataPart(n, k).bytes =
                 VarOffset(n.intervals, k) - VarOffset(n.intervals, k - 1)
           /\ DataPart(n, k).bytes > 0
           /\ VarOffset(n.intervals, k) \in Nat /\ VarOffset(n.intervals, k - 1) \in Nat
           /\ VarOffset(n.intervals, k - 1) < VarOffset(n.intervals, k)
           /\ VarOffset(n.intervals, k) <= VarOffset(n.intervals, Len(n.intervals))
<1>1. Len(n.intervals) \in Nat
  BY DEF IsNode, NodeFields
<1>2. k \in 1..Len(n.intervals) /\ n.intervals[k].data.bytes > 0
  BY DEF WithData, HasData
<1>3. /\ k \in 0..Len(n.intervals) /\ k - 1 \in 0..Len(n.intervals)
      /\ Len(n.intervals) \in 0..Len(n.intervals) /\ k <= Len(n.intervals)
  BY <1>1, <1>2
<1>4. /\ VarOffset(n.intervals, k) \in Nat /\ VarOffset(n.intervals, k - 1) \in Nat
      /\ VarOffset(n.intervals, k) =
            VarOffset(n.intervals, k - 1) + n.intervals[k].data.bytes
      /\ n.intervals[k].data.bytes \in Nat
      /\ VarOffset(n.intervals, k) <= VarOffset(n.intervals, Len(n.intervals))
  BY <1>2, <1>3, Offsets
<1>5. /\ DataPart(n, k).at = NodeSize - VarOffset(n.intervals, k)
      /\ DataPart(n, k).bytes = n.intervals[k].data.bytes
  BY DEF DataPart, Part
<1>6. QED
  BY <1>2, <1>4, <1>5

Before(p, q) == p.at + p.bytes <= q.at

LEMMA PartsInOrder ==
    ASSUME NEW n, IsNode(n), HasRoom(n)
    PROVE  /\ \A k \in 1..Len(n.children) : Before(HeaderPart(n), ChildPart(n, k))
           /\ \A k \in 1..Len(n.intervals) : Before(HeaderPart(n), IntervalPart(n, k))
           /\ \A k \in WithData(n) : Before(HeaderPart(n), DataPart(n, k))
           /\ \A j, k \in 1..Len(n.children) :
                 j < k => Before(ChildPart(n, j), ChildPart(n, k))
           /\ \A j \in 1..Len(n.children), k \in 1..Len(n.intervals) :
                 Before(ChildPart(n, j), IntervalPart(n, k))
           /\ \A j \in 1..Len(n.children), k \in WithData(n) :
                 Before(ChildPart(n, j), DataPart(n, k))
           /\ \A j, k \in 1..Len(n.intervals) :
                 j < k => Before(IntervalPart(n, j), IntervalPart(n, k))
           /\ \A j \in 1..Len(n.intervals), k \in WithData(n) :
                 Before(IntervalPart(n, j), DataPart(n, k))
           /\ \A j, k \in WithData(n) : j < k => Before(DataPart(n, k), DataPart(n, j))
<1> DEFINE children == Len(n.children)
           intervals == Len(n.intervals)
           offset(k) == VarOffset(n.intervals, k)
<1>1. children \in Nat /\ intervals \in Nat /\ NodeSize \in Nat
  BY Widths DEF IsNode, NodeFields
<1>2. offset(intervals) \in Nat
  BY <1>1, Offsets
<1>3. 32 + children * 16 + intervals * 24 + offset(intervals) <= NodeSize
  BY DEF HasRoom, NodeHeaderBytes, ChildPointerBytes, IntervalHeaderBytes
<1>4. HeaderPart(n).at = 0 /\ HeaderPart(n).bytes = 32
  BY HeaderPlaced
<1>5. \A k \in 1..children :
         ChildPart(n, k).at = 32 + (k - 1) * 16 /\ ChildPart(n, k).bytes = 16
  BY ChildPlaced
<1>6. \A k \in 1..intervals :
         /\ IntervalPart(n, k).at = 32 + children * 16 + (k - 1) * 24
         /\ IntervalPart(n, k).bytes = 24
  BY IntervalPlaced
<1>7. \A k \in WithData(n) :
         /\ DataPart(n, k).at = NodeSize - offset(k)
         /\ DataPart(n, k).bytes = offset(k) - offset(k - 1)
         /\ offset(k) \in Nat /\ offset(k - 1) \in Nat /\ offset(k) <= offset(intervals)
  BY DataPlaced
<1>8. \A j, k \in WithData(n) : j < k => offset(j) <= offset(k - 1)
  <2>1. SUFFICES ASSUME NEW j \in WithData(n), NEW k \in WithData(n), j < k
                 PROVE  offset(j) <= offset(k - 1)
    OBVIOUS
  <2>2. j \in 0..intervals /\ k - 1 \in 0..intervals /\ j <= k - 1
    BY <1>1, <2>1 DEF WithData
  <2> HIDE DEF intervals
  <2>3. QED
    BY <2>2, Offsets DEF intervals
<1> HIDE DEF children, intervals, offset
<1>9. /\ \A k \in 1..children : Before(HeaderPart(n), ChildPart(n, k))
      /\ \A k \in 1..intervals : Before(HeaderPart(n), IntervalPart(n, k))
  BY <1>1, <1>4, <1>5, <1>6 DEF Before
<1>10. \A j, k \in 1..children : j < k => Before(ChildPart(n, j), ChildPart(n, k))
  BY <1>1, <1>5 DEF Before
<1>11. \A j \in 1..children, k \in 1..intervals :
          Before(ChildPart(n, j), IntervalPart(n, k))
  BY <1>1, <1>5, <1>6 DEF Before
<1>12. \A j, k \in 1..intervals : j < k => Before(IntervalPart(n, j), IntervalPart(n, k))
  BY <1>1, <1>6 DEF Before
<1>13. \A k \in WithData(n) :
          32 + children * 16 + intervals * 24 <= DataPart(n, k).at
  <2> TAKE k \in WithData(n)
  <2>1. DataPart(n, k).at = NodeSize - offset(k) /\ offset(k) \in Nat /\ offset(k) <= offset(intervals)
    BY <1>7
  <2>2. QED
    BY <1>1, <1>2, <1>3, <2>1
<1>14. \A k \in WithData(n) : DataPart(n, k).at \in Int
  BY <1>1, <1>7
<1>15. \A k \in WithData(n) : Before(HeaderPart(n), DataPart(n, k))
  BY <1>1, <1>4, <1>13, <1>14 DEF Before
<1>16. \A j \in 1..children, k \in WithData(n) : Before(ChildPart(n, j), DataPart(n, k))
  BY <1>1, <1>5, <1>13, <1>14 DEF Before
<1>17. \A j \in 1..intervals, k \in WithData(n) :
          Before(IntervalPart(n, j), DataPart(n, k))
  BY <1>1, <1>6, <1>13, <1>14 DEF Before
<1>18. \A j, k \in WithData(n) : j < k => Before(DataPart(n, k), DataPart(n, j))
  BY <1>1, <1>7, <1>8 DEF Before
<1>19. QED
  BY <1>9, <1>10, <1>11, <1>12, <1>15, <1>16, <1>17, <1>18 DEF children, intervals

LEMMA PartsInBuffer ==
    ASSUME NEW n, IsNode(n), HasRoom(n), NEW p \in SerializedParts(n)
    PROVE  /\ p.at \in Nat /\ p.bytes \in Nat \ {0} /\ p.at + p.bytes <= NodeSize
<1> DEFINE children == Len(n.children)
           intervals == Len(n.intervals)
           offset(k) == VarOffset(n.intervals, k)
<1>1. children \in Nat /\ intervals \in Nat /\ NodeSize \in Nat
  BY Widths DEF IsNode, NodeFields
<1>2. offset(intervals) \in Nat
  BY <1>1, Offsets
<1>3. 32 + children * 16 + intervals * 24 + offset(intervals) <= NodeSize
  BY DEF HasRoom, NodeHeaderBytes, ChildPointerBytes, IntervalHeaderBytes
<1>4. CASE p = HeaderPart(n)
  <2>1. p.at = 0 /\ p.bytes = 32
    BY <1>4, HeaderPlaced
  <2> HIDE DEF children, intervals, offset
  <2>2. QED
    BY <1>1, <1>2, <1>3, <2>1
<1>5. ASSUME NEW k \in 1..children, p = ChildPart(n, k)
      PROVE  p.at \in Nat /\ p.bytes \in Nat \ {0} /\ p.at + p.bytes <= NodeSize
  <2>1. p.at = 32 + (k - 1) * 16 /\ p.bytes = 16
    BY <1>5, ChildPlaced
  <2> HIDE DEF children, intervals, offset
  <2>2. QED
    BY <1>1, <1>2, <1>3, <2>1
<1>6. ASSUME NEW k \in 1..intervals, p = IntervalPart(n, k)
      PROVE  p.at \in Nat /\ p.bytes \in Nat \ {0} /\ p.at + p.bytes <= NodeSize
  <2>1. p.at = 32 + children * 16 + (k - 1) * 24 /\ p.bytes = 24
    BY <1>6, IntervalPlaced
  <2> HIDE DEF children, intervals, offset
  <2>2. QED
    BY <1>1, <1>2, <1>3, <2>1
<1>7. ASSUME NEW k \in WithData(n), p = DataPart(n, k)
      PROVE  p.at \in Nat /\ p.bytes \in Nat \ {0} /\ p.at + p.bytes <= NodeSize
  <2>1. /\ p.at = NodeSize - offset(k) /\ p.bytes = offset(k) - offset(k - 1)
        /\ p.bytes > 0 /\ offset(k) \in Nat /\ offset(k - 1) \in Nat
        /\ offset(k) <= offset(intervals)
    BY <1>7, DataPlaced
  <2> HIDE DEF children, intervals, offset
  <2>2. offset(k) <= NodeSize
    BY <1>1, <1>2, <1>3, <2>1
  <2>3. QED
    BY <1>1, <2>1, <2>2
<1>8. QED
  BY <1>4, <1>5, <1>6, <1>7, PartsAre

LEMMA PartsApart ==
    ASSUME NEW n, IsNode(n), HasRoom(n)
    PROVE  Apart(SerializedParts(n))
<1> DEFINE Clear(p, q) == Before(p, q) \/ Before(q, p)
<1>0. Len(n.children) \in Nat /\ Len(n.intervals) \in Nat
  BY DEF IsNode, NodeFields
<1>1. SUFFICES ASSUME NEW p \in SerializedParts(n), NEW q \in SerializedParts(n), p # q
               PROVE  Clear(p, q)
  <2>1. \A p \in SerializedParts(n) : 0 <= p.at /\ p.at + p.bytes <= NodeSize
    BY PartsInBuffer
  <2>2. QED
    BY <1>1, <2>1 DEF Apart, Before
<1>2. ASSUME NEW other \in SerializedParts(n), other # HeaderPart(n)
      PROVE  Before(HeaderPart(n), other)
  BY <1>2, PartsAre, PartsInOrder
<1>3. ASSUME NEW j \in 1..Len(n.children), NEW other \in SerializedParts(n),
             other # ChildPart(n, j), other # HeaderPart(n)
      PROVE  Clear(ChildPart(n, j), other)
  <2>1. ASSUME NEW k \in 1..Len(n.children), other = ChildPart(n, k)
        PROVE  Clear(ChildPart(n, j), other)
    <3>1. j < k \/ k < j
      BY <1>0, <1>3, <2>1
    <3>2. QED
      BY <2>1, <3>1, PartsInOrder
  <2>2. QED
    BY <1>3, <2>1, PartsAre, PartsInOrder
<1>4. ASSUME NEW j \in 1..Len(n.intervals), NEW k \in 1..Len(n.intervals),
             IntervalPart(n, j) # IntervalPart(n, k)
      PROVE  Clear(IntervalPart(n, j), IntervalPart(n, k))
  <2>1. j < k \/ k < j
    BY <1>0, <1>4
  <2>2. QED
    BY <2>1, PartsInOrder
<1>5. ASSUME NEW j \in WithData(n), NEW k \in WithData(n), DataPart(n, j) # DataPart(n, k)
      PROVE  Clear(DataPart(n, j), DataPart(n, k))
  <2>1. j < k \/ k < j
    BY <1>0, <1>5 DEF WithData
  <2>2. QED
    BY <2>1, PartsInOrder
<1>6. CASE p = HeaderPart(n) \/ q = HeaderPart(n)
  BY <1>1, <1>2, <1>6
<1>7. CASE p # HeaderPart(n) /\ q # HeaderPart(n)
  <2>1. CASE \E j \in 1..Len(n.children) : p = ChildPart(n, j) \/ q = ChildPart(n, j)
    BY <1>1, <1>3, <1>7, <2>1
  <2>2. CASE \A j \in 1..Len(n.children) : p # ChildPart(n, j) /\ q # ChildPart(n, j)
    <3>1. /\ \/ \E j \in 1..Len(n.intervals) : p = IntervalPart(n, j)
             \/ \E j \in WithData(n) : p = DataPart(n, j)
          /\ \/ \E j \in 1..Len(n.intervals) : q = IntervalPart(n, j)
             \/ \E j \in WithData(n) : q = DataPart(n, j)
      BY <1>7, <2>2, PartsAre
    <3>2. \A j \in 1..Len(n.intervals), k \in WithData(n) :
             Before(IntervalPart(n, j), DataPart(n, k))
      BY PartsInOrder
    <3>3. QED
      BY <1>1, <1>4, <1>5, <3>1, <3>2
  <2>3. QED
    BY <2>1, <2>2
<1>8. QED
  BY <1>6, <1>7

(***************************************************************************)
(* Reading the parts of a serialized node that are apart.                  *)
(***************************************************************************)
LEMMA PartsHaveBytes ==
    ASSUME NEW n, IsNode(n), NEW p \in SerializedParts(n)
    PROVE  p.at \in Int /\ p.bytes \in Nat \ {0}
<1>1. Len(n.children) \in Nat /\ Len(n.intervals) \in Nat /\ NodeSize \in Nat
  BY Widths DEF IsNode, NodeFields
<1>2. CASE p = HeaderPart(n)
  <2>1. p.at = 0 /\ p.bytes = 32
    BY <1>2, HeaderPlaced
  <2>2. QED
    BY <2>1
<1>3. ASSUME NEW k \in 1..Len(n.children), p = ChildPart(n, k)
      PROVE  p.at \in Int /\ p.bytes \in Nat \ {0}
  <2>1. p.at = 32 + (k - 1) * 16 /\ p.bytes = 16
    BY <1>3, ChildPlaced
  <2>2. QED
    BY <1>1, <2>1
<1>4. ASSUME NEW k \in 1..Len(n.intervals), p = IntervalPart(n, k)
      PROVE  p.at \in Int /\ p.bytes \in Nat \ {0}
  <2>1. p.at = 32 + Len(n.children) * 16 + (k - 1) * 24 /\ p.bytes = 24
    BY <1>4, IntervalPlaced
  <2>2. QED
    BY <1>1, <2>1
<1>5. ASSUME NEW k \in WithData(n), p = DataPart(n, k)
      PROVE  p.at \in Int /\ p.bytes \in Nat \ {0}
  <2>1. /\ p.at = NodeSize - VarOffset(n.intervals, k)
        /\ p.bytes = VarOffset(n.intervals, k) - VarOffset(n.intervals, k - 1)
        /\ p.bytes > 0
        /\ VarOffset(n.intervals, k) \in Nat /\ VarOffset(n.intervals, k - 1) \in Nat
    BY <1>5, DataPlaced
  <2> DEFINE offset == VarOffset(n.intervals, k)
             before == VarOffset(n.intervals, k - 1)
  <2>2. /\ p.at = NodeSize - offset /\ p.bytes = offset - before /\ p.bytes > 0
        /\ offset \in Nat /\ before \in Nat
    BY <2>1
  <2> HIDE DEF offset, before
  <2>3. QED
    BY <1>1, <2>2
<1>6. QED
  BY <1>2, <1>3, <1>4, <1>5, PartsAre

LEMMA AtPart ==
    ASSUME NEW n, IsNode(n), buffer = SerializedParts(n), Apart(buffer),
           NEW p \in SerializedParts(n)
    PROVE  At(p.at) = p.content
<1>1. ASSUME NEW q \in SerializedParts(n), q.at = p.at PROVE q = p
  <2>1. SUFFICES ASSUME q # p PROVE FALSE
    OBVIOUS
  <2>2. q \in buffer \ {p} /\ p \in buffer
    BY <2>1
  <2>3. p.at + p.bytes <= q.at \/ q.at + q.bytes <= p.at
    BY <2>2 DEF Apart
  <2>4. p.at \in Int /\ p.bytes \in Nat \ {0} /\ q.bytes \in Nat \ {0}
    BY PartsHaveBytes
  <2>5. QED
    BY <1>1, <2>3, <2>4
<1>2. p = CHOOSE part \in buffer : part.at = p.at
  BY <1>1
<1>3. QED
  BY <1>2 DEF At

LEMMA ReadHeaderIs ==
    ASSUME NEW n, IsNode(n), buffer = SerializedParts(n), Apart(buffer)
    PROVE  /\ ReadHeader = HeaderContent(n)
           /\ ReadClosed <=> n.closed
           /\ ReadCount = Len(n.children)
<1> DEFINE count == Len(n.children)
           flag == IF n.closed THEN 1 ELSE 0
<1>1. HeaderPart(n) \in SerializedParts(n)
  BY PartsAre
<1>2. HeaderPart(n).at = 0 /\ HeaderPart(n).content = HeaderContent(n)
  BY HeaderPlaced DEF HeaderPart, Part
<1>3. ReadHeader = HeaderContent(n)
  <2>1. At(HeaderPart(n).at) = HeaderPart(n).content
    BY <1>1, AtPart
  <2>2. QED
    BY <1>2, <2>1 DEF ReadHeader
<1>4. count \in Nat /\ flag \in 0..1 /\ count <= MaxChildren /\ n.closed \in BOOLEAN
  BY DEF IsNode, NodeFields
<1>5. /\ FlagMod \in Nat \ {0} /\ FlagMod % 2 = 0 /\ flag \in 0..(FlagMod - 1)
      /\ WordMod \in Nat \ {0} /\ MaxChildren \in Nat /\ MaxChildren * FlagMod < WordMod
  <2>1. FlagMod >= 2
    BY Widths
  <2>2. QED
    BY <1>4, <2>1, Widths
<1> HIDE DEF count, flag
<1>6. count * FlagMod \in Nat /\ count * FlagMod < WordMod
  <2>1. count * FlagMod <= MaxChildren * FlagMod
    BY <1>4, <1>5
  <2>2. count * FlagMod \in Nat /\ MaxChildren * FlagMod \in Nat
    BY <1>4, <1>5
  <2>3. QED
    BY <1>5, <2>1, <2>2
<1>7. Unsigned(count * FlagMod, WordMod) = count * FlagMod
  <2>1. count * FlagMod \in 0..(WordMod - 1)
    BY <1>5, <1>6
  <2>2. QED
    BY <1>5, <2>1, UnsignedIs
<1>8. HeaderContent(n).childrenCountFlags = count * FlagMod + flag
  BY <1>7 DEF HeaderContent, count, flag
<1>9. (count * FlagMod + flag) \div FlagMod = count
  BY <1>4, <1>5, Unpacked
<1>10. (count * FlagMod + flag) % 2 = flag
  BY <1>4, <1>5, PackedParity
<1>11. flag = 1 <=> n.closed
  BY DEF flag
<1>12. QED
  BY <1>3, <1>8, <1>9, <1>10, <1>11 DEF ReadClosed, ReadCount, count

LEMMA TypesPacked ==
    ASSUME NEW type \in StandardTypes, NEW low \in 0..(KeyMod - 1)
    PROVE  /\ (Unsigned(type * KeyMod, WordMod) + low) \div KeyMod = type
           /\ (Unsigned(type * KeyMod, WordMod) + low) % KeyMod = low
<1>1. type \in Nat /\ type <= 6 /\ KeyMod \in Nat \ {0} /\ WordMod \in Nat \ {0}
  BY Widths DEF StandardTypes
<1>2. type * KeyMod \in Nat /\ type * KeyMod <= 6 * KeyMod
  BY <1>1
<1>3. 6 * KeyMod < WordMod
  BY <1>1, Widths
<1>4. Unsigned(type * KeyMod, WordMod) = type * KeyMod
  <2>1. type * KeyMod \in 0..(WordMod - 1)
    BY <1>1, <1>2, <1>3
  <2>2. QED
    BY <1>1, <2>1, UnsignedIs
<1>5. /\ (type * KeyMod + low) \div KeyMod = type
      /\ (type * KeyMod + low) % KeyMod = low
  BY <1>1, Unpacked
<1>6. QED
  BY <1>4, <1>5

(***************************************************************************)
(* The values read back.                                                   *)
(***************************************************************************)
LEMMA BeforeEndIs ==
    ASSUME NEW string \in Seq(Nat)
    PROVE  /\ BeforeEnd(string) \in Seq(Nat)
           /\ IsPrefix(BeforeEnd(string), string)
           /\ EndOfString \notin Range(BeforeEnd(string))
           /\ BeforeEnd(string) # string =>
                 /\ string[Len(BeforeEnd(string)) + 1] = EndOfString
                 /\ Len(BeforeEnd(string)) + 1 \in 1..Len(string)
<1> DEFINE ends == {k \in 1..Len(string) : string[k] = EndOfString} \cup {Len(string) + 1}
           last == Min(ends) - 1
           kept == SubSeq(string, 1, last)
<1>1. Len(string) \in Nat
  OBVIOUS
<1>2. ends \in SUBSET Nat /\ ends # {}
  BY <1>1
<1>3. Min(ends) \in ends /\ \A k \in ends : Min(ends) <= k
  <2>1. \E m \in ends : \A k \in ends : m <= k
    <3> HIDE DEF ends
    <3>1. QED
      BY <1>2, LeastNat
  <2>2. QED
    BY <2>1 DEF Min
<1>4. Min(ends) \in 1..(Len(string) + 1)
  BY <1>1, <1>3
<1>5. last \in 0..Len(string)
  BY <1>1, <1>4
<1>6. \A k \in 1..last : string[k] # EndOfString
  <2>1. SUFFICES ASSUME NEW k \in 1..last, string[k] = EndOfString PROVE FALSE
    OBVIOUS
  <2>2. k < Min(ends) /\ k \in 1..Len(string)
    <3> DEFINE min == Min(ends)
    <3>1. min \in 1..(Len(string) + 1) /\ k \in 1..(min - 1)
      BY <1>4, <2>1
    <3> HIDE DEF min, ends
    <3>2. k < min /\ k \in 1..Len(string)
      BY <1>1, <3>1
    <3>3. QED
      BY <3>2 DEF min
  <2>3. k \in ends
    BY <2>1, <2>2
  <2> HIDE DEF ends
  <2>4. Min(ends) <= k
    BY <1>3, <2>3
  <2>5. QED
    BY <1>4, <2>2, <2>4
<1>7. last # Len(string) =>
         string[last + 1] = EndOfString /\ last + 1 \in 1..Len(string)
  BY <1>1, <1>3, <1>4
<1> HIDE DEF ends
<1>8. last \in Int /\ \A k \in 1..last : string[k] \in Nat
  BY <1>1, <1>5
<1> HIDE DEF last
<1>9. /\ kept \in Seq(Nat) /\ Len(kept) = last
      /\ \A k \in 1..last : kept[k] = string[k]
  <2>1. /\ kept \in Seq(Nat)
        /\ Len(kept) = IF 1 <= last THEN last - 1 + 1 ELSE 0
        /\ \A k \in 1..(last - 1 + 1) : kept[k] = string[1 + k - 1]
    BY <1>8, SubSeqProperties
  <2>2. last - 1 + 1 = last /\ \A k \in 1..last : 1 + k - 1 = k
    BY <1>8
  <2>3. QED
    BY <1>5, <2>1, <2>2
<1>10. last = Len(string) => kept = string
  BY SubSeqFull
<1>11. EndOfString \notin Range(kept)
  <2>1. DOMAIN kept = 1..last
    BY <1>9
  <2> HIDE DEF kept
  <2>2. QED
    BY <1>6, <1>9, <2>1 DEF Range
<1>12. BeforeEnd(string) = kept
  BY DEF BeforeEnd, last, ends
<1> HIDE DEF kept
<1>13. IsPrefix(kept, string)
  <2>1. Len(kept) <= Len(string)
    BY <1>1, <1>5, <1>9
  <2>2. SubSeq(kept, 1, Len(kept)) = kept
    BY <1>9, SubSeqFull
  <2>3. SubSeq(string, 1, Len(kept)) = kept
    BY <1>9 DEF kept
  <2>4. QED
    BY <2>1, <2>2, <2>3 DEF IsPrefix
<1>14. QED
  BY <1>7, <1>9, <1>10, <1>11, <1>12, <1>13

\* What is left of a value: all of it, but a string ends before the first
\* character that looks like its end, a float loses less than one, and one that
\* no word can hold is lost.
ValueKept(type, value, kept) ==
    IF type = STR
    THEN /\ IsPrefix(kept, value) /\ EndOfString \notin Range(kept)
         /\ kept # value => value[Len(kept) + 1] = EndOfString
    ELSE IF type = FLOAT32
    THEN Truncated(value[1]) \in Word =>
            /\ kept[1] % 2 = 0
            /\ kept[1] - value[1] \in -1..1
            /\ value[1] >= 0 => kept[1] <= value[1]
    ELSE kept = value

\* The key keeps its low bits, and the type does not get the others.
IntervalKept(written, kept) ==
    /\ kept.type = written.type
    /\ kept.key < KeyMod /\ (written.key - kept.key) % KeyMod = 0
    /\ kept.begin = written.begin /\ kept.end = written.end
    /\ ValueKept(written.type, written.value, kept.value)
    /\ kept.value = written.value => kept.size = Size(written)

\* What becomes of a value: it can be set again, and something is left of it.
LEMMA ValueReadBack ==
    ASSUME NEW interval, WellFormed(interval), NEW word \in Word,
           HasData(interval) \/ word = interval.fixed
    PROVE  LET kept == Value(interval.type, word, interval.data.content)
           IN  /\ HasType(interval.type, kept)
               /\ ValueKept(interval.type, interval.value, kept)
<1> DEFINE type == interval.type
           value == interval.value
           content == interval.data.content
           kept == Value(type, word, content)
<1>1. /\ type \in StandardTypes /\ HasType(type, value)
      /\ interval.fixed = Fixed(type, value, interval.fixed)
      /\ interval.data = Data(type, value)
  BY DEF WellFormed, Stored
<1>2. HasData(interval) <=> type \in {STR, INT64, UINT64}
  BY <1>1, DataType DEF HasData
<1>3. type \notin {STR, INT64, UINT64} => word = interval.fixed
  BY <1>2
<1> HIDE DEF type, value
<1>4. CASE type = INT32
  <2>1. value[1] \in Numbers(INT32) /\ value = <<value[1]>>
    BY <1>1, <1>4, NumberValue DEF NumberTypes
  <2>2. word = Unsigned(value[1], WordMod)
    BY <1>1, <1>3, <1>4 DEF Fixed
  <2>3. value[1] \in -(WordMod \div 2)..(WordMod \div 2 - 1)
    BY <2>1 DEF Numbers
  <2>4. Signed(word, WordMod) = value[1]
    BY <2>2, <2>3, Widths, SignedOfUnsigned
  <2>5. kept = value
    BY <1>4, <2>1, <2>4 DEF Value
  <2>6. QED
    BY <1>1, <1>4, <2>5 DEF ValueKept, type, value
<1>5. CASE type = UINT32
  <2>1. value[1] \in Numbers(UINT32) /\ value = <<value[1]>>
    BY <1>1, <1>5, NumberValue DEF NumberTypes
  <2>2. word = Unsigned(value[1], WordMod)
    BY <1>1, <1>3, <1>5 DEF Fixed
  <2>3. value[1] \in 0..(WordMod - 1)
    BY <2>1 DEF Numbers, Word
  <2>4. word = value[1]
    BY <2>2, <2>3, Widths, UnsignedIs
  <2>5. kept = value
    BY <1>5, <2>1, <2>4 DEF Value
  <2>6. QED
    BY <1>1, <1>5, <2>5 DEF ValueKept, type, value
<1>6. CASE type = FLOAT32
  <2>1. value[1] \in Int
    BY <1>1, <1>6, NumberValue DEF NumberTypes
  <2>2. word \in Nat /\ kept = <<2 * word>>
    BY <1>6, Widths DEF Value, Word
  <2>3. Len(kept) = 1 /\ kept \in Seq(Int) /\ kept[1] = 2 * word
    BY <2>2
  <2>4. HasType(type, kept)
    BY <1>6, <2>3 DEF HasType, Numbers
  <2>5. ASSUME Truncated(value[1]) \in Word
        PROVE  /\ kept[1] % 2 = 0 /\ kept[1] - value[1] \in -1..1
               /\ value[1] >= 0 => kept[1] <= value[1]
    <3>1. word = Truncated(value[1])
      BY <1>1, <1>3, <1>6, <2>5 DEF Fixed
    <3>2. (2 * word) % 2 = 0
      BY <2>2
    <3>3. QED
      BY <2>1, <2>3, <3>1, <3>2, TruncatedIs
  <2>6. ValueKept(type, value, kept)
    BY <1>6, <2>5 DEF ValueKept
  <2>7. QED
    BY <2>4, <2>6 DEF type, value
<1>7. CASE type = INT64
  <2>1. value[1] \in Numbers(INT64) /\ value = <<value[1]>>
    BY <1>1, <1>7, NumberValue DEF NumberTypes
  <2>2. content = <<Unsigned(value[1], LongMod)>>
    BY <1>1, <1>7, DataType DEF LongData
  <2>3. value[1] \in -(LongMod \div 2)..(LongMod \div 2 - 1)
    BY <2>1 DEF Numbers
  <2>4. Signed(content[1], LongMod) = value[1]
    <3>1. content[1] = Unsigned(value[1], LongMod)
      BY <2>2
    <3>2. Signed(Unsigned(value[1], LongMod), LongMod) = value[1]
      BY <2>3, Widths, SignedOfUnsigned
    <3>3. QED
      BY <3>1, <3>2
  <2>5. kept = value
    BY <1>7, <2>1, <2>4 DEF Value
  <2>6. QED
    BY <1>1, <1>7, <2>5 DEF ValueKept, type, value
<1>8. CASE type = UINT64
  <2>1. value[1] \in Numbers(UINT64) /\ value = <<value[1]>>
    BY <1>1, <1>8, NumberValue DEF NumberTypes
  <2>2. content = <<Unsigned(value[1], LongMod)>>
    BY <1>1, <1>8, DataType DEF LongData
  <2>3. value[1] \in 0..(LongMod - 1)
    BY <2>1 DEF Numbers
  <2>4. content = value
    BY <2>1, <2>2, <2>3, Widths, UnsignedIs
  <2>5. kept = value
    BY <1>8, <2>4 DEF Value
  <2>6. QED
    BY <1>1, <1>8, <2>5 DEF ValueKept, type, value
<1>9. CASE type = STR
  <2>1. value \in Seq(Nat) /\ content = value
    BY <1>1, <1>9, DataType DEF HasType, StringData
  <2>2. kept = BeforeEnd(value)
    BY <1>9, <2>1 DEF Value
  <2>3. HasType(type, kept)
    BY <1>9, <2>1, <2>2, BeforeEndIs DEF HasType
  <2>4. ValueKept(type, value, kept)
    BY <1>9, <2>1, <2>2, BeforeEndIs DEF ValueKept
  <2>5. QED
    BY <2>3, <2>4 DEF type, value
<1>10. CASE type = NUL
  <2>1. value = <<>> /\ kept = <<>>
    BY <1>1, <1>10 DEF HasType, Value
  <2>2. QED
    BY <1>1, <1>10, <2>1 DEF ValueKept, type, value
<1>11. QED
  BY <1>1, <1>4, <1>5, <1>6, <1>7, <1>8, <1>9, <1>10 DEF StandardTypes

KeptWord(n, k) ==
    IF HasData(n.intervals[k]) THEN VarOffset(n.intervals, k) ELSE n.intervals[k].fixed

KeptOffer(n, k) ==
    [type |-> n.intervals[k].type, key |-> Unsigned(n.intervals[k].key, KeyMod),
     begin |-> n.intervals[k].begin, end |-> n.intervals[k].end,
     value |-> Value(n.intervals[k].type, KeptWord(n, k), n.intervals[k].data.content)]

\* What the file keeps of an interval.
Kept(n, k) == NewInterval(KeptOffer(n, k), KeptWord(n, k))

\* An offset of data in the buffer is less than the node's size: a word holds it.
LEMMA OffsetsAreWords ==
    ASSUME NEW n, IsNode(n), Apart(SerializedParts(n)), NEW k \in WithData(n)
    PROVE  /\ VarOffset(n.intervals, k) \in Word
           /\ Unsigned(VarOffset(n.intervals, k), WordMod) = VarOffset(n.intervals, k)
<1> DEFINE offset == VarOffset(n.intervals, k)
<1>1. DataPart(n, k) \in SerializedParts(n)
  BY PartsAre
<1>2. 0 <= DataPart(n, k).at
  BY <1>1 DEF Apart
<1>3. DataPart(n, k).at = NodeSize - offset /\ offset \in Nat
  BY DataPlaced
<1> HIDE DEF offset
<1>4. offset <= NodeSize
  BY <1>2, <1>3, Widths
<1>5. offset \in 0..(WordMod - 1)
  BY <1>3, <1>4, Widths
<1>6. Unsigned(offset, WordMod) = offset
  BY <1>5, Widths, UnsignedIs
<1>7. QED
  BY <1>5, <1>6 DEF Word, offset

LEMMA KeptWordIs ==
    ASSUME NEW n, IsNode(n), Apart(SerializedParts(n)), NEW k \in 1..Len(n.intervals)
    PROVE  /\ KeptWord(n, k) \in Word
           /\ HasData(n.intervals[k]) \/ KeptWord(n, k) = n.intervals[k].fixed
           /\ IntervalContent(n.intervals[k], VarOffset(n.intervals, k)).value = KeptWord(n, k)
<1>1. n.intervals[k] \in Stored /\ n.intervals[k].fixed \in Word
  BY DEF IsNode, WellFormed, Stored
<1>2. CASE HasData(n.intervals[k])
  <2>1. k \in WithData(n)
    BY <1>2 DEF WithData
  <2>2. QED
    BY <1>2, <2>1, OffsetsAreWords DEF KeptWord, IntervalContent
<1>3. CASE ~HasData(n.intervals[k])
  BY <1>1, <1>3 DEF KeptWord, IntervalContent
<1>4. QED
  BY <1>2, <1>3

LEMMA ReadIntervalIs ==
    ASSUME NEW n, IsNode(n), buffer = SerializedParts(n), Apart(buffer),
           NEW k \in 1..Len(n.intervals)
    PROVE  ReadInterval(k) = Kept(n, k) /\ ReadType(k) = n.intervals[k].type
<1> DEFINE interval == n.intervals[k]
           header == IntervalContent(interval, VarOffset(n.intervals, k))
<1>1. /\ WellFormed(interval) /\ interval.type \in StandardTypes
      /\ HasType(interval.type, interval.value) /\ interval.key \in Nat
      /\ interval.data = Data(interval.type, interval.value)
  BY DEF IsNode, WellFormed, Stored
<1>2. ReadIntervalHeader(k) = header
  <2>1. IntervalPart(n, k) \in SerializedParts(n)
    BY PartsAre
  <2>2. At(IntervalPart(n, k).at) = IntervalPart(n, k).content
    BY <2>1, AtPart
  <2>3. /\ IntervalPart(n, k).at = IntervalAt(Len(n.children), k)
        /\ IntervalPart(n, k).content = header
    BY DEF IntervalPart, Part
  <2>4. ReadCount = Len(n.children)
    BY ReadHeaderIs
  <2>5. QED
    BY <2>2, <2>3, <2>4 DEF ReadIntervalHeader
<1>3. /\ header.begin = interval.begin /\ header.end = interval.end
      /\ header.typeKey = Unsigned(interval.type * KeyMod, WordMod)
                             + Unsigned(interval.key, KeyMod)
      /\ header.value = KeptWord(n, k)
  <2>1. header.value = KeptWord(n, k)
    BY KeptWordIs
  <2>2. QED
    BY <2>1 DEF IntervalContent
<1>4. Unsigned(interval.key, KeyMod) \in 0..(KeyMod - 1)
  <2>1. interval.key \in Int /\ KeyMod \in Nat \ {0}
    BY <1>1, Widths
  <2>2. QED
    BY <2>1, UnsignedIsIn
<1>5. /\ header.typeKey \div KeyMod = interval.type
      /\ header.typeKey % KeyMod = Unsigned(interval.key, KeyMod)
  BY <1>1, <1>3, <1>4, TypesPacked
<1>6. ReadType(k) = interval.type
  BY <1>2, <1>5 DEF ReadType
<1> DEFINE content == IF ReadType(k) \in {STR, INT64, UINT64}
                      THEN At(NodeSize - ReadIntervalHeader(k).value) ELSE <<>>
<1>7. content = interval.data.content
  <2>1. CASE interval.type \in {STR, INT64, UINT64}
    <3>1. HasData(interval) /\ k \in WithData(n)
      BY <1>1, <2>1, DataType DEF HasData, WithData
    <3>2. DataPart(n, k) \in SerializedParts(n)
      BY <3>1, PartsAre
    <3>3. At(DataPart(n, k).at) = DataPart(n, k).content
      BY <3>2, AtPart
    <3>4. /\ DataPart(n, k).at = NodeSize - VarOffset(n.intervals, k)
          /\ DataPart(n, k).content = interval.data.content
      BY DEF DataPart, Part
    <3>5. ReadIntervalHeader(k).value = VarOffset(n.intervals, k)
      BY <1>2, <1>3, <3>1 DEF KeptWord
    <3>6. At(NodeSize - ReadIntervalHeader(k).value) = interval.data.content
      BY <3>3, <3>4, <3>5
    <3>7. QED
      BY <1>6, <2>1, <3>6
  <2>2. CASE interval.type \notin {STR, INT64, UINT64}
    <3>1. interval.data = NoData
      BY <1>1, <2>2, DataType
    <3>2. QED
      BY <1>6, <2>2, <3>1 DEF NoData
  <2>3. QED
    BY <2>1, <2>2
<1>8. ReadInterval(k) =
         NewInterval([type |-> ReadType(k), key |-> ReadIntervalHeader(k).typeKey % KeyMod,
                      begin |-> ReadIntervalHeader(k).begin,
                      end |-> ReadIntervalHeader(k).end,
                      value |-> Value(ReadType(k), ReadIntervalHeader(k).value, content)],
                     ReadIntervalHeader(k).value)
  BY DEF ReadInterval
<1> HIDE DEF content, header
<1>9. QED
  BY <1>2, <1>3, <1>5, <1>6, <1>7, <1>8 DEF Kept, KeptOffer

LEMMA KeptIs ==
    ASSUME NEW n, IsNode(n), Apart(SerializedParts(n)), NEW k \in 1..Len(n.intervals)
    PROVE  /\ WellFormed(Kept(n, k)) /\ Kept(n, k).size = Size(Kept(n, k))
           /\ IntervalKept(n.intervals[k], Kept(n, k))
<1> DEFINE interval == n.intervals[k]
           offer == KeptOffer(n, k)
           kept == Kept(n, k)
<1>1. /\ WellFormed(interval) /\ interval \in Stored /\ interval.type \in StandardTypes
      /\ interval.key \in Nat /\ interval.begin \in Int /\ interval.end \in Int
      /\ interval.data = Data(interval.type, interval.value)
  BY DEF IsNode, WellFormed, Stored
<1>2. KeptWord(n, k) \in Word /\ (HasData(interval) \/ KeptWord(n, k) = interval.fixed)
  BY KeptWordIs
<1>3. /\ HasType(interval.type, offer.value)
      /\ ValueKept(interval.type, interval.value, offer.value)
  BY <1>1, <1>2, ValueReadBack DEF KeptOffer
<1>4. /\ offer.type = interval.type /\ offer.begin = interval.begin
      /\ offer.end = interval.end /\ offer.key = interval.key % KeyMod
  BY DEF KeptOffer, Unsigned
<1>5. interval.key % KeyMod \in Nat /\ interval.key % KeyMod < KeyMod
  <2>1. KeyMod \in Nat \ {0} /\ interval.key \in Int
    BY <1>1, Widths
  <2>2. Unsigned(interval.key, KeyMod) \in 0..(KeyMod - 1)
    BY <2>1, UnsignedIsIn
  <2> HIDE DEF interval
  <2>3. QED
    BY <2>1, <2>2 DEF Unsigned
<1>6. WellFormed(kept) /\ kept.size = Size(kept)
  <2> HIDE DEF offer, interval
  <2>1. QED
    BY <1>1, <1>2, <1>3, <1>4, <1>5, NewIntervalIs DEF Kept, offer
<1>7. /\ kept.type = offer.type /\ kept.key = offer.key /\ kept.begin = offer.begin
      /\ kept.end = offer.end /\ kept.value = offer.value
      /\ kept.data = Data(offer.type, offer.value)
  BY DEF Kept, NewInterval
<1>8. (interval.key - (interval.key % KeyMod)) % KeyMod = 0
  BY <1>1, Widths, KeyRest
<1>9. kept.value = interval.value => kept.size = Size(interval)
  BY <1>1, <1>4, <1>6, <1>7 DEF Size
<1> HIDE DEF interval, offer, kept
<1>10. IntervalKept(interval, kept)
  BY <1>3, <1>4, <1>5, <1>7, <1>8, <1>9 DEF IntervalKept
<1>11. QED
  BY <1>6, <1>10 DEF interval, kept

(***************************************************************************)
(* The node read back. The recursive function of ReadNode exists, as that  *)
(* of SumUpTo does.                                                        *)
(***************************************************************************)
IsFill(filled, start, intervals, n) ==
    filled = [k \in 0..n |->
                 IF k = 0 THEN start ELSE AddIntervalToNode(filled[k - 1], intervals[k])]

LEMMA FillExists ==
    ASSUME NEW last \in Nat, NEW start, NEW intervals
    PROVE  \E filled : IsFill(filled, start, intervals, last)
<1> DEFINE reached == {n \in 0..last : \E filled : IsFill(filled, start, intervals, n)}
<1>1. 0 \in reached
  <2>1. IsFill([k \in 0..0 |-> start], start, intervals, 0)
    BY DEF IsFill
  <2>2. QED
    BY <2>1
<1>2. ASSUME NEW n \in 1..last, n - 1 \in reached PROVE n \in reached
  <2>1. PICK filled : IsFill(filled, start, intervals, n - 1)
    BY <1>2
  <2> DEFINE Add(k, before) == AddIntervalToNode(before, intervals[k])
             next == [k \in 0..n |-> IF k = n THEN Add(n, filled[n - 1]) ELSE filled[k]]
             other == [k \in 0..n |-> IF k = 0 THEN start ELSE Add(k, next[k - 1])]
  <2>2. filled[0] = start /\ \A k \in 1..(n - 1) : filled[k] = Add(k, filled[k - 1])
    BY <2>1 DEF IsFill
  <2> HIDE DEF Add
  <2>3. ASSUME NEW k \in 0..n PROVE next[k] = other[k]
    <3>1. CASE k = 0
      BY <2>2, <3>1
    <3>2. CASE k \in 1..(n - 1)
      BY <2>2, <3>2
    <3>3. CASE k = n
      BY <3>3
    <3>4. QED
      BY <3>1, <3>2, <3>3
  <2>4. next = [k \in 0..n |-> next[k]] /\ other = [k \in 0..n |-> other[k]]
    OBVIOUS
  <2>5. next = other
    <3> HIDE DEF next, other
    <3>1. QED
      BY <2>3, <2>4
  <2>6. IsFill(next, start, intervals, n)
    <3>1. next = [k \in 0..n |-> IF k = 0 THEN start ELSE Add(k, next[k - 1])]
      BY <2>5
    <3> HIDE DEF next
    <3>2. QED
      BY <3>1 DEF IsFill, Add
  <2>7. QED
    BY <2>6
<1>3. last \in reached
  <2> HIDE DEF reached
  <2>1. QED
    BY <1>1, <1>2, Induction
<1>4. QED
  BY <1>3

LEMMA AddIntervalFields ==
    ASSUME NEW n, IsNode(n), NEW interval
    PROVE  /\ AddIntervalToNode(n, interval).seq = n.seq
           /\ AddIntervalToNode(n, interval).parent = n.parent
           /\ AddIntervalToNode(n, interval).begin = n.begin
           /\ AddIntervalToNode(n, interval).closed = n.closed
           /\ AddIntervalToNode(n, interval).children = n.children
           /\ AddIntervalToNode(n, interval).intervals = Append(n.intervals, interval)
<1>1. n \in NodeFields
  BY DEF IsNode
<1>2. QED
  BY <1>1 DEF AddIntervalToNode, NodeFields

\* A node filled with well formed intervals has them all, in their order.
LEMMA FilledIs ==
    ASSUME NEW last \in Nat, NEW start, IsNode(start), start.intervals = <<>>,
           NEW intervals, \A k \in 1..last : WellFormed(intervals[k]),
           NEW filled, IsFill(filled, start, intervals, last)
    PROVE  /\ IsNode(filled[last])
           /\ filled[last].seq = start.seq /\ filled[last].parent = start.parent
           /\ filled[last].begin = start.begin /\ filled[last].closed = start.closed
           /\ filled[last].children = start.children
           /\ Len(filled[last].intervals) = last
           /\ \A k \in 1..last : filled[last].intervals[k] = intervals[k]
<1> DEFINE Good(n, k) ==
               /\ IsNode(n)
               /\ n.seq = start.seq /\ n.parent = start.parent
               /\ n.begin = start.begin /\ n.closed = start.closed
               /\ n.children = start.children
               /\ Len(n.intervals) = k
               /\ \A j \in 1..k : n.intervals[j] = intervals[j]
           good == {k \in 0..last : Good(filled[k], k)}
<1>1. /\ filled[0] = start
      /\ \A k \in 1..last : filled[k] = AddIntervalToNode(filled[k - 1], intervals[k])
  BY DEF IsFill
<1>2. 0 \in good
  BY <1>1
<1>3. ASSUME NEW k \in 1..last, k - 1 \in good PROVE k \in good
  <2> DEFINE before == filled[k - 1]
             after == AddIntervalToNode(before, intervals[k])
  <2>1. Good(before, k - 1)
    BY <1>3
  <2>2. filled[k] = after
    BY <1>1
  <2>3. before.intervals \in Seq(Stored) /\ intervals[k] \in Stored
    BY <2>1 DEF IsNode, NodeFields, WellFormed
  <2>4. IsNode(after)
    BY <2>1, AddIntervalIs
  <2>5. /\ after.seq = before.seq /\ after.parent = before.parent
        /\ after.begin = before.begin /\ after.closed = before.closed
        /\ after.children = before.children
        /\ after.intervals = Append(before.intervals, intervals[k])
    BY <2>1, AddIntervalFields
  <2> HIDE DEF before, after
  <2>6. Len(after.intervals) = k /\ \A j \in 1..k : after.intervals[j] = intervals[j]
    BY <2>1, <2>3, <2>5
  <2>7. Good(after, k)
    BY <2>1, <2>4, <2>5, <2>6
  <2>8. QED
    BY <2>2, <2>7
<1>4. last \in good
  <2> HIDE DEF good
  <2>1. 0..last \subseteq good
    BY <1>2, <1>3, Induction
  <2>2. QED
    BY <2>1
<1>5. QED
  BY <1>4

LEMMA CloseNodeFields ==
    ASSUME NEW n, IsNode(n), NEW end
    PROVE  /\ CloseNode(n, end).seq = n.seq /\ CloseNode(n, end).parent = n.parent
           /\ CloseNode(n, end).begin = n.begin
           /\ CloseNode(n, end).children = n.children
           /\ CloseNode(n, end).intervals = n.intervals
           /\ CloseNode(n, end).closed
           /\ ~n.closed => CloseNode(n, end).end = end
<1>1. n \in NodeFields
  BY DEF IsNode
<1>2. QED
  BY <1>1 DEF CloseNode, NodeFields

LEMMA SequenceOfAll ==
    ASSUME NEW seq, NEW S, seq \in Seq(S)
    PROVE  seq = [k \in 1..Len(seq) |-> seq[k]]
OBVIOUS

LEMMA ReadNodeIs ==
    ASSUME NEW n, IsNode(n), buffer = SerializedParts(n), Apart(buffer)
    PROVE  /\ IsNode(ReadNode)
           /\ ReadNode.seq = n.seq /\ ReadNode.parent = n.parent
           /\ ReadNode.begin = n.begin /\ ReadNode.end = n.end
           /\ ReadNode.closed = n.closed /\ ReadNode.children = n.children
           /\ Len(ReadNode.intervals) = Len(n.intervals)
           /\ \A k \in 1..Len(n.intervals) : ReadNode.intervals[k] = Kept(n, k)
<1> DEFINE last == Len(n.intervals)
           count == Len(n.children)
<1>1. /\ n \in NodeFields /\ last \in Nat /\ count \in Nat /\ count <= MaxChildren
      /\ n.seq \in Nat /\ n.parent \in Int /\ n.begin \in Int /\ n.end \in Int
      /\ n.children \in Seq([begin : Int, seq : Nat])
      /\ n.closed \in BOOLEAN
  BY DEF IsNode, NodeFields
<1>2. /\ ReadHeader.seq = n.seq /\ ReadHeader.parent = n.parent
      /\ ReadHeader.begin = n.begin /\ ReadHeader.end = n.end
      /\ ReadHeader.intervalCount = last
      /\ ReadCount = count /\ (ReadClosed <=> n.closed)
  BY ReadHeaderIs DEF HeaderContent
<1>3. \A k \in 1..count : ReadChild(k) = n.children[k]
  <2> TAKE k \in 1..count
  <2>1. ChildPart(n, k) \in SerializedParts(n)
    BY PartsAre
  <2>2. At(ChildPart(n, k).at) = ChildPart(n, k).content
    BY <2>1, AtPart
  <2>3. ChildPart(n, k).at = ChildAt(k) /\ ChildPart(n, k).content = n.children[k]
    BY DEF ChildPart, Part
  <2>4. QED
    BY <2>2, <2>3 DEF ReadChild
<1>4. [k \in 1..ReadCount |-> ReadChild(k)] = n.children
  <2>1. n.children = [k \in 1..count |-> n.children[k]]
    BY <1>1, SequenceOfAll
  <2> HIDE DEF count
  <2>2. QED
    BY <1>2, <1>3, <2>1
<1>5. IsNode(CreatedNode)
  BY <1>1, <1>2, NewNodeIs DEF CreatedNode
<1>6. /\ CreatedNode.seq = n.seq /\ CreatedNode.parent = n.parent
      /\ CreatedNode.begin = n.begin /\ CreatedNode.end = n.begin
      /\ CreatedNode.closed = FALSE
      /\ CreatedNode.intervals = <<>> /\ CreatedNode.curIntervalsSize = 0
  BY <1>2 DEF CreatedNode, NewNode
<1>7. /\ IsNode(Parented) /\ Parented.children = n.children
      /\ Parented.seq = n.seq /\ Parented.parent = n.parent
      /\ Parented.begin = n.begin /\ Parented.closed = FALSE
      /\ Parented.intervals = <<>>
  <2>1. Parented = [CreatedNode EXCEPT !.children = n.children]
    BY <1>4 DEF Parented
  <2>2. CreatedNode \in NodeFields
    BY <1>5 DEF IsNode
  <2>3. /\ Parented \in NodeFields /\ Parented.children = n.children
        /\ Parented.seq = CreatedNode.seq /\ Parented.parent = CreatedNode.parent
        /\ Parented.begin = CreatedNode.begin /\ Parented.end = CreatedNode.end
        /\ Parented.closed = CreatedNode.closed
        /\ Parented.maxChildren = CreatedNode.maxChildren
        /\ Parented.intervals = CreatedNode.intervals
        /\ Parented.curIntervalsSize = CreatedNode.curIntervalsSize
    BY <1>1, <2>1, <2>2 DEF NodeFields
  <2>4. IsNode(Parented)
    BY <1>1, <1>5, <2>3 DEF IsNode, LastEnd
  <2>5. QED
    BY <1>6, <2>3, <2>4
<1> DEFINE intervals == [k \in 1..ReadHeader.intervalCount |-> ReadInterval(k)]
           filled == CHOOSE filled : IsFill(filled, Parented, intervals, last)
           full == filled[last]
<1>8. \A k \in 1..last : intervals[k] = Kept(n, k) /\ WellFormed(intervals[k])
  <2> TAKE k \in 1..last
  <2>1. ReadInterval(k) = Kept(n, k) /\ WellFormed(Kept(n, k))
    BY ReadIntervalIs, KeptIs
  <2>2. QED
    BY <1>2, <2>1
<1>9. IsFill(filled, Parented, intervals, last)
  <2> HIDE DEF intervals
  <2>1. QED
    BY <1>1, FillExists
<1>10. ReadNode = IF ReadClosed THEN CloseNode(full, ReadHeader.end) ELSE full
  BY <1>2 DEF ReadNode, IsFill
<1> HIDE DEF intervals, filled, last
<1>11. /\ IsNode(full)
       /\ full.seq = n.seq /\ full.parent = n.parent /\ full.begin = n.begin
       /\ full.closed = FALSE /\ full.children = n.children
       /\ Len(full.intervals) = last
       /\ \A k \in 1..last : full.intervals[k] = Kept(n, k)
  <2>1. last \in Nat
    BY <1>1
  <2>2. \A k \in 1..last : WellFormed(intervals[k])
    BY <1>8
  <2>3. /\ IsNode(filled[last])
        /\ filled[last].seq = Parented.seq /\ filled[last].parent = Parented.parent
        /\ filled[last].begin = Parented.begin /\ filled[last].closed = Parented.closed
        /\ filled[last].children = Parented.children
        /\ Len(filled[last].intervals) = last
        /\ \A k \in 1..last : filled[last].intervals[k] = intervals[k]
    BY <1>7, <1>9, <2>1, <2>2, FilledIs
  <2>4. QED
    BY <1>7, <1>8, <2>3
<1> HIDE DEF full
<1>12. CASE n.closed
  <2>1. ReadNode = CloseNode(full, n.end)
    BY <1>2, <1>10, <1>12
  <2>2. IsNode(ReadNode)
    BY <1>1, <1>11, <2>1, CloseNodeIs
  <2>3. /\ ReadNode.closed /\ ReadNode.end = n.end /\ ReadNode.seq = n.seq
        /\ ReadNode.parent = n.parent /\ ReadNode.begin = n.begin
        /\ ReadNode.children = n.children /\ ReadNode.intervals = full.intervals
    BY <1>11, <2>1, CloseNodeFields
  <2>4. ReadNode.closed = n.closed
    <3>1. ReadNode.closed \in BOOLEAN
      BY <2>2 DEF IsNode, NodeFields
    <3>2. QED
      BY <1>1, <1>12, <2>3, <3>1
  <2>5. QED
    BY <1>11, <2>2, <2>3, <2>4 DEF last
<1>13. CASE ~n.closed
  <2>1. ReadNode = full
    BY <1>2, <1>10, <1>13
  <2>2. n.end = LastEnd(n) /\ full.end = LastEnd(full)
    BY <1>11, <1>13 DEF IsNode
  <2>3. LastEnd(full) = LastEnd(n)
    <3>1. CASE last = 0
      BY <1>11, <3>1 DEF LastEnd, last
    <3>2. CASE last # 0
      <4>1. last \in 1..last
        BY <1>1, <3>2
      <4>2. full.intervals[last].end = n.intervals[last].end
        <5>1. full.intervals[last] = Kept(n, last)
          BY <1>11, <4>1
        <5>2. Kept(n, last).end = n.intervals[last].end
          BY DEF Kept, KeptOffer, NewInterval
        <5>3. QED
          BY <5>1, <5>2
      <4>3. QED
        BY <1>11, <3>2, <4>2 DEF LastEnd, last
    <3>3. QED
      BY <3>1, <3>2
  <2>4. n.closed = FALSE
    BY <1>1, <1>13
  <2>5. QED
    BY <1>11, <2>1, <2>2, <2>3, <2>4 DEF last
<1>14. QED
  BY <1>12, <1>13 DEF last

(***************************************************************************)
(* The invariant: the buffer holds the parts of the node, which nothing    *)
(* changes any more, and the node read is the one that they read back to.  *)
(***************************************************************************)
Outcomes ==
    {"ok", "NodeFull", "TimestampOutOfRange", "UnknownIntervalType",
     "ExistingIntervalType", "InvalidIntervalArguments"}

SerDesInv ==
    /\ factories \subseteq StandardTypes /\ outcome \in Outcomes
    /\ IsNode(node)
    /\ buffer # {} => buffer = SerializedParts(node) /\ FitsBuffer(node)
    /\ read # NoNode => buffer # {} /\ Apart(buffer) /\ read = ReadNode

LEMMA InitSerDesInv == Init => SerDesInv
<1>1. SUFFICES ASSUME Init PROVE SerDesInv
  OBVIOUS
<1>2. IsNode(NewNode(0, RootParent, 0, MaxChildren))
  <2>1. 0 \in Nat /\ RootParent \in Int
    BY DEF RootParent
  <2>2. QED
    BY <2>1, NewNodeIs
<1>3. QED
  BY <1>1, <1>2 DEF Init, SerDesInv, Outcomes

\* The steps that fill the node keep it a node, and nothing else changes.
LEMMA FillingKeepsInv ==
    ASSUME SerDesInv, Filling, IsNode(node'), outcome' \in Outcomes,
           UNCHANGED <<factories, buffer, read>>
    PROVE  SerDesInv'
<1>1. buffer = {} /\ read = NoNode
  BY DEF Filling, SerDesInv
<1>2. buffer' = {} /\ read' = NoNode
  BY <1>1
<1>3. QED
  BY <1>2 DEF SerDesInv

LEMMA ReadNodeUnchanged ==
    ASSUME UNCHANGED buffer PROVE ReadNode' = ReadNode
BY DEF ReadNode, Parented, CreatedNode, ReadHeader, ReadClosed, ReadCount, ReadChild,
       ReadInterval, ReadIntervalHeader, ReadType, At

LEMMA SerializedKeepsInv ==
    ASSUME SerDesInv, UNCHANGED <<node, buffer>>,
           factories' \subseteq StandardTypes, outcome' \in Outcomes,
           read' = read \/ (buffer # {} /\ Apart(buffer) /\ read' = ReadNode)
    PROVE  SerDesInv'
<1>1. /\ IsNode(node)' /\ (buffer # {})' = (buffer # {})
      /\ SerializedParts(node)' = SerializedParts(node)
      /\ FitsBuffer(node)' = FitsBuffer(node) /\ Apart(buffer)' = Apart(buffer)
  BY DEF SerDesInv
<1>2. ReadNode' = ReadNode
  BY ReadNodeUnchanged
<1>3. QED
  BY <1>1, <1>2 DEF SerDesInv

LEMMA NextSerDesInv == SerDesInv /\ [Next]_vars => SerDesInv'
<1>1. SUFFICES ASSUME SerDesInv, [Next]_vars PROVE SerDesInv'
  OBVIOUS
<1>2. IsNode(node) /\ factories \subseteq StandardTypes /\ outcome \in Outcomes
  BY <1>1 DEF SerDesInv
<1>3. ASSUME NEW child \in Children, AddChildNode(child) PROVE SerDesInv'
  <2>1. child.begin \in Int /\ child.seq \in Nat
    BY OffersAssumption
  <2>2. node' = AddChild(node, child.begin, child.seq) /\ ~IsFull(node) /\ outcome' = "ok"
    BY <1>3 DEF AddChildNode
  <2>3. IsNode(node')
    BY <1>2, <2>1, <2>2, AddChildIs
  <2>4. QED
    BY <1>1, <1>3, <2>2, <2>3, FillingKeepsInv DEF AddChildNode, Outcomes
<1>4. CASE AddChildFails
  BY <1>1, <1>2, <1>4, FillingKeepsInv DEF AddChildFails, Outcomes
<1>5. ASSUME NEW offer \in Offers, AddInterval(offer) PROVE SerDesInv'
  <2>1. PICK word \in Uninitialized : node' = AddIntervalToNode(node, NewInterval(offer, word))
    BY <1>5 DEF AddInterval
  <2>2. /\ word \in Word /\ offer.type \in StandardTypes /\ offer.key \in Nat
        /\ offer.begin \in Int /\ offer.end \in Int /\ HasType(offer.type, offer.value)
    BY OffersAssumption, Widths
  <2>3. WellFormed(NewInterval(offer, word))
    BY <2>2, NewIntervalIs
  <2>4. IsNode(node')
    BY <1>2, <2>1, <2>3, AddIntervalIs
  <2>5. QED
    BY <1>1, <1>5, <2>4, FillingKeepsInv DEF AddInterval, Outcomes
<1>6. ASSUME NEW offer \in Offers, AddIntervalFails(offer) PROVE SerDesInv'
  BY <1>1, <1>2, <1>6, FillingKeepsInv DEF AddIntervalFails, Outcomes
<1>7. ASSUME NEW k \in 1..Len(node.intervals), NEW string \in NewStrings,
             ChangeString(k, string)
      PROVE  SerDesInv'
  <2>1. HasType(STR, string)
    BY OffersAssumption
  <2>2. /\ node.intervals[k].type = STR
        /\ node' = [node EXCEPT !.intervals[k].value = string,
                                !.intervals[k].data = StringData(string)]
    BY <1>7 DEF ChangeString
  <2>3. IsNode(node')
    BY <1>2, <2>1, <2>2, ChangeStringIs
  <2>4. QED
    BY <1>1, <1>2, <1>7, <2>3, FillingKeepsInv DEF ChangeString
<1>8. ASSUME NEW end \in CloseTimes, Close(end) PROVE SerDesInv'
  <2>1. end \in Int
    BY OffersAssumption
  <2>2. IsNode(node')
    BY <1>2, <1>8, <2>1, CloseNodeIs DEF Close
  <2>3. QED
    BY <1>1, <1>8, <2>2, FillingKeepsInv DEF Close, Outcomes
<1>9. ASSUME NEW end \in CloseTimes, CloseFails(end) PROVE SerDesInv'
  BY <1>1, <1>2, <1>9, FillingKeepsInv DEF CloseFails, Outcomes
<1>10. CASE SerializeNode
  <2>1. /\ read = NoNode /\ read' = NoNode /\ factories' = factories /\ node' = node
        /\ buffer' = SerializedParts(node) /\ FitsBuffer(node) /\ outcome' = "ok"
    BY <1>1, <1>10 DEF SerializeNode, Filling, SerDesInv
  <2>2. buffer' = SerializedParts(node') /\ FitsBuffer(node') /\ IsNode(node')
    BY <1>2, <2>1
  <2>3. QED
    BY <1>2, <2>1, <2>2 DEF SerDesInv, Outcomes
<1>11. CASE DeserializeNode
  BY <1>1, <1>2, <1>11, SerializedKeepsInv
     DEF DeserializeNode, Readable, Filling, Outcomes
<1>12. CASE DeserializeUnknown
  BY <1>1, <1>2, <1>12, SerializedKeepsInv DEF DeserializeUnknown, Outcomes
<1>13. ASSUME NEW type \in Unregistered, Register(type) \/ Unregister(type)
       PROVE  SerDesInv'
  <2>1. type \in StandardTypes
    BY OffersAssumption
  <2>2. /\ factories' \subseteq StandardTypes /\ outcome' \in Outcomes
        /\ UNCHANGED <<node, buffer, read>>
    BY <1>2, <1>13, <2>1 DEF Register, Unregister, Outcomes
  <2>3. QED
    BY <1>1, <2>2, SerializedKeepsInv
<1>14. CASE UNCHANGED vars
  BY <1>1, <1>2, <1>14, SerializedKeepsInv DEF vars
<1>15. QED
  BY <1>1, <1>3, <1>4, <1>5, <1>6, <1>7, <1>8, <1>9, <1>10, <1>11, <1>12, <1>13, <1>14
     DEF Next

LEMMA SerDesInvariant == Spec => []SerDesInv
BY InitSerDesInv, NextSerDesInv, PTL DEF Spec

(***************************************************************************)
(* The theorems.                                                           *)
(***************************************************************************)
LEMMA SerializedIsApart ==
    ASSUME SerDesInv,
           \A k \in 1..Len(node.intervals) : Size(node.intervals[k]) <= node.intervals[k].size
    PROVE  Apart(buffer)
<1>1. CASE buffer = {}
  BY <1>1 DEF Apart
<1>2. CASE buffer # {}
  <2>1. IsNode(node) /\ buffer = SerializedParts(node) /\ FitsBuffer(node)
    BY <1>2 DEF SerDesInv
  <2>2. HasRoom(node)
    BY <2>1, RoomIsCounted
  <2>3. QED
    BY <2>1, <2>2, PartsApart
<1>3. QED
  BY <1>1, <1>2

\* The node, and the node read back, have no more children than a node may have,
\* and intervals of the standard types whose fixed values are words: addChild
\* throws, and deserializeNode reads a count that serializeNode has packed.
THEOREM TypeIsCorrect == Spec => []TypeOK
<1>1. SerDesInv => TypeOK
  <2>1. SUFFICES ASSUME SerDesInv PROVE TypeOK
    OBVIOUS
  <2>2. IsNode(node) /\ factories \subseteq StandardTypes /\ outcome \in Outcomes
    BY <2>1 DEF SerDesInv
  <2>3. read # NoNode => IsNode(read)
    BY <2>1, ReadNodeIs DEF SerDesInv
  <2>4. ASSUME NEW n \in {node, read} \ {NoNode}
        PROVE  /\ Len(n.children) <= MaxChildren
               /\ \A k \in 1..Len(n.intervals) :
                     n.intervals[k].type \in StandardTypes /\ n.intervals[k].fixed \in Word
    <3>1. IsNode(n)
      BY <2>2, <2>3
    <3>2. QED
      BY <3>1 DEF IsNode, WellFormed, Stored
  <2>5. QED
    BY <2>2, <2>4 DEF TypeOK, Outcomes
<1>2. QED
  BY <1>1, SerDesInvariant, PTL

\* The parts that serializeNode writes never overwrite one another and stay in
\* the buffer, when no string has grown since addInterval has counted it.
THEOREM PartsStayApart == Spec => []PartsAreApart
<1>1. SerDesInv => PartsAreApart
  BY SerializedIsApart DEF PartsAreApart
<1>2. QED
  BY <1>1, SerDesInvariant, PTL

\* What is missing of a string begins with the next character.
LEMMA PrefixIsShorter ==
    ASSUME NEW string \in Seq(Nat), NEW prefix \in Seq(Nat),
           IsPrefix(prefix, string), prefix # string
    PROVE  Len(prefix) + 1 \in DOMAIN string
<1>1. Len(prefix) <= Len(string) /\ Len(prefix) \in Nat /\ Len(string) \in Nat
  BY DEF IsPrefix
<1>2. SubSeq(prefix, 1, Len(prefix)) = prefix /\ SubSeq(string, 1, Len(string)) = string
  BY SubSeqFull
<1>3. SubSeq(prefix, 1, Len(prefix)) = SubSeq(string, 1, Len(prefix))
  BY DEF IsPrefix
<1>4. Len(prefix) # Len(string)
  <2>1. SUFFICES ASSUME Len(prefix) = Len(string) PROVE FALSE
    OBVIOUS
  <2>2. SubSeq(string, 1, Len(prefix)) = SubSeq(string, 1, Len(string))
    BY <2>1
  <2>3. prefix = string
    BY <1>2, <1>3, <2>2, Zenon
  <2>4. QED
    BY <2>3
<1>5. DOMAIN string = 1..Len(string)
  OBVIOUS
<1>6. QED
  BY <1>1, <1>4, <1>5

\* Of a string, a float or a key that survives its conversion, all is left.
LEMMA AllIsKept ==
    ASSUME NEW interval \in Stored, HasType(interval.type, interval.value),
           NEW kept, kept.key \in Nat, HasType(kept.type, kept.value),
           IntervalKept(interval, kept)
    PROVE  SameInterval(interval, kept)
<1> DEFINE value == interval.value
           left == kept.value
<1>1. /\ interval.type \in StandardTypes /\ interval.key \in Nat
      /\ kept.type = interval.type /\ kept.begin = interval.begin
      /\ kept.end = interval.end /\ ValueKept(interval.type, value, left)
      /\ left = value => kept.size = Size(interval)
      /\ kept.key < KeyMod /\ (interval.key - kept.key) % KeyMod = 0
  BY DEF Stored, IntervalKept
<1>2. ASSUME interval.key < KeyMod PROVE kept.key = interval.key
  <2> DEFINE k == interval.key
             l == kept.key
             m == KeyMod
  <2>1. /\ k \in Nat /\ l \in Nat /\ m \in Nat \ {0} /\ k < m /\ l < m
        /\ (k - l) % m = 0
    BY <1>1, <1>2, Widths
  <2> HIDE DEF k, l, m
  <2>2. k - l \in Int /\ k - l < m /\ -m < k - l
    BY <2>1
  <2>3. k - l = m * ((k - l) \div m)
    BY <2>1, <2>2
  <2>4. (k - l) \div m \in Int
    BY <2>1, <2>2
  <2>5. (k - l) \div m = 0
    BY <2>1, <2>2, <2>3, <2>4
  <2>6. k - l = 0
    BY <2>1, <2>3, <2>5
  <2>7. QED
    BY <2>1, <2>6 DEF k, l
<1>3. ASSUME Convertible(interval) PROVE left = value
  <2> HIDE DEF left
  <2>1. CASE interval.type = STR
    <3>1. /\ value \in Seq(Nat) /\ EndOfString \notin Range(value)
      BY <1>3, <2>1 DEF HasType, Convertible
    <3>2. IsPrefix(left, value) /\ (left # value => value[Len(left) + 1] = EndOfString)
      BY <1>1, <2>1 DEF ValueKept
    <3>3. left \in Seq(Nat)
      BY <1>1, <2>1 DEF HasType, left
    <3> HIDE DEF value
    <3>4. SUFFICES ASSUME left # value PROVE FALSE
      OBVIOUS
    <3>5. Len(left) + 1 \in DOMAIN value
      BY <3>1, <3>2, <3>3, <3>4, PrefixIsShorter, Zenon
    <3>6. value[Len(left) + 1] = EndOfString
      BY <3>2, <3>4
    <3>7. QED
      BY <3>1, <3>5, <3>6, Zenon DEF Range
  <2>2. CASE interval.type = FLOAT32
    <3>1. /\ value = <<value[1]>> /\ value[1] \in Int
      BY <2>2, NumberValue DEF NumberTypes
    <3>2. /\ left = <<left[1]>> /\ left[1] \in Int
      BY <1>1, <2>2, NumberValue DEF NumberTypes, left
    <3>3. /\ value[1] % 2 = 0 /\ left[1] % 2 = 0 /\ left[1] - value[1] \in -1..1
      BY <1>1, <1>3, <2>2 DEF Convertible, ValueKept
    <3>4. left[1] = value[1]
      BY <3>1, <3>2, <3>3
    <3>5. QED
      BY <3>1, <3>2, <3>4
  <2>3. CASE interval.type # STR /\ interval.type # FLOAT32
    BY <1>1, <2>3 DEF ValueKept
  <2>4. QED
    BY <2>1, <2>2, <2>3
<1>4. QED
  BY <1>1, <1>2, <1>3 DEF SameInterval

\* A node that deserializeNode reads back is the node that serializeNode wrote:
\* every key of 24 bits and every value that survives its conversion is the same.
THEOREM NodeReadIsWritten == Spec => []ReadIsWritten
<1>1. SerDesInv => ReadIsWritten
  <2>1. SUFFICES ASSUME SerDesInv, read # NoNode PROVE ReadIsWritten
    BY DEF ReadIsWritten
  <2>2. /\ IsNode(node) /\ buffer = SerializedParts(node) /\ Apart(buffer)
        /\ read = ReadNode
    BY <2>1 DEF SerDesInv
  <2>3. /\ read.seq = node.seq /\ read.parent = node.parent
        /\ read.begin = node.begin /\ read.end = node.end
        /\ read.closed = node.closed /\ read.children = node.children
        /\ Len(read.intervals) = Len(node.intervals)
        /\ \A k \in 1..Len(node.intervals) : read.intervals[k] = Kept(node, k)
    BY <2>2, ReadNodeIs
  <2>4. ASSUME NEW k \in 1..Len(node.intervals)
        PROVE  SameInterval(node.intervals[k], read.intervals[k])
    <3>1. /\ node.intervals[k] \in Stored
          /\ HasType(node.intervals[k].type, node.intervals[k].value)
      BY <2>2 DEF IsNode, WellFormed
    <3>2. WellFormed(Kept(node, k)) /\ IntervalKept(node.intervals[k], Kept(node, k))
      BY <2>2, KeptIs
    <3>3. Kept(node, k).key \in Nat /\ HasType(Kept(node, k).type, Kept(node, k).value)
      BY <3>2 DEF WellFormed, Stored
    <3>4. QED
      BY <2>3, <3>1, <3>2, <3>3, AllIsKept
  <2>5. QED
    BY <2>3, <2>4 DEF ReadIsWritten
<1>2. QED
  BY <1>1, SerDesInvariant, PTL

(***************************************************************************)
(* The bytes written: those of the headers, in front, and those of the     *)
(* data, at the end.                                                       *)
(***************************************************************************)
FrontBytes(n) == 32 + Len(n.children) * 16 + Len(n.intervals) * 24
BackBytes(n) == VarOffset(n.intervals, Len(n.intervals))

LEMMA BytesOfParts ==
    ASSUME NEW n, NEW byte
    PROVE  byte \in BytesOf(SerializedParts(n)) <=>
              \E p \in SerializedParts(n) : byte \in p.at..(p.at + p.bytes - 1)
BY DEF BytesOf

LEMMA FrontIsWritten ==
    ASSUME NEW n, IsNode(n), NEW byte \in 0..(FrontBytes(n) - 1)
    PROVE  byte \in BytesOf(SerializedParts(n))
<1> DEFINE children == Len(n.children)
           intervals == Len(n.intervals)
<1>1. children \in Nat /\ intervals \in Nat
  BY DEF IsNode, NodeFields
<1>2. byte \in 0..(32 + children * 16 + intervals * 24 - 1)
  <2>1. FrontBytes(n) = 32 + children * 16 + intervals * 24
    BY DEF FrontBytes
  <2> HIDE DEF children, intervals
  <2>2. QED
    BY <1>1, <2>1
<1>3. /\ HeaderPart(n).at = 0 /\ HeaderPart(n).bytes = 32
      /\ \A k \in 1..children :
            ChildPart(n, k).at = 32 + (k - 1) * 16 /\ ChildPart(n, k).bytes = 16
      /\ \A k \in 1..intervals :
            /\ IntervalPart(n, k).at = 32 + children * 16 + (k - 1) * 24
            /\ IntervalPart(n, k).bytes = 24
  <2>1. HeaderPart(n).at = 0 /\ HeaderPart(n).bytes = 32
    BY HeaderPlaced
  <2>2. \A k \in 1..children :
           ChildPart(n, k).at = 32 + (k - 1) * 16 /\ ChildPart(n, k).bytes = 16
    BY ChildPlaced
  <2>3. \A k \in 1..intervals :
           /\ IntervalPart(n, k).at = 32 + children * 16 + (k - 1) * 24
           /\ IntervalPart(n, k).bytes = 24
    BY IntervalPlaced
  <2>4. QED
    BY <2>1, <2>2, <2>3
<1>4. /\ HeaderPart(n) \in SerializedParts(n)
      /\ \A k \in 1..children : ChildPart(n, k) \in SerializedParts(n)
      /\ \A k \in 1..intervals : IntervalPart(n, k) \in SerializedParts(n)
  BY PartsAre
<1> HIDE DEF children, intervals
<1>5. CASE byte < 32
  <2>1. byte \in 0..(0 + 32 - 1)
    BY <1>1, <1>2, <1>5
  <2>2. QED
    BY <1>3, <1>4, <2>1, BytesOfParts
<1>6. CASE 32 <= byte /\ byte < 32 + children * 16
  <2> DEFINE k == (byte - 32) \div 16 + 1
  <2>1. k \in 1..children /\ byte \in (32 + (k - 1) * 16)..(32 + (k - 1) * 16 + 16 - 1)
    BY <1>1, <1>2, <1>6
  <2> HIDE DEF k
  <2>2. ChildPart(n, k).at = 32 + (k - 1) * 16 /\ ChildPart(n, k).bytes = 16
    BY <1>3, <2>1
  <2>3. byte \in ChildPart(n, k).at..(ChildPart(n, k).at + ChildPart(n, k).bytes - 1)
    BY <2>1, <2>2
  <2>4. QED
    BY <1>4, <2>1, <2>3, BytesOfParts
<1>7. CASE 32 + children * 16 <= byte
  <2> DEFINE start == 32 + children * 16
             k == (byte - start) \div 24 + 1
  <2>1. start \in Nat /\ start <= byte /\ byte \in 0..(start + intervals * 24 - 1)
    BY <1>1, <1>2, <1>7
  <2> HIDE DEF start
  <2>2. k \in 1..intervals /\ byte \in (start + (k - 1) * 24)..(start + (k - 1) * 24 + 24 - 1)
    BY <1>1, <2>1
  <2> HIDE DEF k
  <2>3. IntervalPart(n, k).at = start + (k - 1) * 24 /\ IntervalPart(n, k).bytes = 24
    BY <1>3, <2>2 DEF start
  <2>4. byte \in IntervalPart(n, k).at..(IntervalPart(n, k).at + IntervalPart(n, k).bytes - 1)
    BY <2>2, <2>3
  <2>5. QED
    BY <1>4, <2>2, <2>4, BytesOfParts
<1>8. QED
  BY <1>1, <1>2, <1>5, <1>6, <1>7

\* The data of the first interval whose data reach that far hold the byte.
LEMMA BackIsWritten ==
    ASSUME NEW n, IsNode(n), NEW byte \in (NodeSize - BackBytes(n))..(NodeSize - 1)
    PROVE  byte \in BytesOf(SerializedParts(n))
<1> DEFINE last == Len(n.intervals)
           offset(k) == VarOffset(n.intervals, k)
           back == NodeSize - byte
           reached == {k \in 0..last : back <= offset(k)}
<1>1. last \in Nat /\ NodeSize \in Nat
  BY Widths DEF IsNode, NodeFields
<1>2. /\ offset(0) = 0 /\ \A k \in 0..last : offset(k) \in Nat
      /\ \A k \in 1..last : /\ n.intervals[k].data.bytes \in Nat
                            /\ offset(k) = offset(k - 1) + n.intervals[k].data.bytes
  BY Offsets
<1>3. byte \in (NodeSize - offset(last))..(NodeSize - 1)
  BY DEF BackBytes
<1>4. \A k \in WithData(n) :
         /\ DataPart(n, k) \in SerializedParts(n)
         /\ DataPart(n, k).at = NodeSize - offset(k)
         /\ DataPart(n, k).bytes = offset(k) - offset(k - 1)
  BY PartsAre, DataPlaced
<1>5. \A k \in 1..last : n.intervals[k].data.bytes > 0 => k \in WithData(n)
  BY DEF WithData, HasData
<1> HIDE DEF last, offset
<1>6. back \in Nat \ {0} /\ back <= offset(last) /\ byte = NodeSize - back
  <2>1. last \in 0..last
    BY <1>1
  <2>2. offset(last) \in Nat
    BY <1>2, <2>1
  <2>3. QED
    BY <1>1, <1>3, <2>2
<1> HIDE DEF back
<1>7. last \in reached /\ reached \in SUBSET Nat /\ 0 \notin reached
  BY <1>1, <1>2, <1>6
<1>8. PICK k \in reached : \A j \in reached : k <= j
  <2> HIDE DEF reached
  <2>1. QED
    BY <1>7, LeastNat
<1>9. k \in 1..last /\ k - 1 \in 0..last /\ back <= offset(k)
  BY <1>1, <1>7, <1>8
<1>10. offset(k - 1) < back
  <2>1. k - 1 \notin reached
    BY <1>8, <1>9
  <2>2. offset(k - 1) \in Nat
    BY <1>2, <1>9
  <2>3. QED
    BY <1>6, <1>9, <2>1, <2>2
<1> HIDE DEF reached
<1>11. /\ offset(k) \in Nat /\ offset(k - 1) \in Nat
       /\ n.intervals[k].data.bytes \in Nat
       /\ offset(k) = offset(k - 1) + n.intervals[k].data.bytes
  BY <1>2, <1>9
<1>12. k \in WithData(n)
  BY <1>5, <1>6, <1>9, <1>10, <1>11
<1>13. /\ DataPart(n, k) \in SerializedParts(n)
       /\ DataPart(n, k).at = NodeSize - offset(k)
       /\ DataPart(n, k).bytes = offset(k) - offset(k - 1)
  BY <1>4, <1>12
<1>14. byte \in DataPart(n, k).at..(DataPart(n, k).at + DataPart(n, k).bytes - 1)
  <2>1. \A a, b \in Nat : a < back /\ back <= b =>
           NodeSize - back \in (NodeSize - b)..(NodeSize - b + (b - a) - 1)
    BY <1>1, <1>6
  <2>2. QED
    BY <1>6, <1>9, <1>10, <1>11, <1>13, <2>1
<1>15. QED
  BY <1>13, <1>14, BytesOfParts

LEMMA BytesAre ==
    ASSUME NEW n, IsNode(n), HasRoom(n)
    PROVE  BytesOf(SerializedParts(n)) =
              (0..(FrontBytes(n) - 1)) \cup ((NodeSize - BackBytes(n))..(NodeSize - 1))
<1> DEFINE children == Len(n.children)
           intervals == Len(n.intervals)
           offset(k) == VarOffset(n.intervals, k)
           front == 0..(32 + children * 16 + intervals * 24 - 1)
           back == (NodeSize - offset(intervals))..(NodeSize - 1)
<1>1. children \in Nat /\ intervals \in Nat /\ NodeSize \in Nat
  BY Widths DEF IsNode, NodeFields
<1>2. offset(intervals) \in Nat
  BY <1>1, Offsets
<1>3. ASSUME NEW p \in SerializedParts(n) PROVE p.at..(p.at + p.bytes - 1) \subseteq front \cup back
  <2>1. CASE p = HeaderPart(n)
    <3>1. p.at = 0 /\ p.bytes = 32
      BY <2>1, HeaderPlaced
    <3> HIDE DEF children, intervals, offset
    <3>2. QED
      BY <1>1, <3>1
  <2>2. ASSUME NEW k \in 1..children, p = ChildPart(n, k)
        PROVE  p.at..(p.at + p.bytes - 1) \subseteq front
    <3>1. p.at = 32 + (k - 1) * 16 /\ p.bytes = 16
      BY <2>2, ChildPlaced
    <3> HIDE DEF children, intervals, offset
    <3>2. QED
      BY <1>1, <3>1
  <2>3. ASSUME NEW k \in 1..intervals, p = IntervalPart(n, k)
        PROVE  p.at..(p.at + p.bytes - 1) \subseteq front
    <3>1. p.at = 32 + children * 16 + (k - 1) * 24 /\ p.bytes = 24
      BY <2>3, IntervalPlaced
    <3> HIDE DEF children, intervals, offset
    <3>2. QED
      BY <1>1, <3>1
  <2>4. ASSUME NEW k \in WithData(n), p = DataPart(n, k)
        PROVE  p.at..(p.at + p.bytes - 1) \subseteq back
    <3>1. /\ p.at = NodeSize - offset(k) /\ p.bytes = offset(k) - offset(k - 1)
          /\ offset(k) \in Nat /\ offset(k - 1) \in Nat
          /\ offset(k) <= offset(intervals)
      BY <2>4, DataPlaced
    <3>2. \A a, b, c \in Nat : b <= c =>
             (NodeSize - b)..(NodeSize - b + (b - a) - 1)
                \subseteq (NodeSize - c)..(NodeSize - 1)
      BY <1>1
    <3> HIDE DEF offset
    <3>3. QED
      BY <1>2, <3>1, <3>2
  <2>5. QED
    BY <2>1, <2>2, <2>3, <2>4, PartsAre
<1>4. BytesOf(SerializedParts(n)) \subseteq front \cup back
  BY <1>3 DEF BytesOf
<1>5. front = 0..(FrontBytes(n) - 1) /\ back = (NodeSize - BackBytes(n))..(NodeSize - 1)
  BY DEF FrontBytes, BackBytes
<1> HIDE DEF front, back
<1>6. front \cup back \subseteq BytesOf(SerializedParts(n))
  BY <1>5, FrontIsWritten, BackIsWritten
<1>7. QED
  BY <1>4, <1>5, <1>6

LEMMA BytesAreCounted ==
    ASSUME NEW n, IsNode(n), HasRoom(n),
           \A k \in 1..Len(n.intervals) : Size(n.intervals[k]) = n.intervals[k].size
    PROVE  Cardinality(BytesOf(SerializedParts(n))) = SerializedSize(n)
<1> DEFINE front == FrontBytes(n)
           back == BackBytes(n)
           first == 0..(front - 1)
           final == (NodeSize - back)..(NodeSize - 1)
           data == DataBytes(n.intervals)
           sizes == Sizes(n.intervals)
           last == Len(n.intervals)
           children == Len(n.children)
<1>1. /\ n.intervals \in Seq(Stored) /\ children \in Nat /\ last \in Nat
      /\ NodeSize \in Nat /\ front \in Nat
  BY Widths DEF IsNode, NodeFields, FrontBytes
<1>2. back \in Nat
  BY <1>1, Offsets DEF BackBytes
<1>3. front + back <= NodeSize
  BY <1>1, <1>2 DEF HasRoom, FrontBytes, BackBytes, NodeHeaderBytes, ChildPointerBytes,
                    IntervalHeaderBytes
<1>4. BytesOf(SerializedParts(n)) = first \cup final
  BY BytesAre
<1>5. front = 32 + children * 16 + last * 24 /\ back = SumUpTo(data, last)
  BY DEF FrontBytes, BackBytes, VarOffset
<1>6. /\ data \in Seq(Nat) /\ Len(data) = last /\ sizes \in Seq(Nat) /\ Len(sizes) = last
  BY <1>1, SizesType
<1>7. \A k \in 1..last : IntervalHeaderBytes + data[k] = sizes[k]
  BY DEF DataBytes, Sizes, Size
<1>8. n.curIntervalsSize = SumUpTo(sizes, last)
  BY DEF IsNode
<1>9. SerializedSize(n) = 32 + children * 16 + n.curIntervalsSize
  BY DEF SerializedSize, NodeHeaderBytes, ChildPointerBytes
<1> HIDE DEF data, sizes, last, children, front, back
<1>10. SumUpTo(data, last) + last * IntervalHeaderBytes = SumUpTo(sizes, last)
  <2>1. last \in 0..Len(data)
    BY <1>1, <1>6
  <2>2. QED
    BY <1>6, <1>7, <2>1, SumWithHeaders
<1>11. SerializedSize(n) = front + back
  <2>1. n.curIntervalsSize = back + last * 24
    BY <1>5, <1>8, <1>10 DEF IntervalHeaderBytes
  <2>2. \A headers, sum, total \in Nat :
           total = 32 + headers * 16 + (sum + last * 24)
              => total = (32 + headers * 16 + last * 24) + sum
    BY <1>1
  <2>3. 32 + children * 16 + (back + last * 24) \in Nat
    BY <1>1, <1>2
  <2>4. QED
    BY <1>1, <1>2, <1>5, <1>9, <2>1, <2>2, <2>3
<1>12. IsFiniteSet(first) /\ Cardinality(first) = front
  <2>1. 0 \in Int /\ front - 1 \in Int
    BY <1>1
  <2>2. IsFiniteSet(first) /\ Cardinality(first) = IF 0 > front - 1 THEN 0 ELSE front - 1 - 0 + 1
    BY <2>1, FS_Interval
  <2>3. QED
    BY <1>1, <2>2
<1>13. IsFiniteSet(final) /\ Cardinality(final) = back
  <2>1. NodeSize - back \in Int /\ NodeSize - 1 \in Int
    BY <1>1, <1>2
  <2>2. /\ IsFiniteSet(final)
        /\ Cardinality(final) = IF NodeSize - back > NodeSize - 1 THEN 0
                                ELSE (NodeSize - 1) - (NodeSize - back) + 1
    BY <2>1, FS_Interval
  <2>3. QED
    BY <1>1, <1>2, <2>2
<1>14. first \cap final = {}
  BY <1>1, <1>2, <1>3
<1> HIDE DEF first, final
<1>15. Cardinality(first \cap final) = 0
  BY <1>14, FS_EmptySet
<1>16. Cardinality(first \cup final) = front + back
  <2>1. Cardinality(first \cup final) =
           Cardinality(first) + Cardinality(final) - Cardinality(first \cap final)
    BY <1>12, <1>13, FS_Union
  <2>2. QED
    BY <1>1, <1>2, <1>12, <1>13, <1>15, <2>1
<1>17. QED
  BY <1>4, <1>11, <1>16
\* serializeNode writes as many bytes as Node::addInterval has counted, whenever
\* no string has changed its length since: no byte is written twice, and none
\* between the headers and the data.
THEOREM SizeIsCounted == Spec => []SizeIsAsCounted
<1>1. SerDesInv => SizeIsAsCounted
  <2>1. SUFFICES ASSUME SerDesInv, buffer # {},
                        \A k \in 1..Len(node.intervals) :
                           Size(node.intervals[k]) = node.intervals[k].size
                 PROVE  Cardinality(BytesOf(buffer)) = SerializedSize(node)
    BY DEF SizeIsAsCounted
  <2>2. IsNode(node) /\ buffer = SerializedParts(node) /\ FitsBuffer(node)
    BY <2>1 DEF SerDesInv
  <2>3. \A k \in 1..Len(node.intervals) :
           Size(node.intervals[k]) <= node.intervals[k].size
    <3> TAKE k \in 1..Len(node.intervals)
    <3>1. node.intervals[k].size \in Nat
      BY <2>2 DEF IsNode, WellFormed, Stored
    <3>2. QED
      BY <2>1, <3>1
  <2>4. HasRoom(node)
    BY <2>2, <2>3, RoomIsCounted
  <2>5. QED
    BY <2>1, <2>2, <2>4, BytesAreCounted
<1>2. QED
  BY <1>1, SerDesInvariant, PTL

(***************************************************************************)
(* A node read back is written as it was.                                  *)
(***************************************************************************)
NoStringEndsEarly(n) ==
    \A k \in 1..Len(n.intervals) :
        n.intervals[k].type = STR => EndOfString \notin Range(n.intervals[k].value)

LEMMA KeptDataIsSame ==
    ASSUME NEW n, IsNode(n), Apart(SerializedParts(n)), NoStringEndsEarly(n),
           NEW k \in 1..Len(n.intervals)
    PROVE  Kept(n, k).data = n.intervals[k].data
<1> DEFINE interval == n.intervals[k]
           type == interval.type
           value == interval.value
           kept == Kept(n, k)
<1>1. /\ interval \in Stored /\ type \in StandardTypes /\ HasType(type, value)
      /\ interval.data = Data(type, value)
  BY DEF IsNode, WellFormed, Stored
<1>2. kept.data = Data(type, kept.value)
  BY DEF Kept, KeptOffer, NewInterval
<1>3. ValueKept(type, value, kept.value)
  BY KeptIs DEF IntervalKept
<1>4. kept.value = Value(type, KeptWord(n, k), interval.data.content)
  BY DEF Kept, KeptOffer, NewInterval
<1> HIDE DEF kept
<1>5. CASE type = STR
  <2>1. value \in Seq(Nat) /\ EndOfString \notin Range(value)
    BY <1>1, <1>5 DEF HasType, NoStringEndsEarly
  <2>2. interval.data.content = value
    BY <1>1, <1>5, DataType DEF StringData
  <2>3. kept.value = BeforeEnd(value)
    BY <1>4, <1>5, <2>2 DEF Value
  <2>4. BeforeEnd(value) = value
    <3>1. SUFFICES ASSUME BeforeEnd(value) # value PROVE FALSE
      OBVIOUS
    <3>2. /\ value[Len(BeforeEnd(value)) + 1] = EndOfString
          /\ Len(BeforeEnd(value)) + 1 \in 1..Len(value)
      BY <2>1, <3>1, BeforeEndIs
    <3>3. DOMAIN value = 1..Len(value)
      BY <2>1
    <3>4. QED
      BY <2>1, <3>2, <3>3 DEF Range
  <2>5. QED
    BY <1>1, <1>2, <2>3, <2>4 DEF kept
<1>6. CASE type = FLOAT32
  BY <1>1, <1>2, <1>6 DEF Data, kept
<1>7. CASE type # STR /\ type # FLOAT32
  <2>1. kept.value = value
    BY <1>3, <1>7 DEF ValueKept
  <2>2. QED
    BY <1>1, <1>2, <2>1 DEF kept
<1>8. QED
  BY <1>5, <1>6, <1>7

LEMMA KeptWordIsSame ==
    ASSUME NEW n, IsNode(n), Apart(SerializedParts(n)),
           NEW k \in 1..Len(n.intervals), ~HasData(n.intervals[k])
    PROVE  Kept(n, k).fixed = n.intervals[k].fixed
<1> DEFINE interval == n.intervals[k]
           type == interval.type
           value == interval.value
           word == interval.fixed
           kept == Kept(n, k)
<1>1. /\ interval \in Stored /\ type \in StandardTypes /\ HasType(type, value)
      /\ word = Fixed(type, value, word) /\ word \in Word
      /\ interval.data = Data(type, value)
  BY DEF IsNode, WellFormed, Stored
<1>2. KeptWord(n, k) = word
  BY DEF KeptWord
<1>3. /\ kept.fixed = Fixed(type, kept.value, word)
      /\ kept.value = Value(type, word, interval.data.content)
  BY <1>2 DEF Kept, KeptOffer, NewInterval
<1>4. ValueKept(type, value, kept.value)
  BY KeptIs DEF IntervalKept
<1>5. type \notin {STR, INT64, UINT64}
  BY <1>1, DataType DEF HasData
<1> HIDE DEF kept, word
<1>6. CASE type = FLOAT32
  <2>1. kept.value = <<2 * word>>
    BY <1>3, <1>6 DEF Value
  <2>2. kept.value[1] = 2 * word /\ word \in Nat
    BY <1>1, <2>1, Widths DEF Word
  <2>3. Truncated(kept.value[1]) = word
    BY <2>2, TruncatedIs
  <2>4. QED
    BY <1>1, <1>3, <1>6, <2>3 DEF Fixed, kept, word
<1>7. CASE type # FLOAT32
  <2>1. kept.value = value
    BY <1>4, <1>5, <1>7 DEF ValueKept
  <2>2. QED
    BY <1>1, <1>3, <2>1 DEF kept, word
<1>8. QED
  BY <1>6, <1>7

\* The key has already lost its high bits.
LEMMA KeptContentIsSame ==
    ASSUME NEW n, IsNode(n), Apart(SerializedParts(n)), NoStringEndsEarly(n),
           NEW k \in 1..Len(n.intervals), NEW offset
    PROVE  IntervalContent(Kept(n, k), offset) = IntervalContent(n.intervals[k], offset)
<1> DEFINE interval == n.intervals[k]
           kept == Kept(n, k)
<1>1. /\ kept.begin = interval.begin /\ kept.end = interval.end
      /\ kept.type = interval.type /\ kept.key = Unsigned(interval.key, KeyMod)
  BY DEF Kept, KeptOffer, NewInterval
<1>2. kept.data = interval.data /\ (HasData(kept) <=> HasData(interval))
  BY KeptDataIsSame DEF HasData
<1>3. ~HasData(interval) => kept.fixed = interval.fixed
  BY KeptWordIsSame
<1>4. Unsigned(kept.key, KeyMod) = Unsigned(interval.key, KeyMod)
  <2>1. interval.key \in Int /\ KeyMod \in Nat \ {0}
    <3>1. interval \in Stored
      BY DEF IsNode, WellFormed
    <3>2. QED
      BY <3>1, Widths DEF Stored
  <2>2. Unsigned(interval.key, KeyMod) \in 0..(KeyMod - 1)
    BY <2>1, UnsignedIsIn
  <2> HIDE DEF kept, interval
  <2>3. QED
    BY <1>1, <2>1, <2>2, UnsignedIs
<1> HIDE DEF kept, interval
<1>5. IntervalContent(kept, offset) = IntervalContent(interval, offset)
  BY <1>1, <1>2, <1>3, <1>4 DEF IntervalContent
<1>6. QED
  BY <1>5 DEF kept, interval

LEMMA SameParts ==
    ASSUME NEW n, NEW again, IsNode(n), Apart(SerializedParts(n)), NoStringEndsEarly(n),
           again.seq = n.seq, again.parent = n.parent, again.begin = n.begin,
           again.end = n.end, again.closed = n.closed, again.children = n.children,
           Len(again.intervals) = Len(n.intervals),
           \A k \in 1..Len(n.intervals) : again.intervals[k] = Kept(n, k)
    PROVE  SerializedParts(again) = SerializedParts(n)
<1> DEFINE last == Len(n.intervals)
<1>1. HeaderPart(again) = HeaderPart(n)
  BY DEF HeaderPart, HeaderContent
<1>2. {ChildPart(again, k) : k \in 1..Len(again.children)}
         = {ChildPart(n, k) : k \in 1..Len(n.children)}
  BY DEF ChildPart
<1>3. \A k \in 1..last : /\ again.intervals[k].data = n.intervals[k].data
                         /\ HasData(again.intervals[k]) <=> HasData(n.intervals[k])
  BY KeptDataIsSame DEF HasData
<1>4. DataBytes(again.intervals) = DataBytes(n.intervals)
  BY <1>3 DEF DataBytes
<1>5. \A k : VarOffset(again.intervals, k) = VarOffset(n.intervals, k)
  BY <1>4 DEF VarOffset
<1>6. \A k \in 1..last : IntervalPart(again, k) = IntervalPart(n, k)
  <2> TAKE k \in 1..last
  <2>1. IntervalContent(again.intervals[k], VarOffset(n.intervals, k))
           = IntervalContent(n.intervals[k], VarOffset(n.intervals, k))
    BY KeptContentIsSame
  <2>2. QED
    BY <1>5, <2>1 DEF IntervalPart
<1>7. \A k \in 1..last : DataPart(again, k) = DataPart(n, k)
  BY <1>3, <1>5 DEF DataPart
<1>8. WithData(again) = WithData(n) /\ WithData(n) \subseteq 1..last
  BY <1>3 DEF WithData
<1>9. /\ {IntervalPart(again, k) : k \in 1..Len(again.intervals)}
            = {IntervalPart(n, k) : k \in 1..Len(n.intervals)}
      /\ {DataPart(again, k) : k \in WithData(again)} = {DataPart(n, k) : k \in WithData(n)}
  BY <1>6, <1>7, <1>8
<1>10. QED
  BY <1>1, <1>2, <1>9, PartsAre
\* A node read back and written again gives the same in every field, unless a string ended
\* early: deserializeNode builds intervals whose keys, words and data are those
\* that serializeInterval has written.
THEOREM WrittenAgainTheSame == Spec => []WrittenAgainIsSame
<1>1. SerDesInv => WrittenAgainIsSame
  <2>1. SUFFICES ASSUME SerDesInv, read # NoNode, NoStringEndsEarly(node)
                 PROVE  SerializedParts(read) = buffer
    BY DEF WrittenAgainIsSame, NoStringEndsEarly
  <2>2. /\ IsNode(node) /\ buffer = SerializedParts(node) /\ Apart(buffer)
        /\ read = ReadNode
    BY <2>1 DEF SerDesInv
  <2>3. /\ read.seq = node.seq /\ read.parent = node.parent
        /\ read.begin = node.begin /\ read.end = node.end
        /\ read.closed = node.closed /\ read.children = node.children
        /\ Len(read.intervals) = Len(node.intervals)
        /\ \A k \in 1..Len(node.intervals) : read.intervals[k] = Kept(node, k)
    BY <2>2, ReadNodeIs
  <2>4. QED
    BY <2>1, <2>2, <2>3, SameParts
<1>2. QED
  BY <1>1, SerDesInvariant, PTL
=============================================================================
