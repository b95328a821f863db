----------------------------- MODULE DataLemmas -----------------------------
(***************************************************************************)
(* Facts about numbers, sequences, sums and recursive functions that the   *)
(* proofs of several modules rest on.                                      *)
(***************************************************************************)
EXTENDS Integers, SequencesExt, SequenceTheorems, FiniteSetTheorems,
        WellFoundedInduction, TLAPS

-----------------------------------------------------------------------------
(* Numbers.                                                                *)

\* Every non-empty set of naturals has a least element.
LEMMA LeastNat ==
  ASSUME NEW T \in SUBSET Nat, T # {}
  PROVE  \E m \in T : \A n \in T : m <= n
<1>. DEFINE Less == {ss \in Nat \X Nat : ss[1] < ss[2]}
<1>1. OpToRel(<, Nat) = Less
  BY Zenon DEF OpToRel
<1>2. IsWellFoundedOn(Less, Nat)
  BY <1>1, NatLessThanWellFounded, Zenon
<1>. HIDE DEF Less
<1>3. PICK m \in T : \A n \in T : ~(<<n, m>> \in Less)
  BY <1>2, WFMin
<1>4. ASSUME NEW n \in T PROVE m <= n
  <2>1. ~(<<n, m>> \in Less)
    BY <1>3
  <2>2. ~(n < m)
    BY <2>1 DEF Less
  <2>. QED
    BY <2>2, m \in Nat, n \in Nat
<1>. QED
  BY <1>4

-----------------------------------------------------------------------------
(* Sequences.                                                              *)

LEMMA RemoveAtFacts ==
  ASSUME NEW S, NEW s \in Seq(S), NEW i \in 1..Len(s)
  PROVE  /\ RemoveAt(s, i) \in Seq(S)
         /\ Len(RemoveAt(s, i)) = Len(s) - 1
         /\ \A j \in 1..(Len(s) - 1) :
              RemoveAt(s, i)[j] = IF j < i THEN s[j] ELSE s[j + 1]
<1>. DEFINE a == SubSeq(s, 1, i - 1)
            b == SubSeq(s, i + 1, Len(s))
<1>0. \A j \in 1..Len(s) : s[j] \in S
  BY ElementOfSeq
<1>1. /\ a \in Seq(S) /\ Len(a) = i - 1
      /\ \A j \in 1..(i - 1) : a[j] = s[j]
  BY <1>0, SubSeqProperties
<1>2. /\ b \in Seq(S) /\ Len(b) = Len(s) - i
      /\ \A j \in 1..(Len(s) - i) : b[j] = s[i + j]
  BY <1>0, SubSeqProperties
<1>3. RemoveAt(s, i) = a \o b
  BY DEF RemoveAt
<1>. HIDE DEF a, b
<1>4. a \o b \in Seq(S) /\ Len(a \o b) = Len(s) - 1
  <2>1. a \o b \in Seq(S) /\ Len(a \o b) = Len(a) + Len(b)
    BY <1>1, <1>2, ConcatProperties, Zenon
  <2>. QED
    BY <1>1, <1>2, <2>1
<1>5. ASSUME NEW j \in 1..(Len(s) - 1)
      PROVE  (a \o b)[j] = IF j < i THEN s[j] ELSE s[j + 1]
  <2>1. CASE j < i
    BY <1>1, <1>2, <2>1
  <2>2. CASE ~(j < i)
    <3>1. j - (i - 1) \in 1..(Len(s) - i) /\ i + (j - (i - 1)) = j + 1
      BY <2>2
    <3>2. (a \o b)[j] = b[j - (i - 1)]
      BY <1>1, <1>2, <2>2
    <3>. QED
      BY <1>2, <2>2, <3>1, <3>2
  <2>. QED
    BY <2>1, <2>2
<1>. QED
  BY <1>3, <1>4, <1>5

LEMMA InsertAtFacts ==
  ASSUME NEW S, NEW s \in Seq(S), NEW i \in 1..(Len(s) + 1), NEW e \in S
  PROVE  /\ InsertAt(s, i, e) \in Seq(S)
         /\ Len(InsertAt(s, i, e)) = Len(s) + 1
         /\ \A j \in 1..(Len(s) + 1) :
              InsertAt(s, i, e)[j] =
                IF j < i THEN s[j] ELSE IF j = i THEN e ELSE s[j - 1]
<1>. DEFINE a == SubSeq(s, 1, i - 1)
            b == SubSeq(s, i, Len(s))
            d == a \o <<e>>
<1>0. \A j \in 1..Len(s) : s[j] \in S
  BY ElementOfSeq
<1>1. /\ a \in Seq(S) /\ Len(a) = i - 1
      /\ \A j \in 1..(i - 1) : a[j] = s[j]
  BY <1>0, SubSeqProperties
<1>2. /\ b \in Seq(S) /\ Len(b) = Len(s) - i + 1
      /\ \A j \in 1..(Len(s) - i + 1) : b[j] = s[i + j - 1]
  BY <1>0, SubSeqProperties
<1>3. InsertAt(s, i, e) = d \o b
  BY DEF InsertAt
<1>. HIDE DEF a, b
<1>4. /\ d \in Seq(S) /\ Len(d) = i /\ d[i] = e
      /\ \A j \in 1..(i - 1) : d[j] = s[j]
  BY <1>1
<1>. HIDE DEF d
<1>5. d \o b \in Seq(S) /\ Len(d \o b) = Len(s) + 1
  <2>1. d \o b \in Seq(S) /\ Len(d \o b) = Len(d) + Len(b)
    BY <1>2, <1>4, ConcatProperties, Zenon
  <2>. QED
    BY <1>2, <1>4, <2>1
<1>6. ASSUME NEW j \in 1..(Len(s) + 1)
      PROVE  (d \o b)[j] =
                IF j < i THEN s[j] ELSE IF j = i THEN e ELSE s[j - 1]
  <2>1. CASE j <= i
    BY <1>2, <1>4, <2>1
  <2>2. CASE ~(j <= i)
    <3>1. j - i \in 1..(Len(s) - i + 1) /\ i + (j - i) - 1 = j - 1
      BY <2>2
    <3>2. (d \o b)[j] = b[j - i]
      BY <1>2, <1>4, <2>2
    <3>. QED
      BY <1>2, <2>2, <3>1, <3>2
  <2>. QED
    BY <2>1, <2>2
<1>. QED
  BY <1>3, <1>5, <1>6

\* The elements of a sequence after a removal, an insertion, an addition.
LEMMA ToSetRemove ==
  ASSUME NEW S, NEW s \in Seq(S), NEW i \in 1..Len(s)
  PROVE  ToSet(RemoveAt(s, i)) \subseteq ToSet(s)
<1>. SUFFICES ASSUME NEW x \in ToSet(RemoveAt(s, i)) PROVE x \in ToSet(s)
  OBVIOUS
<1>. DEFINE t == RemoveAt(s, i)
<1>0. t \in Seq(S) /\ Len(t) = Len(s) - 1
  BY RemoveAtFacts
<1>. HIDE DEF t
<1>1. PICK j \in 1..(Len(s) - 1) : x = t[j]
  BY <1>0 DEF ToSet, t
<1>. USE DEF t
<1>2. PICK k \in 1..Len(s) : x = s[k]
  BY <1>1, RemoveAtFacts
<1>. QED
  BY <1>2 DEF ToSet

LEMMA ToSetInsert ==
  ASSUME NEW S, NEW s \in Seq(S), NEW i \in 1..(Len(s) + 1), NEW e \in S
  PROVE  ToSet(InsertAt(s, i, e)) \subseteq ToSet(s) \cup {e}
<1>. SUFFICES ASSUME NEW x \in ToSet(InsertAt(s, i, e)), x # e
              PROVE  x \in ToSet(s)
  OBVIOUS
<1>. DEFINE t == InsertAt(s, i, e)
<1>0. t \in Seq(S) /\ Len(t) = Len(s) + 1
  BY InsertAtFacts
<1>. HIDE DEF t
<1>1. PICK j \in 1..(Len(s) + 1) : x = t[j]
  BY <1>0 DEF ToSet, t
<1>. USE DEF t
<1>2. PICK k \in 1..Len(s) : x = s[k]
  BY <1>1, InsertAtFacts
<1>. QED
  BY <1>2 DEF ToSet

LEMMA ToSetAppend ==
  ASSUME NEW S, NEW s \in Seq(S), NEW e \in S
  PROVE  ToSet(Append(s, e)) = ToSet(s) \cup {e}
<1>. DEFINE t == Append(s, e)
<1>1. /\ t \in Seq(S) /\ Len(t) = Len(s) + 1 /\ t[Len(s) + 1] = e
      /\ \A j \in 1..Len(s) : t[j] = s[j]
  OBVIOUS
<1>. HIDE DEF t
<1>2. ASSUME NEW x \in ToSet(t), x # e PROVE x \in ToSet(s)
  <2>1. PICK j \in 1..(Len(s) + 1) : x = t[j]
    BY <1>1 DEF ToSet
  <2>. QED
    BY <1>1, <1>2, <2>1 DEF ToSet
<1>3. ASSUME NEW x \in ToSet(s) PROVE x \in ToSet(t)
  <2>1. PICK j \in 1..Len(s) : x = s[j]
    BY DEF ToSet
  <2>. QED
    BY <1>1, <2>1 DEF ToSet
<1>4. e \in ToSet(t)
  BY <1>1 DEF ToSet
<1>. QED
  BY <1>2, <1>3, <1>4 DEF t
-----------------------------------------------------------------------------
(* Sequences without repetition.                                           *)

Distinct(s) == \A i, j \in DOMAIN s : s[i] = s[j] => i = j

LEMMA AppendDistinct ==
  ASSUME NEW S, NEW s \in Seq(S), NEW e \in S, Distinct(s), e \notin ToSet(s)
  PROVE  Distinct(Append(s, e))
<1>. DEFINE t == Append(s, e)
<1>1. /\ DOMAIN t = 1..(Len(s) + 1) /\ t[Len(s) + 1] = e
      /\ \A j \in 1..Len(s) : t[j] = s[j]
  OBVIOUS
<1>2. DOMAIN s = 1..Len(s) /\ Len(s) \in Nat
  OBVIOUS
<1>. HIDE DEF t
<1>3. \A j \in 1..Len(s) : t[j] # e
  BY <1>1, <1>2 DEF ToSet
<1>4. ASSUME NEW i \in DOMAIN t, NEW j \in DOMAIN t, t[i] = t[j]
      PROVE  i = j
  <2>1. CASE i \in 1..Len(s) /\ j \in 1..Len(s)
    BY <1>1, <1>2, <1>4, <2>1 DEF Distinct
  <2>2. CASE i = Len(s) + 1 \/ j = Len(s) + 1
    <3>1. t[i] = e
      BY <1>1, <1>4, <2>2
    <3>2. t[j] = e
      BY <1>4, <3>1
    <3>3. i \notin 1..Len(s) /\ j \notin 1..Len(s)
      BY <1>3, <3>1, <3>2
    <3>. QED
      BY <1>1, <1>2, <3>3
  <2>. QED
    BY <1>1, <1>2, <2>1, <2>2
<1>. QED
  BY <1>4 DEF Distinct, t

LEMMA RemoveFirstIs ==
  ASSUME NEW S, NEW s \in Seq(S), NEW e \in ToSet(s)
  PROVE  \E k \in 1..Len(s) : s[k] = e /\ RemoveFirst(s, e) = RemoveAt(s, k)
<1>. DEFINE T == {i \in 1..Len(s) : s[i] = e}
<1>1. T \in SUBSET Nat /\ T # {}
  BY DEF ToSet
<1>2. PICK k \in T : \A i \in T : k <= i
  BY <1>1, LeastNat
<1>3. Min(T) = k
  BY <1>1, <1>2 DEF Min
<1>4. SelectInSeq(s, LAMBDA v : v = e) = k
  BY <1>1, <1>3 DEF SelectInSeq
<1>. QED
  BY <1>2, <1>4 DEF RemoveFirst

\* The first occurrence is the only one.
LEMMA RemoveFirstDistinct ==
  ASSUME NEW S, NEW s \in Seq(S), Distinct(s), NEW e \in ToSet(s)
  PROVE  /\ RemoveFirst(s, e) \in Seq(S)
         /\ Distinct(RemoveFirst(s, e))
         /\ ToSet(RemoveFirst(s, e)) = ToSet(s) \ {e}
<1>0. DOMAIN s = 1..Len(s) /\ Len(s) \in Nat
  OBVIOUS
<1>1. PICK k \in 1..Len(s) : s[k] = e /\ RemoveFirst(s, e) = RemoveAt(s, k)
  BY RemoveFirstIs
<1>. DEFINE t == RemoveAt(s, k)
<1>6. /\ t \in Seq(S) /\ Len(t) = Len(s) - 1
      /\ \A j \in 1..(Len(s) - 1) : t[j] = IF j < k THEN s[j] ELSE s[j + 1]
  BY <1>1, RemoveAtFacts
<1>. HIDE DEF t
<1>7. DOMAIN t = 1..(Len(s) - 1)
  BY <1>6
<1>. DEFINE old(j) == IF j < k THEN j ELSE j + 1
<1>8. ASSUME NEW j \in 1..(Len(s) - 1)
      PROVE  old(j) \in 1..Len(s) /\ old(j) # k /\ t[j] = s[old(j)]
  BY <1>0, <1>1, <1>6
<1>9. Distinct(t)
  <2>. SUFFICES ASSUME NEW i \in 1..(Len(s) - 1), NEW j \in 1..(Len(s) - 1), t[i] = t[j]
                PROVE  i = j
    BY <1>7 DEF Distinct
  <2>1. old(i) = old(j)
    BY <1>0, <1>8 DEF Distinct
  <2>. QED
    BY <1>0, <1>1, <2>1
<1>10. ASSUME NEW x \in ToSet(t) PROVE x \in ToSet(s) \ {e}
  <2>1. PICK j \in 1..(Len(s) - 1) : x = t[j]
    BY <1>7 DEF ToSet
  <2>2. x = s[old(j)] /\ old(j) \in DOMAIN s /\ old(j) # k
    BY <1>0, <1>8, <2>1
  <2>. QED
    BY <1>0, <1>1, <2>2 DEF ToSet, Distinct
<1>11. ASSUME NEW x \in ToSet(s), x # e PROVE x \in ToSet(t)
  <2>1. PICK j \in 1..Len(s) : x = s[j] /\ j # k
    BY <1>0, <1>1, <1>11 DEF ToSet
  <2>2. CASE j < k
    BY <1>0, <1>1, <1>6, <1>7, <2>1, <2>2 DEF ToSet
  <2>3. CASE j > k
    <3>1. j - 1 \in 1..(Len(s) - 1) /\ ~(j - 1 < k) /\ j - 1 + 1 = j
      BY <1>0, <1>1, <2>3
    <3>2. t[j - 1] = x
      BY <1>6, <2>1, <3>1
    <3>. QED
      BY <1>7, <3>1, <3>2 DEF ToSet
  <2>. QED
    BY <1>0, <1>1, <2>1, <2>2, <2>3
<1>. QED
  BY <1>1, <1>6, <1>9, <1>10, <1>11 DEF t

LEMMA HeadTailFacts ==
  ASSUME NEW S, NEW s \in Seq(S), s # <<>>
  PROVE  /\ 1 \in DOMAIN s /\ Head(s) = s[1] /\ Head(s) \in S /\ Tail(s) \in Seq(S)
         /\ \A i \in DOMAIN Tail(s) :
              i \in Nat /\ i + 1 \in DOMAIN s /\ Tail(s)[i] = s[i + 1] /\ i + 1 # 1
         /\ \A i \in DOMAIN s \ {1} : i - 1 \in DOMAIN Tail(s) /\ Tail(s)[i - 1] = s[i]
<1>1. /\ Len(s) \in Nat \ {0} /\ DOMAIN s = 1..Len(s) /\ Head(s) = s[1]
  BY EmptySeq, LenProperties
<1>. DEFINE t == Tail(s)
<1>2. /\ Head(s) \in S /\ t \in Seq(S) /\ Len(t) = Len(s) - 1
      /\ \A i \in 1..Len(t) : t[i] = s[i + 1]
  BY HeadTailProperties
<1>. HIDE DEF t
<1>3. DOMAIN t = 1..Len(t)
  BY <1>2, LenProperties
<1>4. \A i \in DOMAIN s \ {1} : i - 1 \in 1..Len(t) /\ t[i - 1] = s[(i - 1) + 1]
  BY <1>1, <1>2
<1>5. \A i \in DOMAIN s : (i - 1) + 1 = i
  BY <1>1
<1>. QED
  BY <1>1, <1>2, <1>3, <1>4, <1>5 DEF t

-----------------------------------------------------------------------------
(* Sums of sequences of numbers.                                           *)

\* f has the sums of the first n numbers of w.
SumsUpTo(w, n, f) ==
  /\ f \in [0..n -> Int] /\ f[0] = 0
  /\ \A i \in 1..n : f[i] = f[i - 1] + w[i]

Sums(w, f) == SumsUpTo(w, Len(w), f)

LEMMA SumsExist ==
  ASSUME NEW w \in Seq(Int)
  PROVE  \E f : Sums(w, f)
<1>. DEFINE T == {n \in 0..Len(w) : ~ \E f : SumsUpTo(w, n, f)}
<1>1. T = {}
  <2>. SUFFICES ASSUME T # {} PROVE FALSE
    OBVIOUS
  <2>1. T \in SUBSET Nat
    OBVIOUS
  <2>2. PICK n \in T : \A k \in T : n <= k
    BY <2>1, LeastNat
  <2>3. n \in 0..Len(w) /\ ~ \E f : SumsUpTo(w, n, f)
    OBVIOUS
  <2>4. CASE n = 0
    <3>1. SumsUpTo(w, 0, [i \in 0..0 |-> 0])
      BY DEF SumsUpTo
    <3>. QED
      BY <2>3, <2>4, <3>1
  <2>5. CASE n # 0
    <3>1. PICK k \in 0..Len(w) : k = n - 1
      BY <2>3, <2>5
    <3>2. k \notin T
      <4>1. n \in Nat /\ k \in Nat /\ ~(n <= k)
        BY <2>3, <2>5, <3>1
      <4>. HIDE DEF T
      <4>2. ASSUME k \in T PROVE FALSE
        <5>1. n <= k
          BY <2>2, <4>2
        <5>. QED
          BY <4>1, <5>1
      <4>. QED
        BY <4>2
    <3>3. PICK f : SumsUpTo(w, k, f)
      BY <3>2
    <3>4. w[n] \in Int
      BY <2>3, <2>5
    <3>. DEFINE g == [i \in 0..n |-> IF i = n THEN f[k] + w[n] ELSE f[i]]
    <3>5. f \in [0..k -> Int] /\ f[0] = 0 /\ \A i \in 1..k : f[i] = f[i - 1] + w[i]
      BY <3>3 DEF SumsUpTo
    <3>6. g \in [0..n -> Int]
      BY <2>3, <3>1, <3>4, <3>5
    <3>7. g[0] = 0
      BY <2>3, <2>5, <3>5
    <3>8. ASSUME NEW i \in 1..n PROVE g[i] = g[i - 1] + w[i]
      <4>1. i \in 0..n /\ i - 1 \in 0..n /\ i - 1 # n
        BY <2>3
      <4>2. g[i - 1] = f[i - 1]
        BY <4>1
      <4>3. CASE i = n
        <5>1. i - 1 = k
          BY <3>1, <4>3
        <5>. QED
          BY <4>1, <4>2, <4>3, <5>1
      <4>4. CASE i # n
        <5>1. i \in 1..k
          BY <2>3, <3>1, <4>4
        <5>2. g[i] = f[i]
          BY <4>1, <4>4
        <5>. QED
          BY <3>5, <4>2, <5>1, <5>2
      <4>. QED
        BY <4>3, <4>4
    <3>9. SumsUpTo(w, n, g)
      BY <3>6, <3>7, <3>8 DEF SumsUpTo
    <3>. QED
      BY <2>3, <3>9
  <2>. QED
    BY <2>4, <2>5
<1>2. Len(w) \in 0..Len(w)
  OBVIOUS
<1>. QED
  BY <1>1, <1>2 DEF Sums

\* What holds of a sum at 0, and of the next if of one, holds of all.
LEMMA UpTo ==
  ASSUME NEW n \in Nat, NEW P \in SUBSET Nat, 0 \in P,
         \A i \in 1..n : i - 1 \in P => i \in P
  PROVE  0..n \subseteq P
<1>. DEFINE T == (0..n) \ P
<1>. SUFFICES ASSUME T # {} PROVE FALSE
  OBVIOUS
<1>0. T \in SUBSET Nat
  OBVIOUS
<1>1. PICK k \in T : \A i \in T : k <= i
  BY <1>0, LeastNat
<1>2. k \in 1..n /\ k - 1 \in 0..n
  OBVIOUS
<1>. QED
  BY <1>1, <1>2

LEMMA SumsAgree ==
  ASSUME NEW w \in Seq(Int), NEW v \in Seq(Int), NEW f, NEW g, NEW n \in Nat,
         NEW l \in Nat, n <= l,
         SumsUpTo(w, n, f), SumsUpTo(v, l, g), \A i \in 1..n : w[i] = v[i]
  PROVE  \A i \in 0..n : f[i] = g[i]
<1>. DEFINE P == {i \in Nat : f[i] = g[i]}
<1>1. 0 \in P
  BY DEF SumsUpTo
<1>2. ASSUME NEW i \in 1..n, i - 1 \in P PROVE i \in P
  <2>1. i \in 1..n /\ i \in 1..l /\ w[i] = v[i] /\ f[i - 1] = g[i - 1]
    BY <1>2
  <2>2. f[i] = f[i - 1] + w[i] /\ g[i] = g[i - 1] + v[i]
    BY <2>1 DEF SumsUpTo
  <2>. QED
    BY <2>1, <2>2
<1>3. P \in SUBSET Nat
  OBVIOUS
<1>. HIDE DEF P
<1>4. 0..n \subseteq P
  BY <1>1, <1>2, <1>3, UpTo
<1>. QED
  BY <1>4 DEF P

\* There is one sum.
LEMMA SumsUnique ==
  ASSUME NEW w \in Seq(Int), NEW f, NEW g, Sums(w, f), Sums(w, g)
  PROVE  f[Len(w)] = g[Len(w)] /\ f[Len(w)] \in Int
<1>1. Len(w) \in Nat /\ Len(w) \in 0..Len(w)
  OBVIOUS
<1>2. \A i \in 0..Len(w) : f[i] = g[i]
  BY <1>1, SumsAgree DEF Sums
<1>. QED
  BY <1>1, <1>2 DEF Sums, SumsUpTo

LEMMA SumsNotNegative ==
  ASSUME NEW w \in Seq(Int), \A i \in 1..Len(w) : w[i] >= 0, NEW f, Sums(w, f)
  PROVE  f[Len(w)] \in Nat
<1>. DEFINE P == {i \in Nat : i <= Len(w) => f[i] >= 0}
            n == Len(w)
<1>1. n \in Nat /\ n \in 0..n
  OBVIOUS
<1>2. f \in [0..n -> Int] /\ f[0] = 0 /\ \A i \in 1..n : f[i] = f[i - 1] + w[i]
  BY DEF Sums, SumsUpTo
<1>3. 0 \in P /\ P \in SUBSET Nat
  BY <1>2
<1>4. ASSUME NEW i \in 1..n, i - 1 \in P PROVE i \in P
  <2>1. f[i - 1] >= 0 /\ f[i - 1] \in Int /\ w[i] >= 0 /\ w[i] \in Int
    BY <1>1, <1>2, <1>4
  <2>. QED
    BY <1>2, <2>1
<1>. HIDE DEF P
<1>5. 0..n \subseteq P
  BY <1>1, <1>3, <1>4, UpTo
<1>. QED
  BY <1>1, <1>2, <1>5 DEF P

\* A number more at the end, or one less somewhere.
LEMMA SumsAppend ==
  ASSUME NEW w \in Seq(Int), NEW x \in Int, NEW f, Sums(w, f),
         NEW g, Sums(Append(w, x), g)
  PROVE  g[Len(w) + 1] = f[Len(w)] + x
<1>. DEFINE v == Append(w, x)
            n == Len(w)
<1>1. /\ n \in Nat /\ n \in 0..n /\ v \in Seq(Int) /\ Len(v) = n + 1 /\ v[n + 1] = x
      /\ \A i \in 1..n : w[i] = v[i]
  OBVIOUS
<1>. HIDE DEF v
<1>2. SumsUpTo(w, n, f) /\ SumsUpTo(v, n + 1, g)
  BY <1>1 DEF Sums, v
<1>. HIDE DEF n
<1>3. \A i \in 0..n : f[i] = g[i]
  <2>1. PICK l \in Nat : l = n + 1
    BY <1>1
  <2>2. n \in Nat /\ n \in 0..n /\ n <= l /\ v \in Seq(Int)
    BY <1>1, <2>1
  <2>3. SumsUpTo(w, n, f) /\ SumsUpTo(v, l, g)
    BY <1>2, <2>1
  <2>4. \A i \in 1..n : w[i] = v[i]
    BY <1>1
  <2>. HIDE DEF n
  <2>. QED
    BY <2>2, <2>3, <2>4, SumsAgree
<1>4. g[n + 1] = g[(n + 1) - 1] + v[n + 1] /\ (n + 1) - 1 = n
  BY <1>1, <1>2 DEF SumsUpTo
<1>. QED
  BY <1>1, <1>3, <1>4 DEF n

LEMMA SumsRemoveAt ==
  ASSUME NEW w \in Seq(Int), NEW k \in 1..Len(w), NEW f, Sums(w, f),
         NEW g, Sums(RemoveAt(w, k), g)
  PROVE  g[Len(w) - 1] = f[Len(w)] - w[k]
<1>. DEFINE v == RemoveAt(w, k)
            n == Len(w)
            P == {i \in Nat : IF i < k THEN g[i] = f[i] ELSE i < n => g[i] = f[i + 1] - w[k]}
<1>1. /\ n \in Nat /\ n - 1 \in Nat /\ Len(v) = n - 1
      /\ \A i \in 1..(n - 1) : v[i] = IF i < k THEN w[i] ELSE w[i + 1]
  BY RemoveAtFacts
<1>. HIDE DEF v
<1>2. /\ f \in [0..n -> Int] /\ f[0] = 0 /\ \A i \in 1..n : f[i] = f[i - 1] + w[i]
      /\ g \in [0..(n - 1) -> Int] /\ g[0] = 0
      /\ \A i \in 1..(n - 1) : g[i] = g[i - 1] + v[i]
  BY <1>1 DEF Sums, SumsUpTo, v
<1>3. \A i \in 1..n : w[i] \in Int
  OBVIOUS
<1>4. 0 \in P /\ P \in SUBSET Nat
  BY <1>2
<1>5. ASSUME NEW i \in 1..(n - 1), i - 1 \in P PROVE i \in P
  <2>0. i \in Nat /\ i < n /\ i \in 1..n /\ i + 1 \in 1..n /\ k \in Nat /\ (i + 1) - 1 = i /\ i - 1 \in 0..(n - 1)
    BY <1>1
  <2>. DEFINE A == f[i - 1] B == f[i] C == f[i + 1] X == w[i] Y == w[i + 1] Z == w[k]
              G == g[i - 1] H == g[i] V == v[i]
  <2>1. B = A + X /\ C = B + Y /\ H = G + V /\ V = IF i < k THEN X ELSE Y
    BY <1>1, <1>2, <2>0
  <2>2. A \in Int /\ B \in Int /\ C \in Int /\ X \in Int /\ Y \in Int /\ Z \in Int /\ G \in Int
    <3>1. i - 1 \in 0..n /\ i \in 0..n /\ i + 1 \in 0..n
      BY <1>1, <2>0
    <3>2. A \in Int /\ B \in Int /\ C \in Int
      BY <1>2, <3>1
    <3>3. X \in Int /\ Y \in Int /\ Z \in Int
      BY <1>3, <2>0
    <3>4. G \in Int
      BY <1>2, <2>0
    <3>. QED
      BY <3>2, <3>3, <3>4
  <2>3. IF i - 1 < k THEN G = A ELSE G = B - Z
    <3>1. (i - 1) + 1 = i /\ i - 1 < n
      BY <2>0
    <3>. QED
      BY <1>5, <3>1
  <2>4. i = k => X = Z
    OBVIOUS
  <2>. HIDE DEF A, B, C, X, Y, Z, G, H, V
  <2>5. CASE i < k
    <3>1. H = B
      BY <2>0, <2>1, <2>2, <2>3, <2>5
    <3>. QED
      BY <2>0, <2>5, <3>1 DEF H, B
  <2>6. CASE i = k
    <3>1. H = C - Z
      BY <2>0, <2>1, <2>2, <2>3, <2>4, <2>6
    <3>. QED
      BY <2>0, <2>6, <3>1 DEF H, C, Z
  <2>7. CASE i > k
    <3>1. H = C - Z
      BY <2>0, <2>1, <2>2, <2>3, <2>7
    <3>. QED
      BY <2>0, <2>7, <3>1 DEF H, C, Z
  <2>. QED
    BY <2>0, <2>5, <2>6, <2>7
<1>. HIDE DEF P
<1>6. 0..(n - 1) \subseteq P
  BY <1>1, <1>4, <1>5, UpTo
<1>7. n - 1 \in P /\ (n - 1) + 1 = n /\ n - 1 < n
  <2>1. n - 1 \in 0..(n - 1) /\ (n - 1) + 1 = n /\ n - 1 < n
    BY <1>1
  <2>. QED
    BY <1>6, <2>1
<1>8. CASE n - 1 < k
  <2>1. n = k /\ g[n - 1] = f[n - 1] /\ f[n] = f[n - 1] + w[k]
    BY <1>1, <1>2, <1>7, <1>8 DEF P
  <2>2. f[n - 1] \in Int /\ w[k] \in Int
    <3>1. n - 1 \in 0..n
      BY <1>1
    <3>. QED
      BY <1>2, <1>3, <3>1
  <2>. QED
    BY <2>1, <2>2
<1>9. CASE ~(n - 1 < k)
  BY <1>7, <1>9 DEF P
<1>. QED
  BY <1>8, <1>9

-----------------------------------------------------------------------------
(* Sums over finite sets.                                                  *)

\* What holds of a set if it holds of the set without any one of its
\* elements, holds of all subsets of a finite set.
LEMMA AllSubsets ==
  ASSUME NEW S, IsFiniteSet(S), NEW P \in SUBSET SUBSET S, {} \in P,
         \A T \in SUBSET S : T # {} /\ (\A x \in T : T \ {x} \in P) => T \in P
  PROVE  \A T \in SUBSET S : T \in P
<1>. DEFINE Bad == {T \in SUBSET S : T \notin P}
            Sizes == {Cardinality(T) : T \in Bad}
<1>. SUFFICES ASSUME Bad # {} PROVE FALSE
  OBVIOUS
<1>1. \A T \in SUBSET S : IsFiniteSet(T) /\ Cardinality(T) \in Nat
  BY FS_Subset, FS_CardinalityType
<1>2. Sizes \in SUBSET Nat /\ Sizes # {}
  BY <1>1
<1>3. PICK n \in Sizes : \A k \in Sizes : n <= k
  BY <1>2, LeastNat
<1>4. PICK T \in Bad : n = Cardinality(T)
  BY <1>3
<1>5. T # {} /\ T \in SUBSET S
  BY <1>4
<1>6. ASSUME NEW x \in T PROVE T \ {x} \in P
  <2>1. IsFiniteSet(T) /\ Cardinality(T \ {x}) = Cardinality(T) - 1
    BY <1>1, <1>5, FS_RemoveElement
  <2>2. Cardinality(T \ {x}) \in Nat /\ Cardinality(T) \in Nat /\ T \ {x} \in SUBSET S
    BY <1>1, <1>5
  <2>3. Cardinality(T \ {x}) \notin Sizes
    <3>1. PICK c \in Nat : c = Cardinality(T \ {x})
      BY <2>2
    <3>2. n \in Nat /\ ~(n <= c)
      BY <1>4, <2>1, <2>2, <3>1
    <3>. HIDE DEF Sizes
    <3>. QED
      BY <1>3, <3>1, <3>2
  <2>. QED
    BY <2>2, <2>3
<1>. QED
  BY <1>4, <1>5, <1>6

\* g has the sums of f over the subsets of S.
SetSums(S, f, g) ==
  /\ g \in [SUBSET S -> Int] /\ g[{}] = 0
  /\ \A T \in SUBSET S : \A x \in T : g[T] = f[x] + g[T \ {x}]

LEMMA SetSumsExist ==
  ASSUME NEW S, IsFiniteSet(S), NEW f \in [S -> Int]
  PROVE  \E g : SetSums(S, f, g)
<1>. DEFINE P == {T \in SUBSET S : \E g : SetSums(T, f, g)}
<1>1. {} \in P
  <2>. DEFINE g == [T \in SUBSET {} |-> 0]
  <2>1. g \in [SUBSET {} -> Int] /\ g[{}] = 0
    OBVIOUS
  <2>2. SetSums({}, f, g)
    BY <2>1 DEF SetSums
  <2>. QED
    BY <2>2
<1>2. ASSUME NEW T \in SUBSET S, T # {}, \A x \in T : T \ {x} \in P
      PROVE  T \in P
  <2>1. PICK x : x \in T
    BY <1>2
  <2>2. T \ {x} \in P
    BY <1>2, <2>1
  <2>3. PICK g : SetSums(T \ {x}, f, g)
    BY <2>2
  <2>4. /\ g \in [SUBSET (T \ {x}) -> Int] /\ g[{}] = 0
        /\ \A U \in SUBSET (T \ {x}) : \A y \in U : g[U] = f[y] + g[U \ {y}]
    BY <2>3 DEF SetSums
  <2>. DEFINE h == [U \in SUBSET T |-> IF x \in U THEN f[x] + g[U \ {x}] ELSE g[U]]
  <2>5. \A U \in SUBSET T : U \ {x} \in SUBSET (T \ {x}) /\ (x \notin U => U \in SUBSET (T \ {x}))
    OBVIOUS
  <2>6. \A y \in S : f[y] \in Int
    OBVIOUS
  <2>7. h \in [SUBSET T -> Int] /\ h[{}] = 0
    <3>1. ASSUME NEW U \in SUBSET T
          PROVE  (IF x \in U THEN f[x] + g[U \ {x}] ELSE g[U]) \in Int
      BY <2>1, <2>4, <2>5, <2>6
    <3>. QED
      BY <2>4, <3>1
  <2>8. ASSUME NEW U \in SUBSET T, NEW y \in U
        PROVE  h[U] = f[y] + h[U \ {y}]
    <3>1. CASE x \notin U
      BY <2>4, <2>5, <3>1
    <3>2. CASE x \in U /\ y = x
      BY <3>2
    <3>3. CASE x \in U /\ y # x
      <4>. DEFINE V == U \ {x}
                  W == U \ {y}
      <4>1. V \in SUBSET (T \ {x}) /\ y \in V /\ W \in SUBSET T /\ x \in W
        BY <3>3
      <4>2. g[V] = f[y] + g[V \ {y}]
        BY <2>4, <4>1
      <4>3. h[U] = f[x] + g[V] /\ h[W] = f[x] + g[W \ {x}]
        BY <3>3, <4>1
      <4>4. W \ {x} = V \ {y} /\ V \ {y} \in SUBSET (T \ {x})
        BY <4>1
      <4>. DEFINE a == f[x]
                  b == f[y]
                  c == g[V \ {y}]
      <4>5. a \in Int /\ b \in Int /\ c \in Int
        BY <2>1, <2>4, <4>4
      <4>6. g[W \ {x}] = c
        BY <4>4
      <4>7. g[V] = b + c /\ h[U] = a + g[V] /\ h[W] = a + c
        BY <4>2, <4>3, <4>6
      <4>. HIDE DEF h, V, W, a, b, c
      <4>8. h[U] = b + h[W]
        BY <4>5, <4>7
      <4>. QED
        BY <4>8 DEF W, b
    <3>. QED
      BY <3>1, <3>2, <3>3
  <2>. HIDE DEF h
  <2>9. SetSums(T, f, h)
    BY <2>7, <2>8 DEF SetSums
  <2>. QED
    BY <2>9
<1>3. P \in SUBSET SUBSET S
  OBVIOUS
<1>. HIDE DEF P
<1>4. S \in P
  BY <1>1, <1>2, <1>3, AllSubsets
<1>. QED
  BY <1>4 DEF P

\* The sum of f, a function on the finite set S, over a subset T of it.
SumIn(S, f, T) == (CHOOSE g : SetSums(S, f, g))[T]

LEMMA SumInIs ==
  ASSUME NEW S, IsFiniteSet(S), NEW f \in [S -> Int]
  PROVE  /\ SumIn(S, f, {}) = 0
         /\ \A T \in SUBSET S : SumIn(S, f, T) \in Int
         /\ \A T \in SUBSET S : \A x \in T :
              SumIn(S, f, T) = f[x] + SumIn(S, f, T \ {x})
<1>. DEFINE g == CHOOSE g : SetSums(S, f, g)
<1>1. SetSums(S, f, g)
  BY SetSumsExist
<1>. HIDE DEF g
<1>2. \A T : SumIn(S, f, T) = g[T]
  BY DEF SumIn, g
<1>. QED
  BY <1>1, <1>2 DEF SetSums

\* Greater summands have a greater sum, and the sum of differences is the
\* difference of the sums.
LEMMA SumInOf ==
  ASSUME NEW S, IsFiniteSet(S), NEW f \in [S -> Int], NEW g \in [S -> Int],
         NEW h \in [S -> Int]
  PROVE  /\ (\A x \in S : f[x] <= g[x]) =>
              \A T \in SUBSET S : SumIn(S, f, T) <= SumIn(S, g, T)
         /\ (\A x \in S : h[x] = f[x] - g[x]) =>
              \A T \in SUBSET S : SumIn(S, h, T) = SumIn(S, f, T) - SumIn(S, g, T)
<1>0. \A k \in [S -> Int] :
         /\ SumIn(S, k, {}) = 0
         /\ \A T \in SUBSET S : SumIn(S, k, T) \in Int
         /\ \A T \in SUBSET S : \A x \in T :
              x \in S /\ k[x] \in Int /\ T \ {x} \in SUBSET S
              /\ SumIn(S, k, T) = k[x] + SumIn(S, k, T \ {x})
  BY SumInIs
<1>1. ASSUME \A x \in S : f[x] <= g[x]
      PROVE  \A T \in SUBSET S : SumIn(S, f, T) <= SumIn(S, g, T)
  <2>. DEFINE P == {T \in SUBSET S : SumIn(S, f, T) <= SumIn(S, g, T)}
  <2>1. {} \in P /\ P \in SUBSET SUBSET S
    BY <1>0
  <2>2. ASSUME NEW T \in SUBSET S, T # {}, \A x \in T : T \ {x} \in P
        PROVE  T \in P
    <3>1. PICK x : x \in T
      BY <2>2
    <3>2. T \ {x} \in P /\ x \in S
      BY <2>2, <3>1
    <3>3. SumIn(S, f, T \ {x}) <= SumIn(S, g, T \ {x}) /\ f[x] <= g[x]
      BY <1>1, <3>2
    <3>4. /\ SumIn(S, f, T) = f[x] + SumIn(S, f, T \ {x})
          /\ SumIn(S, g, T) = g[x] + SumIn(S, g, T \ {x})
          /\ SumIn(S, f, T \ {x}) \in Int /\ SumIn(S, g, T \ {x}) \in Int
          /\ f[x] \in Int /\ g[x] \in Int
      BY <1>0, <3>1
    <3>. QED
      BY <3>3, <3>4
  <2>. HIDE DEF P
  <2>3. \A T \in SUBSET S : T \in P
    BY <2>1, <2>2, AllSubsets
  <2>. QED
    BY <2>3 DEF P
<1>2. ASSUME \A x \in S : h[x] = f[x] - g[x]
      PROVE  \A T \in SUBSET S : SumIn(S, h, T) = SumIn(S, f, T) - SumIn(S, g, T)
  <2>. DEFINE P == {T \in SUBSET S : SumIn(S, h, T) = SumIn(S, f, T) - SumIn(S, g, T)}
  <2>1. {} \in P /\ P \in SUBSET SUBSET S
    BY <1>0
  <2>2. ASSUME NEW T \in SUBSET S, T # {}, \A x \in T : T \ {x} \in P
        PROVE  T \in P
    <3>1. PICK x : x \in T
      BY <2>2
    <3>2. T \ {x} \in P /\ x \in S
      BY <2>2, <3>1
    <3>3. SumIn(S, h, T \ {x}) = SumIn(S, f, T \ {x}) - SumIn(S, g, T \ {x})
          /\ h[x] = f[x] - g[x]
      BY <1>2, <3>2
    <3>. QED
      BY <1>0, <3>1, <3>2, <3>3
  <2>. HIDE DEF P
  <2>3. \A T \in SUBSET S : T \in P
    BY <2>1, <2>2, AllSubsets
  <2>. QED
    BY <2>3 DEF P
<1>. QED
  BY <1>1, <1>2

\* Summands outside of a set that are not negative only add to its sum; those
\* that are zero do not count.
LEMMA SumInPart ==
  ASSUME NEW S, IsFiniteSet(S), NEW f \in [S -> Int], NEW U \in SUBSET S
  PROVE  /\ (\A x \in S \ U : f[x] >= 0) => SumIn(S, f, U) <= SumIn(S, f, S)
         /\ (\A x \in S \ U : f[x] = 0) => SumIn(S, f, U) = SumIn(S, f, S)
<1>0. /\ \A T \in SUBSET S : SumIn(S, f, T) \in Int
      /\ \A T \in SUBSET S : \A x \in T :
           x \in S /\ f[x] \in Int /\ T \ {x} \in SUBSET S
           /\ SumIn(S, f, T) = f[x] + SumIn(S, f, T \ {x})
  BY SumInIs
<1>1. ASSUME \A x \in S \ U : f[x] >= 0 PROVE SumIn(S, f, U) <= SumIn(S, f, S)
  <2>. DEFINE P == {T \in SUBSET S : U \subseteq T => SumIn(S, f, U) <= SumIn(S, f, T)}
  <2>1. {} \in P /\ P \in SUBSET SUBSET S
    <3>1. U \subseteq {} => U = {}
      OBVIOUS
    <3>. QED
      BY <1>0, <3>1
  <2>2. ASSUME NEW T \in SUBSET S, T # {}, \A x \in T : T \ {x} \in P
        PROVE  T \in P
    <3>1. CASE U \subseteq T /\ U # T
      <4>1. PICK x \in T : x \notin U
        BY <3>1
      <4>2. T \ {x} \in P /\ U \subseteq T \ {x} /\ f[x] >= 0
        BY <1>1, <2>2, <3>1, <4>1
      <4>3. SumIn(S, f, U) <= SumIn(S, f, T \ {x})
        BY <4>2
      <4>. QED
        BY <1>0, <4>1, <4>2, <4>3
    <3>2. CASE ~(U \subseteq T) \/ U = T
      BY <1>0, <3>2
    <3>. QED
      BY <3>1, <3>2
  <2>. HIDE DEF P
  <2>3. S \in P
    BY <2>1, <2>2, AllSubsets
  <2>. QED
    BY <2>3 DEF P
<1>2. ASSUME \A x \in S \ U : f[x] = 0 PROVE SumIn(S, f, U) = SumIn(S, f, S)
  <2>. DEFINE P == {T \in SUBSET S : U \subseteq T => SumIn(S, f, U) = SumIn(S, f, T)}
  <2>1. {} \in P /\ P \in SUBSET SUBSET S
    <3>1. U \subseteq {} => U = {}
      OBVIOUS
    <3>. QED
      BY <1>0, <3>1
  <2>2. ASSUME NEW T \in SUBSET S, T # {}, \A x \in T : T \ {x} \in P
        PROVE  T \in P
    <3>1. CASE U \subseteq T /\ U # T
      <4>1. PICK x \in T : x \notin U
        BY <3>1
      <4>2. T \ {x} \in P /\ U \subseteq T \ {x} /\ f[x] = 0
        BY <1>2, <2>2, <3>1, <4>1
      <4>3. SumIn(S, f, U) = SumIn(S, f, T \ {x})
        BY <4>2
      <4>. QED
        BY <1>0, <4>1, <4>2, <4>3
    <3>2. CASE ~(U \subseteq T) \/ U = T
      BY <1>0, <3>2
    <3>. QED
      BY <3>1, <3>2
  <2>. HIDE DEF P
  <2>3. S \in P
    BY <2>1, <2>2, AllSubsets
  <2>. QED
    BY <2>3 DEF P
<1>. QED
  BY <1>1, <1>2

\* Functions that agree on a set have the same sum over it.
LEMMA SumInAgree ==
  ASSUME NEW S, IsFiniteSet(S), NEW f \in [S -> Int], NEW g \in [S -> Int],
         NEW U \in SUBSET S, \A x \in U : f[x] = g[x]
  PROVE  SumIn(S, f, U) = SumIn(S, g, U)
<1>0. \A k \in [S -> Int] :
         /\ SumIn(S, k, {}) = 0
         /\ \A T \in SUBSET S : \A x \in T : SumIn(S, k, T) = k[x] + SumIn(S, k, T \ {x})
  BY SumInIs
<1>. DEFINE P == {T \in SUBSET U : SumIn(S, f, T) = SumIn(S, g, T)}
<1>1. {} \in P /\ P \in SUBSET SUBSET U
  BY <1>0
<1>2. ASSUME NEW T \in SUBSET U, T # {}, \A x \in T : T \ {x} \in P
      PROVE  T \in P
  <2>1. PICK x : x \in T
    BY <1>2
  <2>2. SumIn(S, f, T \ {x}) = SumIn(S, g, T \ {x}) /\ f[x] = g[x] /\ T \in SUBSET S
    BY <1>2, <2>1
  <2>3. /\ SumIn(S, f, T) = f[x] + SumIn(S, f, T \ {x})
        /\ SumIn(S, g, T) = g[x] + SumIn(S, g, T \ {x})
    BY <1>0, <2>1, <2>2
  <2>. QED
    BY <2>2, <2>3
<1>. HIDE DEF P
<1>3. IsFiniteSet(U)
  BY FS_Subset
<1>4. \A T \in SUBSET U : T \in P
  BY <1>1, <1>2, <1>3, AllSubsets, Zenon
<1>. QED
  BY <1>4 DEF P

-----------------------------------------------------------------------------
(* Recursive functions.                                                   *)

\* G[x][f] is the value at x of a function on S with values in V; of f it needs
\* the values at elements of a smaller measure m only.
Recurs(S, V, m, G) ==
  /\ V # {} /\ m \in [S -> Nat] /\ G \in [S -> [[S -> V] -> V]]
  /\ \A x \in S : \A f, g \in [S -> V] :
       (\A y \in S : m[y] < m[x] => f[y] = g[y]) => G[x][f] = G[x][g]

\* Such a function exists.
LEMMA RecursionExists ==
  ASSUME NEW S, NEW V, NEW m, NEW G, Recurs(S, V, m, G)
  PROVE  \E f \in [S -> V] : \A x \in S : f[x] = G[x][f]
<1>0. /\ V # {} /\ m \in [S -> Nat] /\ G \in [S -> [[S -> V] -> V]]
      /\ \A x \in S : \A f, g \in [S -> V] :
           (\A y \in S : m[y] < m[x] => f[y] = g[y]) => G[x][f] = G[x][g]
  BY DEF Recurs
<1>. USE <1>0
<1>. DEFINE Upto(f, n) == \A x \in S : m[x] < n => f[x] = G[x][f]
            P == {n \in Nat : \E f \in [S -> V] : Upto(f, n)}
            Least(n) == CHOOSE f \in [S -> V] : Upto(f, n)
\* Solutions below n agree below n.
<1>1. ASSUME NEW n \in Nat, NEW f \in [S -> V], NEW g \in [S -> V],
             Upto(f, n), Upto(g, n)
      PROVE  \A x \in S : m[x] < n => f[x] = g[x]
  <2>. DEFINE Bad == {i \in Nat : \E x \in S : m[x] = i /\ i < n /\ f[x] # g[x]}
  <2>. SUFFICES ASSUME NEW z \in S, m[z] < n, f[z] # g[z]
                PROVE  FALSE
    OBVIOUS
  <2>1. m[z] \in Bad
    OBVIOUS
  <2>2. PICK i \in Bad : \A j \in Bad : i <= j
    <3>1. Bad \in SUBSET Nat /\ Bad # {}
      BY <2>1
    <3>. HIDE DEF Bad
    <3>. QED
      BY <3>1, LeastNat
  <2>3. PICK x \in S : m[x] = i /\ i < n /\ f[x] # g[x]
    BY <2>2
  <2>4. \A y \in S : m[y] < m[x] => f[y] = g[y]
    <3>. SUFFICES ASSUME NEW y \in S, m[y] < m[x], f[y] # g[y]
                  PROVE  FALSE
      OBVIOUS
    <3>1. m[y] \in Nat /\ m[x] \in Nat /\ m[y] < n
      BY <2>3
    <3>2. m[y] \in Bad
      BY <3>1
    <3>. QED
      BY <2>2, <2>3, <3>1, <3>2
  <2>5. f[x] = G[x][f] /\ g[x] = G[x][g]
    BY <1>1, <2>3
  <2>. QED
    BY <2>3, <2>4, <2>5
<1>2. 0 \in P
  <2>1. PICK v : v \in V
    OBVIOUS
  <2>2. [x \in S |-> v] \in [S -> V] /\ Upto([x \in S |-> v], 0)
    BY <2>1
  <2>. QED
    BY <2>2
<1>3. ASSUME NEW n \in Nat, n \in P
      PROVE  n + 1 \in P
  <2>1. PICK f \in [S -> V] : Upto(f, n)
    BY <1>3
  <2>. DEFINE g == [x \in S |-> IF m[x] = n THEN G[x][f] ELSE f[x]]
  <2>2. g \in [S -> V]
    OBVIOUS
  <2>3. ASSUME NEW x \in S, m[x] < n + 1
        PROVE  g[x] = G[x][g]
    <3>1. \A y \in S : m[y] < m[x] => f[y] = g[y]
      <4>1. \A y \in S : m[y] \in Nat
        OBVIOUS
      <4>. QED
        BY <2>3, <4>1
    <3>2. G[x][f] = G[x][g]
      BY <2>2, <3>1
    <3>3. m[x] = n \/ m[x] < n
      <4>1. m[x] \in Nat
        OBVIOUS
      <4>2. \A i \in Nat : i < n + 1 => i = n \/ i < n
        OBVIOUS
      <4>. HIDE DEF P, g, Least
      <4>. QED
        BY <2>3, <4>1, <4>2
    <3>4. g[x] = IF m[x] = n THEN G[x][f] ELSE f[x]
      OBVIOUS
    <3>5. m[x] < n => f[x] = G[x][f]
      BY <2>1
    <3>. HIDE DEF g
    <3>. QED
      BY <3>2, <3>3, <3>4, <3>5
  <2>4. g \in [S -> V] /\ Upto(g, n + 1)
    BY <2>2, <2>3
  <2>. QED
    <3>. HIDE DEF g, Upto
    <3>1. \E f2 \in [S -> V] : Upto(f2, n + 1)
      BY <2>4
    <3>. QED
      BY <3>1
<1>4. \A n \in Nat : n \in P
  <2>1. P \in SUBSET Nat
    OBVIOUS
  <2>. HIDE DEF P
  <2>2. ASSUME NEW n \in Nat, NEW i \in 1..n, i - 1 \in P
        PROVE  i \in P
    <3>1. i - 1 \in Nat /\ (i - 1) + 1 = i
      OBVIOUS
    <3>. QED
      BY <1>3, <2>2, <3>1
  <2>3. \A n \in Nat : 0..n \subseteq P
    BY <1>2, <2>1, <2>2, UpTo
  <2>4. \A n \in Nat : n \in 0..n
    OBVIOUS
  <2>. QED
    BY <2>3, <2>4
<1>5. \A n \in Nat : Least(n) \in [S -> V] /\ Upto(Least(n), n)
  <2>. SUFFICES ASSUME NEW n \in Nat
                PROVE  Least(n) \in [S -> V] /\ Upto(Least(n), n)
    OBVIOUS
  <2>1. \E f \in [S -> V] : Upto(f, n)
    BY <1>4
  <2>. HIDE DEF Upto
  <2>. QED
    BY <2>1
<1>. DEFINE F == [x \in S |-> Least(m[x] + 1)[x]]
<1>. HIDE DEF Least
<1>6. F \in [S -> V]
  <2>1. \A x \in S : m[x] + 1 \in Nat
    OBVIOUS
  <2>. QED
    BY <1>5, <2>1
<1>7. ASSUME NEW x \in S
      PROVE  F[x] = G[x][F]
  <2>. DEFINE f == Least(m[x] + 1)
  <2>1. m[x] \in Nat /\ m[x] + 1 \in Nat
    OBVIOUS
  <2>2. f \in [S -> V] /\ Upto(f, m[x] + 1)
    BY <1>5, <2>1
  <2>3. F[x] = f[x] /\ f[x] = G[x][f]
    BY <2>1, <2>2
  <2>4. ASSUME NEW y \in S, m[y] < m[x]
        PROVE  f[y] = F[y]
    <3>. DEFINE g == Least(m[y] + 1)
    <3>1. m[y] \in Nat /\ m[y] + 1 \in Nat /\ m[y] + 1 <= m[x] + 1
      BY <2>1, <2>4
    <3>2. g \in [S -> V] /\ Upto(g, m[y] + 1)
      BY <1>5, <3>1
    <3>3. Upto(f, m[y] + 1)
      BY <2>1, <2>2, <3>1
    <3>4. F[y] = g[y]
      OBVIOUS
    <3>. HIDE DEF f, g, F, Upto
    <3>5. \A z \in S : m[z] < m[y] + 1 => f[z] = g[z]
      BY <1>1, <2>2, <3>1, <3>2, <3>3
    <3>. QED
      BY <3>1, <3>4, <3>5
  <2>. HIDE DEF f, F
  <2>5. G[x][f] = G[x][F]
    BY <1>6, <2>2, <2>4
  <2>. QED
    BY <2>3, <2>5
<1>. QED
  BY <1>6, <1>7
=============================================================================
