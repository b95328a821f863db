--------------------------- MODULE ForwardingProofs ---------------------------
(***************************************************************************)
(* Proofs about Forwarding and Scalars, for any plan, routes, bundles and  *)
(* size of a gig: counts in gigs and units are added and subtracted as     *)
(* numbers are, the best route is chosen, and bundles leave in time.       *)
(***************************************************************************)
EXTENDS Forwarding, DataLemmas

\* What the callers have at hand: whole gigs, and fewer units than make one.
Scalar == [gigs : Int, units : 0..(OneGig - 1)]

-----------------------------------------------------------------------------
(* Splitting a number.                                                     *)

LEMMA SplitFacts ==
  ASSUME NEW n \in Nat
  PROVE  /\ Split(n) \in Scalar /\ Split(n).gigs \in Nat /\ Value(Split(n)) = n
         /\ Split(n).units \in 0..(OneGig - 1)
<1>1. OneGig \in Nat \ {0}
  BY OneGigAssumption
<1>. DEFINE a == n \div OneGig
            b == n % OneGig
<1>2. a \in Nat /\ b \in 0..(OneGig - 1) /\ n = OneGig * a + b
  BY <1>1
<1>. HIDE DEF a, b
<1>3. Split(n) = [gigs |-> a, units |-> b]
  BY DEF Split, a, b
<1>. QED
  BY <1>1, <1>2, <1>3 DEF Value, Scalar

LEMMA AbsFacts ==
  ASSUME NEW i \in Int
  PROVE  Abs(i) \in Nat /\ (i >= 0 => Abs(i) = i)
BY DEF Abs

LEMMA TimesSum ==
  ASSUME NEW a \in Int, NEW b \in Int
  PROVE  /\ OneGig * (a + b) = OneGig * a + OneGig * b
         /\ OneGig * (a - b) = OneGig * a - OneGig * b
BY OneGigAssumption

\* The two that carry and borrow.
LEMMA IncreaseFacts ==
  ASSUME NEW s \in Scalar, NEW i \in Int
  PROVE  /\ IncreaseScalar(s, i) \in Scalar
         /\ Value(IncreaseScalar(s, i)) = Value(s) + Abs(i)
<1>. DEFINE w == Split(Abs(i))
            r == Split(s.units + w.units)
<1>1. w \in Scalar /\ Value(w) = Abs(i)
  BY AbsFacts, SplitFacts
<1>2. s.units + w.units \in Nat /\ s.gigs \in Int /\ s.units \in Nat
      /\ w.gigs \in Int /\ w.units \in Nat /\ OneGig \in Nat
  BY <1>1, OneGigAssumption DEF Scalar
<1>3. r \in Scalar /\ Value(r) = s.units + w.units
  BY <1>2, SplitFacts
<1>4. r.gigs \in Int /\ r.units \in Nat
  BY <1>3, OneGigAssumption DEF Scalar
<1>5. IncreaseScalar(s, i) = [gigs |-> s.gigs + w.gigs + r.gigs, units |-> r.units]
  BY DEF IncreaseScalar
<1>. HIDE DEF w, r
<1>6. OneGig * (s.gigs + w.gigs + r.gigs) = OneGig * s.gigs + OneGig * w.gigs + OneGig * r.gigs
  BY <1>2, <1>4, TimesSum
<1>. DEFINE x == OneGig * s.gigs
            y == OneGig * w.gigs
            z == OneGig * r.gigs
<1>7. x \in Int /\ y \in Int /\ z \in Int
  BY <1>2, <1>4
<1>. HIDE DEF x, y, z
<1>8. /\ Value(s) = x + s.units /\ y + w.units = Abs(i)
      /\ z + r.units = s.units + w.units
      /\ Value(IncreaseScalar(s, i)) = x + y + z + r.units
  BY <1>1, <1>3, <1>5, <1>6 DEF Value, x, y, z
<1>9. Abs(i) \in Int
  BY AbsFacts
<1>10. IncreaseScalar(s, i) \in Scalar
  BY <1>2, <1>3, <1>4, <1>5 DEF Scalar
<1>. QED
  BY <1>2, <1>4, <1>7, <1>8, <1>9, <1>10

LEMMA ReduceFacts ==
  ASSUME NEW s \in Scalar, NEW i \in Int
  PROVE  /\ ReduceScalar(s, i) \in Scalar
         /\ Value(ReduceScalar(s, i)) = Value(s) - Abs(i)
<1>. DEFINE w == Split(Abs(i))
            t == ReduceScalar(s, i)
<1>1. w \in Scalar /\ Value(w) = Abs(i) /\ Abs(i) \in Int
  BY AbsFacts, SplitFacts
<1>2. /\ s.gigs \in Int /\ s.units \in 0..(OneGig - 1) /\ w.gigs \in Int
      /\ w.units \in 0..(OneGig - 1) /\ OneGig \in Nat
  BY <1>1, OneGigAssumption DEF Scalar
<1>. DEFINE x == OneGig * s.gigs
            y == OneGig * w.gigs
<1>3. x \in Int /\ y \in Int
  BY <1>2
<1>4. /\ OneGig * (s.gigs - w.gigs) = x - y
      /\ OneGig * (s.gigs - w.gigs - 1) = x - y - OneGig
  <2>1. OneGig * (s.gigs - w.gigs) = x - y
    BY <1>2, TimesSum
  <2>2. /\ s.gigs - w.gigs \in Int /\ OneGig * 1 = OneGig
        /\ OneGig * (s.gigs - w.gigs - 1) = OneGig * (s.gigs - w.gigs) - OneGig * 1
    BY <1>2, TimesSum
  <2>. QED
    BY <2>1, <2>2
<1>5. t = IF w.units > s.units
          THEN [gigs |-> s.gigs - w.gigs - 1, units |-> s.units + OneGig - w.units]
          ELSE [gigs |-> s.gigs - w.gigs, units |-> s.units - w.units]
  BY DEF ReduceScalar
<1>. HIDE DEF w, t, x, y
<1>6. Value(s) = x + s.units /\ Abs(i) = y + w.units
  BY <1>1 DEF Value, x, y
<1>7. CASE w.units > s.units
  <2>1. t.gigs = s.gigs - w.gigs - 1 /\ t.units = s.units + OneGig - w.units
    BY <1>5, <1>7
  <2>2. Value(t) = x - y - OneGig + (s.units + OneGig - w.units)
    BY <1>4, <2>1 DEF Value
  <2>3. t \in Scalar
    BY <1>2, <1>5, <1>7 DEF Scalar
  <2>. QED
    BY <1>2, <1>3, <1>6, <2>2, <2>3 DEF t
<1>8. CASE ~(w.units > s.units)
  <2>1. t.gigs = s.gigs - w.gigs /\ t.units = s.units - w.units
    BY <1>5, <1>8
  <2>2. Value(t) = x - y + (s.units - w.units)
    BY <1>4, <2>1 DEF Value
  <2>3. t \in Scalar
    BY <1>2, <1>5, <1>8 DEF Scalar
  <2>. QED
    BY <1>2, <1>3, <1>6, <2>2, <2>3 DEF t
<1>. QED
  BY <1>7, <1>8

-----------------------------------------------------------------------------
(* What callers rely on.                                                   *)

\* increaseScalar and reduceScalar, called with no negative number, add and subtract
\* as plain numbers do, and keep the units below a gig.
THEOREM ScalarsAreNumbers ==
  ASSUME NEW s \in Scalar, NEW i \in Nat
  PROVE  /\ IncreaseScalar(s, i) \in Scalar /\ ReduceScalar(s, i) \in Scalar
         /\ Value(IncreaseScalar(s, i)) = Value(s) + i
         /\ Value(ReduceScalar(s, i)) = Value(s) - i
<1>1. i \in Int /\ Abs(i) = i
  BY AbsFacts
<1>. QED
  BY <1>1, IncreaseFacts, ReduceFacts

\* Taking one scalar from another is the difference of their numbers.
THEOREM DifferenceIsExact ==
  ASSUME NEW s \in Scalar, NEW d \in Scalar
  PROVE  /\ SubtractFromScalar(s, d) \in Scalar
         /\ Value(SubtractFromScalar(s, d)) = Value(s) - Value(d)
<1>. DEFINE t == ReduceScalar(s, d.units)
            u == SubtractFromScalar(s, d)
<1>1. d.units \in Nat /\ d.gigs \in Int /\ OneGig \in Nat /\ s.gigs \in Int /\ s.units \in Int
  BY OneGigAssumption DEF Scalar
<1>2. t \in Scalar /\ Value(t) = Value(s) - d.units
  BY <1>1, ScalarsAreNumbers
<1>. HIDE DEF t
<1>3. t.gigs \in Int /\ t.units \in 0..(OneGig - 1) /\ t = [gigs |-> t.gigs, units |-> t.units]
  BY <1>2 DEF Scalar
<1>4. u = [gigs |-> t.gigs - d.gigs, units |-> t.units]
  BY <1>3 DEF SubtractFromScalar, t
<1>. HIDE DEF u
<1>5. u \in Scalar
  BY <1>1, <1>3, <1>4 DEF Scalar
<1>. DEFINE x == OneGig * t.gigs
            y == OneGig * d.gigs
            z == OneGig * s.gigs
<1>6. OneGig * (t.gigs - d.gigs) = x - y /\ x \in Int /\ y \in Int /\ z \in Int
  BY <1>1, <1>3, TimesSum
<1>. HIDE DEF x, y, z
<1>7. /\ Value(u) = x - y + t.units /\ Value(t) = x + t.units
      /\ Value(d) = y + d.units /\ Value(s) = z + s.units
  BY <1>4, <1>6 DEF Value, x, y, z
<1>. QED
  BY <1>1, <1>2, <1>3, <1>5, <1>6, <1>7 DEF u

\* A scalar is valid when its number is not negative, so that comparing the
\* gigs alone decides whether a backlog is cleared.
THEOREM ValidMeansNotNegative ==
  ASSUME NEW s \in Scalar
  PROVE  ScalarIsValid(s) <=> Value(s) >= 0
<1>1. OneGig \in Nat \ {0} /\ s.gigs \in Int /\ s.units \in 0..(OneGig - 1)
  BY OneGigAssumption DEF Scalar
<1>2. s.gigs >= 0 => OneGig * s.gigs >= 0
  BY <1>1
<1>3. s.gigs < 0 => OneGig * s.gigs <= 0 - OneGig
  <2>. SUFFICES ASSUME s.gigs < 0 PROVE OneGig * s.gigs <= 0 - OneGig
    OBVIOUS
  <2>. DEFINE g == 0 - s.gigs - 1
  <2>1. g \in Nat /\ s.gigs = 0 - (g + 1)
    BY <1>1
  <2>. HIDE DEF g
  <2>2. OneGig * g >= 0 /\ OneGig * g \in Int
    BY <1>1, <2>1
  <2>3. OneGig * s.gigs = 0 - OneGig * (g + 1)
    BY <1>1, <2>1
  <2>4. OneGig * (g + 1) = OneGig * g + OneGig
    BY <1>1, <2>1
  <2>. QED
    BY <1>1, <2>2, <2>3, <2>4
<1>. DEFINE x == OneGig * s.gigs
<1>4. x \in Int /\ Value(s) = x + s.units
  BY <1>1 DEF Value
<1>. HIDE DEF x
<1>5. (s.gigs >= 0 => x >= 0) /\ (s.gigs < 0 => x <= 0 - OneGig)
  BY <1>2, <1>3 DEF x
<1>. QED
  BY <1>1, <1>4, <1>5 DEF ScalarIsValid

\* A number has one scalar.
LEMMA ScalarOf ==
  ASSUME NEW s \in Scalar, Value(s) >= 0
  PROVE  Split(Value(s)) = s
<1>. DEFINE n == Value(s)
            t == Split(n)
<1>1. /\ OneGig \in Nat \ {0} /\ s.gigs \in Int /\ s.units \in 0..(OneGig - 1)
      /\ s = [gigs |-> s.gigs, units |-> s.units]
  BY OneGigAssumption DEF Scalar
<1>2. n = OneGig * s.gigs + s.units /\ n \in Nat
  BY <1>1 DEF Value
<1>. HIDE DEF n
<1>3. t \in Scalar /\ Value(t) = n
  BY <1>2, SplitFacts
<1>. HIDE DEF t
<1>4. /\ t.gigs \in Int /\ t.units \in 0..(OneGig - 1)
      /\ t = [gigs |-> t.gigs, units |-> t.units] /\ n = OneGig * t.gigs + t.units
  BY <1>1, <1>3 DEF Scalar, Value
<1>. DEFINE a == s.gigs
            b == t.gigs
            d == OneGig * (a - b)
<1>5. d = OneGig * a - OneGig * b /\ OneGig * a \in Int /\ OneGig * b \in Int
  BY <1>1, <1>4, TimesSum
<1>6. d = t.units - s.units
  BY <1>1, <1>2, <1>4, <1>5
<1>7. /\ a - b >= 1 => OneGig * (a - b) >= OneGig
      /\ a - b <= 0 - 1 => OneGig * (a - b) <= 0 - OneGig
  <2>1. ASSUME a - b >= 1 PROVE OneGig * (a - b) >= OneGig
    <3>0. (a - b) - 1 \in Nat /\ a - b = 1 + ((a - b) - 1)
      BY <1>1, <1>4, <2>1
    <3>1. PICK k \in Nat : a - b = 1 + k
      BY <3>0
    <3>2. OneGig * (1 + k) = OneGig * 1 + OneGig * k /\ OneGig * k \in Nat
      BY <1>1
    <3>. QED
      BY <1>1, <3>1, <3>2
  <2>2. ASSUME a - b <= 0 - 1 PROVE OneGig * (a - b) <= 0 - OneGig
    <3>0. (0 - 1) - (a - b) \in Nat /\ a - b = (0 - 1) - ((0 - 1) - (a - b))
      BY <1>1, <1>4, <2>2
    <3>1. PICK k \in Nat : a - b = (0 - 1) - k
      BY <3>0
    <3>2. OneGig * ((0 - 1) - k) = OneGig * (0 - 1) - OneGig * k /\ OneGig * k \in Nat
      BY <1>1, TimesSum
    <3>. QED
      BY <1>1, <3>1, <3>2
  <2>. QED
    BY <2>1, <2>2
<1>8. d \in Int /\ d < OneGig /\ d > 0 - OneGig
  BY <1>1, <1>4, <1>6
<1>9. a = b
  <2>1. a \in Int /\ b \in Int /\ ~(a - b >= 1) /\ ~(a - b <= 0 - 1)
    BY <1>1, <1>4, <1>7, <1>8
  <2>. QED
    BY <2>1
<1>10. s.units = t.units
  <2>. DEFINE x == OneGig * s.gigs
  <2>1. x = OneGig * t.gigs /\ x \in Int
    BY <1>1, <1>5, <1>9
  <2>. HIDE DEF x
  <2>2. n = x + s.units /\ n = x + t.units
    BY <1>2, <1>4, <2>1 DEF x
  <2>. QED
    BY <1>1, <1>4, <2>1, <2>2
<1>. QED
  BY <1>1, <1>4, <1>9, <1>10 DEF t, n

LEMMA LoadIsSplit ==
  ASSUME NEW n \in Nat
  PROVE  LoadScalar(n) = Split(n) /\ LoadScalar(n) \in Scalar /\ Value(LoadScalar(n)) = n
BY AbsFacts, SplitFacts DEF LoadScalar

LEMMA UnsentIs ==
  ASSUME NEW n \in Nat, NEW t \in Scalar, Value(t) \in Nat
  PROVE  Unsent(Split(n), t) = Split(Later(0, n - Value(t)))
<1>. DEFINE r == SubtractFromScalar(Split(n), t)
            w == Value(t)
<1>1. Split(n) \in Scalar /\ Value(Split(n)) = n
  BY SplitFacts
<1>2. r \in Scalar /\ Value(r) = n - w
  BY <1>1, DifferenceIsExact
<1>. HIDE DEF r
<1>3. w \in Nat
  OBVIOUS
<1>. HIDE DEF w
<1>4. CASE n - w >= 0
  <2>1. ScalarIsValid(r) /\ Split(n - w) = r
    BY <1>2, <1>4, ValidMeansNotNegative, ScalarOf
  <2>2. Later(0, n - w) = n - w
    BY <1>3, <1>4 DEF Later
  <2>. QED
    BY <2>1, <2>2 DEF Unsent, r, w
<1>5. CASE ~(n - w >= 0)
  <2>1. ~ScalarIsValid(r)
    BY <1>2, <1>5, ValidMeansNotNegative
  <2>2. Later(0, n - w) = 0
    BY <1>3, <1>5 DEF Later
  <2>3. LoadScalar(0) = Split(0)
    BY LoadIsSplit
  <2>. QED
    BY <2>1, <2>2, <2>3 DEF Unsent, r, w
<1>. QED
  BY <1>4, <1>5

-----------------------------------------------------------------------------
(* The backlog that a contact finds.                                       *)

LEMMA ContactTypes ==
  /\ IsFiniteSet(Contacts)
  /\ \A c \in Contacts :
       /\ c.fromTime \in Nat /\ c.toTime \in Nat /\ c.fromTime < c.toTime
       /\ c.xmitRate \in Nat /\ c.xmitRate > 0 /\ c.toNode \in Nat
       /\ Light(c) = NoRange \/ Light(c) \in Nat
       /\ c.fromNode = OwnNode => c.toNode \in Neighbors
BY ContactAssumption DEF Neighbors

\* The sum of the sizes in a queue.
Sizes(q) == [i \in 1..Len(q) |-> Size(q[i])]

LEMMA BytesIs ==
  ASSUME NEW q \in Seq(Bundles), NEW f, Sums(Sizes(q), f)
  PROVE  Bytes(q) = f[Len(q)]
<1>. DEFINE n == Len(q)
            Next1(g) == [i \in 0..n |-> IF i = 0 THEN 0 ELSE g[i - 1] + Size(q[i])]
            s == CHOOSE g : g = Next1(g)
            P == {i \in Nat : i <= n => s[i] = f[i]}
<1>1. /\ n \in Nat /\ n \in 0..n /\ Len(Sizes(q)) = n
      /\ \A i \in 1..n : Sizes(q)[i] = Size(q[i])
  BY DEF Sizes
<1>2. /\ f \in [0..n -> Int] /\ f[0] = 0
      /\ \A i \in 1..n : f[i] = f[i - 1] + Size(q[i])
  BY <1>1 DEF Sums, SumsUpTo
<1>3. f = Next1(f)
  <2>1. \A i \in 0..n : f[i] = Next1(f)[i]
    BY <1>2
  <2>. QED
    BY <1>2, <2>1
<1>. HIDE DEF Next1
<1>4. s = Next1(s)
  BY <1>3
<1>. HIDE DEF s
<1>5. /\ s[0] = 0
      /\ \A i \in 1..n : s[i] = s[i - 1] + Size(q[i])
  <2>1. \A i \in 0..n : s[i] = IF i = 0 THEN 0 ELSE s[i - 1] + Size(q[i])
    BY <1>4 DEF Next1
  <2>2. 0 \in 0..n /\ \A i \in 1..n : i \in 0..n /\ i # 0
    BY <1>1
  <2>. QED
    BY <2>1, <2>2
<1>6. 0 \in P /\ P \in SUBSET Nat
  BY <1>2, <1>5
<1>7. ASSUME NEW i \in 1..n, i - 1 \in P PROVE i \in P
  <2>1. s[i - 1] = f[i - 1]
    BY <1>1, <1>7
  <2>. QED
    BY <1>2, <1>5, <2>1
<1>. HIDE DEF P
<1>8. n \in P
  BY <1>1, <1>6, <1>7, UpTo
<1>9. s[n] = f[n]
  BY <1>1, <1>8 DEF P
<1>. QED
  BY <1>9 DEF Bytes, s, Next1

LEMMA BytesSums ==
  ASSUME NEW q \in Seq(Bundles)
  PROVE  /\ Sizes(q) \in Seq(Int) /\ Len(Sizes(q)) = Len(q)
         /\ Bytes(q) \in Nat
         /\ \E f : Sums(Sizes(q), f) /\ Bytes(q) = f[Len(q)]
<1>1. /\ Sizes(q) \in Seq(Int) /\ Len(Sizes(q)) = Len(q)
      /\ \A i \in 1..Len(q) : Sizes(q)[i] >= 0
  BY BundleAssumption DEF Sizes
<1>2. PICK f : Sums(Sizes(q), f)
  BY <1>1, SumsExist
<1>3. Bytes(q) = f[Len(q)]
  BY <1>2, BytesIs
<1>4. f[Len(Sizes(q))] \in Nat
  BY <1>1, <1>2, SumsNotNegative
<1>. QED
  BY <1>1, <1>2, <1>3, <1>4

\* Between the handling of two seconds.
QueuesOK == now \in Nat /\ queue \in [Neighbors -> Seq(Bundles)]

\* The bytes that contact d can send from now on
Whole(d) == (d.toTime - Start(d)) * d.xmitRate
Wholes == [d \in Contacts |-> Whole(d)]

LEMMA WholeFacts ==
  ASSUME now \in Nat, NEW c \in Contacts
  PROVE  /\ Start(c) \in Nat /\ Start(c) >= now /\ Start(c) >= c.fromTime
         /\ Wholes \in [Contacts -> Int]
         /\ c.toTime >= now =>
              Whole(c) \in Nat /\ Capacity(c) \in Scalar /\ Value(Capacity(c)) = Whole(c)
<1>1. \A d \in Contacts : Start(d) \in Nat /\ Start(d) >= now /\ Start(d) >= d.fromTime
  BY ContactTypes DEF Start, Later
<1>2. \A d \in Contacts : (d.toTime - Start(d)) * d.xmitRate \in Int
  BY <1>1, ContactTypes
<1>3. Wholes \in [Contacts -> Int]
  BY <1>2 DEF Wholes, Whole
<1>4. ASSUME c.toTime >= now
      PROVE  Whole(c) \in Nat /\ Capacity(c) \in Scalar /\ Value(Capacity(c)) = Whole(c)
  <2>1. PICK k \in Nat : k = c.toTime - Start(c)
    BY <1>1, <1>4, ContactTypes DEF Start, Later
  <2>2. PICK r \in Nat : r = c.xmitRate
    BY ContactTypes
  <2>3. Value(LoadScalar(k)) = k /\ Abs(r) = r
    BY LoadIsSplit, AbsFacts
  <2>4. k * r \in Nat
    BY Z3
  <2>5. Capacity(c) = Split(k * r) /\ Whole(c) = k * r
    BY <2>1, <2>2, <2>3 DEF Capacity, MultiplyScalar, Whole
  <2>. QED
    BY <2>4, <2>5, SplitFacts
<1>. QED
  BY <1>1, <1>3, <1>4

LEMMA PrecedingFacts ==
  ASSUME NEW c \in Contacts
  PROVE  /\ Preceding(c) \in SUBSET Contacts /\ IsFiniteSet(Preceding(c))
         /\ \A d \in Preceding(c) : d.toTime >= now
BY ContactTypes, FS_Subset DEF Preceding

\* The sum that the claims on a contact are compared with.
LEMMA PrecedingSum ==
  ASSUME now \in Nat, NEW c \in Contacts
  PROVE  MapThenSumSet(LAMBDA d : (d.toTime - Start(d)) * d.xmitRate, Preceding(c))
           = SumIn(Contacts, Wholes, Preceding(c))
<1>. DEFINE A == Preceding(c)
            Next1(g) == [s \in SUBSET A |->
                          IF s = {} THEN 0
                          ELSE Whole(CHOOSE x \in s : TRUE) + g[s \ {CHOOSE x \in s : TRUE}]]
            g0 == [s \in SUBSET A |-> SumIn(Contacts, Wholes, s)]
            g1 == CHOOSE g : g = Next1(g)
            P == {s \in SUBSET A : g1[s] = SumIn(Contacts, Wholes, s)}
<1>1. A \in SUBSET Contacts /\ IsFiniteSet(A)
  BY PrecedingFacts
<1>. HIDE DEF A
<1>2. /\ SumIn(Contacts, Wholes, {}) = 0
      /\ \A s \in SUBSET A : \A x \in s :
           SumIn(Contacts, Wholes, s) = Whole(x) + SumIn(Contacts, Wholes, s \ {x})
  BY <1>1, ContactTypes, WholeFacts, SumInIs DEF Wholes
<1>3. \A s \in SUBSET A : s # {} => (CHOOSE x \in s : TRUE) \in s
  OBVIOUS
<1>4. g0 = Next1(g0)
  <2>1. ASSUME NEW s \in SUBSET A PROVE g0[s] = Next1(g0)[s]
    <3>1. CASE s = {}
      BY <1>2, <3>1
    <3>2. CASE s # {}
      <4>1. PICK x \in s : x = CHOOSE y \in s : TRUE
        BY <1>3, <3>2
      <4>2. s \ {x} \in SUBSET A
        OBVIOUS
      <4>. QED
        BY <1>2, <3>2, <4>1, <4>2
    <3>. QED
      BY <3>1, <3>2
  <2>. QED
    BY <2>1
<1>. HIDE DEF Next1, g0
<1>5. g1 = Next1(g1)
  BY <1>4
<1>. HIDE DEF g1
<1>6. {} \in P /\ P \in SUBSET SUBSET A
  BY <1>2, <1>5 DEF Next1
<1>7. ASSUME NEW s \in SUBSET A, s # {}, \A x \in s : s \ {x} \in P PROVE s \in P
  <2>1. PICK x \in s : x = CHOOSE y \in s : TRUE
    BY <1>3, <1>7
  <2>2. g1[s] = Whole(x) + g1[s \ {x}]
    BY <1>5, <1>7, <2>1 DEF Next1
  <2>3. g1[s \ {x}] = SumIn(Contacts, Wholes, s \ {x})
    BY <1>7
  <2>. QED
    BY <1>2, <2>2, <2>3
<1>. HIDE DEF P
<1>8. A \in P
  BY <1>1, <1>6, <1>7, AllSubsets
<1>9. g1[A] = SumIn(Contacts, Wholes, A)
  BY <1>8 DEF P
<1>. QED
  BY <1>9 DEF MapThenSumSet, MapThenFoldSet, g1, Next1, A, Whole

\* What precedes a contact of this node, in bytes.
Before(c) == SumIn(Contacts, Wholes, Preceding(c))

LEMMA BacklogIs ==
  ASSUME QueuesOK, NEW c \in Contacts, c.fromNode = OwnNode
  PROVE  /\ Bytes(queue[c.toNode]) \in Nat /\ Before(c) \in Int
         /\ Backlog(c) = Later(0, Bytes(queue[c.toNode]) - Before(c))
         /\ Backlog(c) \in Nat
<1>1. c.toNode \in Neighbors /\ queue[c.toNode] \in Seq(Bundles) /\ now \in Nat
  BY ContactTypes DEF QueuesOK
<1>. DEFINE B == Bytes(queue[c.toNode])
<1>2. B \in Nat
  BY <1>1, BytesSums
<1>3. Backlog(c) = Later(0, B - Before(c))
  BY <1>1, PrecedingSum DEF Backlog, Before
<1>4. Before(c) \in Int
  BY <1>1, PrecedingFacts, ContactTypes, WholeFacts, SumInIs DEF Before
<1>. HIDE DEF B
<1>5. Later(0, B - Before(c)) \in Nat
  BY <1>2, <1>4 DEF Later
<1>. QED
  BY <1>2, <1>3, <1>4, <1>5 DEF B

\* The capacities taken from the backlog one after the other, never below zero,
\* leave what their sum leaves, in gigs and units as in numbers.
LEMMA ClaimsAre ==
  ASSUME QueuesOK, NEW c \in Contacts, c.fromNode = OwnNode
  PROVE  PriorClaims(c) = Split(Backlog(c))
<1>. DEFINE A == Preceding(c)
            B == Bytes(queue[c.toNode])
            Sum(s) == SumIn(Contacts, Wholes, s)
            Next1(g) == [s \in SUBSET A |->
                          IF s = {} THEN LoadScalar(B)
                          ELSE Unsent(g[s \ {CHOOSE x \in s : TRUE}],
                                      Capacity(CHOOSE x \in s : TRUE))]
            g0 == [s \in SUBSET A |-> Split(Later(0, B - Sum(s)))]
            g1 == CHOOSE g : g = Next1(g)
            P == {s \in SUBSET A : g1[s] = Split(Later(0, B - Sum(s)))}
<1>0. now \in Nat
  BY DEF QueuesOK
<1>1. A \in SUBSET Contacts /\ IsFiniteSet(A) /\ B \in Nat /\ \A x \in A : x.toTime >= now
  BY PrecedingFacts, BacklogIs
<1>2. /\ Sum({}) = 0
      /\ \A s \in SUBSET A : Sum(s) \in Int
      /\ \A s \in SUBSET A : \A x \in s : Sum(s) = Whole(x) + Sum(s \ {x})
  BY <1>0, <1>1, ContactTypes, WholeFacts, SumInIs DEF Wholes
<1>3. \A x \in A : Whole(x) \in Nat /\ Capacity(x) \in Scalar /\ Value(Capacity(x)) = Whole(x)
  BY <1>0, <1>1, WholeFacts
<1>. HIDE DEF A, B, Sum
<1>4. ASSUME NEW s \in SUBSET A, NEW x \in s
      PROVE  Unsent(Split(Later(0, B - Sum(s \ {x}))), Capacity(x)) = Split(Later(0, B - Sum(s)))
  <2>1. PICK r \in Int : r = Sum(s \ {x})
    BY <1>2
  <2>2. PICK w \in Nat : w = Whole(x) /\ Capacity(x) \in Scalar /\ Value(Capacity(x)) = w
    BY <1>3
  <2>3. PICK n \in Nat : n = Later(0, B - r)
    BY <1>1, <2>1 DEF Later
  <2>4. Unsent(Split(n), Capacity(x)) = Split(Later(0, n - w))
    BY <2>2, UnsentIs
  <2>5. Sum(s) = w + r
    BY <1>2, <2>1, <2>2
  <2>6. Later(0, n - w) = Later(0, B - (w + r))
    BY <1>1, <2>1, <2>2, <2>3 DEF Later
  <2>. QED
    BY <2>1, <2>3, <2>4, <2>5, <2>6
<1>5. LoadScalar(B) = Split(Later(0, B - Sum({})))
  <2>1. Later(0, B - 0) = B
    BY <1>1 DEF Later
  <2>. QED
    BY <1>1, <1>2, <2>1, LoadIsSplit
<1>6. \A s \in SUBSET A : s # {} => (CHOOSE x \in s : TRUE) \in s
  OBVIOUS
<1>7. g0 = Next1(g0)
  <2>1. ASSUME NEW s \in SUBSET A PROVE g0[s] = Next1(g0)[s]
    <3>1. CASE s = {}
      BY <1>5, <3>1
    <3>2. CASE s # {}
      <4>1. PICK x \in s : x = CHOOSE y \in s : TRUE
        BY <1>6, <3>2
      <4>2. s \ {x} \in SUBSET A
        OBVIOUS
      <4>3. g0[s \ {x}] = Split(Later(0, B - Sum(s \ {x})))
        BY <4>2
      <4>4. Next1(g0)[s] = Unsent(g0[s \ {x}], Capacity(x))
        BY <3>2, <4>1
      <4>5. Next1(g0)[s] = Split(Later(0, B - Sum(s)))
        BY <1>4, <4>3, <4>4
      <4>. QED
        BY <4>5
    <3>. QED
      BY <3>1, <3>2
  <2>. QED
    BY <2>1
<1>. HIDE DEF Next1, g0
<1>8. g1 = Next1(g1)
  BY <1>7
<1>. HIDE DEF g1
<1>9. {} \in P /\ P \in SUBSET SUBSET A
  BY <1>5, <1>8 DEF Next1
<1>10. ASSUME NEW s \in SUBSET A, s # {}, \A x \in s : s \ {x} \in P PROVE s \in P
  <2>1. PICK x \in s : x = CHOOSE y \in s : TRUE
    BY <1>6, <1>10
  <2>2. g1[s] = Unsent(g1[s \ {x}], Capacity(x))
    BY <1>8, <1>10, <2>1 DEF Next1
  <2>3. g1[s \ {x}] = Split(Later(0, B - Sum(s \ {x})))
    BY <1>10
  <2>. QED
    BY <1>4, <2>2, <2>3
<1>. HIDE DEF P
<1>11. A \in P
  BY <1>1, <1>9, <1>10, AllSubsets
<1>12. g1[A] = Split(Later(0, B - Sum(A)))
  BY <1>11 DEF P
<1>13. PriorClaims(c) = g1[A]
  BY DEF PriorClaims, FoldSet, MapThenFoldSet, g1, Next1, A, B
<1>14. Backlog(c) = Later(0, B - Sum(A))
  BY BacklogIs DEF Before, Sum, A, B
<1>. QED
  BY <1>12, <1>13, <1>14

-----------------------------------------------------------------------------
(* When a bundle is through.                                               *)

\* Routes as they are in a list.
Hops == {h \in Seq(Contacts) : h # <<>> /\ h[1].fromNode = OwnNode}

LEMMA HopFacts ==
  ASSUME NEW h \in Hops
  PROVE  /\ Len(h) \in Nat /\ Len(h) >= 1 /\ DOMAIN h = 1..Len(h)
         /\ Last(h) = h[Len(h)] /\ h[1].toNode \in Neighbors /\ h[1].fromNode = OwnNode
         /\ \A i \in 1..Len(h) :
              /\ h[i] \in Contacts /\ h[i].fromTime \in Nat /\ h[i].toTime \in Nat
              /\ h[i].xmitRate \in Nat /\ h[i].xmitRate > 0
              /\ Light(h[i]) = NoRange \/ Light(h[i]) \in Nat
<1>1. h \in Seq(Contacts) /\ Len(h) \in Nat /\ Len(h) >= 1 /\ DOMAIN h = 1..Len(h)
  BY EmptySeq DEF Hops
<1>2. \A i \in 1..Len(h) : h[i] \in Contacts
  BY <1>1, ElementOfSeq
<1>. QED
  BY <1>1, <1>2, ContactTypes DEF Hops, Last

LEMMA DivFacts ==
  ASSUME NEW n \in Nat, NEW r \in Nat, r > 0
  PROVE  n \div r \in Nat /\ r * (n \div r) <= n /\ n < r * (n \div r) + r
OBVIOUS

\* f says when a bundle is through with each of the first n hops, when it takes
\* lat to send it over a hop and the first sends it from s on.
Relay(h, s, lat, n, f) ==
  /\ f \in [1..n -> Nat] /\ f[1] = s + lat[1]
  /\ \A i \in 2..n : f[i] = Later(f[i - 1] + Light(h[i - 1]), h[i].fromTime) + lat[i]

LEMMA RelayExists ==
  ASSUME NEW h \in Hops, \A i \in 1..Len(h) : Light(h[i]) # NoRange,
         NEW s \in Nat, NEW lat \in [1..Len(h) -> Nat]
  PROVE  \E f : Relay(h, s, lat, Len(h), f)
<1>. DEFINE P == {k \in Nat : k < Len(h) => \E f : Relay(h, s, lat, k + 1, f)}
<1>1. /\ Len(h) \in Nat /\ Len(h) >= 1
      /\ \A i \in 1..Len(h) : Light(h[i]) \in Nat /\ h[i].fromTime \in Nat /\ lat[i] \in Nat
  BY HopFacts
<1>2. 0 \in P /\ P \in SUBSET Nat
  <2>. DEFINE f == [i \in 1..1 |-> s + lat[1]]
  <2>1. lat[1] \in Nat /\ 1 \in 1..1 /\ 2..1 = {}
    BY <1>1
  <2>2. Relay(h, s, lat, 1, f)
    BY <2>1 DEF Relay
  <2>3. Relay(h, s, lat, 0 + 1, f)
    BY <2>2
  <2>. QED
    BY <2>3
<1>3. ASSUME NEW k \in 1..(Len(h) - 1), k - 1 \in P PROVE k \in P
  <2>1. k \in Nat /\ k >= 1 /\ k < Len(h) /\ k - 1 < Len(h) /\ (k - 1) + 1 = k
        /\ k \in 1..Len(h) /\ k + 1 \in 1..Len(h)
    BY <1>1
  <2>2. PICK f : Relay(h, s, lat, k, f)
    BY <1>3, <2>1
  <2>3. PICK m \in Nat : m = k + 1
    BY <2>1
  <2>4. /\ f \in [1..k -> Nat] /\ f[1] = s + lat[1]
        /\ \A i \in 2..k : f[i] = Later(f[i - 1] + Light(h[i - 1]), h[i].fromTime) + lat[i]
    BY <2>2 DEF Relay
  <2>5. PICK x \in Nat : x = Later(f[k] + Light(h[k]), h[m].fromTime) + lat[m]
    <3>1. f[k] \in Nat /\ Light(h[k]) \in Nat /\ h[m].fromTime \in Nat /\ lat[m] \in Nat
      BY <1>1, <2>1, <2>3, <2>4
    <3>. QED
      BY <3>1 DEF Later
  <2>. DEFINE g == [i \in 1..m |-> IF i = m THEN x ELSE f[i]]
  <2>6. /\ g \in [1..m -> Nat] /\ m > 1 /\ g[m] = x
        /\ \A i \in 1..k : g[i] = f[i]
    BY <2>1, <2>3, <2>4
  <2>. HIDE DEF g
  <2>7. ASSUME NEW i \in 2..m
        PROVE  g[i] = Later(g[i - 1] + Light(h[i - 1]), h[i].fromTime) + lat[i]
    <3>1. CASE i = m
      <4>1. i - 1 = k /\ g[k] = f[k]
        BY <2>1, <2>3, <2>6, <3>1
      <4>. QED
        BY <2>5, <2>6, <3>1, <4>1
    <3>2. CASE i # m
      <4>1. i \in 2..k /\ i \in 1..k /\ i - 1 \in 1..k
        BY <2>1, <2>3, <3>2
      <4>. QED
        BY <2>4, <2>6, <4>1
    <3>. QED
      BY <3>1, <3>2
  <2>8. g[1] = s + lat[1]
    BY <2>1, <2>4, <2>6
  <2>9. Relay(h, s, lat, m, g)
    BY <2>6, <2>7, <2>8 DEF Relay
  <2>10. Relay(h, s, lat, k + 1, g)
    BY <2>3, <2>9
  <2>. QED
    BY <2>1, <2>10
<1>. HIDE DEF P
<1>4. PICK n \in Nat : n = Len(h) - 1
  BY <1>1
<1>5. n \in P
  <2>1. n \in 0..n /\ \A i \in 1..n : i - 1 \in P => i \in P
    BY <1>3, <1>4
  <2>. QED
    BY <1>2, <1>4, <2>1, UpTo
<1>. QED
  BY <1>1, <1>4, <1>5 DEF P

\* There is one such f.
LEMMA RelayUnique ==
  ASSUME NEW h \in Hops, NEW s \in Nat, NEW lat \in [1..Len(h) -> Nat],
         NEW f, Relay(h, s, lat, Len(h), f), NEW g, g[1] = s + lat[1],
         \A i \in 2..Len(h) :
           g[i] = Later(g[i - 1] + Light(h[i - 1]), h[i].fromTime) + lat[i]
  PROVE  \A i \in 1..Len(h) : g[i] = f[i]
<1>. DEFINE P == {k \in Nat : k < Len(h) => g[k + 1] = f[k + 1]}
<1>1. /\ Len(h) \in Nat /\ Len(h) >= 1
      /\ f[1] = s + lat[1]
      /\ \A i \in 2..Len(h) :
           f[i] = Later(f[i - 1] + Light(h[i - 1]), h[i].fromTime) + lat[i]
  BY HopFacts DEF Relay
<1>2. 0 \in P /\ P \in SUBSET Nat
  BY <1>1
<1>3. ASSUME NEW k \in 1..(Len(h) - 1), k - 1 \in P PROVE k \in P
  <2>1. k \in Nat /\ (k - 1) + 1 = k /\ k + 1 \in 2..Len(h) /\ (k + 1) - 1 = k /\ k - 1 < Len(h)
    BY <1>1
  <2>2. g[k] = f[k]
    BY <1>3, <2>1
  <2>. QED
    BY <1>1, <2>1, <2>2
<1>. HIDE DEF P
<1>4. PICK n \in Nat : n = Len(h) - 1
  <2>1. Len(h) - 1 \in Nat
    BY <1>1
  <2>. QED
    BY <2>1
<1>5. \A k \in 0..n : k \in P
  <2>1. \A i \in 1..n : i - 1 \in P => i \in P
    BY <1>3, <1>4
  <2>. QED
    BY <1>2, <1>4, <2>1, UpTo
<1>6. ASSUME NEW i \in 1..Len(h) PROVE g[i] = f[i]
  <2>1. i - 1 \in 0..n /\ (i - 1) + 1 = i /\ i - 1 < Len(h)
    BY <1>1, <1>4
  <2>. QED
    BY <1>5, <2>1 DEF P
<1>. QED
  BY <1>6

\* The seconds that the hops of h take to send b.
Latencies(h, b) ==
  [i \in 1..Len(h) |-> IF i = 1 THEN (Backlog(h[1]) + Eccc(b)) \div h[1].xmitRate
                       ELSE Eccc(b) \div h[i].xmitRate]

\* What computeArrivalTime makes of a route, by way of scalars, is what plain
\* numbers give.
LEMMA TransmitIs ==
  ASSUME QueuesOK, NEW h \in Hops, NEW b \in Bundles,
         \A i \in 1..Len(h) : Light(h[i]) # NoRange
  PROVE  /\ Start(h[1]) \in Nat /\ Latencies(h, b) \in [1..Len(h) -> Nat]
         /\ \E f : /\ Relay(h, Start(h[1]), Latencies(h, b), Len(h), f)
                   /\ \A i \in 1..Len(h) : TransmitTime(h, b)[i] = f[i] /\ Through(h, b)[i] = f[i]
<1>. DEFINE s == Start(h[1])
            lat == Latencies(h, b)
            e == Eccc(b)
            k == Backlog(h[1])
<1>1. /\ Len(h) \in Nat /\ Len(h) >= 1 /\ DOMAIN h = 1..Len(h) /\ h[1].fromNode = OwnNode
      /\ \A i \in 1..Len(h) : h[i] \in Contacts /\ h[i].xmitRate \in Nat /\ h[i].xmitRate > 0
  BY HopFacts
<1>2. 1 \in 1..Len(h) /\ h[1] \in Contacts
  BY <1>1
<1>3. s \in Nat /\ k \in Nat /\ e \in Nat /\ PriorClaims(h[1]) = Split(k)
  <2>1. s \in Nat
    BY <1>2, WholeFacts DEF QueuesOK
  <2>2. k \in Nat /\ PriorClaims(h[1]) = Split(k)
    BY <1>1, <1>2, BacklogIs, ClaimsAre
  <2>3. e \in Nat
    BY BundleAssumption DEF Eccc
  <2>. QED
    BY <2>1, <2>2, <2>3
<1>. HIDE DEF s, k, e
<1>4. lat = [i \in 1..Len(h) |-> IF i = 1 THEN (k + e) \div h[1].xmitRate
                                 ELSE e \div h[i].xmitRate]
  BY DEF Latencies, k, e
<1>. HIDE DEF lat
<1>5. \A n \in Nat : \A i \in 1..Len(h) : n \div h[i].xmitRate \in Nat
  BY <1>1, DivFacts
<1>6. lat \in [1..Len(h) -> Nat]
  <2>1. k + e \in Nat
    BY <1>3
  <2>2. \A i \in 1..Len(h) :
          (IF i = 1 THEN (k + e) \div h[1].xmitRate ELSE e \div h[i].xmitRate) \in Nat
    <3>1. (k + e) \div h[1].xmitRate \in Nat /\ \A i \in 1..Len(h) : e \div h[i].xmitRate \in Nat
      BY <1>2, <1>3, <1>5, <2>1
    <3>. QED
      BY <3>1, Zenon
  <2>. QED
    BY <1>4, <2>2
<1>7. ASSUME NEW n \in Nat, NEW i \in 1..Len(h), NEW x, x \in Scalar, Value(x) = n
      PROVE  RadiationLatency(x, h[i].xmitRate) = n \div h[i].xmitRate
  <2>1. PICK r \in Nat : r = h[i].xmitRate /\ Abs(r) = r /\ n \div r \in Nat
    <3>1. h[i].xmitRate \in Nat /\ n \div h[i].xmitRate \in Nat
      BY <1>1, <1>5
    <3>2. \A r \in Nat : Abs(r) = r
      BY AbsFacts
    <3>. QED
      BY <3>1, <3>2, Zenon
  <2>2. Value(Split(n \div r)) = n \div r
    BY <2>1, SplitFacts
  <2>. QED
    BY <1>7, <2>1, <2>2 DEF RadiationLatency, DivideScalar
<1>8. RadiationLatency(IncreaseScalar(PriorClaims(h[1]), e), h[1].xmitRate) = lat[1]
  <2>1. PICK x \in Scalar : x = Split(k) /\ Value(x) = k
    <3>1. Split(k) \in Scalar /\ Value(Split(k)) = k
      BY <1>3, SplitFacts
    <3>. QED
      BY <3>1
  <2>2. k + e \in Nat
    BY <1>3
  <2>3. IncreaseScalar(x, e) \in Scalar /\ Value(IncreaseScalar(x, e)) = Value(x) + e
    BY <1>3, <2>1, ScalarsAreNumbers
  <2>4. Value(IncreaseScalar(x, e)) = k + e
    BY <2>1, <2>3
  <2>5. RadiationLatency(IncreaseScalar(x, e), h[1].xmitRate) = (k + e) \div h[1].xmitRate
    BY <1>2, <1>7, <2>2, <2>3, <2>4
  <2>. QED
    BY <1>2, <1>3, <1>4, <2>1, <2>5
<1>9. \A i \in 2..Len(h) : RadiationLatency(LoadScalar(e), h[i].xmitRate) = lat[i]
  <2>1. LoadScalar(e) \in Scalar /\ Value(LoadScalar(e)) = e
    BY <1>3, LoadIsSplit
  <2>2. \A i \in 2..Len(h) : i \in 1..Len(h) /\ i # 1
    OBVIOUS
  <2>. QED
    BY <1>3, <1>4, <1>7, <2>1, <2>2
<1>10. PICK f : Relay(h, s, lat, Len(h), f)
  BY <1>3, <1>6, RelayExists
<1>11. /\ f \in [1..Len(h) -> Nat] /\ f[1] = s + lat[1]
       /\ \A i \in 2..Len(h) :
            f[i] = Later(f[i - 1] + Light(h[i - 1]), h[i].fromTime) + lat[i]
  BY <1>10 DEF Relay
<1>12. \A i \in 1..Len(h) : i # 1 => i \in 2..Len(h)
  BY <1>1
<1>13. \A i \in 1..Len(h) : TransmitTime(h, b)[i] = f[i]
  <2>. DEFINE Next1(g) ==
                [i \in DOMAIN h |->
                   IF i = 1
                   THEN s + RadiationLatency(IncreaseScalar(PriorClaims(h[1]), e), h[1].xmitRate)
                   ELSE Later(g[i - 1] + Light(h[i - 1]), h[i].fromTime)
                          + RadiationLatency(LoadScalar(e), h[i].xmitRate)]
              g1 == CHOOSE g : g = Next1(g)
  <2>1. \A i \in DOMAIN h : f[i] = Next1(f)[i]
    BY <1>1, <1>8, <1>9, <1>11, <1>12
  <2>2. f = Next1(f)
    BY <1>1, <1>11, <2>1
  <2>. HIDE DEF Next1
  <2>3. g1 = Next1(g1)
    BY <2>2
  <2>. HIDE DEF g1
  <2>4. /\ g1[1] = s + lat[1]
        /\ \A i \in 2..Len(h) :
             g1[i] = Later(g1[i - 1] + Light(h[i - 1]), h[i].fromTime) + lat[i]
    <3>1. g1[1] = s + lat[1]
      BY <1>1, <1>2, <1>8, <2>3 DEF Next1
    <3>2. \A i \in 2..Len(h) : i \in 1..Len(h) /\ i # 1
      OBVIOUS
    <3>3. \A i \in 2..Len(h) :
            g1[i] = Later(g1[i - 1] + Light(h[i - 1]), h[i].fromTime) + lat[i]
      BY <1>1, <1>9, <2>3, <3>2 DEF Next1
    <3>. QED
      BY <3>1, <3>3
  <2>5. \A i \in 1..Len(h) : g1[i] = f[i]
    BY <1>3, <1>6, <1>10, <2>4, RelayUnique
  <2>. QED
    BY <2>5 DEF TransmitTime, g1, Next1, s, e
<1>14. \A i \in 1..Len(h) : Through(h, b)[i] = f[i]
  <2>. DEFINE Next1(g) ==
                [i \in DOMAIN h |->
                   IF i = 1 THEN s + (k + e) \div h[1].xmitRate
                   ELSE Later(g[i - 1] + Light(h[i - 1]), h[i].fromTime)
                          + e \div h[i].xmitRate]
              g1 == CHOOSE g : g = Next1(g)
  <2>0. /\ lat[1] = (k + e) \div h[1].xmitRate
        /\ \A i \in 2..Len(h) : lat[i] = e \div h[i].xmitRate
    BY <1>2, <1>4
  <2>1. \A i \in DOMAIN h : f[i] = Next1(f)[i]
    BY <1>1, <1>11, <1>12, <2>0
  <2>2. f = Next1(f)
    BY <1>1, <1>11, <2>1
  <2>. HIDE DEF Next1
  <2>3. g1 = Next1(g1)
    BY <2>2
  <2>. HIDE DEF g1
  <2>4. /\ g1[1] = s + lat[1]
        /\ \A i \in 2..Len(h) :
             g1[i] = Later(g1[i - 1] + Light(h[i - 1]), h[i].fromTime) + lat[i]
    <3>1. g1[1] = s + lat[1]
      BY <1>1, <1>2, <2>0, <2>3 DEF Next1
    <3>2. \A i \in 2..Len(h) : i \in 1..Len(h) /\ i # 1
      OBVIOUS
    <3>3. \A i \in 2..Len(h) :
            g1[i] = Later(g1[i - 1] + Light(h[i - 1]), h[i].fromTime) + lat[i]
      BY <1>1, <2>0, <2>3, <3>2 DEF Next1
    <3>. QED
      BY <3>1, <3>3
  <2>5. \A i \in 1..Len(h) : g1[i] = f[i]
    BY <1>3, <1>6, <1>10, <2>4, RelayUnique
  <2>. QED
    BY <2>5 DEF Through, g1, Next1, s, e, k
<1>. QED
  BY <1>3, <1>6, <1>10, <1>13, <1>14 DEF s, lat

LEMMA LaterFacts ==
  /\ \A x, u \in Nat : Later(x, u) \in Nat
  /\ \A x, y, u \in Nat : x <= y => Later(x, u) <= Later(y, u)
BY DEF Later

\* When something that takes no time to send leaves each hop, in plain numbers.
LEMMA DepartureIs ==
  ASSUME NEW h \in Hops, \A i \in 1..Len(h) : Light(h[i]) # NoRange
  PROVE  LET s == Later(LoadTime, h[1].fromTime)
             lat == [i \in 1..Len(h) |-> 0]
         IN  \E f : /\ Relay(h, s, lat, Len(h), f)
                    /\ \A i \in 1..Len(h) : Departure(h)[i] = f[i]
<1>. DEFINE s == Later(LoadTime, h[1].fromTime)
            lat == [i \in 1..Len(h) |-> 0]
<1>1. /\ Len(h) \in Nat /\ Len(h) >= 1 /\ DOMAIN h = 1..Len(h) /\ 1 \in 1..Len(h)
      /\ \A i \in 1..Len(h) : h[i].fromTime \in Nat /\ Light(h[i]) \in Nat
  BY HopFacts
<1>2. s \in Nat /\ lat \in [1..Len(h) -> Nat] /\ \A i \in 1..Len(h) : lat[i] = 0
  BY <1>1 DEF LoadTime, Later
<1>. HIDE DEF s, lat
<1>3. PICK f : Relay(h, s, lat, Len(h), f)
  BY <1>2, RelayExists
<1>4. /\ f \in [1..Len(h) -> Nat] /\ f[1] = s
      /\ \A i \in 2..Len(h) : f[i] = Later(f[i - 1] + Light(h[i - 1]), h[i].fromTime)
  <2>1. /\ f \in [1..Len(h) -> Nat] /\ f[1] = s + lat[1]
        /\ \A i \in 2..Len(h) :
             f[i] = Later(f[i - 1] + Light(h[i - 1]), h[i].fromTime) + lat[i]
    BY <1>3 DEF Relay
  <2>2. f[1] = s
    BY <1>1, <1>2, <2>1
  <2>3. ASSUME NEW i \in 2..Len(h)
        PROVE  f[i] = Later(f[i - 1] + Light(h[i - 1]), h[i].fromTime)
    <3>1. i \in 1..Len(h) /\ i - 1 \in 1..Len(h)
      BY <1>1
    <3>3. PICK x \in Nat : x = f[i - 1] + Light(h[i - 1])
      <4>1. f[i - 1] \in Nat /\ Light(h[i - 1]) \in Nat
        BY <1>1, <2>1, <3>1
      <4>. QED
        BY <4>1
    <3>2. Later(f[i - 1] + Light(h[i - 1]), h[i].fromTime) \in Nat
      BY <1>1, <3>1, <3>3, LaterFacts
    <3>. QED
      BY <1>2, <2>1, <3>1, <3>2
  <2>. QED
    BY <2>1, <2>2, <2>3
<1>. DEFINE Next1(g) ==
              [i \in DOMAIN h |->
                 IF i = 1 THEN s
                 ELSE Later(g[i - 1] + Light(h[i - 1]), h[i].fromTime)]
            g1 == CHOOSE g : g = Next1(g)
<1>5. f = Next1(f)
  <2>1. \A i \in 1..Len(h) : i # 1 => i \in 2..Len(h)
    BY <1>1
  <2>2. \A i \in DOMAIN h : f[i] = Next1(f)[i]
    BY <1>1, <1>4, <2>1
  <2>. QED
    BY <1>1, <1>4, <2>2
<1>. HIDE DEF Next1
<1>6. g1 = Next1(g1)
  BY <1>5
<1>. HIDE DEF g1
<1>7. g1[1] = s /\ \A i \in 2..Len(h) : g1[i] = Later(g1[i - 1] + Light(h[i - 1]), h[i].fromTime)
  <2>1. \A i \in 2..Len(h) : i \in 1..Len(h) /\ i # 1
    OBVIOUS
  <2>. QED
    BY <1>1, <1>6, <2>1 DEF Next1
<1>8. \A i \in 1..Len(h) : g1[i] = f[i]
  <2>. DEFINE P == {k \in Nat : k < Len(h) => g1[k + 1] = f[k + 1]}
  <2>1. 0 \in P /\ P \in SUBSET Nat
    BY <1>4, <1>7
  <2>2. ASSUME NEW k \in 1..(Len(h) - 1), k - 1 \in P PROVE k \in P
    <3>1. k \in Nat /\ (k - 1) + 1 = k /\ k + 1 \in 2..Len(h) /\ (k + 1) - 1 = k /\ k - 1 < Len(h)
      BY <1>1
    <3>2. g1[k] = f[k]
      BY <2>2, <3>1
    <3>. QED
      BY <1>4, <1>7, <3>1, <3>2
  <2>. HIDE DEF P
  <2>3. Len(h) - 1 \in Nat
    BY <1>1
  <2>4. 0..(Len(h) - 1) \subseteq P
    BY <2>1, <2>2, <2>3, UpTo
  <2>5. ASSUME NEW i \in 1..Len(h) PROVE g1[i] = f[i]
    <3>1. i - 1 \in 0..(Len(h) - 1) /\ (i - 1) + 1 = i /\ i - 1 < Len(h)
      BY <1>1
    <3>. QED
      BY <2>4, <3>1 DEF P
  <2>. QED
    BY <2>5
<1>9. \A i \in 1..Len(h) : Departure(h)[i] = f[i]
  BY <1>8 DEF Departure, g1, Next1, s
<1>. QED
  BY <1>3, <1>9 DEF s, lat

\* No bundle is through earlier than the search reckons with.
LEMMA NeverEarlier ==
  ASSUME QueuesOK, now >= 1, NEW h \in Hops, NEW b \in Bundles,
         \A i \in 1..Len(h) : Light(h[i]) # NoRange
  PROVE  /\ EarliestArrival(h) \in Nat
         /\ Through(h, b)[Len(h)] + Light(Last(h)) \in Nat
         /\ EarliestArrival(h) <= Through(h, b)[Len(h)] + Light(Last(h))
<1>. DEFINE s == Later(LoadTime, h[1].fromTime)
            zero == [i \in 1..Len(h) |-> 0]
            t == Start(h[1])
            lat == Latencies(h, b)
<1>1. /\ Len(h) \in Nat /\ Len(h) >= 1 /\ 1 \in 1..Len(h) /\ Len(h) \in 1..Len(h)
      /\ Last(h) = h[Len(h)]
      /\ \A i \in 1..Len(h) : h[i].fromTime \in Nat /\ Light(h[i]) \in Nat
  BY HopFacts
<1>2. PICK e : Relay(h, s, zero, Len(h), e) /\ \A i \in 1..Len(h) : Departure(h)[i] = e[i]
  BY DepartureIs
<1>3. PICK f : /\ Relay(h, t, lat, Len(h), f)
               /\ \A i \in 1..Len(h) : Through(h, b)[i] = f[i]
  BY TransmitIs
<1>4. t \in Nat /\ lat \in [1..Len(h) -> Nat] /\ s \in Nat /\ s <= t
  <2>1. t \in Nat /\ lat \in [1..Len(h) -> Nat]
    BY TransmitIs
  <2>2. s \in Nat /\ s <= t
    BY <1>1 DEF LoadTime, Later, Start, QueuesOK
  <2>. QED
    BY <2>1, <2>2
<1>5. /\ e \in [1..Len(h) -> Nat] /\ f \in [1..Len(h) -> Nat]
      /\ e[1] = s + zero[1] /\ f[1] = t + lat[1]
      /\ \A i \in 2..Len(h) :
           /\ e[i] = Later(e[i - 1] + Light(h[i - 1]), h[i].fromTime) + zero[i]
           /\ f[i] = Later(f[i - 1] + Light(h[i - 1]), h[i].fromTime) + lat[i]
  BY <1>2, <1>3 DEF Relay
<1>6. zero \in [1..Len(h) -> Nat] /\ \A i \in 1..Len(h) : zero[i] = 0
  OBVIOUS
<1>. HIDE DEF s, zero, t, lat
<1>. DEFINE P == {k \in Nat : k < Len(h) => e[k + 1] <= f[k + 1]}
<1>7. 0 \in P /\ P \in SUBSET Nat
  <2>1. zero[1] = 0 /\ lat[1] \in Nat /\ e[1] = s + 0
    BY <1>1, <1>4, <1>5, <1>6
  <2>2. e[1] <= f[1]
    BY <1>4, <1>5, <2>1
  <2>. QED
    BY <2>2
<1>8. ASSUME NEW k \in 1..(Len(h) - 1), k - 1 \in P PROVE k \in P
  <2>0. PICK n \in Nat : n = Len(h)
    BY <1>1
  <2>1. /\ k \in Nat /\ (k - 1) + 1 = k /\ k + 1 \in 2..Len(h) /\ (k + 1) - 1 = k /\ k - 1 < Len(h)
        /\ k \in 1..Len(h) /\ k + 1 \in 1..Len(h)
    <3>. HIDE DEF P
    <3>. QED
      BY <2>0
  <2>2. e[k] <= f[k]
    BY <1>8, <2>1
  <2>3. PICK m \in 1..Len(h) : m = k + 1
    BY <2>1
  <2>4. PICK x \in Nat, y \in Nat, l \in Nat, u \in Nat, w \in Nat :
          /\ x = e[k] /\ y = f[k] /\ l = Light(h[k]) /\ u = h[m].fromTime /\ w = lat[m]
    BY <1>1, <1>4, <1>5, <2>1, <2>3
  <2>5. e[m] = Later(x + l, u) + 0 /\ f[m] = Later(y + l, u) + w
    BY <1>5, <1>6, <2>1, <2>3, <2>4
  <2>6. e[m] <= f[m]
    <3>. HIDE DEF P
    <3>1. x <= y
      BY <2>2, <2>4
    <3>2. /\ Later(x + l, u) \in Nat /\ Later(y + l, u) \in Nat
          /\ Later(x + l, u) <= Later(y + l, u)
      <4>1. x + l \in Nat /\ y + l \in Nat /\ x + l <= y + l
        BY <3>1
      <4>. QED
        BY <4>1, LaterFacts
    <3>. QED
      BY <2>4, <2>5, <3>2
  <2>. QED
    BY <2>1, <2>3, <2>6
<1>. HIDE DEF P
<1>9. Len(h) - 1 \in Nat /\ 0..(Len(h) - 1) \subseteq P
  <2>1. Len(h) - 1 \in Nat
    BY <1>1
  <2>. QED
    BY <1>7, <1>8, <2>1, UpTo
<1>10. e[Len(h)] <= f[Len(h)]
  <2>1. (Len(h) - 1) + 1 = Len(h) /\ Len(h) - 1 < Len(h) /\ Len(h) - 1 \in 0..(Len(h) - 1)
    BY <1>1
  <2>2. Len(h) - 1 \in P
    BY <1>9, <2>1
  <2>. QED
    BY <2>1, <2>2 DEF P
<1>11. e[Len(h)] \in Nat /\ f[Len(h)] \in Nat /\ Light(h[Len(h)]) \in Nat
  BY <1>1, <1>5
<1>. QED
  BY <1>1, <1>2, <1>3, <1>10, <1>11 DEF EarliestArrival

LEMMA ToTimeIs ==
  ASSUME NEW h \in Hops
  PROVE  /\ ToTime(h) \in Nat
         /\ \A i \in 1..Len(h) : ToTime(h) <= h[i].toTime
         /\ \E i \in 1..Len(h) : ToTime(h) = h[i].toTime
<1>. DEFINE T == {c.toTime : c \in ToSet(h)}
<1>1. /\ Len(h) >= 1 /\ Len(h) \in Nat /\ DOMAIN h = 1..Len(h)
      /\ \A i \in 1..Len(h) : h[i] \in Contacts /\ h[i].toTime \in Nat
  BY HopFacts
<1>2. ToSet(h) = {h[i] : i \in 1..Len(h)}
  BY <1>1 DEF ToSet
<1>3. T \in SUBSET Nat /\ \A i \in 1..Len(h) : h[i].toTime \in T
  BY <1>1, <1>2
<1>4. \A t \in T : \E i \in 1..Len(h) : t = h[i].toTime
  BY <1>2
<1>5. T # {}
  <2>1. 1 \in 1..Len(h)
    BY <1>1
  <2>. QED
    BY <1>3, <2>1
<1>. HIDE DEF T
<1>6. \E m \in T : \A t \in T : m <= t
  BY <1>3, <1>5, LeastNat
<1>7. Min(T) \in T /\ \A t \in T : Min(T) <= t
  BY <1>6 DEF Min
<1>. QED
  BY <1>3, <1>4, <1>7 DEF ToTime, T

\* What the best is sought among: what the code notes of a route, in numbers.
Note(h, b) ==
  [neighborNodeNbr |-> h[1].toNode, hopCount |-> Len(h),
   arrivalTime |-> Through(h, b)[Len(h)] + Light(Last(h)),
   forfeitTime |-> ToTime(h)]

Notes == [neighborNodeNbr : Neighbors, arrivalTime : Nat, hopCount : Nat, forfeitTime : Nat]

LEMMA TakesIs ==
  ASSUME QueuesOK, NEW h \in Hops, NEW b \in Bundles
  PROVE  /\ CanTake(h, b) <=> Offered(h, b) /\ Plausible(h, b)
         /\ CanTake(h, b) => ProximateNode(h, b) = Note(h, b) /\ Note(h, b) \in Notes
<1>1. /\ Len(h) \in Nat /\ Len(h) >= 1 /\ DOMAIN h = 1..Len(h) /\ h[1].toNode \in Neighbors
      /\ Last(h) = h[Len(h)] /\ Len(h) \in 1..Len(h)
      /\ \A i \in 1..Len(h) : Light(h[i]) = NoRange \/ Light(h[i]) \in Nat
  BY HopFacts
<1>2. CASE \E i \in 1..Len(h) : Light(h[i]) = NoRange
  BY <1>1, <1>2 DEF CanTake, Plausible, Connected
<1>3. CASE \A i \in 1..Len(h) : Light(h[i]) # NoRange
  <2>1. PICK f : /\ Relay(h, Start(h[1]), Latencies(h, b), Len(h), f)
                 /\ \A i \in 1..Len(h) : TransmitTime(h, b)[i] = f[i] /\ Through(h, b)[i] = f[i]
    BY <1>3, TransmitIs
  <2>2. f[Len(h)] \in Nat /\ Light(h[Len(h)]) \in Nat
    BY <1>1, <1>3, <2>1 DEF Relay
  <2>3. CanTake(h, b) <=> Offered(h, b) /\ Plausible(h, b)
    BY <1>1, <1>3, <2>1 DEF CanTake, Plausible, Connected, ArrivalTime
  <2>4. ProximateNode(h, b) = Note(h, b)
    BY <1>1, <2>1 DEF ProximateNode, Note, ArrivalTime
  <2>5. Through(h, b)[Len(h)] + Light(Last(h)) \in Nat
    BY <1>1, <2>1, <2>2
  <2>6. Note(h, b) \in Notes
    BY <1>1, <2>5, ToTimeIs DEF Note, Notes
  <2>. QED
    BY <2>3, <2>4, <2>6
<1>. QED
  BY <1>2, <1>3

-----------------------------------------------------------------------------
(* While a bundle is being forwarded, neither time nor queues change, and  *)
(* what routes can take does not.                                          *)

BacklogAt(t, q, c) ==
  Later(0, Bytes(q[c.toNode])
             - MapThenSumSet(LAMBDA d : (d.toTime - Later(t, d.fromTime)) * d.xmitRate,
                             {d \in Contacts : /\ d.fromNode = OwnNode /\ d.toNode = c.toNode
                                               /\ d.toTime >= t /\ d.fromTime < c.fromTime}))

ThroughAt(t, q, h, b) ==
  LET done[i \in DOMAIN h] ==
        IF i = 1 THEN Later(t, h[1].fromTime) + (BacklogAt(t, q, h[1]) + Eccc(b)) \div h[1].xmitRate
        ELSE Later(done[i - 1] + Light(h[i - 1]), h[i].fromTime)
               + Eccc(b) \div h[i].xmitRate
  IN  done

LEMMA ThroughNow ==
  \A h, b : Through(h, b) = ThroughAt(now, queue, h, b)
<1>1. \A c : Backlog(c) = BacklogAt(now, queue, c)
  BY DEF Backlog, BacklogAt, Preceding, Start
<1>. QED
  BY <1>1 DEF Through, ThroughAt, Start

LEMMA ThroughNext ==
  (\A h, b : Through(h, b) = ThroughAt(now, queue, h, b))'
BY ThroughNow, PTL

LEMMA Steady ==
  ASSUME now' = now, queue' = queue, NEW h, NEW b
  PROVE  /\ (CanTake(h, b)' <=> CanTake(h, b)) /\ Note(h, b)' = Note(h, b)
         /\ Late(h, b)' <=> Late(h, b)
<1>2. Through(h, b)' = Through(h, b)
  BY ThroughNow, ThroughNext
<1>3. Note(h, b)' = Note(h, b)
  BY <1>2 DEF Note
<1>4. CanTake(h, b)' <=> CanTake(h, b)
  BY <1>2 DEF CanTake, Offered
<1>5. Late(h, b)' <=> Late(h, b)
  BY DEF Late
<1>. QED
  BY <1>3, <1>4, <1>5

-----------------------------------------------------------------------------
(* The notes.                                                              *)

\* No route up to the i-th makes the walk stop.
OnTheWay(i) == \A j \in 1..i : ~Late(routes[j], bundle[1])

\* Every note is that of a tried route that can take the bundle, and of every
\* such route there is a note of its neighbor that it is not better than.  A
\* walk that has not come to its end has not met a late route.
NotesInv ==
  bundle # <<>> =>
    /\ \A p \in proximateNodes : \E i \in 1..(position - 1) :
         OnTheWay(i) /\ CanTake(routes[i], bundle[1]) /\ p = Note(routes[i], bundle[1])
    /\ \A i \in 1..(position - 1) :
         OnTheWay(i) /\ CanTake(routes[i], bundle[1]) =>
           \E q \in proximateNodes :
             /\ q.neighborNodeNbr = routes[i][1].toNode
             /\ ~Better(Note(routes[i], bundle[1]), q)
    /\ position <= Len(routes) => OnTheWay(position - 1)

Inv == TypeOK /\ NotesInv

LEMMA BetterFacts ==
  ASSUME NEW p \in Notes, NEW q \in Notes, NEW r \in Notes
  PROVE  /\ ~Better(p, p)
         /\ Better(p, q) /\ ~Better(r, q) => ~Better(r, p)
         /\ ~Better(q, p) /\ ~Better(r, q) => ~Better(r, p)
         /\ ~Better(q, p) => /\ p.arrivalTime <= q.arrivalTime
                             /\ p.arrivalTime = q.arrivalTime => p.hopCount <= q.hopCount
<1>. DEFINE a == p.arrivalTime  b == q.arrivalTime  c == r.arrivalTime
            k == p.hopCount  m == q.hopCount  n == r.hopCount
<1>1. a \in Nat /\ b \in Nat /\ c \in Nat /\ k \in Nat /\ m \in Nat /\ n \in Nat
  BY DEF Notes
<1>2. /\ Better(p, p) <=> a < a \/ (a = a /\ k < k)
      /\ Better(p, q) <=> a < b \/ (a = b /\ k < m)
      /\ Better(q, p) <=> b < a \/ (b = a /\ m < k)
      /\ Better(r, q) <=> c < b \/ (c = b /\ n < m)
      /\ Better(r, p) <=> c < a \/ (c = a /\ n < k)
  BY DEF Better
<1>. HIDE DEF a, b, c, k, m, n
<1>3. /\ ~Better(p, p)
      /\ Better(p, q) /\ ~Better(r, q) => ~Better(r, p)
      /\ ~Better(q, p) /\ ~Better(r, q) => ~Better(r, p)
      /\ ~Better(q, p) => a <= b /\ (a = b => k <= m)
  BY <1>1, <1>2
<1>. QED
  BY <1>3 DEF a, b, k, m

LEMMA NeighborFacts ==
  \A n \in Neighbors : n \in Nat
BY ContactTypes DEF Neighbors

\* What the types say.
LEMMA TypeFacts ==
  ASSUME TypeOK
  PROVE  /\ QueuesOK /\ now >= 1
         /\ Len(routes) \in Nat /\ DOMAIN routes = 1..Len(routes)
         /\ \A i \in 1..Len(routes) : routes[i] \in Hops
         /\ \A i \in 1..Len(routes) : \A j \in 1..Len(routes[i]) : Light(routes[i][j]) # NoRange
         /\ position \in Nat /\ position >= 1 /\ position <= Len(routes) + 1
         /\ proximateNodes \in SUBSET Notes
         /\ bundle # <<>> => bundle[1] \in Bundles /\ bundle = <<bundle[1]>>
         /\ \A n \in Neighbors : sent[n] \in Nat
<1>1. /\ routes \in Seq(Seq(Contacts)) /\ Len(routes) \in Nat /\ DOMAIN routes = 1..Len(routes)
      /\ \A i \in DOMAIN routes : routes[i] # <<>> /\ routes[i][1].fromNode = OwnNode
  BY RouteAssumption DEF TypeOK
<1>2. \A i \in 1..Len(routes) : routes[i] \in Hops
  BY <1>1, ElementOfSeq DEF Hops
<1>7. \A i \in 1..Len(routes) : \A j \in 1..Len(routes[i]) : Light(routes[i][j]) # NoRange
  <2>1. \A i \in 1..Len(routes) : \A j \in DOMAIN routes[i] : Light(routes[i][j]) # NoRange
    BY <1>1, RouteAssumption DEF TypeOK
  <2>. QED
    BY <1>2, <2>1, HopFacts
<1>3. bundle # <<>> => bundle[1] \in Bundles /\ bundle = <<bundle[1]>>
  BY DEF TypeOK
<1>4. QueuesOK /\ now >= 1
  BY DEF TypeOK, QueuesOK
<1>5. position \in Nat /\ position >= 1 /\ position <= Len(routes) + 1
  BY <1>1 DEF TypeOK
<1>6. proximateNodes \in SUBSET Notes /\ \A n \in Neighbors : sent[n] \in Nat
  BY DEF TypeOK, Notes
<1>. QED
  BY <1>1, <1>2, <1>3, <1>4, <1>5, <1>6, <1>7

\* Trying a route keeps what is said of the notes.
LEMMA TryKeepsNotes ==
  ASSUME Inv, TryRoute
  PROVE  /\ NotesInv'
         /\ proximateNodes' \in SUBSET Notes
         /\ \A p, q \in proximateNodes' : p.neighborNodeNbr = q.neighborNodeNbr => p = q
<1>. DEFINE k == position
            h == routes[position]
            b == bundle[1]
            x == Note(h, b)
            P == proximateNodes
            same == {q \in P : q.neighborNodeNbr = x.neighborNodeNbr}
            Took(i) == OnTheWay(i) /\ CanTake(routes[i], b)
<1>1. /\ bundle # <<>> /\ k \in 1..Len(routes) /\ k \in Nat /\ k >= 1 /\ h \in Hops /\ b \in Bundles
      /\ QueuesOK /\ P \in SUBSET Notes /\ Len(routes) \in Nat
      /\ \A i \in 1..(k - 1) : i \in 1..Len(routes)
      /\ \A i \in 1..Len(routes) : routes[i] \in Hops
      /\ \A p, q \in P : p.neighborNodeNbr = q.neighborNodeNbr => p = q
  <2>0. TypeOK
    BY DEF Inv
  <2>1. bundle # <<>> /\ k <= Len(routes) /\ k \in Nat /\ k >= 1
    BY <2>0, TypeFacts DEF TryRoute
  <2>2. /\ QueuesOK /\ P \in SUBSET Notes
        /\ \A p, q \in P : p.neighborNodeNbr = q.neighborNodeNbr => p = q
    <3>1. QueuesOK /\ P \in SUBSET Notes
      BY <2>0, TypeFacts
    <3>2. \A p, q \in P : p.neighborNodeNbr = q.neighborNodeNbr => p = q
      BY <2>0 DEF TypeOK
    <3>. QED
      BY <3>1, <3>2
  <2>3. Len(routes) \in Nat /\ \A i \in 1..Len(routes) : routes[i] \in Hops
    BY <2>0, TypeFacts
  <2>4. k \in 1..Len(routes) /\ \A i \in 1..(k - 1) : i \in 1..Len(routes)
    BY <2>1, <2>3
  <2>5. b \in Bundles
    BY <2>0, <2>1, TypeFacts
  <2>. QED
    BY <2>1, <2>2, <2>3, <2>4, <2>5
<1>2. /\ P' = IF CanTake(h, b) THEN Noted(P, x) ELSE P
      /\ CanTake(h, b) => x \in Notes
  <2>1. /\ CanTake(h, b) <=> Offered(h, b) /\ Plausible(h, b)
        /\ CanTake(h, b) => ProximateNode(h, b) = x /\ x \in Notes
    BY <1>1, TakesIs
  <2>2. P' = IF Offered(h, b) /\ Plausible(h, b) THEN Noted(P, ProximateNode(h, b)) ELSE P
    BY DEF TryRoute
  <2>. QED
    BY <2>1, <2>2
<1>3. x.neighborNodeNbr = h[1].toNode
  BY DEF Note
<1>4. /\ now' = now /\ queue' = queue /\ routes' = routes /\ bundle' = bundle
      /\ position' = k + 1
  BY DEF TryRoute
<1>5. /\ \A p \in P : \E i \in 1..(k - 1) : Took(i) /\ p = Note(routes[i], b)
      /\ \A i \in 1..(k - 1) :
           Took(i) =>
             \E q \in P : /\ q.neighborNodeNbr = routes[i][1].toNode
                          /\ ~Better(Note(routes[i], b), q)
      /\ OnTheWay(k - 1)
  BY <1>1 DEF Inv, NotesInv
<1>6. \A i \in 1..(k - 1) : Took(i) => Note(routes[i], b) \in Notes
  BY <1>1, TakesIs
<1>7. \A i \in 1..k : i \in 1..(k - 1) \/ i = k
  BY <1>1
<1>8. 1..(k - 1) \subseteq 1..k /\ k \in 1..k
  BY <1>1
<1>12. OnTheWay(k)
  BY <1>5, <1>7 DEF TryRoute, OnTheWay
<1>13. Took(k) <=> CanTake(h, b)
  BY <1>12
<1>. HIDE DEF Took
<1>9. /\ P' \in SUBSET Notes
      /\ \A p, q \in P' : p.neighborNodeNbr = q.neighborNodeNbr => p = q
      /\ \A p \in P' : \E i \in 1..k : Took(i) /\ p = Note(routes[i], b)
      /\ \A i \in 1..k :
           Took(i) =>
             \E q \in P' : /\ q.neighborNodeNbr = routes[i][1].toNode
                           /\ ~Better(Note(routes[i], b), q)
  <2>1. CASE ~Took(k)
    <3>1. P' = P
      BY <1>2, <1>13, <2>1
    <3>. QED
      BY <1>1, <1>5, <1>7, <1>8, <2>1, <3>1
  <2>2. CASE Took(k) /\ ~(\A q \in same : Better(x, q))
    <3>1. P' = P
      BY <1>2, <1>13, <2>2 DEF Noted
    <3>2. \E q \in P : q.neighborNodeNbr = h[1].toNode /\ ~Better(x, q)
      BY <1>3, <2>2
    <3>. QED
      BY <1>1, <1>5, <1>7, <1>8, <3>1, <3>2
  <2>3. CASE Took(k) /\ \A q \in same : Better(x, q)
    <3>1. P' = (P \ same) \cup {x}
      BY <1>2, <1>13, <2>3 DEF Noted
    <3>2. x \in Notes /\ ~Better(x, x)
      BY <1>2, <1>13, <2>3, BetterFacts
    <3>3. P' \in SUBSET Notes
      BY <1>1, <3>1, <3>2
    <3>4. \A p, q \in P' : p.neighborNodeNbr = q.neighborNodeNbr => p = q
      BY <1>1, <3>1
    <3>5. \A p \in P' : \E i \in 1..k : Took(i) /\ p = Note(routes[i], b)
      <4>1. Took(k) /\ x = Note(routes[k], b)
        BY <2>3
      <4>. HIDE DEF x, same
      <4>. QED
        BY <1>5, <1>8, <3>1, <4>1
    <3>6. ASSUME NEW i \in 1..k, Took(i)
          PROVE  \E q \in P' : /\ q.neighborNodeNbr = routes[i][1].toNode
                               /\ ~Better(Note(routes[i], b), q)
      <4>1. CASE i = k
        BY <1>3, <3>1, <3>2, <4>1
      <4>2. CASE i # k
        <5>1. i \in 1..(k - 1)
          BY <1>7, <4>2
        <5>2. PICK q \in P : /\ q.neighborNodeNbr = routes[i][1].toNode
                             /\ ~Better(Note(routes[i], b), q)
          BY <1>5, <3>6, <5>1
        <5>3. CASE q \in same
          <6>1. Better(x, q) /\ q \in Notes /\ Note(routes[i], b) \in Notes
            BY <1>1, <1>6, <2>3, <3>6, <5>1, <5>3
          <6>2. ~Better(Note(routes[i], b), x)
            BY <3>2, <5>2, <6>1, BetterFacts
          <6>. QED
            BY <3>1, <5>2, <5>3, <6>2
        <5>4. CASE q \notin same
          BY <3>1, <5>2, <5>4
        <5>. QED
          BY <5>3, <5>4
      <4>. QED
        BY <4>1, <4>2
    <3>. QED
      BY <3>3, <3>4, <3>5, <3>6
  <2>. QED
    BY <2>1, <2>2, <2>3
<1>. HIDE DEF x, same, h
<1>10. \A i : /\ CanTake(routes[i], b)' <=> CanTake(routes[i], b)
              /\ Note(routes[i], b)' = Note(routes[i], b)
              /\ Late(routes[i], b)' <=> Late(routes[i], b)
  <2>1. TAKE i
  <2>. DEFINE g == routes[i]
  <2>2. g' = g /\ b' = b
    BY <1>4
  <2>. QED
    BY <1>4, <2>2, Steady
<1>14. \A i : OnTheWay(i)' <=> OnTheWay(i)
  BY <1>4, <1>10 DEF OnTheWay
<1>11. NotesInv'
  <2>1. (position - 1)' = k
    BY <1>1, <1>4
  <2>. QED
    BY <1>4, <1>9, <1>10, <1>12, <1>14, <2>1 DEF NotesInv, Took
<1>. QED
  BY <1>9, <1>11

\* Stopping at a late route keeps what is said of the notes: none was made of
\* that route or of a later one, and none is owed.
LEMMA StopKeepsNotes ==
  ASSUME Inv, StopAtLate
  PROVE  NotesInv'
<1>. DEFINE k == position
            b == bundle[1]
<1>1. /\ bundle # <<>> /\ k \in Nat /\ k >= 1 /\ k <= Len(routes) /\ Len(routes) \in Nat
      /\ Late(routes[k], b)
  BY TypeFacts DEF Inv, StopAtLate
<1>2. /\ now' = now /\ queue' = queue /\ routes' = routes /\ bundle' = bundle
      /\ proximateNodes' = proximateNodes /\ position' = Len(routes) + 1
  BY DEF StopAtLate
<1>3. \A i : /\ CanTake(routes[i], b)' <=> CanTake(routes[i], b)
             /\ Note(routes[i], b)' = Note(routes[i], b)
             /\ Late(routes[i], b)' <=> Late(routes[i], b)
  <2>1. TAKE i
  <2>. DEFINE g == routes[i]
  <2>2. g' = g /\ b' = b
    BY <1>2
  <2>. QED
    BY <1>2, <2>2, Steady
<1>4. \A i : OnTheWay(i)' <=> OnTheWay(i)
  BY <1>2, <1>3 DEF OnTheWay
<1>5. \A i \in 1..Len(routes) : OnTheWay(i) => i \in 1..(k - 1)
  <2>1. \A i \in 1..Len(routes) : i \notin 1..(k - 1) => k \in 1..i
    BY <1>1
  <2>. QED
    BY <1>1, <2>1 DEF OnTheWay
<1>6. \A i \in 1..(k - 1) : i \in 1..Len(routes)
  BY <1>1
<1>7. (position - 1)' = Len(routes) /\ ~(position' <= Len(routes))
  BY <1>1, <1>2
<1>8. /\ \A p \in proximateNodes : \E i \in 1..(k - 1) :
           OnTheWay(i) /\ CanTake(routes[i], b) /\ p = Note(routes[i], b)
      /\ \A i \in 1..(k - 1) :
           OnTheWay(i) /\ CanTake(routes[i], b) =>
             \E q \in proximateNodes :
               /\ q.neighborNodeNbr = routes[i][1].toNode
               /\ ~Better(Note(routes[i], b), q)
  BY <1>1 DEF Inv, NotesInv
<1>. QED
  BY <1>2, <1>3, <1>4, <1>5, <1>6, <1>7, <1>8 DEF NotesInv

-----------------------------------------------------------------------------
(* The links.                                                              *)

\* The bytes that contacts with n send in the second that begins at t
Sending(n, t) ==
  [c \in Contacts |->
     IF c.fromNode = OwnNode /\ c.toNode = n /\ c.fromTime <= t /\ t < c.toTime
     THEN c.xmitRate ELSE 0]

LEMMA SendingType ==
  ASSUME NEW n, NEW t \in Nat
  PROVE  Sending(n, t) \in [Contacts -> Int] /\ \A c \in Contacts : Sending(n, t)[c] >= 0
BY ContactTypes DEF Sending

LEMMA RateIs ==
  ASSUME NEW n, now \in Nat
  PROVE  Rate(n) = SumIn(Contacts, Sending(n, now), Contacts) /\ Rate(n) \in Nat
<1>. DEFINE A == {c \in Contacts : /\ c.fromNode = OwnNode /\ c.toNode = n
                                   /\ c.fromTime <= now /\ now < c.toTime}
            Sum(s) == SumIn(Contacts, Sending(n, now), s)
            Next1(g) == [s \in SUBSET A |->
                          IF s = {} THEN 0
                          ELSE (CHOOSE x \in s : TRUE).xmitRate + g[s \ {CHOOSE x \in s : TRUE}]]
            g0 == [s \in SUBSET A |-> Sum(s)]
            g1 == CHOOSE g : g = Next1(g)
            P == {s \in SUBSET A : g1[s] = Sum(s)}
<1>1. A \in SUBSET Contacts /\ IsFiniteSet(A) /\ IsFiniteSet(Contacts)
  <2>1. A \in SUBSET Contacts
    OBVIOUS
  <2>. HIDE DEF A
  <2>. QED
    BY <2>1, ContactTypes, FS_Subset
<1>2. /\ \A x \in A : Sending(n, now)[x] = x.xmitRate
      /\ \A x \in Contacts \ A : Sending(n, now)[x] = 0
  BY DEF Sending
<1>. HIDE DEF A
<1>3. /\ Sum({}) = 0 /\ \A s \in SUBSET Contacts : Sum(s) \in Int
      /\ \A s \in SUBSET Contacts : \A x \in s : Sum(s) = Sending(n, now)[x] + Sum(s \ {x})
  BY <1>1, SendingType, SumInIs
<1>4. /\ \A x \in Contacts \ A : Sending(n, now)[x] >= 0
      /\ Sum(A) = Sum(Contacts) /\ Sum({}) <= Sum(Contacts)
  <2>1. {} \in SUBSET Contacts /\ Sending(n, now) \in [Contacts -> Int]
        /\ \A x \in Contacts : Sending(n, now)[x] >= 0
    BY SendingType
  <2>2. Sum(A) = Sum(Contacts)
    BY <1>1, <1>2, <2>1, SumInPart
  <2>3. Sum({}) <= Sum(Contacts)
    BY <1>1, <2>1, SumInPart
  <2>. QED
    BY <2>1, <2>2, <2>3
<1>5. Sum(Contacts) \in Nat
  <2>1. Contacts \in SUBSET Contacts
    OBVIOUS
  <2>2. Sum(Contacts) \in Int /\ Sum({}) = 0 /\ Sum({}) <= Sum(Contacts)
    BY <1>3, <1>4, <2>1
  <2>. HIDE DEF Sum
  <2>. QED
    BY <2>2
<1>6. \A s \in SUBSET A : \A x \in s : s \ {x} \in SUBSET A /\ Sum(s) = x.xmitRate + Sum(s \ {x})
  BY <1>1, <1>2, <1>3
<1>. HIDE DEF Sum
<1>7. \A s \in SUBSET A : s # {} => (CHOOSE x \in s : TRUE) \in s
  OBVIOUS
<1>8. g0 = Next1(g0)
  <2>1. ASSUME NEW s \in SUBSET A PROVE g0[s] = Next1(g0)[s]
    <3>1. CASE s = {}
      BY <1>3, <3>1
    <3>2. CASE s # {}
      <4>1. PICK x \in s : x = CHOOSE y \in s : TRUE
        BY <1>7, <3>2
      <4>. QED
        BY <1>6, <3>2, <4>1
    <3>. QED
      BY <3>1, <3>2
  <2>. QED
    BY <2>1
<1>. HIDE DEF Next1, g0
<1>9. g1 = Next1(g1)
  BY <1>8
<1>. HIDE DEF g1
<1>10. {} \in P /\ P \in SUBSET SUBSET A
  BY <1>3, <1>9 DEF Next1
<1>11. ASSUME NEW s \in SUBSET A, s # {}, \A x \in s : s \ {x} \in P PROVE s \in P
  <2>1. PICK x \in s : x = CHOOSE y \in s : TRUE
    BY <1>7, <1>11
  <2>2. g1[s] = x.xmitRate + g1[s \ {x}]
    BY <1>9, <1>11, <2>1 DEF Next1
  <2>3. g1[s \ {x}] = Sum(s \ {x})
    BY <1>11
  <2>. QED
    BY <1>6, <2>2, <2>3
<1>. HIDE DEF P
<1>12. A \in P
  BY <1>1, <1>10, <1>11, AllSubsets
<1>13. g1[A] = Sum(A)
  BY <1>12 DEF P
<1>14. Rate(n) = g1[A]
  BY DEF Rate, MapThenSumSet, MapThenFoldSet, g1, Next1, A
<1>. QED
  BY <1>4, <1>5, <1>13, <1>14 DEF Sum

\* The bytes of a part of a queue, from the sums over all of it.
LEMMA BytesPart ==
  ASSUME NEW q \in Seq(Bundles), NEW f, Sums(Sizes(q), f),
         NEW m \in 0..Len(q), NEW k \in m..Len(q)
  PROVE  SubSeq(q, m + 1, k) \in Seq(Bundles) /\ Bytes(SubSeq(q, m + 1, k)) = f[k] - f[m]
<1>. DEFINE p == SubSeq(q, m + 1, k)
<1>0. k - m \in Nat /\ m \in Nat /\ m + (k - m) = k
  OBVIOUS
<1>12. PICK l \in Nat : l = k - m /\ m + l = k
  BY <1>0
<1>1. Len(q) \in Nat /\ m \in Nat /\ k \in Nat /\ m + l = k /\ k <= Len(q) /\ m + 1 \in 1..(Len(q) + 1)
      /\ \A i \in 1..Len(q) : q[i] \in Bundles /\ Size(q[i]) \in Int
  <2>1. Len(q) \in Nat /\ m <= Len(q) /\ k <= Len(q) /\ m \in Nat /\ k \in Nat
    BY <1>0
  <2>2. \A i \in 1..Len(q) : q[i] \in Bundles
    BY ElementOfSeq
  <2>3. \A b \in Bundles : Size(b) \in Int
    BY BundleAssumption
  <2>. QED
    BY <1>12, <2>1, <2>2, <2>3
<1>2. p \in Seq(Bundles) /\ Len(p) = l /\ \A i \in 1..l : p[i] = q[m + i]
  BY <1>12, <1>1, SubSeqProperties
<1>. HIDE DEF p
<1>3. /\ f \in [0..Len(q) -> Int] /\ f[0] = 0
      /\ \A i \in 1..Len(q) : f[i] = f[i - 1] + Size(q[i])
  BY BytesSums DEF Sums, SumsUpTo, Sizes
<1>. DEFINE g == [i \in 0..l |-> f[m + i] - f[m]]
<1>4. \A i \in 0..l : m + i \in 0..Len(q) /\ f[m + i] \in Int
  <2>1. \A i \in 0..l : m + i \in 0..Len(q)
    BY <1>1
  <2>. QED
    BY <1>3, <2>1
<1>5. f[m] \in Int /\ 0 \in 0..l /\ l \in 0..l /\ m + 0 = m /\ m + l = k
  <2>1. m \in 0..Len(q) /\ 0 \in 0..l /\ l \in 0..l /\ m + 0 = m
    BY <1>1
  <2>. QED
    BY <1>1, <1>3, <2>1
<1>6. g \in [0..l -> Int] /\ g[0] = 0 /\ g[l] = f[k] - f[m]
  <2>1. g[0] = f[m + 0] - f[m] /\ g[l] = f[m + l] - f[m]
    BY <1>5
  <2>2. g \in [0..l -> Int]
    <3>1. ASSUME NEW i \in 0..l PROVE f[m + i] - f[m] \in Int
      <4>1. f[m + i] \in Int /\ f[m] \in Int
        BY <1>4, <1>5
      <4>. DEFINE x == f[m + i]
                  y == f[m]
      <4>. HIDE DEF x, y
      <4>2. x - y \in Int
        BY <4>1 DEF x, y
      <4>. QED
        BY <4>2 DEF x, y
    <3>. QED
      BY <3>1
  <2>. HIDE DEF g
  <2>. QED
    BY <1>5, <2>1, <2>2
<1>7. ASSUME NEW i \in 1..l PROVE g[i] = g[i - 1] + Sizes(p)[i]
  <2>1. i \in 0..l /\ i - 1 \in 0..l /\ m + i \in 1..Len(q) /\ (m + i) - 1 = m + (i - 1)
    BY <1>1
  <2>2. Sizes(p)[i] = Size(q[m + i]) /\ Size(q[m + i]) \in Int
    BY <1>1, <1>2, <2>1 DEF Sizes
  <2>3. f[m + i] = f[m + (i - 1)] + Size(q[m + i])
    BY <1>3, <2>1
  <2>4. g[i] = f[m + i] - f[m] /\ g[i - 1] = f[m + (i - 1)] - f[m]
    BY <2>1
  <2>5. f[m + (i - 1)] \in Int
    BY <1>4, <2>1
  <2>. HIDE DEF g
  <2>. QED
    BY <1>5, <2>2, <2>3, <2>4, <2>5
<1>. HIDE DEF g
<1>8. Sums(Sizes(p), g)
  <2>1. Len(Sizes(p)) = l
    BY <1>2, BytesSums
  <2>. QED
    BY <1>6, <1>7, <2>1 DEF Sums, SumsUpTo
<1>9. Bytes(p) = g[l]
  BY <1>2, <1>8, BytesIs
<1>. QED
  BY <1>2, <1>6, <1>9 DEF p

\* How many bundles a link has sent by the end of the second
LEMMA DoneIs ==
  ASSUME QueuesOK, NEW n \in Neighbors, sent[n] \in Nat,
         NEW f, Sums(Sizes(queue[n]), f)
  PROVE  /\ Done(n) \in 0..Len(queue[n]) /\ f[Done(n)] <= sent[n] + Rate(n)
         /\ \A k \in 0..Len(queue[n]) : k > Done(n) => f[k] > sent[n] + Rate(n)
         /\ \A k \in 0..Len(queue[n]) : f[k] \in Int
<1>. DEFINE q == queue[n]
            b == sent[n] + Rate(n)
            T == {k \in 0..Len(q) : f[k] <= b}
            U == {Len(q) - k : k \in T}
<1>1. q \in Seq(Bundles) /\ Len(q) \in Nat
  BY DEF QueuesOK
<1>2. f \in [0..Len(q) -> Int] /\ f[0] = 0 /\ 0 \in 0..Len(q)
  BY <1>1, BytesSums DEF Sums, SumsUpTo
<1>3. b \in Nat
  BY RateIs DEF QueuesOK
<1>4. \A k \in 0..Len(q) : Bytes(SubSeq(q, 1, k)) = f[k]
  <2>1. TAKE k \in 0..Len(q)
  <2>2. Bytes(SubSeq(q, 0 + 1, k)) = f[k] - f[0]
    BY <1>1, <1>2, BytesPart
  <2>3. f[k] \in Int /\ 0 + 1 = 1
    BY <1>2
  <2>. QED
    BY <1>2, <2>2, <2>3
<1>5. Done(n) = Max(T)
  BY <1>4 DEF Done
<1>. HIDE DEF b, q
<1>6. U \in SUBSET Nat /\ Len(q) - 0 \in U
  BY <1>1, <1>2, <1>3
<1>7. PICK u \in U : \A v \in U : u <= v
  BY <1>6, LeastNat
<1>8. PICK m \in T : u = Len(q) - m
  BY <1>7
<1>9. \A k \in T : m >= k
  <2>1. TAKE k \in T
  <2>2. u <= Len(q) - k
    BY <1>7
  <2>. QED
    BY <1>1, <1>8, <2>2
<1>. HIDE DEF T
<1>10. Max(T) \in T /\ \A k \in T : Max(T) >= k
  BY <1>8, <1>9 DEF Max
<1>11. Done(n) \in 0..Len(q) /\ f[Done(n)] <= b /\ \A k \in 0..Len(q) : k > Done(n) => f[k] > b
  <2>1. PICK d \in T : d = Done(n) /\ \A k \in T : d >= k
    BY <1>5, <1>10
  <2>2. d \in 0..Len(q) /\ f[d] <= b
    BY DEF T
  <2>3. ASSUME NEW k \in 0..Len(q), k > d PROVE f[k] > b
    <3>1. k \notin T
      BY <2>1, <2>2, <2>3
    <3>2. ~(f[k] <= b) /\ f[k] \in Int
      BY <1>2, <3>1 DEF T
    <3>. QED
      BY <1>3, <3>2
  <2>. QED
    BY <2>1, <2>2, <2>3
<1>. QED
  BY <1>2, <1>11 DEF b, q

-----------------------------------------------------------------------------
(* The types and the notes are kept.                                       *)

LEMMA SecondKeepsTypes ==
  ASSUME TypeOK, Second
  PROVE  /\ now' \in 1..MaxTime
         /\ queue' \in [Neighbors -> Seq(Bundles)]
         /\ sent' \in [Neighbors -> Nat]
         /\ \A n \in Neighbors : Len(queue'[n]) <= Len(queue[n])
<1>1. QueuesOK /\ now' = now + 1 /\ now < MaxTime /\ now \in Nat
  BY TypeFacts DEF Second, QueuesOK
<1>2. now' \in 1..MaxTime
  BY <1>1, BundleAssumption
<1>3. ASSUME NEW n \in Neighbors
      PROVE  /\ SubSeq(queue[n], Done(n) + 1, Len(queue[n])) \in Seq(Bundles)
             /\ Len(SubSeq(queue[n], Done(n) + 1, Len(queue[n]))) <= Len(queue[n])
             /\ sent[n] + Rate(n) - Bytes(SubSeq(queue[n], 1, Done(n))) \in Nat
  <2>1. queue[n] \in Seq(Bundles) /\ sent[n] \in Nat /\ Rate(n) \in Nat /\ Len(queue[n]) \in Nat
    BY <1>1, RateIs DEF TypeOK
  <2>2. PICK f : Sums(Sizes(queue[n]), f)
    BY <2>1, BytesSums
  <2>3. PICK m \in 0..Len(queue[n]) :
          m = Done(n) /\ f[m] <= sent[n] + Rate(n) /\ f[m] \in Int
    BY <1>1, <2>1, <2>2, DoneIs
  <2>4. f[0] = 0
    BY <2>2 DEF Sums, SumsUpTo
  <2>5. Bytes(SubSeq(queue[n], 0 + 1, m)) = f[m] - f[0]
    BY <2>1, <2>2, <2>3, BytesPart
  <2>6. sent[n] + Rate(n) - Bytes(SubSeq(queue[n], 1, m)) \in Nat
    BY <2>1, <2>3, <2>4, <2>5
  <2>7. /\ SubSeq(queue[n], m + 1, Len(queue[n])) \in Seq(Bundles)
        /\ Len(SubSeq(queue[n], m + 1, Len(queue[n]))) <= Len(queue[n])
    BY <2>1, <2>3, SubSeqProperties
  <2>. QED
    BY <2>3, <2>6, <2>7
<1>4. /\ queue' = [n \in Neighbors |-> SubSeq(queue[n], Done(n) + 1, Len(queue[n]))]
      /\ sent' = [n \in Neighbors |->
                    IF Done(n) = Len(queue[n]) THEN 0
                    ELSE sent[n] + Rate(n) - Bytes(SubSeq(queue[n], 1, Done(n)))]
  BY DEF Second
<1>5. queue' \in [Neighbors -> Seq(Bundles)] /\ \A n \in Neighbors : Len(queue'[n]) <= Len(queue[n])
  BY <1>3, <1>4
<1>6. sent' \in [Neighbors -> Nat]
  BY <1>3, <1>4
<1>. QED
  BY <1>2, <1>5, <1>6

LEMMA InitInv == Init => Inv
<1>. SUFFICES ASSUME Init PROVE Inv
  OBVIOUS
<1>1. 1 \in 1..MaxTime
  BY BundleAssumption
<1>2. routes \in Seq(Seq(Contacts)) /\ Len(routes) \in Nat
  BY RouteAssumption DEF Init
<1>3. 1 \in 1..(Len(routes) + 1)
  BY <1>2
<1>4. /\ queue \in [Neighbors -> Seq(Bundles)] /\ sent \in [Neighbors -> Nat]
      /\ forfeitTime \in [Bundles -> Nat]
  BY DEF Init
<1>5. TypeOK
  BY <1>1, <1>3, <1>4 DEF Init, TypeOK, LoadTime
<1>6. NotesInv
  BY DEF Init, NotesInv
<1>. QED
  BY <1>5, <1>6 DEF Inv

\* The bundle joins one queue.
LEMMA EnqueueFacts ==
  ASSUME Inv, Enqueue
  PROVE  /\ bundle # <<>> /\ bundle[1] \in Bundles /\ position > Len(routes) /\ bundle' = <<>>
         /\ now' = now /\ sent' = sent /\ routes' = routes
         /\ \E p \in proximateNodes :
              /\ p \in Notes /\ \A q \in proximateNodes : Preferred(p, q)
              /\ queue' = [queue EXCEPT ![p.neighborNodeNbr] =
                             Append(queue[p.neighborNodeNbr], bundle[1])]
              /\ queue[p.neighborNodeNbr] \in Seq(Bundles)
              /\ forfeitTime' = [forfeitTime EXCEPT ![bundle[1]] = p.forfeitTime]
<1>1. bundle # <<>> /\ bundle[1] \in Bundles /\ proximateNodes \in SUBSET Notes
  BY TypeFacts DEF Inv, Enqueue
<1>2. queue \in [Neighbors -> Seq(Bundles)] /\ \A p \in Notes : p.neighborNodeNbr \in Neighbors
  BY DEF Inv, TypeOK, Notes
<1>3. PICK p \in proximateNodes :
        /\ \A q \in proximateNodes : Preferred(p, q)
        /\ queue' = [queue EXCEPT ![p.neighborNodeNbr] =
                       Append(queue[p.neighborNodeNbr], bundle[1])]
        /\ forfeitTime' = [forfeitTime EXCEPT ![bundle[1]] = p.forfeitTime]
  BY DEF Enqueue
<1>4. p \in Notes /\ queue[p.neighborNodeNbr] \in Seq(Bundles)
  BY <1>1, <1>2
<1>. QED
  BY <1>1, <1>3, <1>4 DEF Enqueue

LEMMA NextKeepsInv == Inv /\ [Next]_vars => Inv'
<1>. SUFFICES ASSUME Inv, [Next]_vars PROVE Inv'
  OBVIOUS
<1>0. TypeOK /\ NotesInv
  BY DEF Inv
<1>1. ASSUME NEW b \in Bundles, CgrForward(b) PROVE Inv'
  <2>1. /\ bundle' = <<b>> /\ position' = 1 /\ proximateNodes' = {}
        /\ UNCHANGED <<now, routes, queue, sent, forfeitTime>>
    BY <1>1 DEF CgrForward
  <2>2. 1 \in 1..(Len(routes) + 1) /\ 1..(1 - 1) = {} /\ 1 - 1 = 0 /\ 1..0 = {}
    BY <1>0, TypeFacts
  <2>3. TypeOK'
    BY <1>0, <2>1, <2>2 DEF TypeOK
  <2>4. NotesInv'
    BY <2>1, <2>2 DEF NotesInv, OnTheWay
  <2>. QED
    BY <2>3, <2>4 DEF Inv
<1>7. CASE StopAtLate
  <2>1. /\ position' = Len(routes) + 1
        /\ UNCHANGED <<now, routes, bundle, proximateNodes, queue, sent, forfeitTime>>
    BY <1>7 DEF StopAtLate
  <2>2. position' \in 1..(Len(routes) + 1)
    BY <1>0, <2>1, TypeFacts
  <2>3. TypeOK'
    BY <1>0, <2>1, <2>2 DEF TypeOK
  <2>. QED
    BY <1>7, <2>3, StopKeepsNotes DEF Inv
<1>2. CASE TryRoute
  <2>1. /\ NotesInv' /\ proximateNodes' \in SUBSET Notes
        /\ \A p, q \in proximateNodes' : p.neighborNodeNbr = q.neighborNodeNbr => p = q
    BY <1>2, TryKeepsNotes
  <2>2. position' = position + 1 /\ position <= Len(routes)
        /\ UNCHANGED <<now, routes, bundle, queue, sent, forfeitTime>>
    BY <1>2 DEF TryRoute
  <2>3. position' \in 1..(Len(routes) + 1)
    BY <1>0, <2>2, TypeFacts
  <2>4. TypeOK'
    BY <1>0, <2>1, <2>2, <2>3 DEF TypeOK, Notes
  <2>. QED
    BY <2>1, <2>4 DEF Inv
<1>3. CASE Enqueue
  <2>1. PICK p \in proximateNodes :
          /\ p \in Notes /\ queue[p.neighborNodeNbr] \in Seq(Bundles)
          /\ queue' = [queue EXCEPT ![p.neighborNodeNbr] =
                         Append(queue[p.neighborNodeNbr], bundle[1])]
          /\ forfeitTime' = [forfeitTime EXCEPT ![bundle[1]] = p.forfeitTime]
    BY <1>3, EnqueueFacts
  <2>2. bundle[1] \in Bundles /\ bundle' = <<>>
    BY <1>3, EnqueueFacts
  <2>3. p.neighborNodeNbr \in Neighbors /\ p.forfeitTime \in Nat
    BY <2>1 DEF Notes
  <2>4. Append(queue[p.neighborNodeNbr], bundle[1]) \in Seq(Bundles)
    BY <2>1, <2>2, AppendProperties
  <2>5. queue' \in [Neighbors -> Seq(Bundles)]
    BY <1>0, <2>1, <2>4 DEF TypeOK
  <2>6. forfeitTime' \in [Bundles -> Nat]
    BY <1>0, <2>1, <2>3 DEF TypeOK
  <2>7. UNCHANGED <<now, routes, position, proximateNodes, sent>>
    BY <1>3 DEF Enqueue
  <2>8. TypeOK'
    BY <1>0, <2>2, <2>5, <2>6, <2>7 DEF TypeOK
  <2>9. NotesInv'
    BY <2>2 DEF NotesInv
  <2>. QED
    BY <2>8, <2>9 DEF Inv
<1>4. CASE NoProximateNode
  BY <1>0, <1>4 DEF NoProximateNode, Inv, TypeOK, NotesInv
<1>5. CASE Second
  <2>1. /\ now' \in 1..MaxTime /\ queue' \in [Neighbors -> Seq(Bundles)]
        /\ sent' \in [Neighbors -> Nat]
    BY <1>0, <1>5, SecondKeepsTypes
  <2>2. bundle = <<>> /\ UNCHANGED <<routes, bundle, position, proximateNodes, forfeitTime>>
    BY <1>5 DEF Second
  <2>3. TypeOK'
    BY <1>0, <2>1, <2>2 DEF TypeOK
  <2>4. NotesInv'
    BY <2>2 DEF NotesInv
  <2>. QED
    BY <2>3, <2>4 DEF Inv
<1>6. CASE UNCHANGED vars
  <2>1. /\ now' = now /\ queue' = queue /\ routes' = routes /\ bundle' = bundle
        /\ position' = position /\ proximateNodes' = proximateNodes
        /\ sent' = sent /\ forfeitTime' = forfeitTime
    BY <1>6 DEF vars
  <2>2. TypeOK'
    BY <1>0, <2>1 DEF TypeOK
  <2>3. \A i : /\ CanTake(routes[i], bundle[1])' <=> CanTake(routes[i], bundle[1])
               /\ Note(routes[i], bundle[1])' = Note(routes[i], bundle[1])
               /\ Late(routes[i], bundle[1])' <=> Late(routes[i], bundle[1])
    <3>1. TAKE i
    <3>. DEFINE g == routes[i]
                b == bundle[1]
    <3>2. g' = g /\ b' = b
      BY <2>1
    <3>. QED
      BY <2>1, <3>2, Steady
  <2>5. \A i : OnTheWay(i)' <=> OnTheWay(i)
    BY <2>1, <2>3 DEF OnTheWay
  <2>4. NotesInv'
    BY <1>0, <2>1, <2>3, <2>5 DEF NotesInv
  <2>. QED
    BY <2>2, <2>4 DEF Inv
<1>. QED
  BY <1>1, <1>2, <1>3, <1>4, <1>5, <1>6, <1>7 DEF Next

LEMMA Invariant == Spec => []Inv
BY InitInv, NextKeepsInv, PTL DEF Spec

-----------------------------------------------------------------------------
(* The choice.                                                             *)

\* In a list in ascending order, nothing behind a late route can take the
\* bundle, whatever is queued: the walk may stop there.
LEMMA LateIsLast ==
  ASSUME TypeOK, bundle # <<>>, Ascending, NEW i \in 1..Len(routes),
         CanTake(routes[i], bundle[1])
  PROVE  OnTheWay(i)
<1>. DEFINE b == bundle[1]
<1>1. /\ QueuesOK /\ now >= 1 /\ b \in Bundles /\ Len(routes) \in Nat
      /\ DOMAIN routes = 1..Len(routes)
      /\ \A k \in 1..Len(routes) :
           routes[k] \in Hops /\ \A j \in 1..Len(routes[k]) : Light(routes[k][j]) # NoRange
  BY TypeFacts
<1>2. \A k \in 1..Len(routes) :
        /\ EarliestArrival(routes[k]) \in Nat
        /\ Through(routes[k], b)[Len(routes[k])] + Light(Last(routes[k])) \in Nat
        /\ EarliestArrival(routes[k])
             <= Through(routes[k], b)[Len(routes[k])] + Light(Last(routes[k]))
  BY <1>1, NeverEarlier
<1>3. Through(routes[i], b)[Len(routes[i])] + Light(Last(routes[i])) <= Expiry(b)
  BY DEF CanTake
<1>4. Expiry(b) \in Nat
  BY <1>1, BundleAssumption
<1>5. EarliestArrival(routes[i]) <= Expiry(b)
  <2>. DEFINE x == EarliestArrival(routes[i])
              y == Through(routes[i], b)[Len(routes[i])] + Light(Last(routes[i]))
              z == Expiry(b)
  <2>1. x \in Nat /\ y \in Nat /\ z \in Nat /\ x <= y /\ y <= z
    BY <1>2, <1>3, <1>4
  <2>. HIDE DEF x, y, z
  <2>2. x <= z
    BY <2>1
  <2>. QED
    BY <2>2 DEF x, z
<1>6. ASSUME NEW j \in 1..i PROVE ~Late(routes[j], b)
  <2>1. j \in 1..Len(routes) /\ (j < i \/ j = i)
    BY <1>1
  <2>2. EarliestArrival(routes[j]) <= EarliestArrival(routes[i])
    <3>1. CASE j < i
      BY <1>1, <2>1, <3>1, Zenon DEF Ascending
    <3>2. CASE j = i
      <4>1. PICK x \in Nat : x = EarliestArrival(routes[i])
        BY <1>2
      <4>2. x <= x
        OBVIOUS
      <4>. QED
        BY <3>2, <4>1, <4>2, Zenon
    <3>. QED
      BY <2>1, <3>1, <3>2
  <2>3. ~(EarliestArrival(routes[j]) > Expiry(b))
    BY <1>2, <1>4, <1>5, <2>1, <2>2
  <2>. QED
    BY <2>3 DEF Late
<1>. QED
  BY <1>6 DEF OnTheWay

\* Who is a candidate: the note of a route on the way that can take the bundle.
LEMMA CandidateIs ==
  ASSUME Inv, bundle # <<>>
  PROVE  \A p : p \in Candidates <=>
                  \E i \in 1..Len(routes) :
                    /\ OnTheWay(i) /\ CanTake(routes[i], bundle[1])
                    /\ p = Note(routes[i], bundle[1])
<1>1. DOMAIN routes = 1..Len(routes)
  BY TypeFacts DEF Inv
<1>2. Considered = {routes[i] : i \in {k \in 1..Len(routes) : Ascending \/ OnTheWay(k)}}
  BY <1>1 DEF Considered, OnTheWay
<1>3. Candidates = {Note(h, bundle[1]) : h \in {g \in Considered : CanTake(g, bundle[1])}}
  BY DEF Candidates, Note
<1>4. \A i \in 1..Len(routes) :
        CanTake(routes[i], bundle[1]) => (OnTheWay(i) <=> Ascending \/ OnTheWay(i))
  BY LateIsLast DEF Inv
<1>. QED
  BY <1>2, <1>3, <1>4

\* A bundle stays without a neighbor only if no considered route can take it,
\* which is any of a list in ascending order of arrival.
THEOREM NoneOnlyIfNoRoute == Spec => NoneIfNoRoute
<1>1. Inv /\ [Next]_vars => [bundle # <<>> /\ bundle' = <<>> /\ queue' = queue => Candidates = {}]_vars
  <2>. SUFFICES ASSUME Inv, [Next]_vars, bundle # <<>>, bundle' = <<>>, queue' = queue
                PROVE  Candidates = {}
    OBVIOUS
  <2>1. CASE NoProximateNode
    <3>1. /\ position \in Nat /\ position >= 1 /\ Len(routes) \in Nat /\ position <= Len(routes) + 1
          /\ position > Len(routes)
      BY <2>1, TypeFacts DEF Inv, NoProximateNode
    <3>2. \A i \in 1..Len(routes) : i \in 1..(position - 1)
      BY <3>1
    <3>3. \A i \in 1..(position - 1) : ~(OnTheWay(i) /\ CanTake(routes[i], bundle[1]))
      BY <2>1 DEF Inv, NotesInv, NoProximateNode
    <3>. QED
      BY <3>2, <3>3, CandidateIs
  <2>2. CASE Enqueue
    <3>1. PICK p \in proximateNodes :
            /\ p \in Notes /\ queue[p.neighborNodeNbr] \in Seq(Bundles)
            /\ queue' = [queue EXCEPT ![p.neighborNodeNbr] =
                           Append(queue[p.neighborNodeNbr], bundle[1])]
      BY <2>2, EnqueueFacts
    <3>2. p.neighborNodeNbr \in DOMAIN queue
      BY <3>1 DEF Inv, TypeOK, Notes
    <3>3. queue'[p.neighborNodeNbr] = Append(queue[p.neighborNodeNbr], bundle[1])
      BY <3>1, <3>2
    <3>4. \A q \in Seq(Bundles) : \A b \in Bundles : Append(q, b) # q
      <4>1. \A q \in Seq(Bundles) : \A b \in Bundles : Len(Append(q, b)) = Len(q) + 1 /\ Len(q) \in Nat
        BY AppendProperties
      <4>. QED
        BY <4>1
    <3>5. bundle[1] \in Bundles
      BY <2>2, EnqueueFacts
    <3>. QED
      BY <3>1, <3>3, <3>4, <3>5
  <2>. QED
    BY <2>1, <2>2 DEF Next, vars, CgrForward, TryRoute, StopAtLate, Second
<1>. QED
  BY <1>1, Invariant, PTL DEF Spec, NoneIfNoRoute

\* The neighbor that gets the bundle is that of a best candidate.
LEMMA EnqueuesBest ==
  ASSUME Inv, Enqueue, NEW n \in Neighbors, Len(queue'[n]) > Len(queue[n])
  PROVE  \E p \in Candidates :
           /\ p.neighborNodeNbr = n /\ forfeitTime'[bundle[1]] = p.forfeitTime
           /\ \A q \in Candidates :
                /\ p.arrivalTime <= q.arrivalTime
                /\ p.arrivalTime = q.arrivalTime =>
                     /\ p.hopCount <= q.hopCount
                     /\ p.hopCount = q.hopCount => n <= q.neighborNodeNbr
<1>1. bundle # <<>> /\ bundle[1] \in Bundles /\ position > Len(routes)
  BY EnqueueFacts
<1>2. PICK p \in proximateNodes :
        /\ p \in Notes /\ \A q \in proximateNodes : Preferred(p, q)
        /\ queue' = [queue EXCEPT ![p.neighborNodeNbr] =
                       Append(queue[p.neighborNodeNbr], bundle[1])]
        /\ forfeitTime' = [forfeitTime EXCEPT ![bundle[1]] = p.forfeitTime]
  BY EnqueueFacts
<1>3. /\ queue \in [Neighbors -> Seq(Bundles)] /\ forfeitTime \in [Bundles -> Nat]
      /\ QueuesOK /\ proximateNodes \in SUBSET Notes
      /\ position \in Nat /\ position >= 1 /\ Len(routes) \in Nat /\ position <= Len(routes) + 1
      /\ \A i \in 1..Len(routes) : routes[i] \in Hops
  BY TypeFacts DEF Inv, TypeOK
<1>4. p.neighborNodeNbr = n
  <2>. SUFFICES ASSUME p.neighborNodeNbr # n PROVE FALSE
    OBVIOUS
  <2>1. queue'[n] = queue[n]
    BY <1>2, <1>3
  <2>2. Len(queue[n]) \in Nat
    BY <1>3
  <2>. QED
    BY <2>1, <2>2
<1>5. forfeitTime'[bundle[1]] = p.forfeitTime
  BY <1>1, <1>2, <1>3
<1>6. \A i : i \in 1..Len(routes) <=> i \in 1..(position - 1)
  BY <1>1, <1>3
<1>7. /\ \A r \in proximateNodes : \E i \in 1..(position - 1) :
           OnTheWay(i) /\ CanTake(routes[i], bundle[1]) /\ r = Note(routes[i], bundle[1])
      /\ \A i \in 1..(position - 1) :
           OnTheWay(i) /\ CanTake(routes[i], bundle[1]) =>
             \E r \in proximateNodes :
               /\ r.neighborNodeNbr = routes[i][1].toNode
               /\ ~Better(Note(routes[i], bundle[1]), r)
  BY <1>1 DEF Inv, NotesInv
<1>8. p \in Candidates
  BY <1>1, <1>6, <1>7, CandidateIs
<1>9. ASSUME NEW q \in Candidates
      PROVE  /\ p.arrivalTime <= q.arrivalTime
             /\ p.arrivalTime = q.arrivalTime =>
                  /\ p.hopCount <= q.hopCount
                  /\ p.hopCount = q.hopCount => n <= q.neighborNodeNbr
  <2>1. PICK i \in 1..Len(routes) :
          OnTheWay(i) /\ CanTake(routes[i], bundle[1]) /\ q = Note(routes[i], bundle[1])
    BY <1>1, CandidateIs
  <2>2. PICK r \in proximateNodes : r.neighborNodeNbr = routes[i][1].toNode /\ ~Better(q, r)
    BY <1>6, <1>7, <2>1
  <2>3. q.neighborNodeNbr = routes[i][1].toNode
    BY <2>1 DEF Note
  <2>4. q \in Notes /\ r \in Notes /\ p \in Notes
    BY <1>1, <1>2, <1>3, <2>1, TakesIs
  <2>5. Preferred(p, r)
    BY <1>2
  <2>6. ~Better(r, p)
    BY <2>4, <2>5, BetterFacts DEF Preferred
  <2>7. ~Better(q, p)
    BY <2>2, <2>4, <2>6, BetterFacts
  <2>8. /\ p.arrivalTime <= q.arrivalTime
        /\ p.arrivalTime = q.arrivalTime => p.hopCount <= q.hopCount
    BY <2>4, <2>7, BetterFacts
  <2>9. ASSUME p.arrivalTime = q.arrivalTime, p.hopCount = q.hopCount
        PROVE  n <= q.neighborNodeNbr
    <3>1. Better(p, r) <=> Better(q, r)
      BY <2>9 DEF Better
    <3>. QED
      BY <1>4, <2>2, <2>3, <2>5, <3>1 DEF Preferred
  <2>. QED
    BY <2>8, <2>9
<1>. QED
  BY <1>4, <1>5, <1>8, <1>9

\* A bundle goes to the first node of a considered route than which none can
\* take it to arrive earlier, or as early over fewer hops, or over as many by a
\* smaller node number, and gets the time at which that route ends.  In a list in
\* ascending order of arrival every route is considered, whatever the deadline;
\* in any other, those before the first late one.
THEOREM TheBestIsChosen == Spec => BestRouteIsChosen
<1>. DEFINE Best ==
       \A n \in Neighbors :
         Len(queue'[n]) > Len(queue[n]) =>
           \E p \in Candidates :
             /\ p.neighborNodeNbr = n /\ forfeitTime'[bundle[1]] = p.forfeitTime
             /\ \A q \in Candidates :
                  /\ p.arrivalTime <= q.arrivalTime
                  /\ p.arrivalTime = q.arrivalTime =>
                       /\ p.hopCount <= q.hopCount
                       /\ p.hopCount = q.hopCount => n <= q.neighborNodeNbr
<1>1. Inv /\ [Next]_vars => [Best]_vars
  <2>. SUFFICES ASSUME Inv, [Next]_vars, ~(vars' = vars) PROVE Best
    OBVIOUS
  <2>1. CASE Enqueue
    BY <2>1, EnqueuesBest
  <2>2. ASSUME \A n \in Neighbors : ~(Len(queue'[n]) > Len(queue[n])) PROVE Best
    BY <2>2
  <2>3. CASE Second
    <3>1. \A n \in Neighbors : Len(queue'[n]) <= Len(queue[n])
      BY <2>3, SecondKeepsTypes DEF Inv
    <3>2. queue \in [Neighbors -> Seq(Bundles)] /\ queue' \in [Neighbors -> Seq(Bundles)]
      BY <2>3, SecondKeepsTypes DEF Inv, TypeOK
    <3>3. \A n \in Neighbors : Len(queue[n]) \in Nat /\ Len(queue'[n]) \in Nat
      BY <3>2
    <3>4. \A n \in Neighbors : ~(Len(queue'[n]) > Len(queue[n]))
      BY <3>1, <3>3
    <3>. QED
      BY <2>2, <3>4
  <2>4. CASE queue' = queue
    <3>1. \A n \in Neighbors : Len(queue[n]) \in Nat
      BY DEF Inv, TypeOK
    <3>2. \A n \in Neighbors : ~(Len(queue'[n]) > Len(queue[n]))
      BY <2>4, <3>1
    <3>. QED
      BY <2>2, <3>2
  <2>5. (\E b \in Bundles : CgrForward(b)) \/ TryRoute \/ StopAtLate \/ NoProximateNode
          => queue' = queue
    BY DEF CgrForward, TryRoute, StopAtLate, NoProximateNode
  <2>. HIDE DEF Best
  <2>. QED
    BY <2>1, <2>3, <2>4, <2>5 DEF Next
<1>. QED
  BY <1>1, Invariant, PTL DEF Spec, BestRouteIsChosen

-----------------------------------------------------------------------------
(* What the links can carry.                                               *)

Least(s, t) == IF s < t THEN s ELSE t

\* The bytes that contact c can send from t on until u
Usable(c, t, u) == Later(0, Least(c.toTime, u) - Later(c.fromTime, t)) * c.xmitRate

Usables(n, t, u) ==
  [c \in Contacts |-> IF c.fromNode = OwnNode /\ c.toNode = n THEN Usable(c, t, u) ELSE 0]

\* The bytes that can be sent to n from t on until u
Carries(n, t, u) == SumIn(Contacts, Usables(n, t, u), Contacts)

\* Every bundle of a queue can be sent before its route ends, after what is
\* queued before it and has not been sent yet; and it has a forfeit time.
QueueInv ==
  \A n \in Neighbors :
    /\ IF queue[n] = <<>> THEN sent[n] = 0 ELSE sent[n] < Size(queue[n][1])
    /\ \A k \in 1..Len(queue[n]) :
         /\ forfeitTime[queue[n][k]] # 0
         /\ Bytes(SubSeq(queue[n], 1, k)) - sent[n] <= Carries(n, now, forfeitTime[queue[n][k]])

\* A bundle being forwarded is in no queue.
FreshInv == bundle # <<>> => forfeitTime[bundle[1]] = 0

LEMMA UsableFacts ==
  ASSUME NEW c \in Contacts, NEW t \in Nat, NEW u \in Nat
  PROVE  /\ Usable(c, t, u) \in Nat
         /\ u <= t => Usable(c, t, u) = 0
         /\ t < u => Usable(c, t, u) - Usable(c, t + 1, u)
                       = IF c.fromTime <= t /\ t < c.toTime THEN c.xmitRate ELSE 0
<1>1. PICK a \in Nat, e \in Nat, r \in Nat : a = c.fromTime /\ e = c.toTime /\ r = c.xmitRate /\ a < e
  BY ContactTypes
<1>. DEFINE x == Later(0, Least(e, u) - Later(a, t))
            y == Later(0, Least(e, u) - Later(a, t + 1))
<1>2. x \in Nat /\ y \in Nat
  BY <1>1 DEF Later, Least
<1>3. u <= t => x = 0
  BY <1>1 DEF Later, Least
<1>4. t < u => x = y + (IF a <= t /\ t < e THEN 1 ELSE 0)
  BY <1>1 DEF Later, Least
<1>5. Usable(c, t, u) = x * r /\ Usable(c, t + 1, u) = y * r
  BY <1>1 DEF Usable
<1>. HIDE DEF x, y
<1>6. x * r \in Nat /\ y * r \in Nat /\ 0 * r = 0 /\ (y + 1) * r = y * r + r
  <2>1. PICK i \in Nat, j \in Nat : i = x /\ j = y
    BY <1>2
  <2>2. i * r \in Nat /\ j * r \in Nat /\ 0 * r = 0 /\ (j + 1) * r = j * r + r
    BY Z3
  <2>. QED
    BY <2>1, <2>2
<1>7. u <= t => Usable(c, t, u) = 0
  BY <1>3, <1>5, <1>6
<1>8. ASSUME t < u
      PROVE  x * r - y * r = IF a <= t /\ t < e THEN r ELSE 0
  <2>1. CASE a <= t /\ t < e
    <3>1. x = y + 1
      BY <1>4, <1>8, <2>1
    <3>2. x * r = y * r + r
      BY <1>6, <3>1
    <3>. DEFINE v == y * r
                w == x * r
    <3>3. v \in Nat /\ w = v + r
      BY <1>6, <3>2
    <3>. HIDE DEF v, w
    <3>4. w - v = r
      BY <3>3
    <3>. QED
      BY <2>1, <3>4 DEF v, w
  <2>2. CASE ~(a <= t /\ t < e)
    <3>1. x = y
      BY <1>2, <1>4, <1>8, <2>2
    <3>2. x * r - y * r = 0
      BY <1>6, <3>1
    <3>. QED
      BY <2>2, <3>2
  <2>. QED
    BY <2>1, <2>2
<1>. QED
  BY <1>1, <1>5, <1>6, <1>7, <1>8

LEMMA UsablesType ==
  ASSUME NEW n, NEW t \in Nat, NEW u \in Nat
  PROVE  /\ Usables(n, t, u) \in [Contacts -> Int]
         /\ \A c \in Contacts : Usables(n, t, u)[c] >= 0
BY UsableFacts DEF Usables

LEMMA CarriesFacts ==
  ASSUME NEW n, NEW t \in Nat, NEW u \in Nat
  PROVE  /\ Carries(n, t, u) \in Int
         /\ u <= t => Carries(n, t, u) = 0
<1>1. IsFiniteSet(Contacts) /\ Contacts \in SUBSET Contacts /\ {} \in SUBSET Contacts
  BY ContactTypes
<1>2. Usables(n, t, u) \in [Contacts -> Int]
  BY UsablesType
<1>3. SumIn(Contacts, Usables(n, t, u), {}) = 0
      /\ SumIn(Contacts, Usables(n, t, u), Contacts) \in Int
  BY <1>1, <1>2, SumInIs
<1>4. ASSUME u <= t PROVE Carries(n, t, u) = 0
  <2>1. \A x \in Contacts \ {} : Usables(n, t, u)[x] = 0
    BY <1>4, UsableFacts DEF Usables
  <2>2. SumIn(Contacts, Usables(n, t, u), {}) = SumIn(Contacts, Usables(n, t, u), Contacts)
    BY <1>1, <1>2, <2>1, SumInPart
  <2>. QED
    BY <1>3, <2>2 DEF Carries
<1>. QED
  BY <1>3, <1>4 DEF Carries

\* A second takes from what can be carried what is sent in it.
LEMMA CarriesStep ==
  ASSUME now \in Nat, NEW n, NEW u \in Nat, now < u
  PROVE  Carries(n, now + 1, u) = Carries(n, now, u) - Rate(n)
<1>1. PICK t \in Nat, m \in Nat : t = now /\ m = now + 1
  OBVIOUS
<1>. DEFINE f == Usables(n, t, u)
            g == Usables(n, m, u)
            h == Sending(n, t)
<1>2. f \in [Contacts -> Int] /\ g \in [Contacts -> Int] /\ h \in [Contacts -> Int]
  BY UsablesType, SendingType
<1>3. \A x \in Contacts : h[x] = f[x] - g[x]
  <2>1. TAKE x \in Contacts
  <2>2. m = t + 1 /\ t < u
    BY <1>1
  <2>3. Usable(x, t, u) - Usable(x, m, u)
          = IF x.fromTime <= t /\ t < x.toTime THEN x.xmitRate ELSE 0
    BY <2>2, UsableFacts
  <2>4. CASE x.fromNode = OwnNode /\ x.toNode = n
    BY <2>3, <2>4 DEF Usables, Sending
  <2>5. CASE ~(x.fromNode = OwnNode /\ x.toNode = n)
    BY <2>5 DEF Usables, Sending
  <2>. QED
    BY <2>4, <2>5
<1>4. IsFiniteSet(Contacts) /\ Contacts \in SUBSET Contacts
  BY ContactTypes
<1>. HIDE DEF f, g, h
<1>5. SumIn(Contacts, h, Contacts) = SumIn(Contacts, f, Contacts) - SumIn(Contacts, g, Contacts)
  BY <1>2, <1>3, <1>4, SumInOf
<1>6. SumIn(Contacts, f, Contacts) \in Int /\ SumIn(Contacts, g, Contacts) \in Int
  BY <1>2, <1>4, SumInIs
<1>7. Rate(n) = SumIn(Contacts, h, Contacts)
  BY <1>1, RateIs DEF h
<1>8. Carries(n, now, u) = SumIn(Contacts, f, Contacts)
      /\ Carries(n, now + 1, u) = SumIn(Contacts, g, Contacts)
  BY <1>1 DEF Carries, f, g
<1>. QED
  BY <1>5, <1>6, <1>7, <1>8

\* What precedes a contact, and the contact itself, can be carried before a
\* time that is in it: contacts of one pair do not overlap.
LEMMA CarriesBefore ==
  ASSUME now \in Nat, NEW c \in Contacts, c.fromNode = OwnNode,
         NEW u \in Nat, Start(c) < u, u <= c.toTime
  PROVE  /\ Before(c) \in Int
         /\ Before(c) + (u - Start(c)) * c.xmitRate <= Carries(c.toNode, now, u)
<1>. DEFINE A == Preceding(c)
            n == c.toNode
            f == Usables(n, now, u)
            B == A \cup {c}
<1>1. /\ A \in SUBSET Contacts /\ IsFiniteSet(Contacts) /\ B \in SUBSET Contacts
      /\ c \notin A /\ Contacts \in SUBSET Contacts
  <2>1. c \notin A
    BY ContactTypes DEF Preceding
  <2>2. A \in SUBSET Contacts
    BY PrecedingFacts
  <2>. QED
    BY <2>1, <2>2, ContactTypes
<1>2. f \in [Contacts -> Int] /\ Wholes \in [Contacts -> Int] /\ \A x \in Contacts : f[x] >= 0
  BY UsablesType, WholeFacts
<1>3. f[c] = (u - Start(c)) * c.xmitRate
  <2>1. Start(c) \in Nat /\ Start(c) = Later(now, c.fromTime) /\ c.fromTime \in Nat /\ c.toTime \in Nat
    BY WholeFacts, ContactTypes DEF Start
  <2>2. Later(0, Least(c.toTime, u) - Later(c.fromTime, now)) = u - Start(c)
    BY <2>1 DEF Later, Least
  <2>3. f[c] = Usable(c, now, u)
    BY DEF Usables
  <2>. QED
    BY <2>2, <2>3 DEF Usable
<1>4. ASSUME NEW d \in A PROVE f[d] = Wholes[d]
  <2>1. /\ d \in Contacts /\ d.fromNode = OwnNode /\ d.toNode = n /\ d.toTime >= now
        /\ d.fromTime < c.fromTime /\ d # c
    BY ContactTypes DEF Preceding
  <2>2. d.toTime <= c.fromTime \/ c.toTime <= d.fromTime
    BY <2>1, ContactAssumption
  <2>3. /\ c.fromTime \in Nat /\ c.toTime \in Nat /\ c.fromTime < c.toTime
        /\ d.fromTime \in Nat /\ d.toTime \in Nat /\ d.fromTime < d.toTime
        /\ Start(c) \in Nat /\ Start(c) >= c.fromTime
    BY <2>1, ContactTypes, WholeFacts
  <2>4. d.toTime <= c.fromTime /\ d.toTime < u
    BY <2>1, <2>2, <2>3
  <2>5. Later(0, Least(d.toTime, u) - Later(d.fromTime, now)) = d.toTime - Later(now, d.fromTime)
    BY <2>1, <2>3, <2>4 DEF Later, Least
  <2>6. f[d] = Usable(d, now, u) /\ Wholes[d] = Whole(d)
    BY <2>1 DEF Usables, Wholes
  <2>. QED
    BY <2>5, <2>6 DEF Usable, Whole, Start
<1>. HIDE DEF A, f, B
<1>5. SumIn(Contacts, f, A) = SumIn(Contacts, Wholes, A)
  BY <1>1, <1>2, <1>4, SumInAgree
<1>6. SumIn(Contacts, f, B) = f[c] + SumIn(Contacts, f, A)
  <2>1. B \ {c} = A /\ c \in B
    BY <1>1 DEF B
  <2>. QED
    BY <1>1, <1>2, <2>1, SumInIs
<1>7. SumIn(Contacts, f, B) <= SumIn(Contacts, f, Contacts)
  BY <1>1, <1>2, SumInPart
<1>8. SumIn(Contacts, Wholes, A) \in Int /\ f[c] \in Int /\ SumIn(Contacts, f, Contacts) \in Int
  BY <1>1, <1>2, SumInIs
<1>9. Before(c) = SumIn(Contacts, Wholes, A) /\ Carries(n, now, u) = SumIn(Contacts, f, Contacts)
  BY DEF Before, Carries, A, f
<1>. QED
  BY <1>3, <1>5, <1>6, <1>7, <1>8, <1>9

\* A bundle that a route can take fits into what can be carried until it ends.
LEMMA FitsBefore ==
  ASSUME QueuesOK, NEW h \in Hops, NEW b \in Bundles, CanTake(h, b)
  PROVE  Bytes(queue[h[1].toNode]) + Size(b) <= Carries(h[1].toNode, now, ToTime(h))
<1>. DEFINE c == h[1]
            s == Start(c)
            F == ToTime(h)
            lat == Latencies(h, b)
            B == Bytes(queue[c.toNode])
<1>1. /\ Len(h) \in Nat /\ Len(h) >= 1 /\ DOMAIN h = 1..Len(h) /\ 1 \in 1..Len(h)
      /\ c \in Contacts /\ c.fromNode = OwnNode /\ c.xmitRate \in Nat /\ c.xmitRate > 0
      /\ \A i \in 1..Len(h) : Light(h[i]) = NoRange \/ Light(h[i]) \in Nat
      /\ \A i \in 1..Len(h) : h[i].fromTime \in Nat /\ h[i].toTime \in Nat
  BY HopFacts
<1>2. \A i \in 1..Len(h) : Light(h[i]) # NoRange /\ Through(h, b)[i] < h[i].toTime
  BY <1>1 DEF CanTake
<1>3. \A i \in 1..Len(h) : Light(h[i]) \in Nat
  BY <1>1, <1>2
<1>4. /\ s \in Nat /\ lat \in [1..Len(h) -> Nat]
      /\ \E f : /\ Relay(h, s, lat, Len(h), f)
                /\ \A i \in 1..Len(h) : TransmitTime(h, b)[i] = f[i] /\ Through(h, b)[i] = f[i]
  BY <1>2, TransmitIs
<1>5. PICK f : /\ Relay(h, s, lat, Len(h), f)
               /\ \A i \in 1..Len(h) : Through(h, b)[i] = f[i]
  BY <1>4
<1>6. lat[1] = (Backlog(c) + Eccc(b)) \div c.xmitRate
  BY <1>1 DEF Latencies
<1>7. /\ F \in Nat /\ F <= c.toTime /\ \E i \in 1..Len(h) : F = h[i].toTime
  BY <1>1, ToTimeIs
<1>8. /\ B \in Nat /\ Before(c) \in Int /\ Backlog(c) = Later(0, B - Before(c)) /\ Backlog(c) \in Nat
  BY <1>1, BacklogIs
<1>9. Size(b) \in Nat /\ Header \in Nat /\ Eccc(b) = Header + Size(b)
  BY BundleAssumption DEF Eccc
<1>. HIDE DEF s, F, lat, B, c
<1>10. /\ f \in [1..Len(h) -> Nat] /\ f[1] = s + lat[1]
       /\ \A i \in 2..Len(h) : f[i] = Later(f[i - 1] + Light(h[i - 1]), h[i].fromTime) + lat[i]
  BY <1>5 DEF Relay
<1>11. \A i \in 1..Len(h) : f[1] <= f[i]
  <2>. DEFINE P == {k \in Nat : k < Len(h) => f[1] <= f[k + 1]}
  <2>0. f[1] \in Nat
    BY <1>1, <1>10
  <2>1. 0 \in P /\ P \in SUBSET Nat
    BY <2>0
  <2>2. PICK n \in Nat : n = Len(h) - 1
    <3>1. Len(h) - 1 \in Nat
      BY <1>1
    <3>. QED
      BY <3>1
  <2>3. ASSUME NEW k \in 1..n, k - 1 \in P PROVE k \in P
    <3>1. k \in Nat /\ (k - 1) + 1 = k /\ k \in 1..Len(h) /\ (k + 1) \in 2..Len(h)
          /\ (k + 1) - 1 = k /\ k - 1 < Len(h)
      BY <1>1, <2>2
    <3>2. f[1] <= f[k] /\ f[k] \in Nat
      BY <1>10, <2>3, <3>1
    <3>3. PICK m \in 2..Len(h) : m = k + 1 /\ m - 1 = k /\ m \in 1..Len(h)
      BY <3>1
    <3>4. f[m] = Later(f[k] + Light(h[k]), h[m].fromTime) + lat[m]
      BY <1>10, <3>3
    <3>5. Light(h[k]) \in Nat /\ h[m].fromTime \in Nat /\ lat[m] \in Nat
      BY <1>1, <1>3, <1>4, <3>1, <3>3
    <3>6. f[k] <= f[m]
      BY <3>2, <3>4, <3>5 DEF Later
    <3>7. f[m] \in Nat
      BY <1>1, <1>10, <3>3
    <3>. QED
      BY <2>0, <3>1, <3>2, <3>3, <3>6, <3>7
  <2>. HIDE DEF P
  <2>4. \A k \in 0..n : k \in P
    BY <2>1, <2>2, <2>3, UpTo
  <2>5. ASSUME NEW i \in 1..Len(h) PROVE f[1] <= f[i]
    <3>1. i - 1 \in 0..n /\ (i - 1) + 1 = i /\ i - 1 < Len(h)
      BY <1>1, <2>2
    <3>. QED
      BY <2>4, <3>1 DEF P
  <2>. QED
    BY <2>5
<1>12. f[1] < F
  <2>1. PICK i \in 1..Len(h) : F = h[i].toTime
    BY <1>7
  <2>2. f[i] < F /\ f[1] <= f[i] /\ f[i] \in Nat /\ f[1] \in Nat
    BY <1>1, <1>2, <1>5, <1>10, <1>11, <2>1
  <2>. QED
    BY <1>7, <2>2
<1>13. PICK r \in Nat, x \in Nat, v \in Nat :
         r = c.xmitRate /\ r > 0 /\ x = Backlog(c) + Eccc(b) /\ v = x \div r /\ x < r * v + r
  <2>1. PICK r \in Nat : r = c.xmitRate /\ r > 0
    BY <1>1
  <2>2. PICK x \in Nat : x = Backlog(c) + Eccc(b)
    BY <1>8, <1>9
  <2>3. x \div r \in Nat /\ x < r * (x \div r) + r
    BY <2>1, DivFacts
  <2>. QED
    BY <2>1, <2>2, <2>3
<1>21. s \in Nat /\ F \in Nat
  BY <1>4, <1>7
<1>14. s < F /\ v + 1 <= F - s /\ (F - s) - (v + 1) \in Nat
  <2>1. lat[1] = v
    BY <1>6, <1>13
  <2>2. s + v < F
    BY <1>10, <1>12, <2>1
  <2>. QED
    BY <1>21, <2>2
<1>15. x < (F - s) * r /\ (F - s) * r \in Nat
  <2>1. PICK i \in Nat : F - s = (v + 1) + i
    <3>1. F - s = (v + 1) + ((F - s) - (v + 1))
      BY <1>21
    <3>. QED
      BY <1>14, <3>1
  <2>2. ((v + 1) + i) * r = r * v + r + i * r /\ i * r \in Nat /\ r * v \in Nat
    BY Z3
  <2>. DEFINE y == r * v
              z == i * r
  <2>3. y \in Nat /\ z \in Nat /\ (F - s) * r = y + r + z /\ x < y + r
    BY <1>13, <2>1, <2>2
  <2>. HIDE DEF y, z
  <2>. QED
    BY <1>13, <2>3
<1>16. Before(c) + (F - s) * r <= Carries(c.toNode, now, F)
  BY <1>1, <1>7, <1>13, <1>14, CarriesBefore DEF s, QueuesOK
<1>17. Carries(c.toNode, now, F) \in Int
  BY <1>7, CarriesFacts DEF QueuesOK
<1>. DEFINE y == (F - s) * r
            w == Carries(c.toNode, now, F)
            p == Before(c)
<1>18. x < y /\ y \in Nat /\ p + y <= w /\ w \in Int /\ p \in Int
  BY <1>8, <1>15, <1>16, <1>17
<1>19. x >= (B - p) + Size(b)
  BY <1>8, <1>9, <1>13 DEF Later
<1>. HIDE DEF y, w, p
<1>20. B + Size(b) <= w
  BY <1>8, <1>9, <1>13, <1>18, <1>19
<1>. QED
  BY <1>20 DEF w, B, F, c

-----------------------------------------------------------------------------
(* Bundles leave in time.                                                  *)

AllInv == Inv /\ QueueInv /\ FreshInv

\* The bytes of the parts of a queue that begin at its head
LEMMA PrefixIs ==
  ASSUME NEW q \in Seq(Bundles)
  PROVE  \E f : /\ Sums(Sizes(q), f) /\ f[0] = 0 /\ f \in [0..Len(q) -> Int]
                /\ \A k \in 1..Len(q) : f[k] = f[k - 1] + Size(q[k])
                /\ \A k \in 0..Len(q) : Bytes(SubSeq(q, 1, k)) = f[k]
<1>1. PICK f : Sums(Sizes(q), f)
  BY BytesSums
<1>2. /\ f[0] = 0 /\ f \in [0..Len(q) -> Int]
      /\ \A k \in 1..Len(q) : f[k] = f[k - 1] + Size(q[k])
  BY <1>1, BytesSums DEF Sums, SumsUpTo, Sizes
<1>3. ASSUME NEW k \in 0..Len(q) PROVE Bytes(SubSeq(q, 1, k)) = f[k]
  <2>1. 0 \in 0..Len(q) /\ f[k] \in Int /\ 0 + 1 = 1
    BY <1>2
  <2>2. Bytes(SubSeq(q, 0 + 1, k)) = f[k] - f[0]
    BY <1>1, <2>1, BytesPart
  <2>. QED
    BY <1>2, <2>1, <2>2
<1>. QED
  BY <1>1, <1>2, <1>3

LEMMA QueuedInTime ==
  ASSUME TypeOK, QueueInv, NEW n \in Neighbors, NEW k \in 1..Len(queue[n])
  PROVE  now < forfeitTime[queue[n][k]]
<1>. DEFINE q == queue[n]
            u == forfeitTime[q[k]]
<1>1. q \in Seq(Bundles) /\ sent[n] \in Nat /\ now \in Nat /\ Len(q) \in Nat
  BY DEF TypeOK
<1>2. q[k] \in Bundles /\ u \in Nat
  BY <1>1, ElementOfSeq DEF TypeOK
<1>3. q # <<>> /\ k \in Nat /\ 1 \in 1..Len(q) /\ k \in 1..Len(q) /\ 1 <= k
  BY <1>1
<1>4. sent[n] < Size(q[1]) /\ Bytes(SubSeq(q, 1, k)) - sent[n] <= Carries(n, now, u)
  BY <1>3 DEF QueueInv
<1>. HIDE DEF u, q
<1>5. PICK f : /\ Sums(Sizes(q), f) /\ f[0] = 0 /\ f \in [0..Len(q) -> Int]
               /\ \A i \in 1..Len(q) : f[i] = f[i - 1] + Size(q[i])
               /\ \A i \in 0..Len(q) : Bytes(SubSeq(q, 1, i)) = f[i]
  BY <1>1, PrefixIs
<1>6. f[1] = Size(q[1]) /\ f[1] \in Int /\ f[k] \in Int
  <2>1. 1 \in 0..Len(q) /\ k \in 0..Len(q) /\ 1 - 1 = 0
    BY <1>1, <1>3
  <2>2. f[1] = f[0] + Size(q[1]) /\ Size(q[1]) \in Int
    <3>1. q[1] \in Bundles
      BY <1>1, <1>3, ElementOfSeq
    <3>. QED
      BY <1>3, <1>5, <2>1, <3>1, BundleAssumption
  <2>. QED
    BY <1>5, <2>1, <2>2
<1>7. f[k] - f[1] \in Nat
  <2>1. 1 \in 0..Len(q) /\ k \in 1..Len(q)
    BY <1>1, <1>3
  <2>2. SubSeq(q, 1 + 1, k) \in Seq(Bundles) /\ Bytes(SubSeq(q, 1 + 1, k)) = f[k] - f[1]
    BY <1>1, <1>5, <2>1, BytesPart
  <2>. QED
    BY <2>2, BytesSums
<1>8. Bytes(SubSeq(q, 1, k)) = f[k]
  <2>1. k \in 0..Len(q)
    BY <1>3
  <2>. QED
    BY <1>5, <2>1
<1>9. 0 < Carries(n, now, u)
  <2>1. Carries(n, now, u) \in Int
    BY <1>1, <1>2, CarriesFacts
  <2>. QED
    BY <1>1, <1>4, <1>6, <1>7, <1>8, <2>1
<1>10. ~(u <= now)
  BY <1>1, <1>2, <1>9, CarriesFacts
<1>11. now < u
  BY <1>1, <1>2, <1>10
<1>. QED
  BY <1>11 DEF u, q

\* What a second adds to the credit, it takes from what can still be carried.
LEMMA SecondShifts ==
  ASSUME NEW a \in Int, NEW b \in Int, NEW s \in Int, NEW r \in Int, NEW c \in Int,
         a - s <= c
  PROVE  (a - b) - (s + r - b) <= c - r
OBVIOUS

LEMMA SecondKeepsQueues ==
  ASSUME Inv, QueueInv, Second
  PROVE  QueueInv'
<1>. SUFFICES ASSUME NEW n \in Neighbors
     PROVE  /\ IF queue'[n] = <<>> THEN sent'[n] = 0 ELSE sent'[n] < Size(queue'[n][1])
            /\ \A k \in 1..Len(queue'[n]) :
                 /\ forfeitTime'[queue'[n][k]] # 0
                 /\ Bytes(SubSeq(queue'[n], 1, k)) - sent'[n]
                      <= Carries(n, now', forfeitTime'[queue'[n][k]])
  BY DEF QueueInv
<1>1. TypeOK /\ QueuesOK /\ now \in Nat /\ now' = now + 1 /\ forfeitTime' = forfeitTime
      /\ forfeitTime \in [Bundles -> Nat]
  BY TypeFacts DEF Inv, Second, QueuesOK, TypeOK
<1>2. PICK q \in Seq(Bundles) : q = queue[n]
  BY <1>1 DEF TypeOK
<1>3. PICK s \in Nat, r \in Nat : s = sent[n] /\ r = Rate(n)
  BY <1>1, RateIs DEF TypeOK
<1>4. PICK f : /\ Sums(Sizes(q), f) /\ f[0] = 0 /\ f \in [0..Len(q) -> Int]
               /\ \A i \in 1..Len(q) : f[i] = f[i - 1] + Size(q[i])
               /\ \A i \in 0..Len(q) : Bytes(SubSeq(q, 1, i)) = f[i]
  BY PrefixIs
<1>5. PICK d \in 0..Len(q) : /\ d = Done(n) /\ f[d] <= s + r
                             /\ \A i \in 0..Len(q) : i > d => f[i] > s + r
  BY <1>1, <1>2, <1>3, <1>4, DoneIs
<1>6. Len(q) \in Nat /\ d \in Nat /\ d <= Len(q) /\ f[d] \in Int
  BY <1>4
<1>7. PICK p : p = queue'[n] /\ p = SubSeq(q, d + 1, Len(q))
  BY <1>2, <1>5 DEF Second
<1>8. PICK t : t = sent'[n] /\ t = IF d = Len(q) THEN 0 ELSE s + r - f[d]
  <2>1. Bytes(SubSeq(q, 1, d)) = f[d]
    BY <1>4
  <2>2. sent'[n] = IF Done(n) = Len(queue[n]) THEN 0
                   ELSE sent[n] + Rate(n) - Bytes(SubSeq(queue[n], 1, Done(n)))
    BY DEF Second
  <2>3. sent'[n] = IF d = Len(q) THEN 0 ELSE s + r - f[d]
    BY <1>2, <1>3, <1>5, <2>1, <2>2
  <2>. QED
    BY <2>3
<1>9. PICK l \in Nat : l = Len(q) - d /\ d + l = Len(q)
  <2>1. Len(q) - d \in Nat /\ d + (Len(q) - d) = Len(q)
    BY <1>6
  <2>. QED
    BY <2>1
<1>10. /\ p \in Seq(Bundles) /\ Len(p) = l /\ \A i \in 1..l : p[i] = q[d + i]
  <2>1. d + 1 \in 1..(Len(q) + 1) /\ \A i \in 1..Len(q) : q[i] \in Bundles
    BY <1>6, ElementOfSeq
  <2>2. SubSeq(q, d + 1, Len(q)) \in Seq(Bundles) /\ Len(SubSeq(q, d + 1, Len(q))) = l
        /\ \A i \in 1..l : SubSeq(q, d + 1, Len(q))[i] = q[d + i]
    BY <1>6, <1>9, <2>1, SubSeqProperties
  <2>. QED
    BY <1>7, <2>2
<1>11. IF p = <<>> THEN t = 0 ELSE t < Size(p[1])
  <2>1. CASE p = <<>>
    <3>1. d = Len(q)
      BY <1>6, <1>9, <1>10, <2>1
    <3>. QED
      BY <1>8, <2>1, <3>1
  <2>2. CASE p # <<>>
    <3>1. l # 0
      BY <1>10, <2>2, EmptySeq
    <3>2. d # Len(q) /\ d + 1 \in 1..Len(q) /\ 1 \in 1..l /\ d + 1 > d /\ d + 1 \in 0..Len(q) /\ (d + 1) - 1 = d
      BY <1>6, <1>9, <3>1
    <3>3. f[d + 1] = f[d] + Size(p[1]) /\ f[d + 1] > s + r /\ t = s + r - f[d]
      BY <1>4, <1>5, <1>8, <1>10, <3>2
    <3>4. Size(p[1]) \in Int
      <4>1. p[1] \in Bundles
        BY <1>10, <3>2, ElementOfSeq
      <4>. QED
        BY <4>1, BundleAssumption
    <3>. QED
      BY <1>6, <2>2, <3>3, <3>4
  <2>. QED
    BY <2>1, <2>2
<1>12. ASSUME NEW k \in 1..l
       PROVE  /\ forfeitTime[p[k]] # 0
              /\ Bytes(SubSeq(p, 1, k)) - t <= Carries(n, now + 1, forfeitTime[p[k]])
  <2>1. PICK m \in 1..Len(q) : m = d + k /\ p[k] = q[m]
    <3>1. d + k \in 1..Len(q)
      BY <1>6, <1>9
    <3>. QED
      BY <1>10, <3>1
  <2>2. m \in d..Len(q) /\ m \in 0..Len(q) /\ d # Len(q) /\ k \in Nat /\ k >= 1
    BY <1>6, <1>9, <2>1
  <2>3. PICK u \in Nat : u = forfeitTime[q[m]]
    BY <1>1, ElementOfSeq
  <2>4. u # 0 /\ Bytes(SubSeq(q, 1, m)) - s <= Carries(n, now, u)
    BY <1>2, <1>3, <2>3 DEF QueueInv
  <2>5. now < u
    BY <1>1, <1>2, <2>3, QueuedInTime DEF Inv
  <2>6. Carries(n, now + 1, u) = Carries(n, now, u) - r
    BY <1>1, <1>3, <2>5, CarriesStep
  <2>7. Bytes(SubSeq(p, 1, k)) = f[m] - f[d]
    <3>1. SubSeq(p, 1, k) = SubSeq(q, d + 1, m)
      <4>1. /\ SubSeq(p, 1, k) \in Seq(Bundles) /\ Len(SubSeq(p, 1, k)) = k
            /\ \A i \in 1..k : SubSeq(p, 1, k)[i] = p[i]
        <5>1. 1 \in 1..(Len(p) + 1) /\ k \in 0..Len(p) /\ \A i \in 1..k : 1 + i - 1 = i
              /\ \A j \in 1..Len(p) : p[j] \in Bundles
          BY <1>10, ElementOfSeq
        <5>. QED
          BY <1>10, <2>2, <5>1, SubSeqProperties
      <4>2. /\ SubSeq(q, d + 1, m) \in Seq(Bundles) /\ Len(SubSeq(q, d + 1, m)) = k
            /\ \A i \in 1..k : SubSeq(q, d + 1, m)[i] = q[d + i]
        <5>1. d + 1 \in 1..(Len(q) + 1) /\ m \in d..Len(q) /\ m - d = k
              /\ \A i \in 1..Len(q) : q[i] \in Bundles
          BY <1>6, <2>1, <2>2, ElementOfSeq
        <5>. QED
          BY <1>6, <2>1, <2>2, <5>1, SubSeqProperties
      <4>3. \A i \in 1..k : p[i] = q[d + i]
        BY <1>10, <2>2
      <4>4. \A i \in 1..k : SubSeq(p, 1, k)[i] = SubSeq(q, d + 1, m)[i]
        BY <4>1, <4>2, <4>3
      <4>. QED
        BY <4>1, <4>2, <4>4, SeqEqual
    <3>. QED
      BY <1>4, <2>2, <3>1, BytesPart
  <2>8. Bytes(SubSeq(q, 1, m)) = f[m] /\ f[m] \in Int
    BY <1>4, <2>2
  <2>9. Carries(n, now, u) \in Int
    BY <1>1, CarriesFacts
  <2>10. t = s + r - f[d]
    BY <1>8, <2>2
  <2>11. Bytes(SubSeq(p, 1, k)) - t <= Carries(n, now + 1, u)
    <3>1. PICK c \in Int : c = Carries(n, now, u)
      BY <2>9
    <3>2. PICK a \in Int, b \in Int : a = f[m] /\ b = f[d]
      BY <1>6, <2>8
    <3>3. s \in Int /\ r \in Int
      BY <1>6
    <3>4. a - s <= c
      BY <2>4, <2>8, <3>1, <3>2
    <3>5. (a - b) - (s + r - b) <= c - r
      BY <3>3, <3>4, SecondShifts
    <3>6. Bytes(SubSeq(p, 1, k)) = a - b /\ t = s + r - b /\ Carries(n, now + 1, u) = c - r
      BY <2>6, <2>7, <2>10, <3>1, <3>2
    <3>. QED
      BY <3>5, <3>6
  <2>. QED
    BY <2>1, <2>3, <2>4, <2>11
<1>. QED
  BY <1>1, <1>7, <1>8, <1>10, <1>11, <1>12

\* The bundle that joins a queue can be sent after those before it.
LEMMA EnqueueKeepsQueues ==
  ASSUME Inv, QueueInv, FreshInv, Enqueue
  PROVE  QueueInv'
<1>. SUFFICES ASSUME NEW n \in Neighbors
     PROVE  /\ IF queue'[n] = <<>> THEN sent'[n] = 0 ELSE sent'[n] < Size(queue'[n][1])
            /\ \A k \in 1..Len(queue'[n]) :
                 /\ forfeitTime'[queue'[n][k]] # 0
                 /\ Bytes(SubSeq(queue'[n], 1, k)) - sent'[n]
                      <= Carries(n, now', forfeitTime'[queue'[n][k]])
  BY DEF QueueInv
<1>1. /\ QueuesOK /\ now \in Nat /\ now >= 1 /\ bundle # <<>> /\ position > Len(routes)
      /\ queue \in [Neighbors -> Seq(Bundles)] /\ forfeitTime \in [Bundles -> Nat]
      /\ now' = now /\ sent' = sent
  BY TypeFacts, EnqueueFacts DEF Inv, TypeOK, QueuesOK
<1>2. PICK b \in Bundles : b = bundle[1] /\ forfeitTime[b] = 0
  BY <1>1, EnqueueFacts DEF FreshInv
<1>3. PICK x \in proximateNodes :
        /\ x \in Notes
        /\ queue' = [queue EXCEPT ![x.neighborNodeNbr] = Append(queue[x.neighborNodeNbr], b)]
        /\ forfeitTime' = [forfeitTime EXCEPT ![b] = x.forfeitTime]
  BY <1>2, EnqueueFacts
<1>4. PICK q \in Seq(Bundles), s \in Nat : q = queue[n] /\ s = sent[n]
  BY <1>1 DEF Inv, TypeOK
<1>5. /\ IF q = <<>> THEN s = 0 ELSE s < Size(q[1])
      /\ \A k \in 1..Len(q) :
           forfeitTime[q[k]] # 0 /\ Bytes(SubSeq(q, 1, k)) - s <= Carries(n, now, forfeitTime[q[k]])
  BY <1>4 DEF QueueInv
<1>6. \A k \in 1..Len(q) : q[k] \in Bundles /\ forfeitTime'[q[k]] = forfeitTime[q[k]]
  <2>1. TAKE k \in 1..Len(q)
  <2>2. q[k] \in Bundles /\ q[k] # b
    BY <1>2, <1>5, ElementOfSeq
  <2>. QED
    BY <1>1, <1>3, <2>2
<1>7. CASE x.neighborNodeNbr # n
  <2>1. queue'[n] = q
    BY <1>1, <1>3, <1>4, <1>7
  <2>. QED
    BY <1>1, <1>4, <1>5, <1>6, <2>1
<1>8. CASE x.neighborNodeNbr = n
  <2>1. PICK p : p = queue'[n] /\ p = Append(q, b)
    BY <1>1, <1>3, <1>4, <1>8
  <2>2. PICK L \in Nat : L = Len(q)
    OBVIOUS
  <2>3. /\ p \in Seq(Bundles) /\ Len(p) = L + 1 /\ p[L + 1] = b
        /\ \A i \in 1..L : p[i] = q[i]
    BY <2>1, <2>2, AppendProperties
  <2>4. PICK u \in Nat : u = x.forfeitTime /\ forfeitTime'[b] = u
    BY <1>1, <1>3 DEF Notes
  <2>5. PICK h \in Hops : CanTake(h, b) /\ x = Note(h, b)
    <3>1. position \in Nat /\ Len(routes) \in Nat /\ position <= Len(routes) + 1
          /\ \A i \in 1..Len(routes) : routes[i] \in Hops
      BY TypeFacts DEF Inv
    <3>2. PICK i \in 1..(position - 1) : CanTake(routes[i], b) /\ x = Note(routes[i], b)
      BY <1>1, <1>2 DEF Inv, NotesInv
    <3>3. i \in 1..Len(routes)
      BY <1>1, <3>1
    <3>. QED
      BY <3>1, <3>2, <3>3
  <2>6. h[1].toNode = n /\ ToTime(h) = u
    BY <1>8, <2>4, <2>5 DEF Note
  <2>7. u # 0
    <3>1. ToTime(h) >= now
      BY <2>5 DEF CanTake, Offered
    <3>. QED
      BY <1>1, <2>6, <3>1
  <2>8. Bytes(q) + Size(b) <= Carries(n, now, u)
    BY <1>1, <1>4, <2>5, <2>6, FitsBefore
  <2>9. PICK f : /\ Sums(Sizes(p), f) /\ f[0] = 0 /\ f \in [0..Len(p) -> Int]
                 /\ \A k \in 1..Len(p) : f[k] = f[k - 1] + Size(p[k])
                 /\ \A k \in 0..Len(p) : Bytes(SubSeq(p, 1, k)) = f[k]
    <3>1. p \in Seq(Bundles)
      BY <2>3
    <3>. QED
      BY ONLY <3>1, PrefixIs
  <2>10. ASSUME NEW k \in 0..L PROVE SubSeq(p, 1, k) = SubSeq(q, 1, k)
    <3>1. /\ SubSeq(p, 1, k) \in Seq(Bundles) /\ Len(SubSeq(p, 1, k)) = k
          /\ \A i \in 1..k : SubSeq(p, 1, k)[i] = p[i]
      <4>1. k \in Int /\ (\A i \in 1..k : p[i] \in Bundles) /\ \A i \in 1..k : 1 + i - 1 = i
        BY <2>2, <2>3, ElementOfSeq
      <4>. QED
        BY <4>1, SubSeqProperties
    <3>2. /\ SubSeq(q, 1, k) \in Seq(Bundles) /\ Len(SubSeq(q, 1, k)) = k
          /\ \A i \in 1..k : SubSeq(q, 1, k)[i] = q[i]
      <4>1. k \in Int /\ (\A i \in 1..k : q[i] \in Bundles) /\ \A i \in 1..k : 1 + i - 1 = i
        BY <2>2, ElementOfSeq
      <4>. QED
        BY <4>1, SubSeqProperties
    <3>3. \A i \in 1..k : i \in 1..L
      BY <2>2
    <3>4. \A i \in 1..k : SubSeq(p, 1, k)[i] = SubSeq(q, 1, k)[i]
      BY <2>3, <3>1, <3>2, <3>3
    <3>. QED
      BY <3>1, <3>2, <3>4, SeqEqual
  <2>11. SubSeq(q, 1, L) = q
    <3>1. /\ SubSeq(q, 1, L) \in Seq(Bundles) /\ Len(SubSeq(q, 1, L)) = L
          /\ \A i \in 1..L : SubSeq(q, 1, L)[i] = q[i]
      <4>1. L \in Int /\ (\A i \in 1..L : q[i] \in Bundles) /\ \A i \in 1..L : 1 + i - 1 = i
        BY <2>2, ElementOfSeq
      <4>. QED
        BY <4>1, SubSeqProperties
    <3>. QED
      BY <2>2, <3>1, SeqEqual
  <2>12. Bytes(SubSeq(p, 1, L + 1)) = Bytes(q) + Size(b)
    <3>1. PICK m \in Nat : m = L + 1 /\ m = Len(p) /\ m - 1 = L
      BY <2>2, <2>3
    <3>2. L \in 0..L /\ L \in 0..m /\ m \in 1..m /\ m \in 0..m
      BY <2>2, <3>1
    <3>3. f[L] = Bytes(SubSeq(p, 1, L)) /\ Bytes(SubSeq(p, 1, m)) = f[m]
      BY <2>9, <3>1, <3>2
    <3>4. SubSeq(p, 1, L) = q
      BY <2>10, <2>11, <3>2
    <3>5. f[m] = f[L] + Size(p[m])
      BY <2>9, <3>1, <3>2
    <3>6. p[m] = b
      BY <2>3, <3>1
    <3>. QED
      BY <3>1, <3>3, <3>4, <3>5, <3>6
  <2>13. IF p = <<>> THEN s = 0 ELSE s < Size(p[1])
    <3>1. p # <<>>
      BY <2>2, <2>3
    <3>2. CASE q = <<>>
      <4>1. L = 0 /\ p[1] = b
        BY <2>2, <2>3, <3>2
      <4>2. Size(b) \in Nat /\ Size(b) > 0
        BY BundleAssumption
      <4>. QED
        BY <1>5, <3>1, <3>2, <4>1, <4>2
    <3>3. CASE q # <<>>
      <4>1. 1 \in 1..L
        BY <2>2, <3>3, EmptySeq
      <4>. QED
        BY <1>5, <2>3, <3>1, <3>3, <4>1
    <3>. QED
      BY <3>2, <3>3
  <2>14. ASSUME NEW k \in 1..(L + 1)
         PROVE  /\ forfeitTime'[p[k]] # 0
                /\ Bytes(SubSeq(p, 1, k)) - s <= Carries(n, now, forfeitTime'[p[k]])
    <3>1. CASE k = L + 1
      <4>1. p[k] = b /\ Bytes(SubSeq(p, 1, k)) = Bytes(q) + Size(b)
        BY <2>3, <2>12, <3>1
      <4>2. Bytes(q) \in Nat /\ Size(b) \in Nat /\ Carries(n, now, u) \in Int
        BY <1>1, BytesSums, BundleAssumption, CarriesFacts
      <4>3. Bytes(SubSeq(p, 1, k)) - s <= Carries(n, now, u)
        BY <2>8, <4>1, <4>2
      <4>4. forfeitTime'[p[k]] = u
        BY <2>4, <4>1, Zenon
      <4>. QED
        BY <2>7, <4>3, <4>4, Zenon
    <3>2. CASE k # L + 1
      <4>1. k \in 1..L /\ k \in 0..L /\ k \in 1..Len(q)
        BY <2>2, <3>2
      <4>2. p[k] = q[k] /\ SubSeq(p, 1, k) = SubSeq(q, 1, k)
        BY <2>3, <2>10, <4>1
      <4>. QED
        BY <1>5, <1>6, <4>1, <4>2
    <3>. QED
      BY <3>1, <3>2
  <2>. QED
    BY <1>1, <1>4, <2>1, <2>3, <2>13, <2>14
<1>. QED
  BY <1>7, <1>8

LEMMA InitAllInv == Init => AllInv
<1>. SUFFICES ASSUME Init PROVE AllInv
  OBVIOUS
<1>1. QueueInv
  BY DEF Init, QueueInv
<1>2. FreshInv
  BY DEF Init, FreshInv
<1>. QED
  BY <1>1, <1>2, InitInv DEF AllInv

LEMMA NextKeepsAllInv == AllInv /\ [Next]_vars => AllInv'
<1>. SUFFICES ASSUME Inv, QueueInv, FreshInv, [Next]_vars PROVE AllInv'
  BY DEF AllInv
<1>0. Inv'
  BY NextKeepsInv
<1>. SUFFICES QueueInv' /\ FreshInv'
  BY <1>0 DEF AllInv
<1>1. ASSUME NEW b \in Bundles, CgrForward(b) PROVE QueueInv' /\ FreshInv'
  <2>1. /\ bundle' = <<b>> /\ forfeitTime[b] = 0
        /\ UNCHANGED <<now, routes, queue, sent, forfeitTime>>
    BY <1>1 DEF CgrForward
  <2>2. QueueInv'
    BY <2>1 DEF QueueInv
  <2>3. FreshInv'
    BY <2>1 DEF FreshInv
  <2>. QED
    BY <2>2, <2>3
<1>2. CASE TryRoute
  BY <1>2 DEF TryRoute, QueueInv, FreshInv
<1>3. CASE Enqueue
  <2>1. bundle' = <<>>
    BY <1>3 DEF Enqueue
  <2>2. FreshInv'
    BY <2>1 DEF FreshInv
  <2>. QED
    BY <1>3, <2>2, EnqueueKeepsQueues
<1>4. CASE NoProximateNode
  BY <1>4 DEF NoProximateNode, QueueInv, FreshInv
<1>5. CASE Second
  <2>1. bundle = <<>> /\ bundle' = bundle
    BY <1>5 DEF Second
  <2>2. FreshInv'
    BY <2>1 DEF FreshInv
  <2>. QED
    BY <1>5, <2>2, SecondKeepsQueues
<1>7. CASE StopAtLate
  BY <1>7 DEF StopAtLate, QueueInv, FreshInv
<1>6. CASE UNCHANGED vars
  BY <1>6 DEF vars, QueueInv, FreshInv
<1>. QED
  BY <1>1, <1>2, <1>3, <1>4, <1>5, <1>6, <1>7 DEF Next

\* As long as links carry what the plan promises, no bundle is still in a queue
\* when the route it was given ends: the estimate that the code makes in whole
\* seconds, from bytes in gigs and units, is on the safe side, for any plan whose
\* contacts of one pair do not overlap, any routes and any bundles.
THEOREM BundlesLeaveInTime == Spec => []BundlesMakeTheirContacts
<1>1. AllInv => BundlesMakeTheirContacts
  <2>. SUFFICES ASSUME Inv, QueueInv
                PROVE  TypeOK /\ \A n \in Neighbors : \A b \in ToSet(queue[n]) : now < forfeitTime[b]
    BY DEF AllInv, BundlesMakeTheirContacts
  <2>1. TypeOK
    BY DEF Inv
  <2>2. ASSUME NEW n \in Neighbors, NEW b \in ToSet(queue[n]) PROVE now < forfeitTime[b]
    <3>1. queue[n] \in Seq(Bundles)
      BY <2>1 DEF TypeOK
    <3>2. PICK k \in 1..Len(queue[n]) : queue[n][k] = b
      BY <3>1 DEF ToSet
    <3>. QED
      BY <2>1, <3>2, QueuedInTime
  <2>. QED
    BY <2>1, <2>2
<1>. QED
  BY <1>1, InitAllInv, NextKeepsAllInv, PTL DEF Spec
================================================================================
