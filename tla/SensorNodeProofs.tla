-------------------------- MODULE SensorNodeProofs --------------------------
(***************************************************************************)
(* The sums over the window are recursive functions.  What they compute is *)
(* shown by induction in the form of SetInduction, whose instances are     *)
(* sets, from the fact that every set of naturals has a least element.     *)
(* The last part is about the start-up, which ends.                        *)
(***************************************************************************)
EXTENDS SensorNode, ParityProofs, WellFoundedInduction

(* Integers in the slots: readings, their squares, deviations.                     *)
Windows == [Slots -> Int]

LEMMA Int16Range ==
    ASSUME NEW x
    PROVE  x \in Int16 <=> (x \in Int /\ -32768 <= x /\ x <= 32767)
<1>1. INT16_MIN = -32768 /\ INT16_MAX = 32767
  BY DEF INT16_MIN, INT16_MAX
<1>2. x \in Int16 <=> (x \in Int /\ INT16_MIN <= x /\ x <= INT16_MAX)
  <2>1. INT16_MIN \in Int /\ INT16_MAX \in Int
    BY <1>1
  <2> QED
    BY <2>1 DEF Int16
<1> QED
  BY <1>1, <1>2

LEMMA SlotsFacts ==
    /\ WINDOW_SIZE \in Nat /\ WINDOW_SIZE > 0
    /\ Slots = 0 .. WINDOW_SIZE - 1 /\ IsFiniteSet(Slots)
    /\ Int16 \subseteq Int
    /\ \A i \in 0 .. WINDOW_SIZE - 1 :
          /\ i \in Slots /\ i \in Nat /\ i \in 0 .. WINDOW_SIZE
          /\ i + 1 \in 0 .. WINDOW_SIZE
<1>1. WINDOW_SIZE \in Nat /\ WINDOW_SIZE > 0 /\ Slots = 0 .. WINDOW_SIZE - 1
  BY NodeAssumption DEF Slots
<1>2. IsFiniteSet(Slots)
  <2>1. 0 \in Int /\ WINDOW_SIZE - 1 \in Int
    BY <1>1
  <2> QED
    BY <1>1, <2>1, FS_Interval, Zenon
<1>3. Int16 \subseteq Int
  BY Int16Range
<1>4. \A i \in 0 .. WINDOW_SIZE - 1 :
         /\ i \in Slots /\ i \in Nat /\ i \in 0 .. WINDOW_SIZE
         /\ i + 1 \in 0 .. WINDOW_SIZE
  BY <1>1
<1> QED
  BY <1>1, <1>2, <1>3, <1>4

LEMMA LeastElement ==
    ASSUME NEW T, T \subseteq Nat, T # {}
    PROVE  \E x \in T : \A y \in T : x <= y
<1>1. IsWellFoundedOn(OpToRel(<, Nat), Nat)
  BY NatLessThanWellFounded
<1>2. PICK x \in T : \A y \in T : <<y, x>> \notin OpToRel(<, Nat)
  BY <1>1, WFMin
<1>3. \A a, b \in Nat : a < b => <<a, b>> \in OpToRel(<, Nat)
  BY DEF OpToRel
<1>4. \A y \in T : ~(y < x)
  BY <1>2, <1>3
<1>5. \A y \in T : x <= y
  BY <1>4
<1> QED
  BY <1>5

(* Induction over 0 .. m, for a set instead of a predicate.                        *)
LEMMA SetInduction ==
    ASSUME NEW S \in SUBSET Nat, NEW m \in Nat, 0 \in S,
           \A i \in 0 .. m - 1 : i \in S => i + 1 \in S
    PROVE  0 .. m \subseteq S
<1>1. SUFFICES ASSUME (0 .. m) \ S # {} PROVE FALSE
  OBVIOUS
<1>2. (0 .. m) \ S \subseteq Nat
  OBVIOUS
<1>3. PICK x \in (0 .. m) \ S : \A y \in (0 .. m) \ S : x <= y
  BY <1>1, <1>2, LeastElement
<1>4. x # 0 /\ x - 1 \in 0 .. m - 1
  BY <1>3
<1>5. x - 1 \in S
  BY <1>3, <1>4
<1> QED
  BY <1>3, <1>4, <1>5

IsSums(f, s, m) == s = [i \in 0 .. m |-> IF i = 0 THEN 0 ELSE s[i - 1] + f[i - 1]]

(* The loop that adds up the slots has a result for every length of the window.     *)
LEMMA SumsExist ==
    ASSUME NEW f, NEW m \in Nat
    PROVE  \E s : IsSums(f, s, m)
<1> DEFINE S == {i \in Nat : \E s : IsSums(f, s, i)}
<1>1. 0 \in S
  <2>1. IsSums(f, [i \in 0 .. 0 |-> 0], 0)
    BY DEF IsSums
  <2> QED
    BY <2>1
<1>2. ASSUME NEW k \in Nat, k \in S PROVE k + 1 \in S
  <2>1. PICK s : IsSums(f, s, k)
    BY <1>2
  <2> DEFINE t == [i \in 0 .. k + 1 |-> IF i = k + 1 THEN s[k] + f[k] ELSE s[i]]
  <2>2. \A i \in 0 .. k : s[i] = IF i = 0 THEN 0 ELSE s[i - 1] + f[i - 1]
    BY <2>1 DEF IsSums
  <2>3. \A i \in 0 .. k + 1 : t[i] = IF i = 0 THEN 0 ELSE t[i - 1] + f[i - 1]
    BY <2>2
  <2>4. t = [i \in 0 .. k + 1 |-> t[i]]
    OBVIOUS
  <2>5. IsSums(f, t, k + 1)
    BY <2>3, <2>4 DEF IsSums
  <2> QED
    BY <2>5
<1>3. S \in SUBSET Nat
  OBVIOUS
<1> HIDE DEF S
<1>4. 0 .. m \subseteq S
  BY <1>1, <1>2, <1>3, SetInduction
<1> QED
  BY <1>4 DEF S

LEMMA SumsStep ==
    ASSUME NEW f
    PROVE  /\ Sums(f)[0] = 0
           /\ \A i \in Slots : Sums(f)[i + 1] = Sums(f)[i] + f[i]
<1>1. \E s : IsSums(f, s, WINDOW_SIZE)
  BY SumsExist, SlotsFacts
<1>2. Sums(f) = [i \in 0 .. WINDOW_SIZE |->
                   IF i = 0 THEN 0 ELSE Sums(f)[i - 1] + f[i - 1]]
  BY <1>1 DEF Sums, IsSums
<1>3. \A i \in 0 .. WINDOW_SIZE :
         Sums(f)[i] = IF i = 0 THEN 0 ELSE Sums(f)[i - 1] + f[i - 1]
  BY <1>2
<1> QED
  BY <1>3, SlotsFacts

LEMMA SumsType ==
    ASSUME NEW f \in Windows
    PROVE  \A i \in 0 .. WINDOW_SIZE : Sums(f)[i] \in Int
<1> DEFINE S == {i \in 0 .. WINDOW_SIZE : Sums(f)[i] \in Int}
<1>1. 0 \in S /\ S \in SUBSET Nat
  BY SumsStep, SlotsFacts
<1>2. ASSUME NEW i \in 0 .. WINDOW_SIZE - 1, i \in S PROVE i + 1 \in S
  <2>1. i \in Slots /\ i + 1 \in 0 .. WINDOW_SIZE
    BY SlotsFacts
  <2>2. f[i] \in Int /\ Sums(f)[i] \in Int
    BY <1>2, <2>1 DEF Windows
  <2>3. Sums(f)[i + 1] = Sums(f)[i] + f[i]
    BY <2>1, SumsStep
  <2> QED
    BY <2>1, <2>2, <2>3
<1> HIDE DEF S
<1>3. 0 .. WINDOW_SIZE \subseteq S
  BY <1>1, <1>2, SetInduction, SlotsFacts
<1> QED
  BY <1>3 DEF S

LEMMA SumOfType == \A f \in Windows : SumOf(f) \in Int
BY SumsType, SlotsFacts DEF SumOf

(* A window that is nowhere below another has no smaller sum.                          *)
LEMMA SumMonotone ==
    ASSUME NEW f \in Windows, NEW g \in Windows, \A i \in Slots : f[i] <= g[i]
    PROVE  SumOf(f) <= SumOf(g)
<1> DEFINE S == {i \in 0 .. WINDOW_SIZE : Sums(f)[i] <= Sums(g)[i]}
<1>1. 0 \in S /\ S \in SUBSET Nat
  BY SumsStep, SlotsFacts
<1>2. ASSUME NEW i \in 0 .. WINDOW_SIZE - 1, i \in S PROVE i + 1 \in S
  <2>1. i \in Slots /\ i \in 0 .. WINDOW_SIZE /\ i + 1 \in 0 .. WINDOW_SIZE
    BY SlotsFacts
  <2>2. Sums(f)[i + 1] = Sums(f)[i] + f[i] /\ Sums(g)[i + 1] = Sums(g)[i] + g[i]
    BY <2>1, SumsStep
  <2>3. f[i] \in Int /\ g[i] \in Int /\ f[i] <= g[i]
    BY <2>1 DEF Windows
  <2>4. Sums(f)[i] \in Int /\ Sums(g)[i] \in Int /\ Sums(f)[i] <= Sums(g)[i]
    BY <1>2, <2>1, SumsType
  <2> QED
    BY <2>1, <2>2, <2>3, <2>4
<1> HIDE DEF S
<1>3. 0 .. WINDOW_SIZE \subseteq S
  BY <1>1, <1>2, SetInduction, SlotsFacts
<1> QED
  BY <1>3, SlotsFacts DEF S, SumOf

(* The sum of a * f + b * g + c, slot by slot.                                          *)
LEMMA SumLinear ==
    ASSUME NEW f \in Windows, NEW g \in Windows, NEW h \in Windows,
           NEW a \in Int, NEW b \in Int, NEW c \in Int,
           \A i \in Slots : h[i] = a * f[i] + b * g[i] + c
    PROVE  SumOf(h) = a * SumOf(f) + b * SumOf(g) + c * WINDOW_SIZE
<1> DEFINE S == {i \in 0 .. WINDOW_SIZE :
                    Sums(h)[i] = a * Sums(f)[i] + b * Sums(g)[i] + c * i}
<1>1. 0 \in S /\ S \in SUBSET Nat
  BY SumsStep, SlotsFacts
<1>2. ASSUME NEW i \in 0 .. WINDOW_SIZE - 1, i \in S PROVE i + 1 \in S
  <2> DEFINE x == Sums(f)[i]
             y == Sums(g)[i]
  <2>0. i \in Slots /\ i \in 0 .. WINDOW_SIZE /\ i + 1 \in 0 .. WINDOW_SIZE /\ i \in Int
    BY SlotsFacts
  <2>a. /\ Sums(f)[i + 1] = x + f[i] /\ Sums(g)[i + 1] = y + g[i]
        /\ Sums(h)[i + 1] = Sums(h)[i] + h[i]
    BY <2>0, SumsStep
  <2>b. f[i] \in Int /\ g[i] \in Int /\ h[i] = a * f[i] + b * g[i] + c
    BY <2>0 DEF Windows
  <2>c. x \in Int /\ y \in Int
    BY <2>0, SumsType
  <2>1. /\ Sums(f)[i + 1] = x + f[i] /\ Sums(g)[i + 1] = y + g[i]
        /\ Sums(h)[i + 1] = Sums(h)[i] + h[i]
        /\ f[i] \in Int /\ g[i] \in Int /\ h[i] = a * f[i] + b * g[i] + c
        /\ x \in Int /\ y \in Int /\ i \in Int
    BY <2>0, <2>a, <2>b, <2>c
  <2>2. Sums(h)[i] = a * x + b * y + c * i
    BY <1>2
  <2> HIDE DEF x, y
  <2>3. /\ a * (x + f[i]) = a * x + a * f[i] /\ b * (y + g[i]) = b * y + b * g[i]
        /\ c * (i + 1) = c * i + c
        /\ a * x \in Int /\ b * y \in Int /\ c * i \in Int
        /\ a * f[i] \in Int /\ b * g[i] \in Int
    BY <2>1
  <2>4. Sums(h)[i + 1] = a * Sums(f)[i + 1] + b * Sums(g)[i + 1] + c * (i + 1)
    BY <2>1, <2>2, <2>3
  <2> QED
    BY <2>4, SlotsFacts
<1> HIDE DEF S
<1>3. 0 .. WINDOW_SIZE \subseteq S
  BY <1>1, <1>2, SetInduction, SlotsFacts
<1> QED
  BY <1>3, SlotsFacts DEF S, SumOf

LEMMA SumAffine ==
    ASSUME NEW f \in Windows, NEW h \in Windows, NEW a \in Int, NEW c \in Int,
           \A i \in Slots : h[i] = a * f[i] + c
    PROVE  SumOf(h) = a * SumOf(f) + c * WINDOW_SIZE
<1> DEFINE S == {i \in 0 .. WINDOW_SIZE : Sums(h)[i] = a * Sums(f)[i] + c * i}
<1>1. 0 \in S /\ S \in SUBSET Nat
  BY SumsStep, SlotsFacts
<1>2. ASSUME NEW i \in 0 .. WINDOW_SIZE - 1, i \in S PROVE i + 1 \in S
  <2> DEFINE x == Sums(f)[i]
  <2>1. i \in Slots /\ i \in 0 .. WINDOW_SIZE /\ i + 1 \in 0 .. WINDOW_SIZE /\ i \in Int
    BY SlotsFacts
  <2>2. Sums(f)[i + 1] = x + f[i] /\ Sums(h)[i + 1] = Sums(h)[i] + h[i]
    BY <2>1, SumsStep
  <2>3. f[i] \in Int /\ h[i] = a * f[i] + c
    BY <2>1 DEF Windows
  <2>4. x \in Int /\ Sums(h)[i] = a * x + c * i
    BY <1>2, <2>1, SumsType
  <2> HIDE DEF x
  <2>5. /\ a * (x + f[i]) = a * x + a * f[i] /\ c * (i + 1) = c * i + c
        /\ a * x \in Int /\ c * i \in Int /\ a * f[i] \in Int
    BY <2>1, <2>3, <2>4
  <2>6. Sums(h)[i + 1] = a * Sums(f)[i + 1] + c * (i + 1)
    BY <2>2, <2>3, <2>4, <2>5
  <2> QED
    BY <2>1, <2>6
<1> HIDE DEF S
<1>3. 0 .. WINDOW_SIZE \subseteq S
  BY <1>1, <1>2, SetInduction, SlotsFacts
<1> QED
  BY <1>3, SlotsFacts DEF S, SumOf

LEMMA SumScaled ==
    ASSUME NEW f \in Windows, NEW h \in Windows, NEW a \in Int,
           \A i \in Slots : h[i] = a * f[i]
    PROVE  SumOf(h) = a * SumOf(f)
<1> DEFINE z == 0
<1>1. \A i \in Slots : h[i] = a * f[i] + z
  <2>1. \A i \in Slots : f[i] \in Int
    BY DEF Windows
  <2> QED
    BY <2>1
<1>2. z \in Int /\ z = 0
  OBVIOUS
<1> HIDE DEF z
<1>3. SumOf(h) = a * SumOf(f) + z * WINDOW_SIZE
  BY <1>1, <1>2, SumAffine
<1>4. SumOf(f) \in Int /\ WINDOW_SIZE \in Int
  BY SumOfType, SlotsFacts
<1> QED
  BY <1>2, <1>3, <1>4

(* 1 in the slots of R and 0 elsewhere.                                                  *)
Indicator(R) == [i \in Slots |-> IF i \in R THEN 1 ELSE 0]

LEMMA SumIndicator ==
    ASSUME NEW R \in SUBSET Slots
    PROVE  Indicator(R) \in Windows /\ SumOf(Indicator(R)) = Cardinality(R)
<1> DEFINE B(i) == {j \in R : j < i}
           S == {i \in 0 .. WINDOW_SIZE : Sums(Indicator(R))[i] = Cardinality(B(i))}
<1>0. \A j \in R : j \in Nat /\ j < WINDOW_SIZE
  BY SlotsFacts
<1>1. 0 \in S /\ S \in SUBSET Nat
  <2>1. B(0) = {}
    BY <1>0
  <2>2. Cardinality(B(0)) = 0
    BY <2>1, FS_EmptySet
  <2>3. 0 \in 0 .. WINDOW_SIZE /\ 0 .. WINDOW_SIZE \subseteq Nat
    BY SlotsFacts
  <2>4. Sums(Indicator(R))[0] = 0
    BY SumsStep
  <2> QED
    BY <2>2, <2>3, <2>4
<1>2. ASSUME NEW i \in 0 .. WINDOW_SIZE - 1, i \in S PROVE i + 1 \in S
  <2>1. i \in Slots /\ i \in Nat /\ i + 1 \in 0 .. WINDOW_SIZE
    BY SlotsFacts
  <2>2. /\ Sums(Indicator(R))[i + 1] = Sums(Indicator(R))[i] + Indicator(R)[i]
        /\ Indicator(R)[i] = IF i \in R THEN 1 ELSE 0
    BY <2>1, SumsStep DEF Indicator
  <2>3. IsFiniteSet(B(i))
    <3>1. B(i) \subseteq Slots
      OBVIOUS
    <3> QED
      BY <3>1, SlotsFacts, FS_Subset
  <2>4. \A j \in R : j < i + 1 <=> (j < i \/ j = i)
    BY <1>0, <2>1
  <2>5. Cardinality(B(i + 1)) = Cardinality(B(i)) + IF i \in R THEN 1 ELSE 0
    <3>1. CASE i \in R
      <4>1. ~(i < i)
        BY <2>1
      <4>2. \A j : j \in B(i + 1) <=> j \in B(i) \/ j = i
        BY <2>4, <3>1
      <4>3. B(i + 1) = B(i) \cup {i}
        BY <4>2, Zenon
      <4>4. i \notin B(i)
        BY <4>1
      <4>5. Cardinality(B(i) \cup {i}) = Cardinality(B(i)) + 1
        BY <2>3, <4>4, FS_AddElement
      <4> QED
        BY <3>1, <4>3, <4>5
    <3>2. CASE i \notin R
      <4>1. \A j : j \in B(i + 1) <=> j \in B(i)
        BY <2>4, <3>2
      <4>2. B(i + 1) = B(i)
        BY <4>1, Zenon
      <4>3. Cardinality(B(i)) \in Nat
        BY <2>3, FS_CardinalityType
      <4> QED
        BY <3>2, <4>2, <4>3
    <3> QED
      BY <3>1, <3>2
  <2>6. Sums(Indicator(R))[i] = Cardinality(B(i))
    BY <1>2
  <2>7. Sums(Indicator(R))[i + 1] = Cardinality(B(i + 1))
    BY <2>2, <2>5, <2>6
  <2> QED
    BY <2>1, <2>7
<1>3. B(WINDOW_SIZE) = R
  BY <1>0
<1>4. S \subseteq 0 .. WINDOW_SIZE /\ \A i \in S : Sums(Indicator(R))[i] = Cardinality(B(i))
  OBVIOUS
<1> HIDE DEF S
<1>5. WINDOW_SIZE \in S
  <2>1. 0 .. WINDOW_SIZE \subseteq S
    BY <1>1, <1>2, SetInduction, SlotsFacts
  <2> QED
    BY <2>1, SlotsFacts
<1>6. Sums(Indicator(R))[WINDOW_SIZE] = Cardinality(R)
  BY <1>3, <1>4, <1>5
<1>7. Indicator(R) \in Windows
  BY DEF Indicator, Windows
<1> QED
  BY <1>6, <1>7 DEF SumOf
-----------------------------------------------------------------------------
(* The conversion to int16_t.                                                             *)
LEMMA Int16Facts ==
    /\ \A x \in Int : int16(x) \in Int16
    /\ \A x \in Int16 : int16(x) = x
<1>1. \A x \in Int : int16(x) \in Int16
  <2> TAKE x \in Int
  <2> DEFINE y == (x + 32768) % 65536
  <2>1. y \in Int /\ 0 <= y /\ y < 65536
    OBVIOUS
  <2> QED
    <3>1. int16(x) = y - 32768
      BY DEF int16
    <3> HIDE DEF y
    <3>2. y - 32768 \in Int16
      BY <2>1, Int16Range
    <3> QED
      BY <3>1, <3>2
<1>2. \A x \in Int16 : int16(x) = x
  <2> TAKE x \in Int16
  <2>1. x \in Int /\ -32768 <= x /\ x <= 32767
    BY Int16Range
  <2>2. (x + 32768) % 65536 = x + 32768
    BY <2>1
  <2> QED
    BY <2>1, <2>2 DEF int16
<1> QED
  BY <1>1, <1>2

LEMMA DivFacts ==
    ASSUME NEW a \in Int, NEW m \in Nat, m > 0
    PROVE  /\ a \div m \in Int
           /\ m * (a \div m) <= a
           /\ a < m * (a \div m) + m
OBVIOUS

LEMMA ProductOrder ==
    ASSUME NEW n \in Nat, NEW a \in Int, NEW b \in Int, n > 0, a < b
    PROVE  n * a + n <= n * b
<1>1. n * (b - a - 1) >= 0
  OBVIOUS
<1> QED
  BY <1>1

(* Rounding stays between two integers that bound the exact average.                       *)
LEMMA RoundedDivBounds ==
    ASSUME NEW s \in Int, NEW n \in Nat, n > 0, NEW lo \in Int, NEW hi \in Int,
           n * lo <= s, s <= n * hi
    PROVE  RoundedDiv(s, n) \in Int /\ lo <= RoundedDiv(s, n) /\ RoundedDiv(s, n) <= hi
<1>1. CASE s >= 0
  <2> DEFINE q == (2 * s + n) \div (2 * n)
  <2>1. RoundedDiv(s, n) = q
    BY <1>1 DEF RoundedDiv
  <2>2. 2 * s + n \in Int /\ 2 * n \in Nat /\ 2 * n > 0
    OBVIOUS
  <2>3. q \in Int /\ (2 * n) * q <= 2 * s + n /\ 2 * s + n < (2 * n) * q + 2 * n
    BY <2>2, DivFacts
  <2> HIDE DEF q
  <2>4. n * q \in Int /\ (2 * n) * q = 2 * (n * q)
    BY <2>3
  <2>5. q >= lo
    <3>1. SUFFICES ASSUME q < lo PROVE FALSE
      BY <2>3
    <3>2. n * q + n <= n * lo
      BY <2>3, <3>1, ProductOrder
    <3> QED
      BY <2>3, <2>4, <3>2
  <2>6. q <= hi
    <3>1. SUFFICES ASSUME hi < q PROVE FALSE
      BY <2>3
    <3>2. n * hi + n <= n * q
      BY <2>3, <3>1, ProductOrder
    <3> QED
      BY <2>3, <2>4, <3>2
  <2> QED
    BY <2>1, <2>3, <2>5, <2>6
<1>2. CASE s < 0
  <2> DEFINE q == (n - 2 * s) \div (2 * n)
  <2>1. RoundedDiv(s, n) = -q
    BY <1>2 DEF RoundedDiv
  <2>2. n - 2 * s \in Int /\ 2 * n \in Nat /\ 2 * n > 0
    OBVIOUS
  <2>3. q \in Int /\ (2 * n) * q <= n - 2 * s /\ n - 2 * s < (2 * n) * q + 2 * n
    BY <2>2, DivFacts
  <2> HIDE DEF q
  <2>4. n * (-q) \in Int /\ (2 * n) * q = -(2 * (n * (-q)))
    BY <2>3
  <2>5. -q >= lo
    <3>1. SUFFICES ASSUME -q < lo PROVE FALSE
      BY <2>3
    <3>2. n * (-q) + n <= n * lo
      BY <2>3, <3>1, ProductOrder
    <3> QED
      BY <2>3, <2>4, <3>2
  <2>6. -q <= hi
    <3>1. SUFFICES ASSUME hi < -q PROVE FALSE
      BY <2>3
    <3>2. n * hi + n <= n * (-q)
      BY <2>3, <3>1, ProductOrder
    <3> QED
      BY <2>3, <2>4, <3>2
  <2> QED
    BY <2>1, <2>3, <2>5, <2>6
<1> QED
  BY <1>1, <1>2

(* A finite window has a smallest and a largest reading left.                               *)
LEMMA KeptExtremes ==
    ASSUME NEW d \in [Slots -> Int16], Kept(d) # {}
    PROVE  /\ \E i \in Kept(d) : \A j \in Kept(d) : d[i] <= d[j]
           /\ \E i \in Kept(d) : \A j \in Kept(d) : d[j] <= d[i]
<1>1. \A i \in Kept(d) : d[i] \in Int /\ -32768 <= d[i] /\ d[i] <= 32767
  <2>1. \A i \in Kept(d) : d[i] \in Int16
    BY DEF Kept
  <2>2. \A x \in Int16 : x \in Int /\ -32768 <= x /\ x <= 32767
    BY Int16Range
  <2> QED
    BY <2>1, <2>2
<1>2. \E i \in Kept(d) : \A j \in Kept(d) : d[i] <= d[j]
  <2> DEFINE T == {d[i] + 32768 : i \in Kept(d)}
  <2>1. T \subseteq Nat /\ T # {}
    BY <1>1
  <2> HIDE DEF T
  <2>2. PICK x \in T : \A y \in T : x <= y
    BY <2>1, LeastElement
  <2> USE DEF T
  <2>3. PICK i \in Kept(d) : x = d[i] + 32768
    BY <2>2
  <2>4. \A j \in Kept(d) : d[i] + 32768 <= d[j] + 32768
    BY <2>2, <2>3
  <2> QED
    BY <1>1, <2>3, <2>4
<1>3. \E i \in Kept(d) : \A j \in Kept(d) : d[j] <= d[i]
  <2> DEFINE T == {32767 - d[i] : i \in Kept(d)}
  <2>1. T \subseteq Nat /\ T # {}
    BY <1>1
  <2> HIDE DEF T
  <2>2. PICK x \in T : \A y \in T : x <= y
    BY <2>1, LeastElement
  <2> USE DEF T
  <2>3. PICK i \in Kept(d) : x = 32767 - d[i]
    BY <2>2
  <2>4. \A j \in Kept(d) : 32767 - d[i] <= 32767 - d[j]
    BY <2>2, <2>3
  <2> QED
    BY <1>1, <2>3, <2>4
<1> QED
  BY <1>2, <1>3

LEMMA KeptCount ==
    ASSUME NEW d \in Windows
    PROVE  /\ Kept(d) \in SUBSET Slots
           /\ Cardinality(Kept(d)) \in Nat
           /\ Cardinality(Kept(d)) = 0 <=> Kept(d) = {}
<1>1. Kept(d) \in SUBSET Slots
  BY DEF Kept
<1>2. IsFiniteSet(Kept(d))
  BY <1>1, SlotsFacts, FS_Subset
<1> QED
  BY <1>1, <1>2, FS_CardinalityType, FS_EmptySet

(* Both kinds of window are windows of integers.                                              *)
LEMMA WindowTypes ==
    /\ \A d \in [Slots -> Int16] : d \in Windows
    /\ \A d \in [Slots -> Int16], i \in Slots : d[i] \in Int16 /\ d[i] \in Int
    /\ \A d \in Windows, i \in Slots : d[i] \in Int
BY SlotsFacts DEF Windows

(* The sum of the readings left lies between n times the smallest and n times the largest.    *)
LEMMA SumBounds ==
    ASSUME NEW d \in Windows, NEW lo \in Int, NEW hi \in Int,
           \A i \in Kept(d) : lo <= d[i] /\ d[i] <= hi
    PROVE  /\ Cardinality(Kept(d)) * lo <= SumOf(d)
           /\ SumOf(d) <= Cardinality(Kept(d)) * hi
<1> DEFINE I == Indicator(Kept(d))
           low == [i \in Slots |-> lo * I[i]]
           high == [i \in Slots |-> hi * I[i]]
<1>1. /\ I \in Windows /\ SumOf(I) = Cardinality(Kept(d))
      /\ Cardinality(Kept(d)) \in Nat
  BY SumIndicator, KeptCount
<1>2. \A i \in Slots : /\ I[i] = (IF i \in Kept(d) THEN 1 ELSE 0) /\ d[i] \in Int
                       /\ i \in Kept(d) <=> d[i] # 0
  BY WindowTypes DEF Indicator, Kept
<1> HIDE DEF I
<1>3. low \in Windows /\ high \in Windows
  BY <1>1, WindowTypes DEF Windows
<1>4. SumOf(low) = lo * SumOf(I)
  <2>1. \A i \in Slots : low[i] = lo * I[i]
    OBVIOUS
  <2> HIDE DEF low
  <2> QED
    BY <1>1, <1>3, <2>1, SumScaled
<1>5. SumOf(high) = hi * SumOf(I)
  <2>1. \A i \in Slots : high[i] = hi * I[i]
    OBVIOUS
  <2> HIDE DEF high
  <2> QED
    BY <1>1, <1>3, <2>1, SumScaled
<1>6. \A i \in Slots : low[i] <= d[i] /\ d[i] <= high[i]
  BY <1>2
<1> HIDE DEF low, high
<1>7. SumOf(low) <= SumOf(d) /\ SumOf(d) <= SumOf(high)
  BY <1>3, <1>6, SumMonotone
<1> DEFINE n == Cardinality(Kept(d))
<1>8. SumOf(low) = n * lo /\ SumOf(high) = n * hi
  <2>1. SumOf(I) = n /\ n \in Nat
    BY <1>1
  <2> HIDE DEF n
  <2>2. lo * n = n * lo /\ hi * n = n * hi /\ n * lo \in Int /\ n * hi \in Int
    BY <2>1
  <2> QED
    BY <1>4, <1>5, <2>1, <2>2
<1> QED
  BY <1>7, <1>8

(* What a turn posts: the conversion of NaN when no reading is left, and otherwise a value     *)
(* between two of the readings left.                                                            *)
LEMMA RoundedAverage ==
    ASSUME NEW d \in [Slots -> Int16], NEW value \in Rounded(calculate_average(d))
    PROVE  /\ value \in Int16
           /\ Kept(d) = {} => value \in NaNAsInt16
           /\ Kept(d) # {} => /\ \E i \in Kept(d) : d[i] <= value
                              /\ \E i \in Kept(d) : value <= d[i]
<1> DEFINE n == Cardinality(Kept(d))
           s == SumOf(d)
<1>1. d \in Windows /\ n \in Nat /\ (n = 0 <=> Kept(d) = {}) /\ s \in Int
  BY WindowTypes, KeptCount, SumOfType
<1>2. value \in IF n = 0 THEN NaNAsInt16 ELSE {int16(RoundedDiv(s, n))}
  BY DEF Rounded, calculate_average
<1>3. CASE n = 0
  BY <1>1, <1>2, <1>3, NodeAssumption
<1>4. CASE n # 0
  <2>1. PICK a \in Kept(d) : \A j \in Kept(d) : d[a] <= d[j]
    BY <1>1, <1>4, KeptExtremes
  <2>2. PICK b \in Kept(d) : \A j \in Kept(d) : d[j] <= d[b]
    BY <1>1, <1>4, KeptExtremes
  <2>3. d[a] \in Int16 /\ d[b] \in Int16 /\ d[a] \in Int /\ d[b] \in Int
    BY WindowTypes DEF Kept
  <2>4. n * d[a] <= s /\ s <= n * d[b]
    BY <1>1, <2>1, <2>2, <2>3, SumBounds
  <2> HIDE DEF n, s
  <2>5. RoundedDiv(s, n) \in Int /\ d[a] <= RoundedDiv(s, n) /\ RoundedDiv(s, n) <= d[b]
    BY <1>1, <1>4, <2>3, <2>4, RoundedDivBounds
  <2>6. RoundedDiv(s, n) \in Int16
    BY <2>3, <2>5, Int16Range
  <2>7. value = RoundedDiv(s, n)
    BY <1>2, <1>4, <2>6, Int16Facts
  <2> QED
    BY <1>1, <1>4, <2>5, <2>6, <2>7
<1> QED
  BY <1>3, <1>4

(* A cleaning changes slots to 0 only, every one beyond the limit and none within it.           *)
LEMMA CleaningSlots ==
    ASSUME NEW d \in Windows, NEW total, NEW variance,
           NEW cleaned \in remove_outliers(d, total, variance)
    PROVE  /\ cleaned = [i \in Slots |-> cleaned[i]]
           /\ \A i \in Slots :
                LET dev == WINDOW_SIZE * d[i] - total
                IN  /\ \/ cleaned[i] = d[i]
                       \/ /\ cleaned[i] = 0
                          /\ Beyond(dev, variance) \/ OnLimit(dev, variance)
                    /\ Beyond(dev, variance) => cleaned[i] = 0
<1> DEFINE dev(i) == WINDOW_SIZE * d[i] - total
           over   == {i \in Slots : Beyond(dev(i), variance)}
           limit  == {i \in Slots : OnLimit(dev(i), variance)}
<1>1. PICK tie \in SUBSET limit :
         cleaned = [i \in Slots |-> IF i \in over \cup tie THEN 0 ELSE d[i]]
  BY DEF remove_outliers
<1>2. \A i \in Slots : cleaned[i] = IF i \in over \cup tie THEN 0 ELSE d[i]
  BY <1>1
<1> QED
  BY <1>1, <1>2

Squares(d) == [i \in Slots |-> Sq(d[i])]

LEMMA VarianceType ==
    ASSUME NEW d \in Windows
    PROVE  /\ Squares(d) \in Windows
           /\ SumOf(d) \in Int /\ SumOf(Squares(d)) \in Int
           /\ Variance(d) = WINDOW_SIZE * SumOf(Squares(d)) - SumOf(d) * SumOf(d)
           /\ Variance(d) \in Int
<1>1. Squares(d) \in Windows
  BY WindowTypes DEF Squares, Windows, Sq
<1>2. SumOf(d) \in Int /\ SumOf(Squares(d)) \in Int
  BY <1>1, SumOfType
<1>3. Variance(d) = WINDOW_SIZE * SumOf(Squares(d)) - SumOf(d) * SumOf(d)
  BY DEF Variance, Squares, Sq
<1> QED
  BY <1>1, <1>2, <1>3, SlotsFacts

(* The squared deviations of the slots, added up.                                          *)
LEMMA DeviationSum ==
    ASSUME NEW d \in Windows, NEW devs \in Windows,
           \A i \in Slots : devs[i] = Sq(WINDOW_SIZE * d[i] - SumOf(d))
    PROVE  SumOf(devs) = WINDOW_SIZE * Variance(d)
<1> DEFINE n == WINDOW_SIZE
           t == SumOf(d)
           q == SumOf(Squares(d))
           a == n * n
           b == -(2 * (n * t))
           c == t * t
<1>1. n \in Int /\ t \in Int /\ q \in Int /\ Variance(d) = n * q - t * t /\ Squares(d) \in Windows
  BY VarianceType, SlotsFacts
<1>2. \A i \in Slots : devs[i] = a * Squares(d)[i] + b * d[i] + c
  <2> TAKE i \in Slots
  <2> DEFINE x == d[i]
  <2>1. x \in Int /\ devs[i] = Sq(n * x - t) /\ Squares(d)[i] = x * x
    BY WindowTypes DEF Squares, Sq
  <2> HIDE DEF x, t, n
  <2>2. Sq(n * x - t) = a * (x * x) + b * x + c
    <3>1. (n * x - t) * (n * x - t) = (n * x) * (n * x) - 2 * (t * (n * x)) + t * t
      BY <1>1, <2>1
    <3>2. (n * x) * (n * x) = (n * n) * (x * x)
      BY <1>1, <2>1
    <3>3. 2 * (t * (n * x)) = (2 * (n * t)) * x
      BY <1>1, <2>1
    <3> QED
      BY <1>1, <2>1, <3>1, <3>2, <3>3 DEF Sq
  <2>3. devs[i] = a * Squares(d)[i] + b * x + c
    BY <2>1, <2>2
  <2> QED
    BY <2>3 DEF x
<1>3. a \in Int /\ b \in Int /\ c \in Int
  <2> HIDE DEF n, t
  <2> QED
    BY <1>1
<1>4. SumOf(devs) = a * q + b * t + c * n
  <2> HIDE DEF a, b, c
  <2> QED
    BY <1>1, <1>2, <1>3, SumLinear
<1> HIDE DEF n, t, q
<1>5. a * q = n * (n * q) /\ b * t = -(2 * (n * (t * t))) /\ c * n = n * (t * t)
  BY <1>1
<1>6. n * (n * q - t * t) = n * (n * q) - n * (t * t)
  BY <1>1
<1>7. SumOf(devs) = n * Variance(d)
  <2>1. n * (n * q) \in Int /\ n * (t * t) \in Int
    BY <1>1
  <2> HIDE DEF a, b, c
  <2> QED
    BY <1>1, <1>4, <1>5, <1>6, <2>1
<1> QED
  BY <1>7 DEF n

LEMMA VarianceNotNegative ==
    ASSUME NEW d \in Windows
    PROVE  Variance(d) >= 0
<1> DEFINE devs == [i \in Slots |-> Sq(WINDOW_SIZE * d[i] - SumOf(d))]
           none == Indicator({})
<1>1. \A x \in Int : Sq(x) \in Int /\ Sq(x) >= 0
  BY DEF Sq
<1>2. \A i \in Slots : WINDOW_SIZE * d[i] - SumOf(d) \in Int
  <2> TAKE i \in Slots
  <2> DEFINE n == WINDOW_SIZE
             x == d[i]
             t == SumOf(d)
  <2>1. n \in Int /\ x \in Int /\ t \in Int
    BY SumOfType, SlotsFacts DEF Windows
  <2> HIDE DEF n, x, t
  <2>2. n * x - t \in Int
    BY <2>1
  <2> QED
    BY <2>2 DEF n, x, t
<1>3. devs \in Windows /\ \A i \in Slots : none[i] <= devs[i]
  BY <1>1, <1>2 DEF Windows, Indicator
<1>4. SumOf(devs) = WINDOW_SIZE * Variance(d)
  <2>1. \A i \in Slots : devs[i] = Sq(WINDOW_SIZE * d[i] - SumOf(d))
    OBVIOUS
  <2> HIDE DEF devs
  <2> QED
    BY <1>3, <2>1, DeviationSum
<1>5. none \in Windows /\ SumOf(none) = 0
  BY SumIndicator, FS_EmptySet
<1> HIDE DEF devs, none
<1>6. 0 <= WINDOW_SIZE * Variance(d)
  BY <1>3, <1>4, <1>5, SumMonotone
<1>7. Variance(d) \in Int /\ WINDOW_SIZE \in Nat /\ WINDOW_SIZE > 0
  BY VarianceType, SlotsFacts
<1>8. SUFFICES ASSUME Variance(d) < 0 PROVE FALSE
  BY <1>7
<1>9. WINDOW_SIZE * Variance(d) + WINDOW_SIZE <= WINDOW_SIZE * 0
  BY <1>7, <1>8, ProductOrder
<1> QED
  BY <1>6, <1>7, <1>9

(* Chebyshev's inequality, for deviations at least twice the standard deviation.             *)
LEMMA FewFarAway ==
    ASSUME NEW d \in Windows, NEW R \in SUBSET Slots,
           \A i \in R : LET dev == WINDOW_SIZE * d[i] - SumOf(d)
                        IN  Sq(dev) >= 1 /\ Sq(dev) >= 4 * Variance(d)
    PROVE  4 * Cardinality(R) <= WINDOW_SIZE
<1> DEFINE v == Variance(d)
           k == Cardinality(R)
           I == Indicator(R)
           devs == [i \in Slots |-> Sq(WINDOW_SIZE * d[i] - SumOf(d))]
           bound == IF v > 0 THEN 4 * v ELSE 1
           low == [i \in Slots |-> bound * I[i]]
<1>1. v \in Int /\ SumOf(d) \in Int /\ WINDOW_SIZE \in Nat /\ WINDOW_SIZE > 0
  BY VarianceType, SlotsFacts
<1>2. I \in Windows /\ SumOf(I) = k /\ \A i \in Slots : I[i] = IF i \in R THEN 1 ELSE 0
  BY SumIndicator DEF Indicator
<1>3. k \in Nat
  BY SlotsFacts, FS_Subset, FS_CardinalityType
<1>4. \A i \in Slots : d[i] \in Int
  BY WindowTypes
<1>5. \A x \in Int : Sq(x) \in Int /\ Sq(x) >= 0
  BY DEF Sq
<1>6. \A i \in Slots : WINDOW_SIZE * d[i] - SumOf(d) \in Int
  BY <1>1, <1>4
<1>7. \A i \in Slots : devs[i] \in Int /\ devs[i] >= 0
  BY <1>5, <1>6
<1>8. \A i \in R : devs[i] >= 1 /\ devs[i] >= 4 * v
  OBVIOUS
<1>9. devs \in Windows
  BY <1>7 DEF Windows
<1>10. SumOf(devs) = WINDOW_SIZE * v
  <2>1. \A i \in Slots : devs[i] = Sq(WINDOW_SIZE * d[i] - SumOf(d))
    OBVIOUS
  <2> HIDE DEF devs
  <2> QED
    BY <1>9, <2>1, DeviationSum
<1> HIDE DEF devs, v, I, k
<1>11. bound \in Int
  BY <1>1
<1>12. \A i \in Slots : low[i] <= devs[i]
  BY <1>1, <1>2, <1>7, <1>8
<1>13. low \in Windows
  BY <1>2, <1>11 DEF Windows
<1>14. SumOf(low) = bound * k
  <2>1. \A i \in Slots : low[i] = bound * I[i]
    OBVIOUS
  <2> HIDE DEF low, bound
  <2> QED
    BY <1>2, <1>11, <1>13, <2>1, SumScaled
<1> HIDE DEF low
<1>15. bound * k <= WINDOW_SIZE * v
  BY <1>9, <1>10, <1>12, <1>13, <1>14, SumMonotone
<1>16. CASE v > 0
  <2>1. v * (4 * k) <= v * WINDOW_SIZE
    BY <1>1, <1>3, <1>15, <1>16
  <2>2. SUFFICES ASSUME WINDOW_SIZE < 4 * k PROVE FALSE
    BY <1>1, <1>3 DEF k
  <2>3. v * WINDOW_SIZE + v <= v * (4 * k)
    BY <1>1, <1>3, <1>16, <2>2, ProductOrder
  <2> QED
    BY <1>1, <1>3, <1>16, <2>1, <2>3
<1>17. CASE v <= 0
  <2>1. k <= WINDOW_SIZE * v
    BY <1>1, <1>3, <1>15, <1>17
  <2>2. WINDOW_SIZE * (-v) >= 0
    BY <1>1, <1>17
  <2>3. k = 0
    BY <1>1, <1>3, <2>1, <2>2
  <2> QED
    BY <1>1, <2>3 DEF k
<1> QED
  BY <1>1, <1>16, <1>17
-----------------------------------------------------------------------------
(* The window once a turn has stored the reading t.                                         *)
Filled(t) == [tempList EXCEPT ![current_index] = t]

(* A turn of the loop: a reading t in the current slot, a cleaning and a rounded average.    *)
LEMMA SampleFacts ==
    ASSUME TypeOK, Sample
    PROVE  \E t \in Int16 :
              /\ Filled(t) \in [Slots -> Int16]
              /\ tempList' \in remove_outliers(Filled(t), SumOf(Filled(t)), Variance(Filled(t)))
              /\ tempList' \in [Slots -> Int16]
              /\ \E value \in Rounded(calculate_average(tempList')) :
                    Report(tempList', value)
<1>1. PICK t \in {int16(temp + noise) : temp \in Temps, noise \in Noises} :
         \E cleaned \in remove_outliers(Filled(t), SumOf(Filled(t)), Variance(Filled(t))) :
            \E value \in Rounded(calculate_average(cleaned)) : Report(cleaned, value)
  BY DEF Sample, Filled
<1> DEFINE d == Filled(t)
<1>2. t \in Int16
  <2>1. PICK temp \in Temps, noise \in Noises : t = int16(temp + noise)
    BY <1>1
  <2>2. temp \in Int /\ noise \in Int
    BY NodeAssumption, SlotsFacts
  <2> QED
    BY <2>1, <2>2, Int16Facts
<1>3. d \in [Slots -> Int16]
  BY <1>2 DEF TypeOK, Filled
<1>4. PICK cleaned \in remove_outliers(d, SumOf(d), Variance(d)) :
         \E value \in Rounded(calculate_average(cleaned)) : Report(cleaned, value)
  BY <1>1
<1>5. tempList' = cleaned
  BY <1>4 DEF Report
<1>6. cleaned \in [Slots -> Int16]
  <2>1. \A i \in Slots : d[i] \in Int16
    BY <1>3
  <2>2. 0 \in Int16
    BY Int16Range
  <2> HIDE DEF d
  <2>3. d \in Windows
    BY <1>3, WindowTypes
  <2>4. cleaned = [i \in Slots |-> cleaned[i]] /\ \A i \in Slots : cleaned[i] = d[i] \/ cleaned[i] = 0
    BY <2>3, CleaningSlots
  <2> QED
    BY <2>1, <2>2, <2>4
<1> QED
  BY <1>2, <1>3, <1>4, <1>5, <1>6

LEMMA TypeInitially == Init => TypeOK
<1>1. 0 \in Slots
  BY SlotsFacts
<1>2. 0 \in Int16
  BY Int16Range
<1>3. 0 \in 0 .. MaxPolls - 1
  BY DEF MaxPolls
<1> QED
  BY <1>1, <1>2, <1>3 DEF Init, TypeOK

LEMMA TypePreserved == TypeOK /\ [Next]_vars => TypeOK'
<1> SUFFICES ASSUME TypeOK, [Next]_vars PROVE TypeOK'
  OBVIOUS
<1>0. 0 \in 0 .. MaxPolls - 1
  BY DEF MaxPolls
<1>1. CASE InitAndReset
  BY <1>1 DEF InitAndReset, windowVars, TypeOK
<1>2. CASE PollBoot
  <2>1. polls' \in 0 .. MaxPolls - 1 /\ pc' \in {"poll", "enable"}
    BY <1>0, <1>2 DEF PollBoot, TypeOK, MaxPolls
  <2>2. UNCHANGED windowVars
    BY <1>2 DEF PollBoot
  <2> QED
    BY <2>1, <2>2 DEF windowVars, TypeOK
<1>3. CASE EnableSensor
  BY <1>3 DEF EnableSensor, windowVars, TypeOK
<1>4. CASE FillWindow
  <2>1. Temps \cup {0} \subseteq Int16
    BY NodeAssumption, Int16Range
  <2>2. tempList' \in [Slots -> Int16]
    BY <1>4, <2>1 DEF FillWindow
  <2> QED
    BY <1>4, <2>2 DEF FillWindow, TypeOK
<1>5. CASE Sample
  <2>1. PICK value \in Rounded(calculate_average(tempList')) : Report(tempList', value)
    BY <1>5, SampleFacts
  <2>2. tempList' \in [Slots -> Int16]
    BY <1>5, SampleFacts
  <2>3. value \in Int16 /\ value \in Int
    BY <2>2, RoundedAverage, SlotsFacts
  <2>4. calculate_odd_parity(value) \in {0, 1}
    BY <2>3, HonestReportAccepted
  <2>5. current_index' \in Slots
    BY <2>1, SlotsFacts DEF Report, TypeOK
  <2>6. payload' \in SUBSET [value : Int16, parity : {0, 1}]
    BY <2>1, <2>3, <2>4 DEF Report
  <2>7. UNCHANGED <<pc, polls>>
    BY <1>5 DEF Sample
  <2> QED
    BY <2>2, <2>5, <2>6, <2>7 DEF TypeOK
<1>6. CASE UNCHANGED vars
  BY <1>6 DEF vars, TypeOK
<1> QED
  BY <1>1, <1>2, <1>3, <1>4, <1>5, <1>6 DEF Next, ReadFailed

(* The node's variables keep their types: every report is an int16_t with a bit.             *)
THEOREM NodeTypeCorrect == Spec => []TypeOK
<1> QED
  BY TypeInitially, TypePreserved, PTL DEF Spec

(* Once a report is out, the window changes only in the step that reports again.             *)
IInv == TypeOK /\ ReportWithinKept /\ (pc # "loop" => payload = {})

(* A report always lies between two readings left in the window it came from: neither the     *)
(* rounding nor the conversion to int16_t takes it out.                                        *)
THEOREM ReportAlwaysWithinKept == Spec => []ReportWithinKept
<1>1. Init => IInv
  BY TypeInitially DEF Init, IInv, ReportWithinKept
<1>2. IInv /\ [Next]_vars => IInv'
  <2> SUFFICES ASSUME IInv, [Next]_vars PROVE IInv'
    OBVIOUS
  <2>0. TypeOK'
    BY TypePreserved DEF IInv
  <2>1. CASE pc # "loop" /\ (InitAndReset \/ PollBoot \/ EnableSensor \/ FillWindow)
    <3>1. payload' = {}
      BY <2>1 DEF IInv, InitAndReset, PollBoot, EnableSensor, FillWindow, windowVars
    <3> QED
      BY <2>0, <3>1 DEF IInv, ReportWithinKept
  <2>2. CASE Sample
    <3>1. PICK value \in Rounded(calculate_average(tempList')) : Report(tempList', value)
      BY <2>2, SampleFacts DEF IInv
    <3>2. tempList' \in [Slots -> Int16]
      BY <2>2, SampleFacts DEF IInv
    <3>3. Kept(tempList') # {} => /\ \E i \in Kept(tempList') : tempList'[i] <= value
                                  /\ \E i \in Kept(tempList') : value <= tempList'[i]
      BY <3>2, RoundedAverage
    <3>4. \A r \in payload' : r.value = value
      BY <3>1 DEF Report
    <3>5. ReportWithinKept'
      BY <3>3, <3>4 DEF ReportWithinKept, Kept
    <3>6. pc' = "loop"
      BY <2>2 DEF Sample
    <3> QED
      BY <2>0, <3>5, <3>6 DEF IInv
  <2>3. CASE UNCHANGED vars
    BY <2>0, <2>3 DEF vars, IInv, ReportWithinKept, Kept
  <2> QED
    BY <2>1, <2>2, <2>3 DEF Next, ReadFailed, InitAndReset, PollBoot, EnableSensor, FillWindow
<1>3. IInv => ReportWithinKept
  BY DEF IInv
<1> QED
  BY <1>1, <1>2, <1>3, PTL DEF Spec

(* One cleaning removes at most a quarter of the readings collected before it, whatever the    *)
(* new reading is.                                                                             *)
THEOREM CleaningAlwaysRemovesFew == Spec => CleaningRemovesFew
<1> DEFINE Gone == {i \in Slots \ {current_index} : tempList[i] # 0 /\ tempList'[i] = 0}
<1>1. TypeOK /\ [Next]_vars => (pc = "loop" => 4 * Cardinality(Gone) <= WINDOW_SIZE)
  <2> SUFFICES ASSUME TypeOK, [Next]_vars, pc = "loop"
               PROVE  4 * Cardinality(Gone) <= WINDOW_SIZE
    OBVIOUS
  <2>1. CASE Sample
    <3>1. PICK t \in Int16 :
             /\ Filled(t) \in [Slots -> Int16]
             /\ tempList' \in remove_outliers(Filled(t), SumOf(Filled(t)), Variance(Filled(t)))
      BY <2>1, SampleFacts
    <3> DEFINE d == Filled(t)
    <3>2. d \in Windows /\ tempList' \in remove_outliers(d, SumOf(d), Variance(d))
      BY <3>1, WindowTypes
    <3>3. \A i \in Gone : d[i] = tempList[i] /\ tempList'[i] # d[i] /\ i \in Slots
      BY DEF TypeOK, Filled
    <3>4. SumOf(d) \in Int /\ Variance(d) \in Int /\ WINDOW_SIZE \in Int
      BY <3>2, VarianceType, SlotsFacts
    <3> HIDE DEF d, Gone
    <3>5. ASSUME NEW i \in Gone
          PROVE  LET dev == WINDOW_SIZE * d[i] - SumOf(d)
                 IN  Sq(dev) >= 1 /\ Sq(dev) >= 4 * Variance(d)
      <4> DEFINE dev == WINDOW_SIZE * d[i] - SumOf(d)
      <4>1. Beyond(dev, Variance(d)) \/ OnLimit(dev, Variance(d))
        BY <3>2, <3>3, CleaningSlots
      <4>2. dev \in Int
        BY <3>2, <3>3, <3>4, WindowTypes
      <4> HIDE DEF dev
      <4>3. Sq(dev) \in Int /\ Sq(dev) >= 0
        BY <4>2 DEF Sq
      <4>4. Sq(dev) >= 4 * Variance(d)
        BY <3>4, <4>1, <4>3 DEF Beyond, OnLimit
      <4>5. Sq(dev) >= 1
        <5>1. ASSUME Sq(dev) = 0 PROVE FALSE
          <6>1. Beyond(dev, Variance(d))
            BY <3>4, <4>1, <5>1 DEF OnLimit
          <6>2. Variance(d) < 0
            BY <3>4, <5>1, <6>1 DEF Beyond
          <6>3. Variance(d) >= 0
            BY <3>2, VarianceNotNegative
          <6> QED
            BY <3>4, <6>2, <6>3
        <5> QED
          BY <4>3, <5>1
      <4> QED
        BY <4>4, <4>5 DEF dev
    <3>6. Gone \in SUBSET Slots
      BY <3>3
    <3> QED
      BY <3>2, <3>5, <3>6, FewFarAway
  <2>2. CASE UNCHANGED vars
    <3>1. Gone = {}
      BY <2>2 DEF vars
    <3>2. Cardinality(Gone) = 0
      BY <3>1, FS_EmptySet
    <3> HIDE DEF Gone
    <3> QED
      BY <3>2, SlotsFacts
  <2> QED
    BY <2>1, <2>2 DEF Next, ReadFailed, InitAndReset, PollBoot, EnableSensor, FillWindow
<1> QED
  BY <1>1, NodeTypeCorrect, PTL DEF Spec, CleaningRemovesFew
-----------------------------------------------------------------------------
(* v in every slot but c, which holds v + e.                                                   *)
Spiked(v, e, c) == [i \in Slots |-> IF i = c THEN v + e ELSE v]

LEMMA SpikedMoments ==
    ASSUME NEW v \in Int, NEW e \in Int, NEW c \in Slots
    PROVE  LET d == Spiked(v, e, c)
           IN  /\ d \in Windows
               /\ SumOf(d) = WINDOW_SIZE * v + e
               /\ Variance(d) = (WINDOW_SIZE - 1) * (e * e)
<1> DEFINE d == Spiked(v, e, c)
           I == Indicator({c})
           n == WINDOW_SIZE
<1>1. I \in Windows /\ SumOf(I) = 1
  <2>1. {c} \in SUBSET Slots /\ Cardinality({c}) = 1
    BY FS_Singleton
  <2> QED
    BY <2>1, SumIndicator
<1>2. \A i \in Slots : I[i] = IF i = c THEN 1 ELSE 0
  BY DEF Indicator
<1>3. d \in Windows /\ \A i \in Slots : d[i] = IF i = c THEN v + e ELSE v
  BY DEF Spiked, Windows
<1>4. Squares(d) \in Windows /\ Variance(d) = n * SumOf(Squares(d)) - SumOf(d) * SumOf(d)
  BY <1>3, VarianceType
<1>5. \A i \in Slots : Squares(d)[i] = d[i] * d[i]
  BY DEF Squares, Sq
<1>6. n \in Int /\ n = WINDOW_SIZE
  BY SlotsFacts
<1> HIDE DEF d, I, n
<1>7. SumOf(d) = n * v + e
  <2>1. \A i \in Slots : d[i] = e * I[i] + v
    BY <1>2, <1>3
  <2>2. SumOf(d) = e * SumOf(I) + v * WINDOW_SIZE
    BY <1>1, <1>3, <2>1, SumAffine
  <2> QED
    BY <1>1, <1>6, <2>2
<1> DEFINE a == 2 * (v * e) + e * e
           b == v * v
<1>8. SumOf(Squares(d)) = a + b * n
  <2>1. a \in Int /\ b \in Int
    OBVIOUS
  <2>2. (v + e) * (v + e) = a + b
    OBVIOUS
  <2>3. \A i \in Slots : Squares(d)[i] = IF i = c THEN a + b ELSE b
    BY <1>3, <1>5, <2>2
  <2> HIDE DEF a, b
  <2>4. \A i \in Slots : Squares(d)[i] = a * I[i] + b
    BY <1>2, <2>1, <2>3
  <2>5. SumOf(Squares(d)) = a * SumOf(I) + b * WINDOW_SIZE
    BY <1>1, <1>4, <2>1, <2>4, SumAffine
  <2> QED
    BY <1>1, <1>6, <2>1, <2>5
<1>9. Variance(d) = (n - 1) * (e * e)
  <2>1. (n * v + e) * (n * v + e) = n * (n * (v * v)) + 2 * (n * (v * e)) + e * e
    <3>1. (n * v + e) * (n * v + e) = (n * v) * (n * v) + 2 * ((n * v) * e) + e * e
      BY <1>6
    <3>2. (n * v) * (n * v) = n * (n * (v * v)) /\ (n * v) * e = n * (v * e)
      BY <1>6
    <3> QED
      BY <3>1, <3>2
  <2>2. n * (a + b * n) = 2 * (n * (v * e)) + n * (e * e) + n * (n * (v * v))
    BY <1>6
  <2>3. (n - 1) * (e * e) = n * (e * e) - e * e
    BY <1>6
  <2>4. /\ n * (n * (v * v)) \in Int /\ n * (v * e) \in Int /\ e * e \in Int
        /\ n * (e * e) \in Int
    BY <1>6
  <2> HIDE DEF a, b
  <2> QED
    BY <1>4, <1>7, <1>8, <2>1, <2>2, <2>3, <2>4
<1> QED
  BY <1>3, <1>7, <1>9 DEF d, n

(* Among more than five slots a lone spike is beyond the limit and the others are within it.    *)
LEMMA SpikeCleaned ==
    ASSUME WINDOW_SIZE > 5, NEW v \in Int, NEW e \in Int, NEW c \in Slots,
           NEW cleaned \in remove_outliers(Spiked(v, e, c), SumOf(Spiked(v, e, c)),
                                           Variance(Spiked(v, e, c)))
    PROVE  \A i \in Slots : cleaned[i] = IF i = c /\ e # 0 THEN 0 ELSE v
<1> DEFINE d == Spiked(v, e, c)
           n == WINDOW_SIZE
           q == e * e
           dev(i) == n * d[i] - SumOf(d)
<1>1. d \in Windows /\ SumOf(d) = n * v + e /\ Variance(d) = (n - 1) * q
  BY SpikedMoments
<1>2. \A i \in Slots : d[i] = IF i = c THEN v + e ELSE v
  BY DEF Spiked
<1>3. n \in Int /\ n > 5 /\ q \in Int /\ q >= 0 /\ (q = 0 <=> e = 0)
  BY SlotsFacts
<1>4. \A i \in Slots :
         /\ \/ cleaned[i] = d[i]
            \/ /\ cleaned[i] = 0
               /\ Beyond(dev(i), Variance(d)) \/ OnLimit(dev(i), Variance(d))
         /\ Beyond(dev(i), Variance(d)) => cleaned[i] = 0
  BY <1>1, CleaningSlots
<1> HIDE DEF d, n
<1>5. \A i \in Slots : Sq(dev(i)) = IF i = c THEN ((n - 1) * (n - 1)) * q ELSE q
  <2> TAKE i \in Slots
  <2>1. CASE i = c
    <3>1. n * (v + e) = n * v + n * e
      BY <1>3
    <3>2. dev(i) = (n - 1) * e
      BY <1>1, <1>2, <1>3, <2>1, <3>1
    <3>3. ((n - 1) * e) * ((n - 1) * e) = ((n - 1) * (n - 1)) * q
      BY <1>3
    <3> QED
      BY <2>1, <3>2, <3>3 DEF Sq
  <2>2. CASE i # c
    <3>1. n * v \in Int
      BY <1>3
    <3>2. dev(i) = -e
      BY <1>1, <1>2, <2>2, <3>1
    <3>3. (-e) * (-e) = q
      OBVIOUS
    <3> QED
      BY <2>2, <3>2, <3>3 DEF Sq
  <2> QED
    BY <2>1, <2>2
<1> HIDE DEF q, dev
<1>6. ASSUME NEW i \in Slots, i # c PROVE cleaned[i] = v
  <2>1. 4 * ((n - 1) * q) >= 4 * q /\ (q > 0 => 4 * ((n - 1) * q) > q) /\ (q = 0 => (n - 1) * q = 0)
    <3>1. (n - 2) * q >= 0
      BY <1>3
    <3>2. (n - 1) * q = (n - 2) * q + q
      BY <1>3
    <3>3. (n - 2) * q \in Int
      BY <1>3
    <3>4. q = 0 => (n - 2) * q = 0
      BY <1>3
    <3> QED
      BY <1>3, <3>1, <3>2, <3>3, <3>4
  <2>2. (n - 1) * q \in Int
    BY <1>3
  <2>3. ~Beyond(dev(i), Variance(d))
    BY <1>1, <1>3, <1>5, <1>6, <2>1, <2>2 DEF Beyond
  <2>4. ~OnLimit(dev(i), Variance(d))
    BY <1>1, <1>3, <1>5, <1>6, <2>1, <2>2 DEF OnLimit
  <2> QED
    BY <1>2, <1>4, <1>6, <2>3, <2>4
<1>7. ASSUME e = 0 PROVE cleaned[c] = v
  <2>1. q = 0 /\ ((n - 1) * (n - 1)) * q = 0 /\ (n - 1) * q = 0
    <3>1. q = 0
      BY <1>3, <1>7
    <3>2. n - 1 \in Int /\ (n - 1) * (n - 1) \in Int
      BY <1>3
    <3> QED
      BY <3>1, <3>2
  <2>2. ~Beyond(dev(c), Variance(d)) /\ ~OnLimit(dev(c), Variance(d))
    BY <1>1, <1>5, <2>1 DEF Beyond, OnLimit
  <2>3. cleaned[c] = v + e
    BY <1>2, <1>4, <2>2
  <2> QED
    BY <1>7, <2>3
<1>8. ASSUME e # 0 PROVE cleaned[c] = 0
  <2>1. q > 0
    BY <1>3, <1>8
  <2>2. ((n - 1) * (n - 1)) * q > 4 * ((n - 1) * q)
    <3> DEFINE m == (n - 1) * q
    <3>1. m \in Int /\ m > 0
      BY <1>3, <2>1
    <3>2. ((n - 1) * (n - 1)) * q = (n - 1) * m
      BY <1>3
    <3> HIDE DEF m
    <3>3. (n - 5) * m > 0
      BY <1>3, <3>1
    <3>4. (n - 1) * m = (n - 5) * m + 4 * m
      BY <1>3, <3>1
    <3>5. (n - 5) * m \in Int
      BY <1>3, <3>1
    <3>6. ((n - 1) * (n - 1)) * q > 4 * m
      BY <3>1, <3>2, <3>3, <3>4, <3>5
    <3> QED
      BY <3>6 DEF m
  <2>3. Beyond(dev(c), Variance(d))
    BY <1>1, <1>5, <2>2 DEF Beyond
  <2> QED
    BY <1>4, <2>3
<1> QED
  BY <1>6, <1>7, <1>8

LEMMA OtherSlot ==
    ASSUME WINDOW_SIZE > 5, NEW c \in Slots
    PROVE  \E i \in Slots : i # c
<1>1. 0 \in Slots /\ 1 \in Slots
  BY SlotsFacts
<1> QED
  BY <1>1

(* With more than five slots (the code has 65) a lone spike never reaches the report.           *)
THEOREM SpikeAlwaysAbsorbed ==
    ASSUME WINDOW_SIZE > 5
    PROVE  Spec => SpikeAbsorbed
<1> DEFINE Alone == /\ pc = "loop" /\ current_index' # current_index
                    /\ tempList[0] # 0 /\ \A i \in Slots : tempList[i] = tempList[0]
           Same == payload' = {[value  |-> tempList[0],
                                parity |-> calculate_odd_parity(tempList[0])]}
<1>1. TypeOK /\ [Next]_vars => (Alone => Same)
  <2> SUFFICES ASSUME TypeOK, [Next]_vars, Alone PROVE Same
    OBVIOUS
  <2> DEFINE v == tempList[0]
             c == current_index
  <2>1. Sample
    BY DEF Next, ReadFailed, InitAndReset, PollBoot, EnableSensor, FillWindow, vars
  <2>2. PICK t \in Int16 :
           /\ Filled(t) \in [Slots -> Int16]
           /\ tempList' \in remove_outliers(Filled(t), SumOf(Filled(t)), Variance(Filled(t)))
           /\ tempList' \in [Slots -> Int16]
           /\ \E value \in Rounded(calculate_average(tempList')) : Report(tempList', value)
    BY <2>1, SampleFacts
  <2>3. 0 \in Slots /\ c \in Slots /\ v \in Int16 /\ v \in Int /\ t \in Int
    <3>1. 0 \in Slots
      BY SlotsFacts
    <3>2. c \in Slots /\ v \in Int16
      BY <3>1 DEF TypeOK
    <3> QED
      BY <3>1, <3>2, SlotsFacts
  <2> DEFINE e == t - v
  <2>4. e \in Int /\ v + e = t
    BY <2>3
  <2>5. Filled(t) = Spiked(v, e, c)
    BY <2>3, <2>4 DEF Filled, Spiked, TypeOK
  <2> HIDE DEF e
  <2>6. \A i \in Slots : tempList'[i] = IF i = c /\ e # 0 THEN 0 ELSE v
    BY <2>2, <2>3, <2>4, <2>5, SpikeCleaned
  <2>7. Kept(tempList') # {} /\ \A i \in Kept(tempList') : tempList'[i] = v
    <3>1. PICK i \in Slots : i # c
      BY <2>3, OtherSlot
    <3> QED
      BY <2>6, <3>1 DEF Kept
  <2>8. PICK value \in Rounded(calculate_average(tempList')) : Report(tempList', value)
    BY <2>2
  <2>9. value = v
    <3>1. value \in Int16 /\ \E i \in Kept(tempList') : tempList'[i] <= value
          /\ \E j \in Kept(tempList') : value <= tempList'[j]
      BY <2>2, <2>7, RoundedAverage
    <3>2. v <= value /\ value <= v /\ value \in Int
      BY <2>7, <3>1, SlotsFacts
    <3> QED
      BY <2>3, <3>2
  <2> QED
    BY <2>8, <2>9 DEF Report
<1> QED
  BY <1>1, NodeTypeCorrect, PTL DEF Spec, SpikeAbsorbed

(* With more than five slots a window of zeros stays one.                                        *)
THEOREM ZeroWindowStays ==
    ASSUME WINDOW_SIZE > 5
    PROVE  Spec => ZeroWindowIsForever
<1> DEFINE Empty == pc = "loop" /\ Kept(tempList) = {}
           Stays == Kept(tempList') = {} /\ \A r \in payload' : r.value \in NaNAsInt16
<1>1. TypeOK /\ [Next]_vars => [Empty => Stays]_vars
  <2> SUFFICES ASSUME TypeOK, Next, Empty, ~UNCHANGED vars PROVE Stays
    OBVIOUS
  <2> DEFINE c == current_index
             z == 0
  <2>1. Sample
    BY DEF Next, ReadFailed, InitAndReset, PollBoot, EnableSensor, FillWindow
  <2>2. PICK t \in Int16 :
           /\ Filled(t) \in [Slots -> Int16]
           /\ tempList' \in remove_outliers(Filled(t), SumOf(Filled(t)), Variance(Filled(t)))
           /\ tempList' \in [Slots -> Int16]
           /\ \E value \in Rounded(calculate_average(tempList')) : Report(tempList', value)
    BY <2>1, SampleFacts
  <2>3. c \in Slots /\ t \in Int /\ z \in Int /\ z + t = t
    BY SlotsFacts DEF TypeOK
  <2>4. \A i \in Slots : tempList[i] = z
    BY DEF Kept
  <2> HIDE DEF z
  <2>5. Filled(t) = Spiked(z, t, c)
    BY <2>3, <2>4 DEF Filled, Spiked, TypeOK
  <2>6. \A i \in Slots : tempList'[i] = IF i = c /\ t # 0 THEN 0 ELSE z
    BY <2>2, <2>3, <2>5, SpikeCleaned
  <2>7. Kept(tempList') = {}
    BY <2>6 DEF Kept, z
  <2>8. PICK value \in Rounded(calculate_average(tempList')) : Report(tempList', value)
    BY <2>2
  <2>9. value \in NaNAsInt16
    BY <2>2, <2>7, RoundedAverage
  <2> QED
    BY <2>7, <2>8, <2>9 DEF Report
<1> QED
  BY <1>1, NodeTypeCorrect, PTL DEF Spec, ZeroWindowIsForever
-----------------------------------------------------------------------------
(* How far the boot has come: every step of it leads further, bootDealay's last poll too. *)
Rank ==
    CASE pc = "init" -> 0 [] pc = "poll" -> 1 + polls
      [] pc = "enable" -> 6 [] pc = "fill" -> 7 [] OTHER -> 8

Booted(k) == Rank >= k

LEMMA RankGrows ==
    TypeOK /\ [Next]_vars => /\ Rank \in 0 .. 8 /\ Rank' \in 0 .. 8
                             /\ Rank <= Rank'
                             /\ (pc # "loop" /\ <<Next>>_vars) => Rank < Rank'
<1> SUFFICES ASSUME TypeOK, [Next]_vars
             PROVE  /\ Rank \in 0 .. 8 /\ Rank' \in 0 .. 8
                    /\ Rank <= Rank'
                    /\ (pc # "loop" /\ <<Next>>_vars) => Rank < Rank'
  OBVIOUS
<1>1. pc \in {"init", "poll", "enable", "fill", "loop"} /\ polls \in 0 .. 4
  BY DEF TypeOK, MaxPolls
<1> USE DEF Rank, MaxPolls
<1>2. CASE InitAndReset
  <2>1. pc = "init" /\ pc' = "poll" /\ polls' = polls
    BY <1>2 DEF InitAndReset
  <2> QED
    BY <1>1, <2>1
<1>3. CASE PollBoot
  <2>1. /\ pc = "poll"
        /\ \/ pc' = "enable"
           \/ pc' = "poll" /\ polls' = polls + 1 /\ polls + 1 < 5
    BY <1>1, <1>3 DEF PollBoot
  <2> QED
    BY <1>1, <2>1
<1>4. CASE EnableSensor
  BY <1>1, <1>4 DEF EnableSensor
<1>5. CASE FillWindow
  BY <1>1, <1>5 DEF FillWindow
<1>6. CASE Sample
  BY <1>1, <1>6 DEF Sample
<1>7. CASE ReadFailed \/ UNCHANGED vars
  <2>1. pc' = pc /\ polls' = polls /\ ~<<Next>>_vars
    BY <1>7 DEF ReadFailed, vars
  <2> QED
    BY <1>1, <2>1
<1> QED
  BY <1>2, <1>3, <1>4, <1>5, <1>6, <1>7 DEF Next

LEMMA BootGoesOn ==
    ASSUME NEW k \in 0 .. 7
    PROVE  /\ TypeOK /\ [Next]_vars /\ Booted(k) => Booted(k)'
           /\ TypeOK /\ [Next]_vars /\ Booted(k) /\ pc # "loop" /\ <<Next>>_vars
                => Booted(k + 1)'
<1>1. TypeOK /\ [Next]_vars /\ Booted(k) => Booted(k)'
  BY RankGrows DEF Booted
<1>2. TypeOK /\ [Next]_vars /\ Booted(k) /\ pc # "loop" /\ <<Next>>_vars => Booted(k + 1)'
  BY RankGrows DEF Booted
<1> QED
  BY <1>1, <1>2

(* Whatever fails while the sensor boots, a BOOT bit that never clears included, main()   *)
(* reaches its loop (temp_sensor_reset and bootDealay).                                     *)
THEOREM BootAlwaysEnds == Spec => BootEnds
<1> DEFINE Looping == pc = "loop"
           Step(k) == /\ TypeOK /\ [Next]_vars /\ Booted(k) => Booted(k)'
                      /\ TypeOK /\ [Next]_vars /\ Booted(k) /\ ~Looping /\ <<Next>>_vars
                           => Booted(k + 1)'
<1>1. TypeOK => Booted(0)
  BY DEF TypeOK, MaxPolls, Booted, Rank
<1>2. TypeOK /\ Booted(8) => Looping
  BY DEF TypeOK, MaxPolls, Booted, Rank
<1>3. TypeOK /\ Looping /\ [Next]_vars => Looping'
  BY DEF Next, InitAndReset, PollBoot, EnableSensor, FillWindow, Sample, ReadFailed, vars
<1>4. \A k \in 0 .. 7 : Step(k)
  BY BootGoesOn
<1>5. /\ TypeOK /\ [Next]_vars /\ Booted(0) /\ ~Looping /\ <<Next>>_vars => Booted(1)'
      /\ TypeOK /\ [Next]_vars /\ Booted(1) /\ ~Looping /\ <<Next>>_vars => Booted(2)'
      /\ TypeOK /\ [Next]_vars /\ Booted(2) /\ ~Looping /\ <<Next>>_vars => Booted(3)'
      /\ TypeOK /\ [Next]_vars /\ Booted(3) /\ ~Looping /\ <<Next>>_vars => Booted(4)'
      /\ TypeOK /\ [Next]_vars /\ Booted(4) /\ ~Looping /\ <<Next>>_vars => Booted(5)'
      /\ TypeOK /\ [Next]_vars /\ Booted(5) /\ ~Looping /\ <<Next>>_vars => Booted(6)'
      /\ TypeOK /\ [Next]_vars /\ Booted(6) /\ ~Looping /\ <<Next>>_vars => Booted(7)'
      /\ TypeOK /\ [Next]_vars /\ Booted(7) /\ ~Looping /\ <<Next>>_vars => Booted(8)'
  BY <1>4
<1>6. /\ TypeOK /\ [Next]_vars /\ Booted(1) => Booted(1)'
      /\ TypeOK /\ [Next]_vars /\ Booted(2) => Booted(2)'
      /\ TypeOK /\ [Next]_vars /\ Booted(3) => Booted(3)'
      /\ TypeOK /\ [Next]_vars /\ Booted(4) => Booted(4)'
      /\ TypeOK /\ [Next]_vars /\ Booted(5) => Booted(5)'
      /\ TypeOK /\ [Next]_vars /\ Booted(6) => Booted(6)'
      /\ TypeOK /\ [Next]_vars /\ Booted(7) => Booted(7)'
  BY <1>4
<1>7. Spec => []TypeOK
  BY NodeTypeCorrect
<1>8. ~Looping <=> pc # "loop"
  OBVIOUS
<1> HIDE DEF Looping
<1>9. Spec => <>Looping
  BY <1>1, <1>2, <1>3, <1>5, <1>6, <1>7, <1>8, PTL DEF Spec, Fairness
<1> QED
  BY <1>9 DEF Looping, BootEnds
=============================================================================
