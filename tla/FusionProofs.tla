---------------------------- MODULE FusionProofs ----------------------------
EXTENDS Fusion, TLAPS

(* A square is not negative, and is zero only for zero.                         *)
LEMMA SquareSign ==
    ASSUME NEW x \in Int
    PROVE  Sq(x) \in Nat /\ (Sq(x) = 0 <=> x = 0)
BY DEF Sq

Triple == [Sensors -> Int]

LEMMA DevTypes ==
    ASSUME NEW r \in Triple
    PROVE  /\ \A k \in Sensors : r[k] \in Int /\ Dev(r, k) \in Int
           /\ Dev(r, "1") + Dev(r, "2") + Dev(r, "3") = 0
           /\ Spread(r) \in Nat
           /\ Spread(r) = 0 <=> \A k \in Sensors : Dev(r, k) = 0
<1>1. \A k \in Sensors : r[k] \in Int
  BY DEF Triple
<1>2. /\ Dev(r, "1") \in Int /\ Dev(r, "2") \in Int /\ Dev(r, "3") \in Int
      /\ Dev(r, "1") + Dev(r, "2") + Dev(r, "3") = 0
  BY <1>1 DEF Dev, Total, Sensors
<1>3. /\ Sq(Dev(r, "1")) \in Nat /\ (Sq(Dev(r, "1")) = 0 <=> Dev(r, "1") = 0)
      /\ Sq(Dev(r, "2")) \in Nat /\ (Sq(Dev(r, "2")) = 0 <=> Dev(r, "2") = 0)
      /\ Sq(Dev(r, "3")) \in Nat /\ (Sq(Dev(r, "3")) = 0 <=> Dev(r, "3") = 0)
  BY <1>2, SquareSign
<1>4. Spread(r) \in Nat /\ (Spread(r) = 0 <=> \A k \in Sensors : Dev(r, k) = 0)
  BY <1>3 DEF Spread, Sensors
<1> QED
  BY <1>1, <1>2, <1>4 DEF Sensors

(* The number of readings averaged: two or three, or none at all exactly when    *)
(* the three readings have no spread.                                            *)
LEMMA AveragedCount ==
    ASSUME NEW r \in Triple
    PROVE  /\ filter_outliers(r).n \in {0, 2, 3}
           /\ filter_outliers(r).sum \in Int
           /\ IsNaN(filter_outliers(r)) <=> Spread(r) = 0
<1> DEFINE x == Sq(Dev(r, "1"))
           y == Sq(Dev(r, "2"))
           z == Sq(Dev(r, "3"))
<1>1. x \in Nat /\ y \in Nat /\ z \in Nat /\ Spread(r) = x + y + z
  BY DevTypes, SquareSign DEF Spread, Sensors
<1>2. r["1"] \in Int /\ r["2"] \in Int /\ r["3"] \in Int
  BY DEF Triple, Sensors
<1> HIDE DEF x, y, z
<1>3. CASE Spread(r) = 0
  <2>1. \A d : ~KeptByServer(d, Spread(r))
    BY <1>3 DEF KeptByServer
  <2> QED
    BY <1>3, <2>1 DEF filter_outliers, Average, One, Part, IsNaN
<1>4. CASE Spread(r) > 0
  <2>1. /\ 300 * x <= 169 * Spread(r) \/ 300 * y <= 169 * Spread(r)
        /\ 300 * x <= 169 * Spread(r) \/ 300 * z <= 169 * Spread(r)
        /\ 300 * y <= 169 * Spread(r) \/ 300 * z <= 169 * Spread(r)
    BY <1>1, <1>4
  <2>2. /\ KeptByServer(Dev(r, "1"), Spread(r)) <=> 300 * x <= 169 * Spread(r)
        /\ KeptByServer(Dev(r, "2"), Spread(r)) <=> 300 * y <= 169 * Spread(r)
        /\ KeptByServer(Dev(r, "3"), Spread(r)) <=> 300 * z <= 169 * Spread(r)
    BY <1>4 DEF KeptByServer, WithinThreshold, x, y, z
  <2> QED
    BY <1>2, <1>4, <2>1, <2>2 DEF filter_outliers, Average, One, Part, IsNaN
<1> QED
  BY <1>1, <1>3, <1>4

(* The average of any subset of the readings lies between any bounds of all.     *)
LEMMA AverageWithinBounds ==
    ASSUME NEW r \in Triple, NEW lo \in Int, NEW hi \in Int,
           \A k \in Sensors : lo <= r[k] /\ r[k] <= hi,
           NEW k1 \in BOOLEAN, NEW k2 \in BOOLEAN, NEW k3 \in BOOLEAN
    PROVE  /\ Average(r, k1, k2, k3).n * lo <= Average(r, k1, k2, k3).sum
           /\ Average(r, k1, k2, k3).sum <= Average(r, k1, k2, k3).n * hi
<1>1. /\ r["1"] \in Int /\ lo <= r["1"] /\ r["1"] <= hi
      /\ r["2"] \in Int /\ lo <= r["2"] /\ r["2"] <= hi
      /\ r["3"] \in Int /\ lo <= r["3"] /\ r["3"] <= hi
  BY DEF Triple, Sensors
<1>2. /\ Average(r, k1, k2, k3).sum = Part(k1, r["1"]) + Part(k2, r["2"]) + Part(k3, r["3"])
      /\ Average(r, k1, k2, k3).n = One(k1) + One(k2) + One(k3)
  BY DEF Average
<1>3. CASE k1 = TRUE
  BY <1>1, <1>2, <1>3 DEF Part, One
<1>4. CASE k1 = FALSE
  BY <1>1, <1>2, <1>4 DEF Part, One
<1> QED
  BY <1>3, <1>4

(* A fused value lies between any bounds of the readings it was computed from.   *)
LEMMA FusedWithinBounds ==
    ASSUME NEW r \in Triple, NEW lo \in Int, NEW hi \in Int,
           \A k \in Sensors : lo <= r[k] /\ r[k] <= hi
    PROVE  /\ filter_outliers(r).n * lo <= filter_outliers(r).sum
           /\ filter_outliers(r).sum <= filter_outliers(r).n * hi
<1> DEFINE kept(k) == KeptByServer(Dev(r, k), Spread(r))
<1>1. kept("1") \in BOOLEAN /\ kept("2") \in BOOLEAN /\ kept("3") \in BOOLEAN
  BY DEF KeptByServer
<1>2. filter_outliers(r) = Average(r, kept("1"), kept("2"), kept("3"))
  BY DEF filter_outliers
<1> HIDE DEF kept
<1> QED
  BY <1>1, <1>2, AverageWithinBounds

(* When two sensors agree and the third differs, by however little, the third   *)
(* is rejected and the fused value is the one the two agree on.                   *)
LEMMA LoneSpike ==
    ASSUME NEW r \in Triple, NEW a \in Sensors, NEW b \in Sensors, NEW c \in Sensors,
           a # b, b # c, a # c, r[a] = r[b], r[c] # r[a]
    PROVE  filter_outliers(r) = [sum |-> 2 * r[a], n |-> 2]
<1> DEFINE d == r[c] - r[a]
           q == Sq(d)
<1>1. \A k \in Sensors : r[k] \in Int
  BY DEF Triple
<1>2. d \in Int /\ d # 0
  BY <1>1
<1>3. q \in Nat /\ q > 0
  BY <1>2, SquareSign
<1>4. Total(r) = 2 * r[a] + r[c]
  BY <1>1 DEF Total, Sensors
<1>5. Dev(r, a) = -d /\ Dev(r, b) = -d /\ Dev(r, c) = 2 * d
  BY <1>1, <1>4 DEF Dev
<1>6. Sq(-d) = q /\ Sq(2 * d) = 4 * q
  <2> HIDE DEF d
  <2> QED
    BY <1>2 DEF Sq
<1>7. Spread(r) = 6 * q
  BY <1>3, <1>5, <1>6 DEF Spread, Sensors
<1>8. Spread(r) > 0
  BY <1>3, <1>7
<1> HIDE DEF q, d
<1>9. /\ 300 * Sq(Dev(r, a)) <= 169 * Spread(r)
      /\ 300 * Sq(Dev(r, b)) <= 169 * Spread(r)
      /\ ~(300 * Sq(Dev(r, c)) <= 169 * Spread(r))
  BY <1>3, <1>5, <1>6, <1>7
<1>10. \A k \in Sensors : KeptByServer(Dev(r, k), Spread(r)) <=> k # c
  BY <1>8, <1>9 DEF KeptByServer, WithinThreshold, Sensors
<1>11. filter_outliers(r) = Average(r, "1" # c, "2" # c, "3" # c)
  BY <1>10 DEF filter_outliers, Sensors, Average, Part, One
<1> QED
  BY <1>1, <1>11 DEF Average, Part, One, Sensors

(* The arithmetic behind single-fault tolerance, for two readings w apart and a   *)
(* third t below the lower one: kept, it is at most 2 * w away.                    *)
LEMMA KeptIsNearArithmetic ==
    ASSUME NEW w \in Nat, NEW t \in Nat, t > 2 * w,
           NEW spread \in Int,
           spread = Sq(t - w) + Sq(2 * w + t) + Sq(2 * t + w)
    PROVE  ~WithinThreshold(2 * t + w, spread)
<1> DEFINE tt == t * t
           tw == t * w
           ww == w * w
<1>1. tt \in Nat /\ tw \in Nat /\ ww \in Nat
  OBVIOUS
<1>2. tw >= 2 * ww
  <2>1. (t - 2 * w) * w >= 0
    OBVIOUS
  <2> QED
    BY <2>1
<1>3. tt >= 2 * tw + 1
  <2>1. (t - 2 * w - 1) * t >= 0
    OBVIOUS
  <2> QED
    BY <2>1
<1>4. Sq(2 * t + w) = 4 * tt + 4 * tw + ww
  BY DEF Sq
<1>5. spread = 6 * tt + 6 * tw + 6 * ww
  BY DEF Sq
<1> HIDE DEF tt, tw, ww
<1> QED
  BY <1>1, <1>2, <1>3, <1>4, <1>5 DEF WithinThreshold

(* The sums of filter_outliers do not depend on the order of the sensors.         *)
LEMMA FilterOfAnyOrder ==
    ASSUME NEW r \in Triple, NEW a \in Sensors, NEW b \in Sensors, NEW c \in Sensors,
           a # b, b # c, a # c
    PROVE  LET kept(k) == KeptByServer(Dev(r, k), Spread(r))
           IN  /\ filter_outliers(r).sum =
                     Part(kept(a), r[a]) + Part(kept(b), r[b]) + Part(kept(c), r[c])
               /\ filter_outliers(r).n = One(kept(a)) + One(kept(b)) + One(kept(c))
               /\ Spread(r) = Sq(Dev(r, a)) + Sq(Dev(r, b)) + Sq(Dev(r, c))
               /\ Total(r) = r[a] + r[b] + r[c]
<1> DEFINE kept(k) == KeptByServer(Dev(r, k), Spread(r))
<1>1. \A k \in Sensors : r[k] \in Int /\ Dev(r, k) \in Int /\ Sq(Dev(r, k)) \in Nat
  BY DevTypes, SquareSign
<1>2. \A k \in Sensors : Part(kept(k), r[k]) \in Int /\ One(kept(k)) \in Int
  <2> HIDE DEF kept
  <2>1. \A k \in Sensors : Part(kept(k), r[k]) \in Int
    <3> TAKE k \in Sensors
    <3>1. CASE kept(k)
      BY <1>1, <3>1 DEF Part
    <3>2. CASE ~kept(k)
      BY <3>2 DEF Part
    <3> QED
      BY <3>1, <3>2
  <2>2. \A k \in Sensors : One(kept(k)) \in Int
    BY DEF One
  <2> QED
    BY <2>1, <2>2
<1>3. Spread(r) = Sq(Dev(r, a)) + Sq(Dev(r, b)) + Sq(Dev(r, c))
  BY <1>1 DEF Spread, Sensors
<1>4. Total(r) = r[a] + r[b] + r[c]
  BY <1>1 DEF Total, Sensors
<1>5. /\ filter_outliers(r).sum =
            Part(kept("1"), r["1"]) + Part(kept("2"), r["2"]) + Part(kept("3"), r["3"])
      /\ filter_outliers(r).n = One(kept("1")) + One(kept("2")) + One(kept("3"))
  BY DEF filter_outliers, Average
<1> HIDE DEF kept
<1>6. /\ filter_outliers(r).sum =
            Part(kept(a), r[a]) + Part(kept(b), r[b]) + Part(kept(c), r[c])
      /\ filter_outliers(r).n = One(kept(a)) + One(kept(b)) + One(kept(c))
  BY <1>2, <1>5 DEF Sensors
<1> QED
  BY <1>3, <1>4, <1>6 DEF kept

(* A reading the filter keeps is within twice the distance of the two others.      *)
LEMMA KeptIsNear ==
    ASSUME NEW r \in Triple, NEW a \in Sensors, NEW b \in Sensors, NEW c \in Sensors,
           a # b, b # c, a # c, r[a] <= r[b], KeptByServer(Dev(r, c), Spread(r))
    PROVE  /\ r[a] - 2 * (r[b] - r[a]) <= r[c]
           /\ r[c] <= r[b] + 2 * (r[b] - r[a])
<1> DEFINE w == r[b] - r[a]
<1>1. r[a] \in Int /\ r[b] \in Int /\ r[c] \in Int
  BY DEF Triple
<1>2. w \in Nat
  BY <1>1
<1>3. /\ Spread(r) = Sq(Dev(r, a)) + Sq(Dev(r, b)) + Sq(Dev(r, c))
      /\ Total(r) = r[a] + r[b] + r[c]
      /\ Spread(r) \in Int
  BY FilterOfAnyOrder, DevTypes
<1>4. WithinThreshold(Dev(r, c), Spread(r))
  BY DEF KeptByServer
<1>5. ASSUME r[c] < r[a] - 2 * w PROVE FALSE
  <2> DEFINE t == r[a] - r[c]
  <2>1. t \in Nat /\ t > 2 * w
    BY <1>1, <1>2, <1>5
  <2>2. Dev(r, a) = t - w /\ Dev(r, b) = 2 * w + t /\ Dev(r, c) = -(2 * t + w)
    BY <1>1, <1>3 DEF Dev
  <2>3. Sq(Dev(r, c)) = Sq(2 * t + w)
    <3> HIDE DEF t, w
    <3> QED
      BY <1>2, <2>1, <2>2 DEF Sq
  <2>4. Spread(r) = Sq(t - w) + Sq(2 * w + t) + Sq(2 * t + w)
    BY <1>3, <2>2, <2>3
  <2>5. WithinThreshold(2 * t + w, Spread(r))
    BY <1>4, <2>3 DEF WithinThreshold
  <2> HIDE DEF t, w
  <2> QED
    BY <1>2, <1>3, <2>1, <2>4, <2>5, KeptIsNearArithmetic
<1>6. ASSUME r[c] > r[b] + 2 * w PROVE FALSE
  <2> DEFINE t == r[c] - r[b]
  <2>1. t \in Nat /\ t > 2 * w
    BY <1>1, <1>2, <1>6
  <2>2. Dev(r, a) = -(2 * w + t) /\ Dev(r, b) = -(t - w) /\ Dev(r, c) = 2 * t + w
    BY <1>1, <1>3 DEF Dev
  <2>3. Sq(Dev(r, a)) = Sq(2 * w + t) /\ Sq(Dev(r, b)) = Sq(t - w)
    <3> HIDE DEF t, w
    <3> QED
      BY <1>2, <2>1, <2>2 DEF Sq
  <2>4. Spread(r) = Sq(t - w) + Sq(2 * w + t) + Sq(2 * t + w)
    <3>1. Sq(t - w) \in Int /\ Sq(2 * w + t) \in Int /\ Sq(2 * t + w) \in Int
      <4> HIDE DEF t, w
      <4> QED
        BY <1>2, <2>1 DEF Sq
    <3> QED
      BY <1>3, <2>2, <2>3, <3>1
  <2>5. WithinThreshold(2 * t + w, Spread(r))
    BY <1>4, <2>2 DEF WithinThreshold
  <2> HIDE DEF t, w
  <2> QED
    BY <1>2, <1>3, <2>1, <2>4, <2>5, KeptIsNearArithmetic
<1> QED
  BY <1>1, <1>5, <1>6

(* Whatever the third sensor reports, the fused value stays within the distance     *)
(* of the two others from the interval they span.                                    *)
LEMMA FaultBound ==
    ASSUME NEW r \in Triple, NEW a \in Sensors, NEW b \in Sensors,
           a # b, r[a] <= r[b], ~IsNaN(filter_outliers(r))
    PROVE  LET x == filter_outliers(r)
               w == r[b] - r[a]
           IN  x.n * (r[a] - w) <= x.sum /\ x.sum <= x.n * (r[b] + w)
<1> DEFINE x == filter_outliers(r)
           w == r[b] - r[a]
           kept(k) == KeptByServer(Dev(r, k), Spread(r))
<1>1. PICK c \in Sensors : b # c /\ a # c
  BY DEF Sensors
<1>2. r[a] \in Int /\ r[b] \in Int /\ r[c] \in Int
  BY DEF Triple
<1>3. /\ x.sum = Part(kept(a), r[a]) + Part(kept(b), r[b]) + Part(kept(c), r[c])
      /\ x.n = One(kept(a)) + One(kept(b)) + One(kept(c))
  BY <1>1, FilterOfAnyOrder
<1>4. kept(c) => r[a] - 2 * w <= r[c] /\ r[c] <= r[b] + 2 * w
  BY <1>1, KeptIsNear
<1>5. x.n \in {2, 3}
  BY AveragedCount DEF IsNaN
<1>6. kept(a) \in BOOLEAN /\ kept(b) \in BOOLEAN /\ kept(c) \in BOOLEAN
  BY DEF KeptByServer
<1> HIDE DEF kept, x
<1>7. x.n * (r[a] - w) <= x.sum /\ x.sum <= x.n * (r[b] + w)
  <2>1. CASE kept(a) /\ kept(b) /\ kept(c)
    BY <1>2, <1>3, <1>4, <2>1 DEF Part, One
  <2>2. CASE kept(a) /\ kept(b) /\ ~kept(c)
    BY <1>2, <1>3, <2>2 DEF Part, One
  <2>3. CASE kept(a) /\ ~kept(b) /\ kept(c)
    BY <1>2, <1>3, <1>4, <2>3 DEF Part, One
  <2>4. CASE ~kept(a) /\ kept(b) /\ kept(c)
    BY <1>2, <1>3, <1>4, <2>4 DEF Part, One
  <2> QED
    BY <1>3, <1>5, <2>1, <2>2, <2>3, <2>4 DEF One
<1> QED
  BY <1>7 DEF x
=============================================================================
