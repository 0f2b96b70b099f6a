-------------------------- MODULE FusionCasesProofs --------------------------
(***************************************************************************)
(* What MCFusion checks on twelve readings, proved for any set of integer  *)
(* readings: every reachable r is a triple of integers, and the lemmas of  *)
(* FusionProofs hold of every triple of integers.                          *)
(***************************************************************************)
EXTENDS FusionCases, FusionProofs

LEMMA TypesHold == Spec => []TypeOK
<1>1. Init => TypeOK
  BY DEF Init, TypeOK
<1>2. TypeOK /\ [Next]_r => TypeOK'
  BY DEF TypeOK, Next
<1> QED
  BY <1>1, <1>2, PTL DEF Spec

LEMMA ReachableIsTriple ==
    ASSUME TypeOK
    PROVE  r \in Triple
BY ReadingsAssumption DEF TypeOK, Triple

(* Unanimity, no spread and the server's NaN are one condition.             *)
LEMMA UnanimousHasNoSpread ==
    ASSUME NEW t \in Triple
    PROVE  Unanimous(t) <=> Spread(t) = 0
<1> DEFINE x == t["1"]
           y == t["2"]
           z == t["3"]
<1>1. x \in Int /\ y \in Int /\ z \in Int
  BY DEF Triple, Sensors
<1>2. Unanimous(t) <=> x = y /\ y = z
  BY DEF Unanimous
<1>3. Spread(t) = 0 <=> Dev(t, "1") = 0 /\ Dev(t, "2") = 0 /\ Dev(t, "3") = 0
  BY DevTypes DEF Sensors
<1>4. /\ Dev(t, "1") = 3 * x - (x + y + z)
      /\ Dev(t, "2") = 3 * y - (x + y + z)
      /\ Dev(t, "3") = 3 * z - (x + y + z)
  BY DEF Dev, Total
<1> HIDE DEF x, y, z
<1> QED
  BY <1>1, <1>2, <1>3, <1>4

LEMMA DenoiserKeepsUnanimous ==
    ASSUME NEW t \in Triple, Spread(t) = 0
    PROVE  denoiser_filter_outliers(t) = [sum |-> t["1"] + t["2"] + t["3"], n |-> 3]
<1>1. \A d : KeptByDenoiser(d, Spread(t))
  BY DEF KeptByDenoiser
<1>2. t["1"] \in Int /\ t["2"] \in Int /\ t["3"] \in Int
  BY DEF Triple, Sensors
<1>3. denoiser_filter_outliers(t) = Average(t, TRUE, TRUE, TRUE)
  BY <1>1, ZenonT(30) DEF denoiser_filter_outliers, KeptByDenoiser
<1> QED
  BY <1>2, <1>3 DEF Average, Part, One

LEMMA SameFilterWithSpread ==
    ASSUME NEW t \in Triple, Spread(t) # 0
    PROVE  filter_outliers(t) = denoiser_filter_outliers(t)
<1>1. Spread(t) > 0
  BY DevTypes
<1>2. \A d : KeptByServer(d, Spread(t)) = KeptByDenoiser(d, Spread(t))
  BY <1>1 DEF KeptByServer, KeptByDenoiser
<1> QED
  BY <1>2 DEF filter_outliers, denoiser_filter_outliers

LEMMA DenoiserValueOfUnanimous ==
    ASSUME NEW t \in Triple, Unanimous(t)
    PROVE  denoiser_value(t) = t["1"]
<1>1. t["1"] \in Int /\ t["2"] = t["1"] /\ t["3"] = t["1"]
  BY DEF Triple, Sensors, Unanimous
<1>2. denoiser_filter_outliers(t) = [sum |-> 3 * t["1"], n |-> 3]
  BY <1>1, UnanimousHasNoSpread, DenoiserKeepsUnanimous
<1>3. \A x \in Int : (3 * x) \div 3 = x /\ -((-(3 * x)) \div 3) = x
  OBVIOUS
<1> QED
  BY <1>1, <1>2, <1>3 DEF denoiser_value

(* Whatever three sensors report, both filters average at least two readings *)
(* or, on the server, none.                                                   *)
THEOREM AtMostOneIsRejected == Spec => []AtMostOneRejected
<1>1. TypeOK => AtMostOneRejected
  <2> SUFFICES ASSUME TypeOK PROVE AtMostOneRejected
    OBVIOUS
  <2>1. r \in Triple
    BY ReachableIsTriple
  <2>2. filter_outliers(r).n \in {0, 2, 3} /\ (filter_outliers(r).n = 0 <=> Spread(r) = 0)
    BY <2>1, AveragedCount DEF IsNaN
  <2>3. CASE Spread(r) = 0
    BY <2>1, <2>2, <2>3, DenoiserKeepsUnanimous DEF AtMostOneRejected
  <2>4. CASE Spread(r) # 0
    BY <2>1, <2>2, <2>4, SameFilterWithSpread DEF AtMostOneRejected
  <2> QED
    BY <2>3, <2>4
<1> QED
  BY <1>1, TypesHold, PTL

(* The filters of the server and of the denoiser differ exactly on unanimous  *)
(* triples, where the server's average is NaN and the denoiser's is right.     *)
THEOREM FiltersAgree == Spec => []ServerAgreesWithDenoiser
<1>1. TypeOK => ServerAgreesWithDenoiser
  <2> SUFFICES ASSUME TypeOK PROVE ServerAgreesWithDenoiser
    OBVIOUS
  <2>1. r \in Triple
    BY ReachableIsTriple
  <2>2. Unanimous(r) <=> IsNaN(filter_outliers(r))
    BY <2>1, AveragedCount, UnanimousHasNoSpread
  <2>3. ~Unanimous(r) => filter_outliers(r) = denoiser_filter_outliers(r)
    BY <2>1, UnanimousHasNoSpread, SameFilterWithSpread
  <2>4. Unanimous(r) => denoiser_value(r) = r["1"]
    BY <2>1, DenoiserValueOfUnanimous
  <2> QED
    BY <2>2, <2>3, <2>4 DEF ServerAgreesWithDenoiser
<1> QED
  BY <1>1, TypesHold, PTL

(* One faulty sensor cannot move the fused value further than the distance of *)
(* the two others beyond their interval.                                       *)
THEOREM OneFaultIsBounded == Spec => []OneFaultBounded
<1>1. TypeOK => OneFaultBounded
  <2> SUFFICES ASSUME TypeOK, ~IsNaN(filter_outliers(r)),
                      NEW a \in Sensors, NEW b \in Sensors, a # b
               PROVE  LET x == filter_outliers(r)
                          w == Abs(r[a] - r[b])
                      IN  /\ x.sum >= x.n * (HullLo(r[a], r[b]) - w)
                          /\ x.sum <= x.n * (HullHi(r[a], r[b]) + w)
    BY DEF OneFaultBounded
  <2> DEFINE x == filter_outliers(r)
  <2>1. r \in Triple
    BY ReachableIsTriple
  <2>2. r[a] \in Int /\ r[b] \in Int /\ x.n \in Int /\ x.sum \in Int
    BY <2>1, AveragedCount DEF Triple
  <2>3. CASE r[a] <= r[b]
    <3>1. x.n * (r[a] - (r[b] - r[a])) <= x.sum /\ x.sum <= x.n * (r[b] + (r[b] - r[a]))
      BY <2>1, <2>3, FaultBound
    <3>2. /\ Abs(r[a] - r[b]) = r[b] - r[a]
          /\ HullLo(r[a], r[b]) = r[a] /\ HullHi(r[a], r[b]) = r[b]
      BY <2>2, <2>3 DEF Abs, HullLo, HullHi
    <3>3. /\ x.sum >= x.n * (HullLo(r[a], r[b]) - Abs(r[a] - r[b]))
          /\ x.sum <= x.n * (HullHi(r[a], r[b]) + Abs(r[a] - r[b]))
      <4> HIDE DEF x
      <4> QED
        BY <2>2, <3>1, <3>2
    <3> QED
      BY <3>3
  <2>4. CASE r[b] <= r[a]
    <3>1. x.n * (r[b] - (r[a] - r[b])) <= x.sum /\ x.sum <= x.n * (r[a] + (r[a] - r[b]))
      BY <2>1, <2>4, FaultBound
    <3>2. /\ Abs(r[a] - r[b]) = r[a] - r[b]
          /\ HullLo(r[a], r[b]) = r[b] /\ HullHi(r[a], r[b]) = r[a]
      BY <2>2, <2>4 DEF Abs, HullLo, HullHi
    <3>3. /\ x.sum >= x.n * (HullLo(r[a], r[b]) - Abs(r[a] - r[b]))
          /\ x.sum <= x.n * (HullHi(r[a], r[b]) + Abs(r[a] - r[b]))
      <4> HIDE DEF x
      <4> QED
        BY <2>2, <3>1, <3>2
    <3> QED
      BY <3>3
  <2> QED
    BY <2>2, <2>3, <2>4
<1> QED
  BY <1>1, TypesHold, PTL

(* A sensor that disagrees with two equal ones, by however little, is dropped.  *)
THEOREM LoneSpikeIsDropped == Spec => []LoneSpikeDropped
<1>1. TypeOK => LoneSpikeDropped
  BY ReachableIsTriple, LoneSpike DEF LoneSpikeDropped
<1> QED
  BY <1>1, TypesHold, PTL
=============================================================================
