----------------------------- MODULE FusionCases -----------------------------
(***************************************************************************)
(* The fusion filter driven over every triple of readings: each step       *)
(* replaces the reading of one sensor, as one post to the server does.     *)
(***************************************************************************)
EXTENDS Fusion

CONSTANT Readings

ASSUME ReadingsAssumption == Readings \subseteq Int

VARIABLE r

TypeOK == r \in [Sensors -> Readings]

Init == r \in {[k \in Sensors |-> v] : v \in Readings}
Next == \E k \in Sensors, v \in Readings : r' = [r EXCEPT ![k] = v]
Spec == Init /\ [][Next]_r

Abs(x) == IF x < 0 THEN -x ELSE x
Unanimous(t) == t["1"] = t["2"] /\ t["2"] = t["3"]
HullLo(a, b) == IF a <= b THEN a ELSE b
HullHi(a, b) == IF a <= b THEN b ELSE a

(* "Since we are taking 3 values ... we can only find one outlier"          *)
(* (denoiser/readme.md:15): whatever the triple, a filter that averages      *)
(* averages at least two readings.                                           *)
AtMostOneRejected ==
    /\ denoiser_filter_outliers(r).n \in {2, 3}
    /\ filter_outliers(r).n \in {0, 2, 3}

(* The two implementations of the filter, Python on the server and C on the  *)
(* denoiser, compute the same average except that the server computes NaN     *)
(* exactly when the three readings agree.                                     *)
ServerAgreesWithDenoiser ==
    /\ Unanimous(r) <=> IsNaN(filter_outliers(r))
    /\ ~Unanimous(r) => filter_outliers(r) = denoiser_filter_outliers(r)
    /\ Unanimous(r) => denoiser_value(r) = r["1"]

(* Single-fault tolerance: whatever one sensor k reports, the fused value    *)
(* stays within |a - b| of the interval spanned by the two other sensors.     *)
OneFaultBounded ==
    LET x == filter_outliers(r)
    IN  ~IsNaN(x) =>
          \A a, b \in Sensors : a # b =>
             LET w == Abs(r[a] - r[b])
             IN  /\ x.sum >= x.n * (HullLo(r[a], r[b]) - w)
                 /\ x.sum <= x.n * (HullHi(r[a], r[b]) + w)
                 
(* A lone spike is dropped: when two sensors agree and the third differs,    *)
(* by however little, the third is rejected and the agreed value results.    *)
LoneSpikeDropped ==
    \A a, b, c \in Sensors :
       (a # b /\ b # c /\ a # c /\ r[a] = r[b] /\ r[c] # r[a])
          => filter_outliers(r) = [sum |-> 2 * r[a], n |-> 2]
=============================================================================
