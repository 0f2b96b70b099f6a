------------------------------- MODULE Fusion -------------------------------
(***************************************************************************)
(* The outlier filter that turns the readings of the three sensors of a    *)
(* site into one value: Temperature.filter_outliers of coap_server.py and  *)
(* filter_outliers of the denoiser node (denoiser/main.c).                 *)
(*                                                                         *)
(* Readings are integers (hundredths of a degree).  The mean and the       *)
(* standard deviation are kept exact by clearing denominators:             *)
(*     mean = Total / 3,   variance = Spread / 27,   r[k] - mean = Dev / 3 *)
(* so  |r[k] - mean| / std <= 1.3  is  300 * Dev^2 <= 169 * Spread  when    *)
(* Spread > 0.  Equality has no integer solution with Spread > 0, so the   *)
(* rounding of the code's floats never sits on the threshold.              *)
(***************************************************************************)
EXTENDS Integers

Sensors == {"1", "2", "3"}

Total(r)  == r["1"] + r["2"] + r["3"]
Dev(r, k) == 3 * r[k] - Total(r)
Sq(x)     == x * x
Spread(r) == Sq(Dev(r, "1")) + Sq(Dev(r, "2")) + Sq(Dev(r, "3"))

(* For comparison only: the deviation of a sample (ddof=1), and a threshold of 1.  *)
WithinThresholdSampleStd(dev, spread) == 200 * Sq(dev) <= 169 * spread
WithinOneDeviation(dev, spread)       == 300 * Sq(dev) <= 100 * spread

(* A z-score at most Z_THRESHOLD = 1.3 (coap_server.py, denoiser/main.c).    *)
WithinThreshold(dev, spread) == 300 * Sq(dev) <= 169 * spread

(* For comparison only: the server keeping a reading unless its z-score is beyond. *)
KeptUnlessBeyond(dev, spread) == WithinThreshold(dev, spread)

(* With no spread the server divides by a zero deviation: every z-score is    *)
(* NaN, `NaN <= z_threshold' is false and no reading is kept.                  *)
KeptByServer(dev, spread) == spread > 0 /\ WithinThreshold(dev, spread)

(* The denoiser tests `z_score > z_threshold', which is false for NaN too,     *)
(* and therefore keeps all three readings of a unanimous triple.               *)
KeptByDenoiser(dev, spread) == spread = 0 \/ WithinThreshold(dev, spread)

One(b)    == IF b THEN 1 ELSE 0
Part(b,v) == IF b THEN v ELSE 0

(* For comparison only: the sum of the kept readings divided by the number of sensors. *)
AverageOverThree(r, k1, k2, k3) ==
    [sum |-> Part(k1, r["1"]) + Part(k2, r["2"]) + Part(k3, r["3"]), n |-> 3]

(* The average of the kept readings as an exact fraction sum / n; n = 0 is     *)
(* np.mean([]), a NaN.                                                         *)
Average(r, k1, k2, k3) ==
    [sum |-> Part(k1, r["1"]) + Part(k2, r["2"]) + Part(k3, r["3"]),
     n   |-> One(k1) + One(k2) + One(k3)]

filter_outliers(r) ==
    LET q == Spread(r)
    IN  Average(r, KeptByServer(Dev(r, "1"), q), KeptByServer(Dev(r, "2"), q),
                KeptByServer(Dev(r, "3"), q))

IsNaN(x) == x.n = 0

denoiser_filter_outliers(r) ==
    LET q == Spread(r)
    IN  Average(r, KeptByDenoiser(Dev(r, "1"), q), KeptByDenoiser(Dev(r, "2"), q),
                KeptByDenoiser(Dev(r, "3"), q))

(* The denoiser returns (int16_t)mean: truncation toward zero. *)
denoiser_value(r) ==
    LET m == denoiser_filter_outliers(r)
    IN  IF m.sum >= 0 THEN m.sum \div m.n ELSE -((-m.sum) \div m.n)
=============================================================================
