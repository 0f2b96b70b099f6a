---------------------------- MODULE ParityProofs ----------------------------
EXTENDS Parity, FiniteSetTheorems, TLAPS

(* The one bits of a value are finitely many, so counting them makes sense.    *)
LEMMA OneBitsFinite ==
    ASSUME NEW v \in Int
    PROVE  IsFiniteSet(OneBits(v)) /\ ones_count(v) \in Nat
<1>1. OneBits(v) \subseteq 0 .. WIDTH - 1
  BY DEF OneBits
<1>2. IsFiniteSet(0 .. WIDTH - 1)
  <2>1. 0 \in Int /\ WIDTH - 1 \in Int
    BY DEF WIDTH
  <2> QED
    BY <2>1, FS_Interval, Zenon
<1>3. IsFiniteSet(OneBits(v))
  BY <1>1, <1>2, FS_Subset
<1> QED
  BY <1>3, FS_CardinalityType DEF ones_count

(* Whatever int16 or integer a node rounds its average to, the server's test    *)
(* accepts it with the bit the node computed: an honest report is never dropped  *)
(* by parityCheck.                                                               *)
THEOREM HonestReportAccepted ==
    \A v \in Int : /\ calculate_odd_parity(v) \in {0, 1}
                   /\ parityCheck(v, calculate_odd_parity(v))
<1> TAKE v \in Int
<1>1. ones_count(v) \in Nat
  BY OneBitsFinite
<1> QED
  BY <1>1 DEF calculate_odd_parity, parityCheck, ones_count

(* One bit of the value changed on its way turns an accepted report into a        *)
(* mismatch and a mismatch into an accepted report.                               *)
THEOREM OneFlippedBitDetected ==
    ASSUME NEW v \in Int, NEW w \in Int, NEW i \in 0 .. WIDTH - 1, NEW parity \in Int,
           i \notin OneBits(v), OneBits(w) = OneBits(v) \cup {i}
    PROVE  parityCheck(w, parity) <=> ~parityCheck(v, parity)
<1>1. IsFiniteSet(OneBits(v)) /\ ones_count(v) \in Nat
  BY OneBitsFinite
<1>2. ones_count(w) = ones_count(v) + 1
  BY <1>1, FS_AddElement DEF ones_count
<1> QED
  BY <1>1, <1>2 DEF parityCheck
=============================================================================
