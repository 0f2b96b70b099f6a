----------------------------- MODULE SensorNode -----------------------------
(***************************************************************************)
(* One sensor node: main() of compute_engine/main.c.  The node boots its   *)
(* LPS331AP sensor over I2C, fills a window with a first reading and then,  *)
(* for ever, stores a noisy reading, zeroes the outliers of the window and  *)
(* posts the rounded average of the rest with an odd parity bit.            *)
(*                                                                         *)
(* main() is one thread; its steps are the I2C transactions that can fail.  *)
(* Temperatures are int16_t hundredths of a degree.  Mean and deviation are *)
(* kept exact, multiplied by WINDOW_SIZE:                                    *)
(*    |d[i] - mean| <= 2.0 * stddev   is                                     *)
(*    (WINDOW_SIZE * d[i] - total)^2 <= 4 * (WINDOW_SIZE^2 * variance).      *)
(***************************************************************************)
EXTENDS Parity

CONSTANTS WINDOW_SIZE,  \* slots of tempList (65 in the code)
          Temps,        \* what lpsxxx_read_temp can return
          Noises,       \* what (int16_t)add_noise(789.2) can return
          NaNAsInt16    \* what the build makes of (int16_t)round(NaN)

INT16_MIN == -32768
INT16_MAX == 32767
Int16     == INT16_MIN .. INT16_MAX

ASSUME NodeAssumption ==
    /\ WINDOW_SIZE \in Nat \ {0}
    /\ Temps \subseteq Int16 /\ Noises \subseteq Int16 /\ NaNAsInt16 \subseteq Int16
    /\ NaNAsInt16 # {}

VARIABLES pc,            \* the next I2C transaction of main()
          polls,         \* i of bootDealay
          tempList,      \* data.tempList
          current_index,
          payload        \* the last report handed to gcoap_cli_cmd, {} before the first

vars == <<pc, polls, tempList, current_index, payload>>

windowVars == <<tempList, current_index, payload>>

MaxPolls == 5
Slots    == 0 .. WINDOW_SIZE - 1

int16(x) == ((x + 32768) % 65536) - 32768
Sq(x)    == x * x

(* The loop over the window that adds up its slots: the sum after i of them.         *)
Sums(f)  == LET s[i \in 0 .. WINDOW_SIZE] == IF i = 0 THEN 0 ELSE s[i - 1] + f[i - 1] IN s
SumOf(f) == Sums(f)[WINDOW_SIZE]

(* WINDOW_SIZE^2 times the variance, from which calculate_stddev takes the root. *)
Variance(d) == WINDOW_SIZE * SumOf([i \in Slots |-> Sq(d[i])]) - Sq(SumOf(d))

(* For comparison only: other values of DEVIATION_FACTOR. *)
BeyondThreeDeviations(dev, variance) == Sq(dev) > 9 * variance
BeyondOneDeviation(dev, variance)    == Sq(dev) > variance

(* DEVIATION_FACTOR is 2.0. *)
Beyond(dev, variance)  == Sq(dev) > 4 * variance
OnLimit(dev, variance) == variance > 0 /\ Sq(dev) = 4 * variance

(* remove_outliers, given the mean and the deviation of the same slots: outliers *)
(* become 0.  A slot exactly on the limit goes either way, as the rounding of     *)
(* the float mean and deviation decides; with no deviation both sides are 0 and   *)
(* the slot stays.                                                                *)
remove_outliers(d, total, variance) ==
    LET dev(i) == WINDOW_SIZE * d[i] - total
        over   == {i \in Slots : Beyond(dev(i), variance)}
        limit  == {i \in Slots : OnLimit(dev(i), variance)}
    IN  {[i \in Slots |-> IF i \in over \cup tie THEN 0 ELSE d[i]] : tie \in SUBSET limit}

Kept(d) == {i \in Slots : d[i] # 0}

(* For comparison only: the average counting the zeroed slots. *)
AverageOverAllSlots(d) == [sum |-> SumOf(d), n |-> WINDOW_SIZE]

(* calculate_average skips the zeroed slots; sum / 0 is NaN when none is left. *)
calculate_average(d) == [sum |-> SumOf(d), n |-> Cardinality(Kept(d))]

(* round(): half away from zero. *)
RoundedDiv(s, n) == IF s >= 0 THEN (2 * s + n) \div (2 * n) ELSE -((n - 2 * s) \div (2 * n))

(* (int16_t)round(avg_temp) *)
Rounded(a) == IF a.n = 0 THEN NaNAsInt16 ELSE {int16(RoundedDiv(a.sum, a.n))}

Init ==
    /\ pc = "init" /\ polls = 0 
    /\ tempList = [i \in Slots |-> 0] /\ current_index = 0 /\ payload = {}

(* lpsxxx_init and the write of CTRL_REG2: a failure is printed and otherwise     *)
(* ignored, so both outcomes lead on.                                              *)
InitAndReset == pc = "init" /\ pc' = "poll" /\ UNCHANGED <<polls, windowVars>>

(* For comparison only: bootDealay without the return at its last poll (its i kept *)
(* small).                                                                         *)
PollUnbounded ==
    /\ pc = "poll"
    /\ \/ pc' = "enable" /\ polls' = 0
       \/ pc' = "poll" /\ polls' = (polls + 1) % MaxPolls
    /\ UNCHANGED windowVars

(* bootDealay: give up when the register cannot be read, go on when the BOOT    *)
(* bit is clear, or after MaxPolls polls whatever the bit says.  i is a local,  *)
(* gone when bootDealay returns.                                                *)
PollBoot ==
    /\ pc = "poll"
    /\ \/ pc' = "enable" /\ polls' = 0
       \/ IF polls + 1 >= MaxPolls THEN pc' = "enable" /\ polls' = 0
                                   ELSE pc' = "poll" /\ polls' = polls + 1
    /\ UNCHANGED windowVars

(* lpsxxx_enable: temp_sensor_reset returns 1 when it fails and main() compares *)
(* the result with -1, so a failure leads on without a word.                     *)
EnableSensor == pc = "enable" /\ pc' = "fill" /\ UNCHANGED <<polls, windowVars>>

(* The first reading fills the window; its return code is not looked at, so a    *)
(* failed read fills it with the initial 0.                                      *)
FillWindow ==
    /\ pc = "fill" /\ pc' = "loop"
    /\ \E initial_temp \in Temps \cup {0} : tempList' = [i \in Slots |-> initial_temp]
    /\ UNCHANGED <<polls, current_index, payload>>

(* For comparison only: the index wrapping one slot late. *)
ReportIndexPastEnd(d, value) ==
    /\ tempList' = d
    /\ current_index' = IF current_index + 1 > WINDOW_SIZE THEN 0 ELSE current_index + 1
    /\ payload' = {[value |-> value, parity |-> calculate_odd_parity(value)]}

(* The window, the index and the message of a finished turn. *)
Report(d, value) ==
    /\ tempList' = d
    /\ current_index' = IF current_index + 1 >= WINDOW_SIZE THEN 0 ELSE current_index + 1
    /\ payload' = {[value |-> value, parity |-> calculate_odd_parity(value)]}

(* A successful turn of the loop, from the reading to the call of gcoap_cli_cmd. *)
Sample ==
    /\ pc = "loop" /\ UNCHANGED <<pc, polls>>
    /\ \E temp_n_noise \in {int16(temp + noise) : temp \in Temps, noise \in Noises} :
          LET d == [tempList EXCEPT ![current_index] = temp_n_noise]
          IN  \E total \in {SumOf(d)}, variance \in {Variance(d)} :
                \E cleaned \in remove_outliers(d, total, variance) :
                  \E value \in Rounded(calculate_average(cleaned)) : Report(cleaned, value)

(* A failed read skips the whole turn: nothing is stored and nothing is sent.     *)
ReadFailed == pc = "loop" /\ UNCHANGED vars

Next ==
    \/ InitAndReset \/ PollBoot \/ EnableSensor \/ FillWindow
    \/ Sample \/ ReadFailed

(* main() is the only thread of its priority and every step ends in a timed sleep or an *)
(* I2C call that returns: while it has not reached its loop, it goes on (weak fairness,  *)
(* the state predicate being ENABLED of the step).  In its loop it may fail for ever.     *)
Fairness == []<>(pc # "loop") => []<><<Next>>_vars

Spec == Init /\ [][Next]_vars /\ Fairness
-----------------------------------------------------------------------------
TypeOK ==
    /\ pc \in {"init", "poll", "enable", "fill", "loop"}
    /\ polls \in 0 .. MaxPolls - 1
    /\ tempList \in [Slots -> Int16]
    /\ current_index \in Slots
    /\ payload \in SUBSET [value : Int16, parity : {0, 1}]

(* A lone spike, however large, never reaches the report: from a window in which    *)
(* every slot is v, one more reading of any value reports v again.                   *)
SpikeAbsorbed ==
    [][(/\ pc = "loop" /\ current_index' # current_index
        /\ tempList[0] # 0 /\ \A i \in Slots : tempList[i] = tempList[0])
         => payload' = {[value  |-> tempList[0],
                         parity |-> calculate_odd_parity(tempList[0])]}]_vars

(* One cleaning removes the readings collected before the newest one from at most a      *)
(* quarter of the window's slots (Chebyshev's inequality for DEVIATION_FACTOR 2.0),       *)
(* although the reading that just came takes part in the deviation.                        *)
CleaningRemovesFew ==
    [][pc = "loop" =>
         4 * Cardinality({i \in Slots \ {current_index} :
                            tempList[i] # 0 /\ tempList'[i] = 0}) <= WINDOW_SIZE]_vars

(* A window of zeros is a trap: every later reading is an outlier among the zeros,     *)
(* is zeroed at once, and the node reports the conversion of NaN for ever.             *)
ZeroWindowIsForever ==
    [][(pc = "loop" /\ Kept(tempList) = {}) =>
         Kept(tempList') = {} /\ \A r \in payload' : r.value \in NaNAsInt16]_vars

(* A report lies between two of the readings left in the window it was computed from.   *)
ReportWithinKept ==
    \A r \in payload : Kept(tempList) # {} =>
       /\ \E i \in Kept(tempList) : tempList[i] <= r.value
       /\ \E i \in Kept(tempList) : r.value <= tempList[i]

(* Whatever fails while the sensor boots, a stuck BOOT bit included, main() reaches      *)
(* its loop.                                                                              *)
BootEnds == <>(pc = "loop")
-----------------------------------------------------------------------------
(* README.md:273: "Use the cleanup window again to calculte more correct average":         *)
(* a window with readings left still has some after the next cleaning.                     *)
CleanWindowStaysUsable == [][Kept(tempList) # {} => Kept(tempList') # {}]_vars
=============================================================================
