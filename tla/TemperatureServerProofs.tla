----------------------- MODULE TemperatureServerProofs -----------------------
(***************************************************************************)
(* For every window size and every set of posts: the type invariant, what  *)
(* the rings hold, and that the server implements the abstract cell.       *)
(***************************************************************************)
EXTENDS TemperatureServer, FusionProofs, SequenceTheorems

(* What a ring holds, slot by slot, in terms of the readings stored: the slots  *)
(* below the index hold the newest index readings, those above it the oldest     *)
(* ones, or the initial zeros while the window has not been filled.              *)
RingHolds(w, h) ==
    /\ Len(h) <= WINDOW_SIZE
    /\ Len(h) < WINDOW_SIZE => w.index = Len(h)
    /\ \A j \in Slots :
          w.values[j] = IF j < w.index THEN h[Len(h) - w.index + j + 1]
                        ELSE IF Len(h) = WINDOW_SIZE THEN h[j - w.index + 1] ELSE 0

IInv ==
    /\ TypeOK
    /\ \A s \in Tracked, k \in Sensors : RingHolds(site_data[s][k], accepted[s][k])

(* The index that follows i in the ring.                                         *)
LEMMA NextIndex ==
    ASSUME NEW i \in Slots
    PROVE  (i + 1) % WINDOW_SIZE = (IF i + 1 = WINDOW_SIZE THEN 0 ELSE i + 1)
BY WindowAssumption DEF Slots

LEMMA ReadingsAreIntegers == Readings \subseteq Int /\ \A p \in Posts : p.reading \in Readings
BY PostsAssumption DEF Readings

(* The history after one more reading, element by element.                        *)
LEMMA ShiftProperties ==
    ASSUME NEW h \in Seq(Readings), Len(h) <= WINDOW_SIZE, NEW v \in Readings
    PROVE  /\ Shift(h, v) \in Seq(Readings)
           /\ Len(h) = WINDOW_SIZE =>
                /\ Len(Shift(h, v)) = WINDOW_SIZE
                /\ \A i \in 1 .. WINDOW_SIZE :
                      Shift(h, v)[i] = IF i = WINDOW_SIZE THEN v ELSE h[i + 1]
           /\ Len(h) < WINDOW_SIZE =>
                /\ Len(Shift(h, v)) = Len(h) + 1
                /\ \A i \in 1 .. Len(h) + 1 :
                      Shift(h, v)[i] = IF i = Len(h) + 1 THEN v ELSE h[i]
<1>0. Len(h) \in Nat
  BY LenProperties
<1>1. CASE Len(h) = WINDOW_SIZE
  <2>1. h # <<>>
    BY <1>1, WindowAssumption
  <2>2. /\ Tail(h) \in Seq(Readings) /\ Len(Tail(h)) = Len(h) - 1
        /\ \A i \in 1 .. Len(Tail(h)) : Tail(h)[i] = h[i + 1]
    BY <2>1, HeadTailProperties
  <2>3. /\ Append(Tail(h), v) \in Seq(Readings)
        /\ Len(Append(Tail(h), v)) = Len(Tail(h)) + 1
        /\ \A i \in 1 .. Len(Tail(h)) : Append(Tail(h), v)[i] = Tail(h)[i]
        /\ Append(Tail(h), v)[Len(Tail(h)) + 1] = v
    BY <2>2, AppendProperties
  <2>4. Shift(h, v) = Append(Tail(h), v)
    BY <1>1 DEF Shift
  <2> QED
    BY <1>0, <1>1, <2>2, <2>3, <2>4, WindowAssumption
<1>2. CASE Len(h) < WINDOW_SIZE
  <2>1. Shift(h, v) = Append(h, v)
    BY <1>0, <1>2, WindowAssumption DEF Shift
  <2>2. /\ Append(h, v) \in Seq(Readings)
        /\ Len(Append(h, v)) = Len(h) + 1
        /\ \A i \in 1 .. Len(h) : Append(h, v)[i] = h[i]
        /\ Append(h, v)[Len(h) + 1] = v
    BY AppendProperties
  <2> QED
    BY <1>0, <1>2, <2>1, <2>2, WindowAssumption
<1> QED
  BY <1>0, <1>1, <1>2, WindowAssumption

(* Storing a reading and moving the index keeps the ring in step with the history. *)
LEMMA RingStep ==
    ASSUME NEW w \in Window, NEW h \in Seq(Readings), RingHolds(w, h), NEW v \in Readings
    PROVE  /\ Advanced(Stored(w, v)) \in Window
           /\ RingHolds(Advanced(Stored(w, v)), Shift(h, v))
<1> DEFINE i == w.index
           g == Shift(h, v)
           z == Advanced(Stored(w, v))
<1>1. /\ w.values \in [Slots -> Readings \cup {0}] /\ i \in Slots
      /\ w = [values |-> w.values, index |-> i]
  BY DEF Window
<1>2. z = [values |-> [w.values EXCEPT ![i] = v], index |-> (i + 1) % WINDOW_SIZE]
  <2> DEFINE y == [values |-> [w.values EXCEPT ![i] = v], index |-> i]
  <2>1. Stored(w, v) = y
    BY <1>1 DEF Stored
  <2>2. Advanced(y) = [values |-> [w.values EXCEPT ![i] = v], index |-> (i + 1) % WINDOW_SIZE]
    BY DEF Advanced
  <2> QED
    BY <2>1, <2>2
<1>3. z.index = (IF i + 1 = WINDOW_SIZE THEN 0 ELSE i + 1)
  BY <1>1, <1>2, NextIndex
<1>4. z.index \in Slots
  BY <1>1, <1>3, WindowAssumption DEF Slots
<1>5. z \in Window
  BY <1>1, <1>2, <1>4 DEF Window
<1>6. \A j \in Slots : z.values[j] = IF j = i THEN v ELSE w.values[j]
  BY <1>1, <1>2
<1>7. Len(h) \in Nat /\ Len(h) <= WINDOW_SIZE
  BY LenProperties DEF RingHolds
<1> HIDE DEF z, g
<1>8. CASE Len(h) = WINDOW_SIZE
  <2>1. /\ Len(g) = WINDOW_SIZE
        /\ \A n \in 1 .. WINDOW_SIZE : g[n] = IF n = WINDOW_SIZE THEN v ELSE h[n + 1]
    BY <1>7, <1>8, ShiftProperties DEF g
  <2>2. \A j \in Slots : w.values[j] = IF j < i THEN h[WINDOW_SIZE - i + j + 1]
                                                ELSE h[j - i + 1]
    BY <1>8 DEF RingHolds
  <2>3. ASSUME NEW j \in Slots
        PROVE  z.values[j] = IF j < z.index THEN g[WINDOW_SIZE - z.index + j + 1]
                                            ELSE g[j - z.index + 1]
    <3>1. z.values[j] = IF j = i THEN v ELSE IF j < i THEN h[WINDOW_SIZE - i + j + 1]
                                                      ELSE h[j - i + 1]
      BY <1>6, <2>2
    <3>2. j \in Int /\ 0 <= j /\ j < WINDOW_SIZE /\ i \in Int /\ 0 <= i /\ i < WINDOW_SIZE
      BY <1>1, WindowAssumption DEF Slots
    <3>3. CASE i + 1 = WINDOW_SIZE
      <4>1. g[j - z.index + 1] = IF j + 1 = WINDOW_SIZE THEN v ELSE h[j + 2]
        BY <1>3, <2>1, <3>2, <3>3, WindowAssumption
      <4> QED
        BY <1>3, <3>1, <3>2, <3>3, <4>1, WindowAssumption
    <3>4. CASE i + 1 # WINDOW_SIZE
      <4>1. z.index = i + 1
        BY <1>3, <3>4
      <4>2. CASE j <= i
        <5>1. g[WINDOW_SIZE - z.index + j + 1] =
                IF j = i THEN v ELSE h[WINDOW_SIZE - i + j + 1]
          <6> DEFINE n == WINDOW_SIZE - i + j
          <6>1. n \in 1 .. WINDOW_SIZE /\ (n = WINDOW_SIZE <=> j = i)
            BY <3>2, <4>2, WindowAssumption
          <6>2. WINDOW_SIZE - z.index + j + 1 = n /\ n + 1 = WINDOW_SIZE - i + j + 1
            BY <3>2, <4>1, WindowAssumption
          <6>3. g[n] = IF n = WINDOW_SIZE THEN v ELSE h[n + 1]
            BY <2>1, <6>1
          <6> HIDE DEF n
          <6> QED
            BY <6>1, <6>2, <6>3
        <5> QED
          BY <3>1, <3>2, <4>1, <4>2, <5>1
      <4>3. CASE j > i
        <5>1. g[j - z.index + 1] = h[j - i + 1]
          <6> DEFINE n == j - i
          <6>1. n \in 1 .. WINDOW_SIZE /\ n # WINDOW_SIZE
            BY <3>2, <4>3, WindowAssumption
          <6>2. j - z.index + 1 = n /\ n + 1 = j - i + 1
            BY <3>2, <4>1
          <6>3. g[n] = h[n + 1]
            BY <2>1, <6>1
          <6> HIDE DEF n
          <6> QED
            BY <6>2, <6>3
        <5> QED
          BY <3>1, <3>2, <4>1, <4>3, <5>1
      <4> QED
        BY <3>2, <4>2, <4>3
    <3> QED
      BY <3>3, <3>4
  <2> QED
    <3>1. Len(g) <= WINDOW_SIZE /\ ~(Len(g) < WINDOW_SIZE)
      BY <2>1, WindowAssumption
    <3>2. RingHolds(z, g)
      BY <2>1, <2>3, <3>1 DEF RingHolds
    <3> QED
      BY <1>5, <3>2 DEF z, g
<1>9. CASE Len(h) < WINDOW_SIZE
  <2>1. /\ Len(g) = Len(h) + 1
        /\ \A n \in 1 .. Len(h) + 1 : g[n] = IF n = Len(h) + 1 THEN v ELSE h[n]
    BY <1>7, <1>9, ShiftProperties DEF g
  <2>2. i = Len(h)
    BY <1>9 DEF RingHolds
  <2>3. \A j \in Slots : w.values[j] = IF j < i THEN h[j + 1] ELSE 0
    BY <1>7, <1>9, <2>2, WindowAssumption DEF RingHolds, Slots
  <2>4. ASSUME NEW j \in Slots
        PROVE  z.values[j] = IF j < z.index THEN g[Len(g) - z.index + j + 1]
                             ELSE IF Len(g) = WINDOW_SIZE THEN g[j - z.index + 1] ELSE 0
    <3>1. CASE i + 1 = WINDOW_SIZE
      BY <1>3, <1>6, <1>7, <2>1, <2>2, <2>3, <3>1, WindowAssumption DEF Slots
    <3>2. CASE i + 1 # WINDOW_SIZE
      BY <1>3, <1>6, <1>7, <1>9, <2>1, <2>2, <2>3, <3>2, WindowAssumption DEF Slots
    <3> QED
      BY <3>1, <3>2
  <2>5. Len(g) <= WINDOW_SIZE /\ (Len(g) < WINDOW_SIZE => z.index = Len(g))
    BY <1>3, <1>7, <1>9, <2>1, <2>2, WindowAssumption
  <2> QED
    <3>1. RingHolds(z, g)
      BY <2>4, <2>5 DEF RingHolds
    <3> QED
      BY <1>5, <3>1 DEF z, g
<1> QED
  BY <1>7, <1>8, <1>9, WindowAssumption

-----------------------------------------------------------------------------
LEMMA InitIInv == Init => IInv
<1> SUFFICES ASSUME Init PROVE IInv
  OBVIOUS
<1>0. 0 \in Slots
  BY WindowAssumption DEF Slots
<1>1. EmptyWindow \in Window
  BY <1>0 DEF EmptyWindow, Window
<1>2. site_data \in [Tracked -> [Sensors -> Window]]
  BY <1>1 DEF Init, InitialData
<1>3. accepted \in [Tracked -> [Sensors -> Seq(Readings)]]
  BY DEF Init
<1>4. TypeOK
  BY <1>2, <1>3 DEF Init, TypeOK, Outcomes
<1>5. ASSUME NEW s \in Tracked, NEW k \in Sensors
      PROVE  RingHolds(site_data[s][k], accepted[s][k])
  <2>1. site_data[s][k] = EmptyWindow /\ accepted[s][k] = <<>>
    BY DEF Init, InitialData
  <2>2. Len(<<>>) = 0 /\ EmptyWindow.index = 0 /\ \A j \in Slots : EmptyWindow.values[j] = 0
    BY DEF EmptyWindow
  <2> QED
    BY <2>1, <2>2, WindowAssumption DEF RingHolds, Slots
<1> QED
  BY <1>4, <1>5 DEF IInv

(* The readings a post makes the server fuse are three integers.                   *)
LEMMA HeldIsTriple ==
    ASSUME NEW d \in [Tracked -> [Sensors -> Window]], NEW s \in Tracked
    PROVE  HeldIn(d, s) \in Triple
<1>1. WINDOW_SIZE - 1 \in Slots
  BY WindowAssumption DEF Slots
<1>2. \A k \in Sensors : d[s][k].values[WINDOW_SIZE - 1] \in Int
  <2> TAKE k \in Sensors
  <2>1. d[s][k] \in Window
    OBVIOUS
  <2>2. d[s][k].values \in [Slots -> Readings \cup {0}]
    BY <2>1 DEF Window
  <2>3. d[s][k].values[WINDOW_SIZE - 1] \in Readings \cup {0}
    BY <1>1, <2>2
  <2>4. \A v \in Readings \cup {0} : v \in Int
    <3>1. Readings \subseteq Int
      BY ReadingsAreIntegers
    <3> QED
      BY <3>1
  <2> QED
    BY <2>3, <2>4
<1> QED
  BY <1>2 DEF HeldIn, Last, Triple

LEMMA AcceptIInv ==
    ASSUME IInv, NEW p \in Posts, Accept(p)
    PROVE  IInv'
<1> DEFINE s == sites[p.site]
           k == p.sensor
           v == p.reading
<1>1. s \in Tracked /\ k \in Sensors /\ v \in Readings
  BY ReadingsAreIntegers DEF Accept, TrackedPost
<1>2. /\ site_data \in [Tracked -> [Sensors -> Window]]
      /\ accepted \in [Tracked -> [Sensors -> Seq(Readings)]]
      /\ point \in [Tracked -> SUBSET [sum : Int, n : {2, 3}]]
      /\ RingHolds(site_data[s][k], accepted[s][k])
  BY <1>1 DEF IInv, TypeOK
<1>3. /\ site_data' = [site_data EXCEPT ![s][k] = Advanced(Stored(@, v))]
      /\ accepted' = [accepted EXCEPT ![s][k] = Shift(@, v)]
  BY DEF Accept
<1> HIDE DEF s, k, v
<1>4. /\ Advanced(Stored(site_data[s][k], v)) \in Window
      /\ RingHolds(Advanced(Stored(site_data[s][k], v)), Shift(accepted[s][k], v))
  BY <1>1, <1>2, RingStep
<1>5. Shift(accepted[s][k], v) \in Seq(Readings)
  BY <1>1, <1>2, ShiftProperties DEF RingHolds
<1>6. site_data' \in [Tracked -> [Sensors -> Window]]
  BY <1>1, <1>2, <1>3, <1>4
<1>7. accepted' \in [Tracked -> [Sensors -> Seq(Readings)]]
  BY <1>1, <1>2, <1>3, <1>5
<1>8. point' \in [Tracked -> SUBSET [sum : Int, n : {2, 3}]] /\ outcome' \in Outcomes
  <2>1. PICK x \in {filter_outliers(HeldIn(site_data', s))} : sendInfluxdb(s, x)
    BY DEF Accept, s
  <2>2. HeldIn(site_data', s) \in Triple
    BY <1>1, <1>6, HeldIsTriple
  <2>3. x.n \in {0, 2, 3} /\ x.sum \in Int /\ x = [sum |-> x.sum, n |-> x.n]
    BY <2>1, <2>2, AveragedCount DEF filter_outliers, Average
  <2>4. CASE ~IsNaN(x) /\ point' = [point EXCEPT ![s] = {x}] /\ outcome' = "OK"
    <3>1. x \in [sum : Int, n : {2, 3}]
      BY <2>3, <2>4 DEF IsNaN
    <3> QED
      BY <1>1, <1>2, <2>4, <3>1 DEF Outcomes
  <2>5. CASE /\ UNCHANGED point
             /\ outcome' = IF IsNaN(x) THEN "NaN not saved" ELSE "average not saved"
    BY <1>2, <2>5 DEF Outcomes
  <2> QED
    BY <2>1, <2>4, <2>5 DEF sendInfluxdb
<1>9. ASSUME NEW t \in Tracked, NEW j \in Sensors
      PROVE  RingHolds(site_data'[t][j], accepted'[t][j])
  <2>1. CASE t = s /\ j = k
    BY <1>1, <1>2, <1>3, <1>4, <2>1
  <2>2. CASE t # s \/ j # k
    <3>1. site_data'[t][j] = site_data[t][j] /\ accepted'[t][j] = accepted[t][j]
      BY <1>1, <1>2, <1>3, <2>2
    <3> QED
      BY <3>1 DEF IInv
  <2> QED
    BY <2>1, <2>2
<1>10. (\A t \in Tracked, j \in Sensors : RingHolds(site_data[t][j], accepted[t][j]))'
  BY <1>9
<1> QED
  BY <1>6, <1>7, <1>8, <1>10 DEF IInv, TypeOK

LEMMA RaiseIInv ==
    ASSUME IInv, NEW how \in Outcomes, Raise(how)
    PROVE  IInv'
BY DEF Raise, IInv, TypeOK, RingHolds

LEMMA RestartIInv ==
    ASSUME IInv, Restart
    PROVE  IInv'
<1>0. 0 \in Slots
  BY WindowAssumption DEF Slots
<1>1. EmptyWindow \in Window
  BY <1>0 DEF EmptyWindow, Window
<1>2. site_data' \in [Tracked -> [Sensors -> Window]]
  BY <1>1 DEF Restart, InitialData
<1>3. accepted' \in [Tracked -> [Sensors -> Seq(Readings)]]
  BY DEF Restart
<1>4. TypeOK'
  BY <1>2, <1>3 DEF IInv, Restart, TypeOK, Outcomes
<1>5. ASSUME NEW s \in Tracked, NEW k \in Sensors
      PROVE  RingHolds(site_data'[s][k], accepted'[s][k])
  <2>1. site_data'[s][k] = EmptyWindow /\ accepted'[s][k] = <<>>
    BY DEF Restart, InitialData
  <2>2. Len(<<>>) = 0 /\ EmptyWindow.index = 0 /\ \A j \in Slots : EmptyWindow.values[j] = 0
    BY DEF EmptyWindow
  <2> QED
    BY <2>1, <2>2, WindowAssumption DEF RingHolds, Slots
<1>6. (\A s \in Tracked, k \in Sensors : RingHolds(site_data[s][k], accepted[s][k]))'
  BY <1>5
<1> QED
  BY <1>4, <1>6 DEF IInv

LEMMA NextIInv == IInv /\ [Next]_vars => IInv'
<1> SUFFICES ASSUME IInv, [Next]_vars PROVE IInv'
  OBVIOUS
<1>1. CASE Restart
  BY <1>1, RestartIInv
<1>2. ASSUME NEW p \in Posts, render_post(p) PROVE IInv'
  <2>1. CASE Accept(p)
    BY <2>1, AcceptIInv
  <2>2. CASE \E how \in Outcomes : Raise(how)
    BY <2>2, RaiseIInv
  <2> QED
    BY <1>2, <2>1, <2>2 DEF render_post, Mismatch, UnknownSite, UntrackedSite,
                             UnknownSensor, Outcomes
<1>3. CASE UNCHANGED vars
  BY <1>3 DEF vars, IInv, TypeOK, RingHolds
<1> QED
  BY <1>1, <1>2, <1>3 DEF Next

(* The rings stay well-formed and every stored or written value is of its type.    *)
THEOREM TypeCorrect == Spec => []TypeOK
<1>1. IInv => TypeOK
  BY DEF IInv
<1> QED
  BY <1>1, InitIInv, NextIInv, PTL DEF Spec

(* For every window size: the reading the server fuses for a sensor is as many      *)
(* accepted posts old as the sensor's index, and 0 until the window has filled.       *)
THEOREM HeldReadingHasAge == Spec => []HeldReadingAge
<1>1. IInv => HeldReadingAge
  <2> SUFFICES ASSUME IInv, NEW s \in Tracked, NEW k \in Sensors
               PROVE  LET h == accepted[s][k]
                          i == site_data[s][k].index
                      IN  IF Len(h) = WINDOW_SIZE THEN held[s][k] = h[WINDOW_SIZE - i]
                                                  ELSE held[s][k] = 0 /\ i = Len(h)
    BY DEF HeldReadingAge
  <2> DEFINE w == site_data[s][k]
             h == accepted[s][k]
  <2>1. RingHolds(w, h) /\ w.index \in Slots /\ h \in Seq(Readings)
    BY DEF IInv, TypeOK, Window
  <2>2. held[s][k] = w.values[WINDOW_SIZE - 1]
    BY DEF held, HeldIn, Last
  <2> HIDE DEF w, h
  <2>3. w.index \in Nat /\ w.index < WINDOW_SIZE /\ Len(h) \in Nat
    BY <2>1, WindowAssumption, LenProperties DEF Slots
  <2>4. WINDOW_SIZE - 1 \in Slots /\ ~(WINDOW_SIZE - 1 < w.index)
    BY <2>3, WindowAssumption DEF Slots
  <2>5. w.values[WINDOW_SIZE - 1] = IF Len(h) = WINDOW_SIZE
                                      THEN h[WINDOW_SIZE - 1 - w.index + 1] ELSE 0
    BY <2>1, <2>4 DEF RingHolds
  <2>6. WINDOW_SIZE - 1 - w.index + 1 = WINDOW_SIZE - w.index
    BY <2>3, WindowAssumption
  <2>7. IF Len(h) = WINDOW_SIZE THEN held[s][k] = h[WINDOW_SIZE - w.index]
                                ELSE held[s][k] = 0 /\ w.index = Len(h)
    BY <2>1, <2>2, <2>3, <2>5, <2>6, WindowAssumption DEF RingHolds
  <2> QED
    BY <2>7 DEF w, h
<1> QED
  BY <1>1, InitIInv, NextIInv, PTL DEF Spec

-----------------------------------------------------------------------------
(* The cell's copy of the filter is the server's filter.                              *)
LEMMA CellFilter ==
    ASSUME NEW r
    PROVE  /\ Cell!filter_outliers(r) = filter_outliers(r)
           /\ Cell!IsNaN(filter_outliers(r)) <=> IsNaN(filter_outliers(r))
BY DEF Cell!filter_outliers, Cell!Average, Cell!KeptByServer, Cell!WithinThreshold,
       Cell!Dev, Cell!Spread, Cell!Total, Cell!Sq, Cell!Part, Cell!One, Cell!IsNaN,
       filter_outliers, Average, KeptByServer, WithinThreshold,
       Dev, Spread, Total, Sq, Part, One, IsNaN

(* An accepted post is one report of the abstract cell, a refused post stutters,     *)
(* and a restart is the cell's restart.                                               *)
LEMMA AcceptIsReport ==
    ASSUME IInv, IInv', NEW p \in Posts, Accept(p)
    PROVE  Cell!Report(sites[p.site], p.sensor)
<1> DEFINE s == sites[p.site]
           k == p.sensor
           new == Advanced(Stored(site_data[s][k], p.reading))
<1>1. s \in Tracked /\ k \in Sensors
  BY DEF Accept, TrackedPost
<1>2. site_data \in [Tracked -> [Sensors -> Window]] /\ site_data' \in [Tracked -> [Sensors -> Window]]
  BY DEF IInv, TypeOK
<1>3. site_data' = [site_data EXCEPT ![s][k] = new]
  BY DEF Accept
<1> HIDE DEF new, s, k
<1>4. /\ held = [t \in Tracked |-> [j \in Sensors |-> Last(site_data[t][j])]]
      /\ held' = [t \in Tracked |-> [j \in Sensors |-> Last(site_data'[t][j])]]
  BY DEF held, HeldIn, Last
<1>5. held'[s] = HeldIn(site_data', s) /\ held'[s] \in Triple
  BY <1>1, <1>2, HeldIsTriple DEF held
<1>6. held'[s][k] \in Int
  BY <1>1, <1>5 DEF Triple
<1>7. held' = [held EXCEPT ![s][k] = held'[s][k]]
  <2>1. \A t \in Tracked, j \in Sensors :
           (t # s \/ j # k) => site_data'[t][j] = site_data[t][j]
    BY <1>1, <1>2, <1>3
  <2> QED
    BY <1>1, <1>4, <2>1
<1>8. \E x \in {filter_outliers(held'[s])} : sendInfluxdb(s, x)
  BY <1>5 DEF Accept, s
<1>9. \/ point' = point
      \/ /\ ~IsNaN(filter_outliers(held'[s]))
         /\ point' = [point EXCEPT ![s] = {filter_outliers(held'[s])}]
  BY <1>8 DEF sendInfluxdb
<1> QED
  BY <1>6, <1>7, <1>9, CellFilter DEF Cell!Report, s, k

LEMMA StepImplementsCell ==
    IInv /\ IInv' /\ [Next]_vars => [Cell!Next]_(Cell!vars)
<1> SUFFICES ASSUME IInv, IInv', [Next]_vars PROVE [Cell!Next]_(Cell!vars)
  OBVIOUS
<1>1. CASE Restart
  <2>1. held' = Cell!AllStart
    <3>1. \A t \in Tracked, j \in Sensors : Last(site_data'[t][j]) = 0
      BY <1>1, WindowAssumption DEF Restart, InitialData, EmptyWindow, Last, Slots
    <3>2. held' = [t \in Tracked |-> [j \in Sensors |-> Last(site_data'[t][j])]]
      BY DEF held, HeldIn, Last
    <3> QED
      BY <3>1, <3>2 DEF Cell!AllStart, Cell!Sensors, Sensors
  <2> QED
    BY <1>1, <2>1 DEF Restart, Cell!Restart, Cell!Next
<1>2. ASSUME NEW p \in Posts, render_post(p) PROVE [Cell!Next]_(Cell!vars)
  <2>1. CASE Accept(p)
    <3>1. Cell!Report(sites[p.site], p.sensor)
      BY <2>1, AcceptIsReport
    <3>2. sites[p.site] \in Tracked /\ p.sensor \in Sensors
      BY <2>1 DEF Accept, TrackedPost
    <3> QED
      BY <3>1, <3>2 DEF Cell!Next, Cell!Sensors, Sensors
  <2>2. CASE \E how : Raise(how)
    BY <2>2 DEF Raise, Cell!vars, held, HeldIn, Last
  <2> QED
    BY <1>2, <2>1, <2>2 DEF render_post, Mismatch, UnknownSite, UntrackedSite, UnknownSensor
<1>3. CASE UNCHANGED vars
  BY <1>3 DEF vars, Cell!vars, held, HeldIn, Last
<1> QED
  BY <1>1, <1>2, <1>3 DEF Next

(* The server, for every window size and every stream of posts and restarts, is an     *)
(* implementation of the cell that holds one reading per sensor and writes only         *)
(* fusions of what it holds.                                                            *)
THEOREM ServerImplementsCell == Spec => ImplementsFusionCell
<1>1. Init => Cell!Init
  <2> SUFFICES ASSUME Init PROVE Cell!Init
    OBVIOUS
  <2>1. \A t \in Tracked, j \in Sensors : Last(site_data[t][j]) = 0
    BY WindowAssumption DEF Init, InitialData, EmptyWindow, Last, Slots
  <2>2. held = Cell!AllStart
    BY <2>1 DEF held, HeldIn, Cell!AllStart, Cell!Sensors, Sensors
  <2> QED
    BY <2>2 DEF Init, Cell!Init
<1> QED
  BY <1>1, InitIInv, NextIInv, StepImplementsCell, PTL
     DEF Spec, ImplementsFusionCell, Cell!Spec

-----------------------------------------------------------------------------
(* A full ring holds, in the slot that is fused, one of the readings it stored.          *)
LEMMA FullRingHoldsReading ==
    ASSUME NEW w \in Window, NEW h, RingHolds(w, h), Len(h) = WINDOW_SIZE
    PROVE  \E i \in 1 .. WINDOW_SIZE : Last(w) = h[i]
<1>1. w.index \in Int /\ 0 <= w.index /\ w.index < WINDOW_SIZE
  BY WindowAssumption DEF Window, Slots
<1>2. WINDOW_SIZE - 1 \in Slots /\ ~(WINDOW_SIZE - 1 < w.index)
  BY <1>1, WindowAssumption DEF Slots
<1>3. Last(w) = h[WINDOW_SIZE - 1 - w.index + 1]
  BY <1>2 DEF RingHolds, Last
<1>4. WINDOW_SIZE - 1 - w.index + 1 \in 1 .. WINDOW_SIZE
  BY <1>1, WindowAssumption
<1> QED
  BY <1>3, <1>4

(* A step that changes a site's point wrote the fusion of what the site holds.            *)
LEMMA NewPointIsFused ==
    ASSUME IInv, IInv', [Next]_vars, NEW s \in Tracked, point'[s] # point[s]
    PROVE  /\ HeldIn(site_data', s) \in Triple
           /\ ~IsNaN(filter_outliers(HeldIn(site_data', s)))
           /\ point'[s] = {filter_outliers(HeldIn(site_data', s))}
<1>1. PICK p \in Posts : Accept(p)
  BY DEF Next, vars, Restart, render_post, Mismatch, UnknownSite, UntrackedSite,
         UnknownSensor, Raise
<1>2. point \in [Tracked -> SUBSET [sum : Int, n : {2, 3}]]
  BY DEF IInv, TypeOK
<1>3. sites[p.site] = s /\ sendInfluxdb(s, filter_outliers(HeldIn(site_data', s)))
  BY <1>1, <1>2 DEF Accept, TrackedPost, sendInfluxdb
<1>4. HeldIn(site_data', s) \in Triple
  BY HeldIsTriple DEF IInv, TypeOK
<1> QED
  BY <1>2, <1>3, <1>4 DEF sendInfluxdb

(* Three integers have a least and a greatest among them.                                 *)
LEMMA TripleExtremes ==
    ASSUME NEW r \in Triple
    PROVE  \E a, b \in Sensors : \A k \in Sensors : r[a] <= r[k] /\ r[k] <= r[b]
<1>1. r["1"] \in Int /\ r["2"] \in Int /\ r["3"] \in Int
  BY DEF Triple, Sensors
<1> QED
  BY <1>1 DEF Sensors

(* For every window size: once all three windows of a site have filled, no point           *)
(* written for it lies outside the readings its sensors reported.                          *)
THEOREM WarmPointsAreReported == Spec => NoPhantomReading
<1>1. IInv /\ IInv' /\ [Next]_vars =>
        [\A s \in Tracked : (point'[s] # point[s] /\ Warm(accepted', s)) =>
           \A x \in point'[s] :
              LET all == UNION {{accepted'[s][k][i] : i \in 1 .. WINDOW_SIZE} : k \in Sensors}
              IN  /\ \E lo \in all : x.n * lo <= x.sum
                  /\ \E hi \in all : x.sum <= x.n * hi]_vars
  <2> SUFFICES ASSUME IInv, IInv', [Next]_vars,
                      NEW s \in Tracked, point'[s] # point[s], Warm(accepted', s),
                      NEW x \in point'[s]
               PROVE  LET all == UNION {{accepted'[s][k][i] : i \in 1 .. WINDOW_SIZE}
                                           : k \in Sensors}
                      IN  /\ \E lo \in all : x.n * lo <= x.sum
                          /\ \E hi \in all : x.sum <= x.n * hi
    OBVIOUS
  <2> DEFINE r == HeldIn(site_data', s)
             all == UNION {{accepted'[s][k][i] : i \in 1 .. WINDOW_SIZE} : k \in Sensors}
  <2>1. r \in Triple /\ x = filter_outliers(r)
    BY NewPointIsFused
  <2>2. \A k \in Sensors : r[k] \in all
    <3> TAKE k \in Sensors
    <3>1. /\ site_data'[s][k] \in Window
          /\ RingHolds(site_data'[s][k], accepted'[s][k])
          /\ Len(accepted'[s][k]) = WINDOW_SIZE
      BY DEF IInv, TypeOK, Warm
    <3>2. \E i \in 1 .. WINDOW_SIZE : Last(site_data'[s][k]) = accepted'[s][k][i]
      BY <3>1, FullRingHoldsReading
    <3>3. r[k] = Last(site_data'[s][k])
      BY DEF HeldIn
    <3> QED
      BY <3>2, <3>3
  <2> HIDE DEF r, all
  <2>3. PICK a \in Sensors, b \in Sensors :
           \A k \in Sensors : r[a] <= r[k] /\ r[k] <= r[b]
    BY <2>1, TripleExtremes
  <2>4. r[a] \in Int /\ r[b] \in Int
    BY <2>1 DEF Triple
  <2>5. x.n * r[a] <= x.sum /\ x.sum <= x.n * r[b]
    BY <2>1, <2>3, <2>4, FusedWithinBounds
  <2>6. (\E lo \in all : x.n * lo <= x.sum) /\ (\E hi \in all : x.sum <= x.n * hi)
    BY <2>2, <2>5
  <2> QED
    BY <2>6 DEF all
<1> QED
  BY <1>1, InitIInv, NextIInv, PTL DEF Spec, NoPhantomReading

(* For every window size: two sensors whose windows agree on one value cannot be            *)
(* overruled by the third.                                                                  *)
THEOREM OneFaultySensorIsMasked == Spec => OneFaultySensorMasked
<1>1. IInv /\ IInv' /\ [Next]_vars =>
        [\A s \in Tracked, a, b \in Sensors :
          (/\ point'[s] # point[s] /\ Warm(accepted', s) /\ a # b
           /\ \A i \in 1 .. WINDOW_SIZE : /\ accepted'[s][a][i] = accepted'[s][a][1]
                                          /\ accepted'[s][b][i] = accepted'[s][a][1])
            => point'[s] = {[sum |-> 2 * accepted'[s][a][1], n |-> 2]}]_vars
  <2> SUFFICES ASSUME IInv, IInv', [Next]_vars,
                      NEW s \in Tracked, NEW a \in Sensors, NEW b \in Sensors,
                      point'[s] # point[s], Warm(accepted', s), a # b,
                      \A i \in 1 .. WINDOW_SIZE : /\ accepted'[s][a][i] = accepted'[s][a][1]
                                                 /\ accepted'[s][b][i] = accepted'[s][a][1]
               PROVE  point'[s] = {[sum |-> 2 * accepted'[s][a][1], n |-> 2]}
    OBVIOUS
  <2> DEFINE r == HeldIn(site_data', s)
             v == accepted'[s][a][1]
  <2>1. r \in Triple /\ ~IsNaN(filter_outliers(r)) /\ point'[s] = {filter_outliers(r)}
    BY NewPointIsFused
  <2>2. r[a] = v /\ r[b] = v
    <3>1. ASSUME NEW k \in Sensors
          PROVE  \E i \in 1 .. WINDOW_SIZE : r[k] = accepted'[s][k][i]
      <4>1. /\ site_data'[s][k] \in Window
            /\ RingHolds(site_data'[s][k], accepted'[s][k])
            /\ Len(accepted'[s][k]) = WINDOW_SIZE
        BY DEF IInv, TypeOK, Warm
      <4>2. \E i \in 1 .. WINDOW_SIZE : Last(site_data'[s][k]) = accepted'[s][k][i]
        BY <4>1, FullRingHoldsReading
      <4>3. r[k] = Last(site_data'[s][k])
        BY DEF HeldIn
      <4> QED
        BY <4>2, <4>3
    <3> QED
      BY <3>1
  <2> HIDE DEF r
  <2>3. PICK c \in Sensors : b # c /\ a # c
    BY DEF Sensors
  <2>4. r[c] # r[a]
    <3> SUFFICES ASSUME r[c] = r[a] PROVE FALSE
      OBVIOUS
    <3>1. r["1"] = v /\ r["2"] = v /\ r["3"] = v /\ v \in Int
      BY <2>1, <2>2, <2>3 DEF Sensors, Triple
    <3>2. \A k \in Sensors : Dev(r, k) = 0
      <4> HIDE DEF v
      <4> QED
        BY <3>1 DEF Dev, Total, Sensors
    <3>3. Spread(r) = 0
      BY <2>1, <3>2, DevTypes
    <3> QED
      BY <2>1, <3>3, AveragedCount
  <2>5. filter_outliers(r) = [sum |-> 2 * r[a], n |-> 2]
    BY <2>1, <2>2, <2>3, <2>4, LoneSpike
  <2> QED
    BY <2>1, <2>2, <2>5
<1> QED
  BY <1>1, InitIInv, NextIInv, PTL DEF Spec, OneFaultySensorMasked
=============================================================================
