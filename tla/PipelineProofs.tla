--------------------------- MODULE PipelineProofs ---------------------------
(***************************************************************************)
(* For any nodes, values, pool, window and network size: the pipeline's    *)
(* types, that no post is refused, that a settled site stays settled and   *)
(* its point follows, and that it implements SiteReport.  The server's     *)
(* part is taken from TemperatureServerProofs, instantiated with the posts *)
(* of the nodes; its operators are Pipeline's own, expanded, which the     *)
(* first lemmas say.                                                       *)
(***************************************************************************)
EXTENDS Pipeline, ParityProofs

SP == INSTANCE TemperatureServerProofs

LEMMA SameTables ==
    /\ Server!sites = SP!sites /\ Server!Tracked = SP!Tracked
    /\ Server!Sensors = SP!Sensors /\ Server!Slots = SP!Slots
    /\ Server!InitialData = SP!InitialData
BY DEF Server!sites, SP!sites, Server!Tracked, SP!Tracked, Server!Sensors, SP!Sensors,
       Server!Slots, SP!Slots, Server!InitialData, SP!InitialData,
       Server!EmptyWindow, SP!EmptyWindow

LEMMA SameFilter ==
    ASSUME NEW r
    PROVE  /\ Server!filter_outliers(r) = SP!filter_outliers(r)
           /\ Server!IsNaN(r) <=> SP!IsNaN(r)
BY DEF Server!filter_outliers, SP!filter_outliers, Server!Average, SP!Average,
       Server!KeptByServer, SP!KeptByServer, Server!WithinThreshold, SP!WithinThreshold,
       Server!Dev, SP!Dev, Server!Spread, SP!Spread, Server!Total, SP!Total, Server!Sq, SP!Sq,
       Server!Part, SP!Part, Server!One, SP!One, Server!IsNaN, SP!IsNaN

LEMMA SameMatch ==
    ASSUME NEW p
    PROVE  /\ Server!TrackedPost(p) <=> SP!TrackedPost(p)
           /\ Server!Matched(p) <=> SP!Matched(p)
<1>1. Server!TrackedPost(p) <=> SP!TrackedPost(p)
  BY SameTables DEF Server!TrackedPost, SP!TrackedPost
<1>2. Server!OneBits(p.reading) = SP!OneBits(p.reading)
  BY DEF Server!OneBits, SP!OneBits, Server!WIDTH, SP!WIDTH
<1>3. \A S : Server!Cardinality(S) = SP!Cardinality(S)
  BY DEF Server!Cardinality, SP!Cardinality
<1>4. Server!ones_count(p.reading) = SP!ones_count(p.reading)
  BY <1>2, <1>3 DEF Server!ones_count, SP!ones_count
<1>5. Server!Matched(p) <=> SP!Matched(p)
  BY <1>4 DEF Server!Matched, SP!Matched, Server!parityCheck, SP!parityCheck
<1> QED
  BY <1>1, <1>5

LEMMA SameWindows ==
    /\ \A w, v : Server!Stored(w, v) = SP!Stored(w, v)
    /\ \A w : Server!Advanced(w) = SP!Advanced(w)
    /\ \A h, v : Server!Shift(h, v) = SP!Shift(h, v)
    /\ \A d, s : Server!HeldIn(d, s) = SP!HeldIn(d, s)
BY SameTables DEF Server!Stored, SP!Stored, Server!Advanced, SP!Advanced, Server!Shift, SP!Shift,
       Server!HeldIn, SP!HeldIn, Server!Last, SP!Last

LEMMA SameAccept ==
    ASSUME NEW p
    PROVE  Server!Accept(p) <=> SP!Accept(p)
<1>1. \A s, x : Server!sendInfluxdb(s, x) <=> SP!sendInfluxdb(s, x)
  BY SameFilter DEF Server!sendInfluxdb, SP!sendInfluxdb
<1> QED
  BY <1>1, SameTables, SameFilter, SameMatch, SameWindows DEF Server!Accept, SP!Accept

LEMMA SameHandler ==
    ASSUME NEW p
    PROVE  Server!render_post(p) <=> SP!render_post(p)
<1>1. \A how : Server!Raise(how) <=> SP!Raise(how)
  BY DEF Server!Raise, SP!Raise
<1>2. /\ Server!Mismatch(p) <=> SP!Mismatch(p)
      /\ Server!UnknownSite(p) <=> SP!UnknownSite(p)
      /\ Server!UntrackedSite(p) <=> SP!UntrackedSite(p)
      /\ Server!UnknownSensor(p) <=> SP!UnknownSensor(p)
  BY <1>1, SameTables, SameMatch
     DEF Server!Mismatch, SP!Mismatch, Server!UnknownSite, SP!UnknownSite,
         Server!UntrackedSite, SP!UntrackedSite, Server!UnknownSensor, SP!UnknownSensor
<1> QED
  BY <1>2, SameAccept DEF Server!render_post, SP!render_post

LEMMA SameServer ==
    /\ Server!Init <=> SP!Init
    /\ Server!Restart <=> SP!Restart
    /\ Server!TypeOK <=> SP!TypeOK
<1>1. Server!Init <=> SP!Init
  BY SameTables DEF Server!Init, SP!Init
<1>2. Server!Restart <=> SP!Restart
  BY SameTables DEF Server!Restart, SP!Restart
<1>3. Server!TypeOK <=> SP!TypeOK
  BY SameTables DEF Server!TypeOK, SP!TypeOK, Server!Readings, SP!Readings,
       Server!Window, SP!Window, Server!Outcomes, SP!Outcomes
<1> QED
  BY <1>1, <1>2, <1>3
-----------------------------------------------------------------------------
(* Every post is one node's report.                                              *)
LEMMA PostFacts ==
    /\ \A k \in Nodes : \A v \in Values[k] :
          PostsOf[k][v] \in Posts /\ PostsOf[k][v] = PostOf(k, v)
    /\ \A p \in Posts : \E k \in Nodes : \E v \in Values[k] : p = PostOf(k, v)
    /\ \A k \in Nodes : \A v \in Values[k] : v \in Int
<1>1. \A k \in Nodes : Values[k] \subseteq Int
  BY PipelineAssumption
<1>2. \A k \in Nodes : PostsFrom[k] = {PostOf(k, v) : v \in Values[k]}
  <2> TAKE k \in Nodes
  <2>1. PostsOf[k] = [v \in Values[k] |-> PostOf(k, v)]
    BY DEF PostsOf
  <2> QED
    BY <2>1 DEF PostsFrom, Range
<1>3. Posts = UNION {PostsFrom[k] : k \in Nodes}
  BY DEF Posts, PostsFrom, Range
<1>4. \A k \in Nodes : \A v \in Values[k] : PostsOf[k][v] = PostOf(k, v)
  BY DEF PostsOf
<1> QED
  BY <1>1, <1>2, <1>3, <1>4

(* So the server's assumptions hold of these posts.                              *)
LEMMA ServerAssumptions == SP!WindowAssumption /\ SP!PostsAssumption
<1>1. SP!WindowAssumption
  BY PipelineAssumption DEF SP!WindowAssumption
<1>2. ASSUME NEW p \in Posts PROVE p.reading \in Int /\ p.parity \in Int
  <2>1. PICK k \in Nodes : \E v \in Values[k] : p = PostOf(k, v)
    BY PostFacts
  <2>2. PICK v \in Values[k] : p = PostOf(k, v)
    BY <2>1
  <2>3. v \in Int /\ calculate_odd_parity(v) \in Int
    BY PostFacts DEF calculate_odd_parity
  <2> QED
    BY <2>2, <2>3 DEF PostOf
<1> QED
  BY <1>1, <1>2 DEF SP!PostsAssumption
-----------------------------------------------------------------------------
(* What the network holds was posted by the sensor it names, and a slot of the     *)
(* site's windows holds a value the sensor may have contributed.                    *)
NetIsReported == \A p \in Posts : net[p] > 0 => p.reading \in reported[p.sensor]
WindowsAreSeen ==
    \A k \in AllSensors, i \in Server!Slots : site_data[SiteName][k].values[i] \in seen[k]

IInv == TypeOK /\ SP!IInv /\ NetIsReported /\ WindowsAreSeen

LEMMA Sizes ==
    /\ WINDOW_SIZE \in Nat /\ WINDOW_SIZE > 0
    /\ REQ_WAITING_MAX \in Nat /\ REQ_WAITING_MAX > 0
    /\ MaxInFlight \in Nat /\ MaxInFlight > 0
    /\ Nodes \subseteq AllSensors
BY PipelineAssumption

LEMMA InitIInv == Init => IInv
<1> SUFFICES ASSUME Init PROVE IInv
  OBVIOUS
<1>1. SP!IInv /\ Server!TypeOK
  <2>1. SP!IInv
    BY SameServer, ServerAssumptions, SP!InitIInv DEF Init
  <2> QED
    BY <2>1, SameServer DEF SP!IInv
<1>2. TypeOK
  <2>1. reading \in [Nodes -> Int] /\ \A k \in Nodes : reading[k] \in Values[k]
    BY PostFacts DEF Init
  <2>2. reported \in [Nodes -> SUBSET Int] /\ \A k \in Nodes : reported[k] = {}
    BY DEF Init
  <2>3. open \in [Nodes -> 0 .. REQ_WAITING_MAX] /\ net \in [Posts -> 0 .. MaxInFlight]
    <3>1. 0 \in 0 .. REQ_WAITING_MAX /\ 0 \in 0 .. MaxInFlight
      BY Sizes
    <3> QED
      BY <3>1 DEF Init
  <2>4. calm \in BOOLEAN
    BY DEF Init
  <2> QED
    BY <1>1, <2>1, <2>2, <2>3, <2>4 DEF TypeOK
<1>3. NetIsReported
  BY DEF Init, NetIsReported
<1>4. WindowsAreSeen
  <2> SUFFICES ASSUME NEW k \in AllSensors, NEW i \in Server!Slots
               PROVE  site_data[SiteName][k].values[i] \in seen[k]
    BY DEF WindowsAreSeen
  <2>1. SiteName \in Server!Tracked /\ k \in Server!Sensors
    BY DEF SiteName, AllSensors, Server!Tracked, Server!Sensors
  <2>2. site_data[SiteName][k].values[i] = 0
    BY <2>1 DEF Init, Server!Init, Server!InitialData, Server!EmptyWindow
  <2>3. 0 \in seen[k]
    BY DEF seen
  <2> QED
    BY <2>2, <2>3
<1> QED
  BY <1>1, <1>2, <1>3, <1>4 DEF IInv

(* A step of the server that leaves the windows as they are or stores one posted     *)
(* value under the sensor it names.                                                   *)
LEMMA ServerStep ==
    ASSUME IInv, Server!Restart \/ \E p \in Posts : net[p] > 0 /\ Server!render_post(p),
           seen' = seen
    PROVE  SP!IInv' /\ Server!TypeOK' /\ WindowsAreSeen'
<1>1. SP!Restart \/ \E p \in Posts : SP!render_post(p)
  BY SameServer, SameHandler
<1>2. SP!IInv'
  BY <1>1, ServerAssumptions, SP!NextIInv DEF IInv, SP!Next
<1>3. Server!TypeOK'
  <2>1. SP!TypeOK'
    BY <1>2 DEF SP!IInv
  <2> QED
    BY <2>1, SameTables DEF Server!TypeOK, SP!TypeOK, Server!Readings, SP!Readings,
         Server!Window, SP!Window, Server!Outcomes, SP!Outcomes
<1>4. SiteName \in Server!Tracked /\ AllSensors = Server!Sensors
  BY DEF SiteName, AllSensors, Server!Tracked, Server!Sensors
<1>5. CASE Server!Restart
  <2>1. ASSUME NEW k \in AllSensors, NEW i \in Server!Slots
        PROVE  site_data'[SiteName][k].values[i] \in seen[k]
    <3>1. site_data'[SiteName][k].values[i] = 0
      BY <1>4, <1>5 DEF Server!Restart, Server!InitialData, Server!EmptyWindow
    <3> QED
      BY <3>1 DEF seen
  <2> QED
    BY <1>2, <1>3, <2>1 DEF WindowsAreSeen
<1>6. ASSUME NEW p \in Posts, net[p] > 0, Server!render_post(p) PROVE WindowsAreSeen'
  <2>1. CASE UNCHANGED site_data
    BY <2>1 DEF WindowsAreSeen, IInv
  <2>2. CASE Server!Accept(p)
    <3> DEFINE s == Server!sites[p.site]
               j == p.sensor
    <3>1. /\ s \in Server!Tracked /\ j \in Server!Sensors
          /\ site_data' = [site_data EXCEPT ![s][j] =
                             Server!Advanced(Server!Stored(@, p.reading))]
      BY <2>2 DEF Server!Accept, Server!TrackedPost
    <3>2. site_data \in [Server!Tracked -> [Server!Sensors -> Server!Window]]
      BY DEF IInv, TypeOK, Server!TypeOK
    <3>3. p.reading \in seen[j]
      <4>1. PICK k \in Nodes : \E v \in Values[k] : p = PostOf(k, v)
        BY PostFacts
      <4>2. j = k
        BY <4>1 DEF PostOf
      <4>3. p.reading \in reported[j]
        BY <1>6 DEF IInv, NetIsReported
      <4> QED
        BY <4>2, <4>3, Sizes DEF seen
    <3>4. ASSUME NEW k \in AllSensors, NEW i \in Server!Slots
          PROVE  site_data'[SiteName][k].values[i] \in seen[k]
      <4>1. site_data[SiteName][k].values[i] \in seen[k]
        BY DEF IInv, WindowsAreSeen
      <4>2. CASE SiteName = s /\ k = j
        <5> DEFINE w == site_data[s][j]
        <5>1. w \in Server!Window
          BY <3>1, <3>2
        <5>2. w = [values |-> w.values, index |-> w.index]
              /\ w.values \in [Server!Slots -> Server!Readings \cup {0}]
          BY <5>1 DEF Server!Window
        <5>3. site_data'[s][j] = Server!Advanced(Server!Stored(w, p.reading))
          BY <3>1, <3>2
        <5>4. Server!Advanced(Server!Stored(w, p.reading)).values
                = [w.values EXCEPT ![w.index] = p.reading]
          BY <5>2 DEF Server!Advanced, Server!Stored
        <5>5. site_data'[s][j].values[i] = IF i = w.index THEN p.reading ELSE w.values[i]
          BY <5>2, <5>3, <5>4
        <5> QED
          BY <3>3, <4>1, <4>2, <5>5
      <4>3. CASE ~(SiteName = s /\ k = j)
        <5>1. site_data'[SiteName][k] = site_data[SiteName][k]
          BY <1>4, <3>1, <3>2, <4>3
        <5> QED
          BY <4>1, <5>1
      <4> QED
        BY <4>2, <4>3
    <3> QED
      BY <3>4 DEF WindowsAreSeen
  <2> QED
    BY <1>6, <2>1, <2>2
       DEF Server!render_post, Server!Mismatch, Server!UnknownSite, Server!UntrackedSite,
           Server!UnknownSensor, Server!Raise
<1> QED
  BY <1>2, <1>3, <1>5, <1>6

LEMMA NextIInv == IInv /\ [Next]_vars => IInv'
<1> SUFFICES ASSUME IInv, [Next]_vars PROVE IInv'
  OBVIOUS
<1>1. ASSUME UNCHANGED serverVars PROVE SP!IInv' /\ Server!TypeOK'
  <2>1. UNCHANGED SP!vars
    BY <1>1 DEF serverVars, SP!vars
  <2>2. SP!IInv'
    BY <2>1, ServerAssumptions, SP!NextIInv DEF IInv
  <2>3. SP!TypeOK'
    BY <2>2 DEF SP!IInv
  <2> QED
    BY <2>2, <2>3, SameTables DEF Server!TypeOK, SP!TypeOK, Server!Readings, SP!Readings,
         Server!Window, SP!Window, Server!Outcomes, SP!Outcomes
<1>2. ASSUME NEW k \in Nodes, gcoap_cli_cmd(k) PROVE IInv'
  <2> DEFINE q == PostsOf[k][reading[k]]
  <2>1. q \in Posts /\ q = PostOf(k, reading[k]) /\ reading[k] \in Values[k] /\ reading[k] \in Int
    BY PostFacts DEF IInv, TypeOK
  <2>2. SP!IInv' /\ Server!TypeOK'
    BY <1>1, <1>2 DEF gcoap_cli_cmd
  <2>3. \A j \in Nodes : reported'[j] = IF j = k THEN reported[j] \cup {reading[k]} ELSE reported[j]
    BY <1>2 DEF gcoap_cli_cmd, IInv, TypeOK
  <2>4. reported' \in [Nodes -> SUBSET Int] /\ \A j \in Nodes : reported'[j] \subseteq Values[j]
    BY <1>2, <2>1 DEF gcoap_cli_cmd, IInv, TypeOK
  <2>5. net' \in [Posts -> 0 .. MaxInFlight]
    <3>1. \A p \in Posts : net[p] \in Nat /\ net[p] <= MaxInFlight
      BY Sizes DEF IInv, TypeOK
    <3>2. \A n \in Nat : n < MaxInFlight => n + 1 \in 0 .. MaxInFlight
      BY Sizes
    <3> QED
      BY <1>2, <3>1, <3>2, Sizes DEF gcoap_cli_cmd, Sent, IInv, TypeOK
  <2>6. open' \in [Nodes -> 0 .. REQ_WAITING_MAX]
    BY <1>2, Sizes DEF gcoap_cli_cmd, IInv, TypeOK
  <2>7. TypeOK'
    BY <1>2, <2>2, <2>4, <2>5, <2>6 DEF gcoap_cli_cmd, IInv, TypeOK
  <2>8. NetIsReported'
    <3> SUFFICES ASSUME NEW p \in Posts, net'[p] > 0 PROVE p.reading \in reported'[p.sensor]
      BY DEF NetIsReported
    <3>1. PICK j \in Nodes : \E v \in Values[j] : p = PostOf(j, v)
      BY PostFacts
    <3>2. p.sensor = j
      BY <3>1 DEF PostOf
    <3>3. CASE p = q
      <4>1. q.reading = reading[k] /\ q.sensor = k
        BY <2>1 DEF PostOf
      <4>2. reading[k] \in reported'[k]
        BY <2>3
      <4> QED
        BY <3>3, <4>1, <4>2
    <3>4. CASE p # q
      <4>1. net'[p] = net[p]
        BY <1>2, <3>4 DEF gcoap_cli_cmd, Sent, IInv, TypeOK
      <4> QED
        BY <2>3, <3>2, <4>1 DEF IInv, NetIsReported
    <3> QED
      BY <3>3, <3>4
  <2>9. WindowsAreSeen'
    <3>1. \A j \in AllSensors : seen[j] \subseteq seen'[j]
      BY <2>3 DEF seen
    <3>2. site_data' = site_data
      BY <1>2 DEF gcoap_cli_cmd, serverVars
    <3> QED
      BY <3>1, <3>2 DEF IInv, WindowsAreSeen
  <2> QED
    BY <2>2, <2>7, <2>8, <2>9 DEF IInv
<1>3. ASSUME NEW k \in Nodes, _resp_handler(k) \/ Change(k) PROVE IInv'
  <2>1. UNCHANGED <<reported, net, calm, serverVars>>
    BY <1>3 DEF _resp_handler, Change
  <2>2. SP!IInv' /\ Server!TypeOK'
    BY <1>1, <2>1
  <2>3. reading' \in [Nodes -> Int] /\ \A j \in Nodes : reading'[j] \in Values[j]
    BY <1>3, PostFacts DEF _resp_handler, Change, IInv, TypeOK
  <2>4. open' \in [Nodes -> 0 .. REQ_WAITING_MAX]
    BY <1>3, Sizes DEF _resp_handler, Change, IInv, TypeOK
  <2>5. TypeOK'
    BY <2>1, <2>2, <2>3, <2>4 DEF IInv, TypeOK
  <2>6. NetIsReported' /\ WindowsAreSeen'
    BY <2>1 DEF IInv, NetIsReported, WindowsAreSeen, seen, serverVars
  <2> QED
    BY <2>2, <2>5, <2>6 DEF IInv
<1>4. ASSUME NEW p \in Posts, net[p] > 0, net' = [net EXCEPT ![p] = @ - 1],
             UNCHANGED <<nodeVars, calm>>, SP!IInv', Server!TypeOK', WindowsAreSeen'
      PROVE  IInv'
  <2>1. net \in [Posts -> 0 .. MaxInFlight]
    BY DEF IInv, TypeOK
  <2>2. net' \in [Posts -> 0 .. MaxInFlight] /\ \A r \in Posts : net'[r] > 0 => net[r] > 0
    BY <1>4, <2>1, Sizes
  <2>3. TypeOK'
    BY <1>4, <2>2 DEF IInv, TypeOK, nodeVars
  <2>4. NetIsReported'
    BY <1>4, <2>2 DEF IInv, NetIsReported, nodeVars
  <2> QED
    BY <1>4, <2>3, <2>4 DEF IInv
<1>5. ASSUME NEW p \in Posts, Deliver(p) PROVE IInv'
  <2>1. /\ net[p] > 0 /\ net' = [net EXCEPT ![p] = @ - 1] /\ UNCHANGED <<nodeVars, calm>>
        /\ Server!render_post(p)
    BY <1>5 DEF Deliver
  <2>2. seen' = seen
    BY <2>1 DEF seen, nodeVars
  <2> QED
    BY <1>4, <2>1, <2>2, ServerStep
<1>6. ASSUME NEW p \in Posts, Lose(p) PROVE IInv'
  <2>1. /\ net[p] > 0 /\ net' = [net EXCEPT ![p] = @ - 1]
        /\ UNCHANGED <<nodeVars, calm>> /\ UNCHANGED serverVars
    BY <1>6 DEF Lose
  <2>2. WindowsAreSeen'
    BY <2>1 DEF IInv, WindowsAreSeen, seen, nodeVars, serverVars
  <2> QED
    BY <1>1, <1>4, <2>1, <2>2
<1>7. CASE Restart
  <2>1. Server!Restart /\ UNCHANGED <<nodeVars, net, calm>>
    BY <1>7 DEF Restart
  <2>2. seen' = seen
    BY <2>1 DEF seen, nodeVars
  <2>3. SP!IInv' /\ Server!TypeOK' /\ WindowsAreSeen'
    BY <2>1, <2>2, ServerStep
  <2>4. TypeOK' /\ NetIsReported'
    BY <2>1, <2>3 DEF IInv, TypeOK, NetIsReported, nodeVars
  <2> QED
    BY <2>3, <2>4 DEF IInv
<1>8. CASE Calm \/ UNCHANGED vars
  <2>1. UNCHANGED <<nodeVars, net>> /\ UNCHANGED serverVars /\ calm' \in BOOLEAN
    BY <1>8 DEF Calm, vars, IInv, TypeOK
  <2>2. SP!IInv' /\ Server!TypeOK'
    BY <1>1, <2>1
  <2>3. TypeOK' /\ NetIsReported' /\ WindowsAreSeen'
    BY <2>1, <2>2 DEF IInv, TypeOK, NetIsReported, WindowsAreSeen, seen, nodeVars, serverVars
  <2> QED
    BY <2>2, <2>3 DEF IInv
<1> QED
  BY <1>2, <1>3, <1>5, <1>6, <1>7, <1>8 DEF Next

(* For any pool, window and network: no counter leaves its range, whatever is lost or     *)
(* late.                                                                                   *)
THEOREM PipelineTypeCorrect == Spec => []TypeOK
<1>1. IInv => TypeOK
  BY DEF IInv
<1> QED
  BY <1>1, InitIInv, NextIInv, PTL DEF Spec
-----------------------------------------------------------------------------
(* The code of the node's site is a key of configuration.py, and of a site it keeps.        *)
LEMMA SiteIsServed == SiteCode = "1" /\ SiteCode \in DOMAIN Server!sites /\ Server!sites[SiteCode] = SiteName
BY DEF SiteCode, getBinaryValue, locationMap, SiteName, Server!sites

(* The server's copy of the parity test is the one the node's bit was computed for.         *)
LEMMA SameParity ==
    ASSUME NEW v, NEW b
    PROVE  Server!parityCheck(v, b) <=> parityCheck(v, b)
<1>1. Server!OneBits(v) = OneBits(v)
  BY DEF Server!OneBits, OneBits, Server!WIDTH, WIDTH
<1>2. \A S : Server!Cardinality(S) = Cardinality(S)
  BY DEF Server!Cardinality, Cardinality
<1> QED
  BY <1>1, <1>2 DEF Server!parityCheck, parityCheck, Server!ones_count, ones_count

(* So the handler takes every post of a node: none of its other branches is reached.        *)
LEMMA PostIsAccepted ==
    ASSUME NEW p \in Posts, Server!render_post(p)
    PROVE  Server!Accept(p) /\ Server!sites[p.site] = SiteName /\ p.sensor \in Nodes
<1>1. PICK k \in Nodes : \E v \in Values[k] : p = PostOf(k, v)
  BY PostFacts
<1>2. PICK v \in Values[k] : p = PostOf(k, v)
  BY <1>1
<1>3. /\ p.site = SiteCode /\ p.sensor = k /\ p.reading = v
      /\ p.parity = calculate_odd_parity(v)
  BY <1>2 DEF PostOf
<1>4. Server!TrackedPost(p) /\ p.site \in DOMAIN Server!sites
  BY <1>3, SiteIsServed DEF Server!TrackedPost, SiteName, Server!Tracked
<1>5. k \in Server!Sensors
  BY Sizes DEF AllSensors, Server!Sensors
<1>6. Server!Matched(p)
  <2>1. v \in Int
    BY PostFacts
  <2>2. parityCheck(v, calculate_odd_parity(v))
    BY <2>1, HonestReportAccepted
  <2> QED
    BY <1>3, <2>2, SameParity DEF Server!Matched
<1> QED
  BY <1>3, <1>4, <1>5, <1>6, SiteIsServed
     DEF Server!render_post, Server!Mismatch, Server!UnknownSite, Server!UntrackedSite,
         Server!UnknownSensor

(* No post of a node is refused for its site, its sensor or its parity, whatever the       *)
(* integers reported: C and Python agree on tables and bits.                                 *)
THEOREM NoPostIsRefused == Spec => []NoPostRefused
<1>1. Init => NoPostRefused
  BY DEF Init, Server!Init, NoPostRefused
<1>2. NoPostRefused /\ [Next]_vars => NoPostRefused'
  <2> SUFFICES ASSUME NoPostRefused, [Next]_vars PROVE NoPostRefused'
    OBVIOUS
  <2>1. ASSUME NEW p \in Posts, Deliver(p) PROVE NoPostRefused'
    <3>1. Server!Accept(p)
      BY <2>1, PostIsAccepted DEF Deliver
    <3> QED
      BY <3>1 DEF Server!Accept, Server!sendInfluxdb, NoPostRefused
  <2>2. CASE Restart
    BY <2>2 DEF Restart, Server!Restart, NoPostRefused
  <2>3. ASSUME \/ \E k \in Nodes : gcoap_cli_cmd(k) \/ _resp_handler(k) \/ Change(k)
               \/ \E p \in Posts : Lose(p)
               \/ Calm \/ UNCHANGED vars
        PROVE  UNCHANGED outcome
    BY <2>3 DEF gcoap_cli_cmd, _resp_handler, Change, Lose, Calm, vars, serverVars
  <2> QED
    BY <2>1, <2>2, <2>3 DEF Next, NoPostRefused
<1> QED
  BY <1>1, <1>2, PTL DEF Spec
-----------------------------------------------------------------------------
(* Accepting a post puts its reading into one slot of its sensor's window.                  *)
LEMMA StoredValues ==
    ASSUME IInv, NEW p \in Posts, Server!Accept(p), Server!sites[p.site] = SiteName,
           NEW k \in AllSensors, NEW i \in Server!Slots
    PROVE  \/ site_data'[SiteName][k].values[i] = site_data[SiteName][k].values[i]
           \/ k = p.sensor /\ site_data'[SiteName][k].values[i] = p.reading
<1> DEFINE w == site_data[SiteName][p.sensor]
<1>1. /\ p.sensor \in Server!Sensors /\ SiteName \in Server!Tracked
      /\ site_data' = [site_data EXCEPT ![SiteName][p.sensor] =
                         Server!Advanced(Server!Stored(@, p.reading))]
  BY DEF Server!Accept, Server!TrackedPost
<1>2. site_data \in [Server!Tracked -> [Server!Sensors -> Server!Window]]
  BY DEF IInv, TypeOK, Server!TypeOK
<1>3. AllSensors = Server!Sensors
  BY DEF AllSensors, Server!Sensors
<1>4. CASE k # p.sensor
  BY <1>1, <1>2, <1>3, <1>4
<1>5. CASE k = p.sensor
  <2>1. w \in Server!Window /\ site_data'[SiteName][k] = Server!Advanced(Server!Stored(w, p.reading))
    BY <1>1, <1>2, <1>5
  <2>2. w = [values |-> w.values, index |-> w.index]
        /\ w.values \in [Server!Slots -> Server!Readings \cup {0}]
    BY <2>1 DEF Server!Window
  <2>3. Server!Advanced(Server!Stored(w, p.reading)).values = [w.values EXCEPT ![w.index] = p.reading]
    BY <2>2 DEF Server!Advanced, Server!Stored
  <2> HIDE DEF w
  <2>4. site_data'[SiteName][k].values[i] = IF i = w.index THEN p.reading ELSE w.values[i]
    BY <2>1, <2>2, <2>3
  <2> QED
    BY <1>5, <2>4 DEF w
<1> QED
  BY <1>4, <1>5

SteadyWindows == \A k \in AllSensors, i \in Server!Slots :
                    site_data[SiteName][k].values[i] = Steady[k]
SteadyPoint   == Server!filter_outliers(Steady)

(* While it is settled a delivered post stores what the slot holds already, and what is    *)
(* fused is what the nodes report.                                                          *)
LEMMA SettledDelivery ==
    ASSUME IInv, Settled, NEW p \in Posts, Deliver(p)
    PROVE  /\ \A k \in AllSensors, i \in Server!Slots :
                 site_data'[SiteName][k].values[i] = Steady[k]
           /\ \/ point'[SiteName] = {SteadyPoint} /\ outcome' = "OK"
              \/ /\ point' = point /\ outcome' # "OK"
                 /\ ~Server!IsNaN(SteadyPoint) => outcome' = "average not saved"
<1>1. net[p] > 0 /\ Server!Accept(p) /\ Server!sites[p.site] = SiteName /\ p.sensor \in Nodes
  BY PostIsAccepted DEF Deliver
<1>2. p.reading = Steady[p.sensor]
  BY <1>1, Sizes DEF Settled, Steady
<1>3. \A k \in AllSensors, i \in Server!Slots : site_data'[SiteName][k].values[i] = Steady[k]
  BY <1>1, <1>2, StoredValues DEF Settled
<1>4. Server!HeldIn(site_data', SiteName) = Steady
  <2>1. WINDOW_SIZE - 1 \in Server!Slots
    BY Sizes DEF Server!Slots
  <2>2. Server!HeldIn(site_data', SiteName)
          = [k \in AllSensors |-> site_data'[SiteName][k].values[WINDOW_SIZE - 1]]
    BY DEF Server!HeldIn, Server!Last, AllSensors, Server!Sensors
  <2>3. Server!HeldIn(site_data', SiteName) = [k \in AllSensors |-> Steady[k]]
    BY <1>3, <2>1, <2>2
  <2> QED
    BY <2>3 DEF Steady
<1>5. Server!sendInfluxdb(SiteName, SteadyPoint)
  BY <1>1, <1>4 DEF Server!Accept, SteadyPoint
<1>6. point \in [Server!Tracked -> SUBSET [sum : Int, n : {2, 3}]] /\ SiteName \in Server!Tracked
  BY DEF IInv, TypeOK, Server!TypeOK, SiteName, Server!Tracked
<1> HIDE DEF SteadyPoint
<1> QED
  BY <1>3, <1>5, <1>6 DEF Server!sendInfluxdb

LEMMA SettledStep ==
    ASSUME IInv, Settled, [Next]_vars
    PROVE  /\ Settled' /\ SteadyPoint' = SteadyPoint
           /\ point'[SiteName] \in {point[SiteName], {SteadyPoint}}
<1>0. calm /\ SteadyWindows
  BY DEF Settled, SteadyWindows
<1>1. ~Restart /\ ~Calm /\ \A k \in Nodes : ~Change(k)
  BY <1>0 DEF Restart, Calm, Change
<1>2. UNCHANGED <<reading, calm>>
  BY <1>1 DEF Next, gcoap_cli_cmd, _resp_handler, Deliver, Lose, nodeVars, vars
<1>3. Steady' = Steady /\ SteadyPoint' = SteadyPoint
  BY <1>2 DEF Steady, SteadyPoint
<1>4. SteadyWindows' /\ point'[SiteName] \in {point[SiteName], {SteadyPoint}}
  <2>1. ASSUME NEW p \in Posts, Deliver(p)
        PROVE  SteadyWindows' /\ point'[SiteName] \in {point[SiteName], {SteadyPoint}}
    <3>1. \A k \in AllSensors, i \in Server!Slots : site_data'[SiteName][k].values[i] = Steady'[k]
      BY <1>3, <2>1, SettledDelivery, Zenon
    <3>2. point'[SiteName] \in {point[SiteName], {SteadyPoint}}
      BY <2>1, SettledDelivery, Zenon
    <3> QED
      BY <3>1, <3>2 DEF SteadyWindows, Server!Slots
  <2>2. ASSUME UNCHANGED serverVars
        PROVE  SteadyWindows' /\ point'[SiteName] \in {point[SiteName], {SteadyPoint}}
    BY <1>0, <1>3, <2>2 DEF SteadyWindows, serverVars, Server!Slots
  <2>3. ASSUME \/ \E k \in Nodes : gcoap_cli_cmd(k) \/ _resp_handler(k)
               \/ \E p \in Posts : Lose(p)
               \/ UNCHANGED vars
        PROVE  UNCHANGED serverVars
    BY <2>3 DEF gcoap_cli_cmd, _resp_handler, Lose, vars
  <2> QED
    BY <1>1, <2>1, <2>2, <2>3 DEF Next
<1>5. \A p \in Posts : net'[p] > 0 => p.reading = reading'[p.sensor]
  <2> SUFFICES ASSUME NEW p \in Posts, net'[p] > 0 PROVE p.reading = reading[p.sensor]
    BY <1>2
  <2>0. net \in [Posts -> 0 .. MaxInFlight] /\ (net[p] > 0 => p.reading = reading[p.sensor])
    BY DEF IInv, TypeOK, Settled
  <2>1. ASSUME NEW k \in Nodes, gcoap_cli_cmd(k) PROVE p.reading = reading[p.sensor]
    <3> DEFINE q == PostsOf[k][reading[k]]
    <3>1. q \in Posts /\ q = PostOf(k, reading[k])
      BY PostFacts DEF IInv, TypeOK
    <3>2. CASE p = q
      BY <3>1, <3>2 DEF PostOf
    <3>3. CASE p # q
      <4>1. net'[p] = net[p]
        BY <2>0, <2>1, <3>3 DEF gcoap_cli_cmd, Sent
      <4> QED
        BY <2>0, <4>1
    <3> QED
      BY <3>2, <3>3
  <2>2. ASSUME NEW q \in Posts, net[q] > 0, net' = [net EXCEPT ![q] = @ - 1]
        PROVE  p.reading = reading[p.sensor]
    BY <2>0, <2>2, Sizes
  <2>3. ASSUME net' = net PROVE p.reading = reading[p.sensor]
    BY <2>0, <2>3
  <2>4. ASSUME NEW q \in Posts, Deliver(q) \/ Lose(q)
        PROVE  net[q] > 0 /\ net' = [net EXCEPT ![q] = @ - 1]
    BY <2>4 DEF Deliver, Lose
  <2>5. ASSUME UNCHANGED vars \/ \E k \in Nodes : _resp_handler(k) PROVE net' = net
    BY <2>5 DEF vars, _resp_handler
  <2> QED
    BY <1>1, <2>1, <2>2, <2>3, <2>4, <2>5 DEF Next
<1>6. Settled'
  BY <1>0, <1>2, <1>4, <1>5 DEF Settled, SteadyWindows
<1> QED
  BY <1>3, <1>4, <1>6

(* There is no way back from a settled state, for any window, pool and network.             *)
THEOREM SettledStaysSettled == Spec => SettledStays
<1>1. IInv /\ [Next]_vars =>
        [Settled => /\ Settled'
                    /\ point'[SiteName] \in {point[SiteName], {Server!filter_outliers(Steady)}}]_vars
  BY SettledStep DEF SteadyPoint
<1> QED
  BY <1>1, InitIInv, NextIInv, PTL DEF Spec, SettledStays

-----------------------------------------------------------------------------
HasRoom(k)  == open[k] < REQ_WAITING_MAX
HasMemo(k)  == open[k] > 0
OnItsWay(k) == \E p \in PostsFrom[k] : net[p] > 0

LEMMA NodeIsFair ==
    ASSUME NEW k \in Nodes
    PROVE  Spec => NodeFairness(k)
<1>1. NodesFairness => NodeFairness(k)
  BY Zenon DEF NodesFairness
<1> QED
  BY <1>1, PTL DEF Spec, Fairness

(* What one node's turns, memos and posts need of the steps.                                *)
LEMMA NodeSteps ==
    ASSUME IInv, [Next]_vars, NEW k \in Nodes
    PROVE  /\ HasRoom(k) \/ HasMemo(k)
           /\ HasRoom(k) => HasRoom(k)' \/ <<gcoap_cli_cmd(k)>>_vars
           /\ <<_resp_handler(k)>>_vars => HasRoom(k)'
           /\ <<gcoap_cli_cmd(k)>>_vars => OnItsWay(k)'
<1>1. open \in [Nodes -> 0 .. REQ_WAITING_MAX] /\ net \in [Posts -> 0 .. MaxInFlight]
  BY DEF IInv, TypeOK
<1>2. HasRoom(k) \/ HasMemo(k)
  BY <1>1, Sizes DEF HasRoom, HasMemo
<1>3. ASSUME HasRoom(k) PROVE HasRoom(k)' \/ <<gcoap_cli_cmd(k)>>_vars
  <2>1. CASE gcoap_cli_cmd(k)
    <3>1. open'[k] = open[k] + 1 /\ open[k] \in Int
      BY <1>1, <2>1, Sizes DEF gcoap_cli_cmd
    <3>2. open' # open
      BY <3>1
    <3> QED
      BY <2>1, <3>2 DEF vars, nodeVars
  <2>2. ASSUME NEW j \in Nodes, j # k, gcoap_cli_cmd(j) PROVE HasRoom(k)'
    BY <1>1, <1>3, <2>2 DEF gcoap_cli_cmd, HasRoom
  <2>3. ASSUME NEW j \in Nodes, _resp_handler(j) PROVE HasRoom(k)'
    BY <1>1, <1>3, <2>3, Sizes DEF _resp_handler, HasRoom
  <2>4. ASSUME open' = open PROVE HasRoom(k)'
    BY <1>3, <2>4 DEF HasRoom
  <2>5. ASSUME \/ \E j \in Nodes : Change(j)
               \/ \E p \in Posts : Deliver(p) \/ Lose(p)
               \/ Restart \/ Calm \/ UNCHANGED vars
        PROVE  open' = open
    BY <2>5 DEF Change, Deliver, Lose, Restart, Calm, vars, nodeVars
  <2> QED
    BY <2>1, <2>2, <2>3, <2>4, <2>5 DEF Next
<1>4. _resp_handler(k) => HasRoom(k)'
  BY <1>1, Sizes DEF _resp_handler, HasRoom
<1>5. ASSUME gcoap_cli_cmd(k) PROVE OnItsWay(k)'
  <2> DEFINE q == PostsOf[k][reading[k]]
  <2>1. reading[k] \in Values[k]
    BY DEF IInv, TypeOK
  <2>2. q \in Posts /\ q \in PostsFrom[k]
    BY <2>1, PostFacts DEF PostsFrom, PostsOf, Range
  <2>3. net'[q] = IF net[q] < MaxInFlight THEN net[q] + 1 ELSE net[q]
    BY <1>1, <1>5, <2>2 DEF gcoap_cli_cmd, Sent
  <2>4. net'[q] > 0
    BY <1>1, <2>2, <2>3, Sizes
  <2> QED
    BY <2>2, <2>4 DEF OnItsWay
<1> QED
  BY <1>2, <1>3, <1>4, <1>5

(* A node that goes on posting gets posts through for ever: its pool empties when full, its *)
(* turns post when there is room, and the network delivers some of what it always has.       *)
LEMMA NodeDelivers ==
    ASSUME NEW k \in Nodes
    PROVE  Spec => []<><<DeliverFrom(k)>>_vars
<1>1. /\ IInv /\ [Next]_vars => HasRoom(k) \/ HasMemo(k)
      /\ IInv /\ [Next]_vars /\ HasRoom(k) => HasRoom(k)' \/ <<gcoap_cli_cmd(k)>>_vars
      /\ IInv /\ [Next]_vars /\ <<_resp_handler(k)>>_vars => HasRoom(k)'
      /\ IInv /\ [Next]_vars /\ <<gcoap_cli_cmd(k)>>_vars => OnItsWay(k)'
  BY NodeSteps
<1>2. NodeFairness(k) <=> /\ <>[]HasRoom(k) => []<><<gcoap_cli_cmd(k)>>_vars
                          /\ <>[]HasMemo(k) => []<><<_resp_handler(k)>>_vars
                          /\ []<>OnItsWay(k) => []<><<DeliverFrom(k)>>_vars
  BY DEF NodeFairness, HasRoom, HasMemo, OnItsWay
<1> QED
  BY <1>1, <1>2, InitIInv, NextIInv, NodeIsFair, PTL DEF Spec

Defined == ~Server!IsNaN(SteadyPoint)
Follows == point[SiteName] = {SteadyPoint}

LEMMA SettledPointStep ==
    ASSUME IInv, Settled, [Next]_vars
    PROVE  /\ Settled' /\ (Defined <=> Defined')
           /\ Follows => Follows'
           /\ <<Written("OK")>>_vars => Follows'
<1>1. /\ Settled' /\ SteadyPoint' = SteadyPoint
      /\ point'[SiteName] \in {point[SiteName], {SteadyPoint}}
  BY SettledStep
<1>2. Defined <=> Defined'
  BY <1>1 DEF Defined, Server!IsNaN
<1>3. Follows => Follows'
  BY <1>1 DEF Follows
<1>4. ASSUME Written("OK") PROVE Follows'
  <2>1. PICK p \in Posts : Deliver(p)
    BY <1>4 DEF Written
  <2>2. outcome' = "OK"
    BY <1>4 DEF Written
  <2>3. point'[SiteName] = {SteadyPoint}
    BY <2>1, <2>2, SettledDelivery
  <2> QED
    BY <1>1, <2>3 DEF Follows
<1> QED
  BY <1>1, <1>2, <1>3, <1>4

LEMMA SettledWrites ==
    ASSUME IInv, Settled, Defined, NEW k \in Nodes, <<DeliverFrom(k)>>_vars
    PROVE  <<Written("OK")>>_vars \/ <<Written("average not saved")>>_vars
<1>1. PICK p \in Posts : Deliver(p)
  BY DEF DeliverFrom, Posts, PostsFrom, Range
<1>2. outcome' = "OK" \/ outcome' = "average not saved"
  BY <1>1, SettledDelivery DEF Defined
<1> QED
  BY <1>1, <1>2 DEF Written

(* Convergence, for any window, pool and network: if calm leads to a settled state, the      *)
(* database follows the sensors.  What is left to TLC is CalmSettles: that windows and        *)
(* network forget within finitely many deliveries.                                             *)
THEOREM SettlingSuffices == Spec => (CalmSettles => PointFollowsSensors)
<1>1. PICK k \in Nodes : TRUE
  BY PipelineAssumption
<1>2. IInv /\ Settled /\ [Next]_vars => /\ Settled' /\ (Defined <=> Defined')
                                        /\ Follows => Follows'
                                        /\ <<Written("OK")>>_vars => Follows'
  BY SettledPointStep
<1>3. IInv /\ Settled /\ Defined /\ <<DeliverFrom(k)>>_vars =>
        <<Written("OK")>>_vars \/ <<Written("average not saved")>>_vars
  BY SettledWrites
<1>4. calm /\ [Next]_vars => calm'
  BY DEF Next, gcoap_cli_cmd, _resp_handler, Change, Deliver, Lose, Restart, Calm, vars
<1>5. Spec => []<><<DeliverFrom(k)>>_vars
  BY NodeDelivers
<1>6. PointFollowsSensors <=> <>[](calm /\ Defined => Follows)
  BY DEF PointFollowsSensors, Defined, Follows, SteadyPoint
<1> QED
  BY <1>2, <1>3, <1>4, <1>5, <1>6, InitIInv, NextIInv, PTL
     DEF Spec, Fairness, DatabaseFairness, CalmSettles

-----------------------------------------------------------------------------
(* A point written by a post is the mean over the kept sensors of what the server holds.   *)
LEMMA DeliveryWrites ==
    ASSUME IInv, NEW p \in Posts, net[p] > 0, Server!render_post(p),
           seen' = seen, point'[SiteName] # point[SiteName]
    PROVE  Abstract!Write
<1> DEFINE r == SP!HeldIn(site_data', SiteName)
           kept(k) == SP!KeptByServer(SP!Dev(r, k), SP!Spread(r))
           Q == {k \in AllSensors : kept(k)}
<1>1. SP!IInv' /\ WindowsAreSeen'
  BY ServerStep
<1>2. SP!Next /\ SP!IInv
  BY SameHandler DEF SP!Next, IInv
<1>3. SiteName \in SP!Tracked /\ AllSensors = SP!Sensors /\ AllSensors = Abstract!Sensors
  BY DEF SiteName, AllSensors, SP!Tracked, SP!Sensors, Abstract!Sensors
<1>4. /\ r \in SP!Triple /\ ~SP!IsNaN(SP!filter_outliers(r))
      /\ point'[SiteName] = {SP!filter_outliers(r)}
  BY <1>1, <1>2, <1>3, ServerAssumptions, SP!NewPointIsFused
<1>5. \A k \in AllSensors : r[k] \in seen[k]
  <2> TAKE k \in AllSensors
  <2>1. WINDOW_SIZE - 1 \in Server!Slots
    BY Sizes DEF Server!Slots
  <2>2. site_data'[SiteName][k].values[WINDOW_SIZE - 1] \in seen[k]
    BY <1>1, <2>1 DEF WindowsAreSeen
  <2>3. r[k] = site_data'[SiteName][k].values[WINDOW_SIZE - 1]
    BY <1>3 DEF SP!HeldIn, SP!Last
  <2> QED
    BY <2>2, <2>3
<1>6. SP!filter_outliers(r).n >= 2
  <2>1. SP!filter_outliers(r).n \in {0, 2, 3}
    BY <1>4, ServerAssumptions, SP!AveragedCount
  <2> QED
    BY <1>4, <2>1 DEF SP!IsNaN
<1>7. SP!filter_outliers(r) = Abstract!Mean(r, Q)
  <2>1. SP!filter_outliers(r) = SP!Average(r, kept("1"), kept("2"), kept("3"))
    BY DEF SP!filter_outliers
  <2>2. Abstract!Mean(r, Q) = Abstract!Average(r, kept("1"), kept("2"), kept("3"))
    <3>1. ("1" \in Q <=> kept("1")) /\ ("2" \in Q <=> kept("2")) /\ ("3" \in Q <=> kept("3"))
      BY DEF AllSensors
    <3> HIDE DEF Q, kept, r
    <3> QED
      BY <3>1 DEF Abstract!Mean, Abstract!Average, Abstract!Part, Abstract!One
  <2> HIDE DEF kept, r, Q
  <2> QED
    BY <2>1, <2>2 DEF SP!Average, Abstract!Average, SP!Part, Abstract!Part, SP!One, Abstract!One
<1>8. r \in Abstract!Choices
  <2>1. r = [k \in AllSensors |-> r[k]]
    BY <1>3, <1>4 DEF SP!Triple
  <2> HIDE DEF r
  <2> QED
    BY <1>3, <1>5, <2>1 DEF Abstract!Choices
<1>9. Q \in SUBSET Abstract!Sensors
  BY <1>3
<1> HIDE DEF r, Q
<1> QED
  BY <1>4, <1>6, <1>7, <1>8, <1>9 DEF Abstract!Write

LEMMA StepImplements == IInv /\ [Next]_vars => [Abstract!Next]_(Abstract!vars)
<1> SUFFICES ASSUME IInv, [Next]_vars PROVE [Abstract!Next]_(Abstract!vars)
  OBVIOUS
<1>1. ASSUME NEW k \in Nodes, gcoap_cli_cmd(k) PROVE Abstract!Report(k) /\ k \in Abstract!Sensors
  <2>1. k \in AllSensors /\ AllSensors = Abstract!Sensors
    BY Sizes DEF AllSensors, Abstract!Sensors
  <2>2. reading[k] \in Int /\ UNCHANGED point
    BY <1>1 DEF gcoap_cli_cmd, serverVars, IInv, TypeOK
  <2>3. \A j \in Nodes : reported'[j] = IF j = k THEN reported[j] \cup {reading[k]} ELSE reported[j]
    BY <1>1 DEF gcoap_cli_cmd, IInv, TypeOK
  <2>4. \A j \in AllSensors : seen'[j] = IF j = k THEN seen[j] \cup {reading[k]} ELSE seen[j]
    BY <2>1, <2>3 DEF seen
  <2>5. seen' = [seen EXCEPT ![k] = @ \cup {reading[k]}]
    <3>1. seen = [j \in AllSensors |-> seen[j]] /\ seen' = [j \in AllSensors |-> seen'[j]]
      BY DEF seen
    <3> HIDE DEF seen
    <3> QED
      BY <2>1, <2>4, <3>1
  <2>6. reading[k] \in seen'[k]
    BY <2>1, <2>4
  <2> HIDE DEF seen
  <2> QED
    BY <2>1, <2>2, <2>5, <2>6 DEF Abstract!Report
<1>2. ASSUME NEW p \in Posts, Deliver(p) PROVE [Abstract!Next]_(Abstract!vars)
  <2>1. net[p] > 0 /\ Server!render_post(p) /\ UNCHANGED nodeVars
    BY <1>2 DEF Deliver
  <2>2. seen' = seen
    BY <2>1 DEF seen, nodeVars
  <2>3. CASE point'[SiteName] = point[SiteName]
    BY <2>2, <2>3 DEF Abstract!vars
  <2>4. CASE point'[SiteName] # point[SiteName]
    BY <2>1, <2>2, <2>4, DeliveryWrites DEF Abstract!Next
  <2> QED
    BY <2>3, <2>4
<1>3. CASE Restart
  <2>1. UNCHANGED point /\ UNCHANGED nodeVars
    BY <1>3 DEF Restart, Server!Restart
  <2>2. seen' = seen
    BY <2>1 DEF seen, nodeVars
  <2> QED
    BY <2>1, <2>2 DEF Abstract!vars
<1>4. ASSUME UNCHANGED <<reported, point>> PROVE [Abstract!Next]_(Abstract!vars)
  <2>1. seen' = seen
    BY <1>4 DEF seen
  <2> QED
    BY <1>4, <2>1 DEF Abstract!vars
<1>5. ASSUME \/ \E k \in Nodes : _resp_handler(k) \/ Change(k)
             \/ \E p \in Posts : Lose(p)
             \/ Calm \/ UNCHANGED vars
      PROVE  UNCHANGED <<reported, point>>
  BY <1>5 DEF _resp_handler, Change, Lose, Calm, vars, nodeVars, serverVars
<1> QED
  BY <1>1, <1>2, <1>3, <1>4, <1>5 DEF Next, Abstract!Next

(* The pipeline implements SiteReport: no point comes out of thin air.                       *)
THEOREM PipelineImplementsSiteReport == Spec => ImplementsSiteReport
<1>1. Init => Abstract!Init
  <2> SUFFICES ASSUME Init PROVE Abstract!Init
    OBVIOUS
  <2>1. \A k \in AllSensors : seen[k] = {0}
    BY DEF Init, seen
  <2>2. seen = [k \in Abstract!Sensors |-> {0}]
    BY <2>1 DEF seen, AllSensors, Abstract!Sensors
  <2>3. point[SiteName] = {}
    BY DEF Init, Server!Init, SiteName, Server!Tracked
  <2> HIDE DEF seen
  <2> QED
    BY <2>2, <2>3 DEF Abstract!Init
<1> QED
  BY <1>1, InitIInv, NextIInv, StepImplements, PTL DEF Spec, ImplementsSiteReport, Abstract!Spec

(* Inside the pipeline the server behaves as TemperatureServer says, so that what is proved *)
(* of the server alone holds here: one faulty node cannot move the points of the site, even  *)
(* when posts are lost and overtake each other.                                               *)
THEOREM OneFaultyNodeMasked == Spec => SP!OneFaultySensorMasked
<1>1. Init => SP!Init
  BY SameServer DEF Init
<1>2. [Next]_vars => [SP!Next]_(SP!vars)
  <2> SUFFICES ASSUME [Next]_vars PROVE [SP!Next]_(SP!vars)
    OBVIOUS
  <2>1. CASE Restart
    BY <2>1, SameServer DEF Restart, SP!Next
  <2>2. ASSUME NEW p \in Posts, Deliver(p) PROVE SP!Next
    BY <2>2, SameHandler DEF Deliver, SP!Next
  <2>3. ASSUME UNCHANGED serverVars PROVE [SP!Next]_(SP!vars)
    BY <2>3 DEF serverVars, SP!vars
  <2>4. ASSUME \/ \E k \in Nodes : gcoap_cli_cmd(k) \/ _resp_handler(k) \/ Change(k)
               \/ \E p \in Posts : Lose(p)
               \/ Calm \/ UNCHANGED vars
        PROVE  UNCHANGED serverVars
    BY <2>4 DEF gcoap_cli_cmd, _resp_handler, Change, Lose, Calm, vars
  <2> QED
    BY <2>1, <2>2, <2>3, <2>4 DEF Next
<1>3. Spec => SP!Spec
  BY <1>1, <1>2, PTL DEF Spec, SP!Spec
<1>4. SP!Spec => SP!OneFaultySensorMasked
  BY ServerAssumptions, SP!OneFaultySensorIsMasked
<1> QED
  BY <1>3, <1>4
=============================================================================
