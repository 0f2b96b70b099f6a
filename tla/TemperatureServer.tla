-------------------------- MODULE TemperatureServer --------------------------
(***************************************************************************)
(* The CoAP server's /temp resource: Temperature.render_post of            *)
(* server/app/coap_server.py and the InfluxDB write of database.py.        *)
(*                                                                         *)
(* One post is one step: render_post never really suspends (sendInfluxdb,  *)
(* client and save are coroutines that await no I/O), so asyncio runs the  *)
(* handler of one post to its end before it starts the next.  An exception *)
(* leaves the handler where it is raised and aiocoap answers 5.00; what    *)
(* was assigned before it stays assigned.                                  *)
(***************************************************************************)
EXTENDS Fusion, Parity, Sequences

CONSTANTS WINDOW_SIZE,  \* slots kept per sensor (2 in the code)
          Posts         \* the posts the network delivers: what their JSON says

ASSUME WindowAssumption == WINDOW_SIZE \in Nat \ {0}
ASSUME PostsAssumption == \A p \in Posts : p.reading \in Int /\ p.parity \in Int

VARIABLES site_data,    \* site -> sensor -> [values, index]
          point,        \* site -> {} or {the newest point in InfluxDB}
          outcome,      \* how the handler of the last post ended
          accepted      \* history: the last WINDOW_SIZE readings stored, oldest first

vars == <<site_data, point, outcome, accepted>>

(* configuration.py *)
sites == [code \in {"0", "1", "2", "3", "4", "5"} |->
            CASE code = "0" -> "UNKNOWN"
              [] code = "1" -> "grenoble"
              [] code = "2" -> "paris"
              [] code = "3" -> "lille"
              [] code = "4" -> "saclay"
              [] code = "5" -> "strasbourg"]

(* The keys of self.site_data; the last one is spelled as in the code. *)
Tracked == {"grenoble", "strasbourg", "saclay", "lillie"}

Slots == 0 .. WINDOW_SIZE - 1

EmptyWindow == [values |-> [i \in Slots |-> 0], index |-> 0]
InitialData == [s \in Tracked |-> [k \in Sensors |-> EmptyWindow]]

(* For comparison only: the slot values[0].                                      *)
FirstSlot(w) == w.values[0]
(* values[-1]: the last SLOT of the list, which is not the newest reading. *)
Last(w) == w.values[WINDOW_SIZE - 1]

HeldIn(d, s) == [k \in Sensors |-> Last(d[s][k])]

Stored(w, v) == [w EXCEPT !.values[w.index] = v]

(* For comparison only: the index not wrapping, and not moving.                 *)
AdvancedPastEnd(w) == [w EXCEPT !.index = w.index + 1]
NotAdvanced(w)     == w
Advanced(w)        == [w EXCEPT !.index = (w.index + 1) % WINDOW_SIZE]

(* "OK" is answered 2.04; every other outcome is an exception, answered 5.00:   *)
(* where it was raised, or what the handler had computed when it was.            *)
Outcomes == {"none", "OK", "average not saved", "NaN not saved", "no site_data['values']",
             "site not in sites", "site not in site_data", "sensor not in site_data"}

Shift(h, v) == IF Len(h) = WINDOW_SIZE THEN Append(Tail(h), v) ELSE Append(h, v)

(* sendInfluxdb: the value goes into the row of its site, or client or save     *)
(* raises.  InfluxDB's fields cannot hold NaN, so a NaN is never stored.         *)
sendInfluxdb(s, x) ==
    \/ /\ ~IsNaN(x)
       /\ point' = [point EXCEPT ![s] = {x}]
       /\ outcome' = "OK"
    \/ /\ UNCHANGED point
       /\ outcome' = IF IsNaN(x) THEN "NaN not saved" ELSE "average not saved"

Init ==
    /\ site_data = InitialData
    /\ point = [s \in Tracked |-> {}]
    /\ outcome = "none"
    /\ accepted = [s \in Tracked |-> [k \in Sensors |-> <<>>]]

TrackedPost(p) == p.site \in DOMAIN sites /\ sites[p.site] \in Tracked
Matched(p)     == parityCheck(p.reading, p.parity)

(* The handler fusing what it held before it stores: for comparison only.        *)
AcceptFusedTooEarly(p) ==
    LET s == sites[p.site]
        k == p.sensor
    IN  /\ TrackedPost(p) /\ k \in Sensors /\ Matched(p)
        /\ site_data' = [site_data EXCEPT ![s][k] = Advanced(Stored(@, p.reading))]
        /\ accepted' = [accepted EXCEPT ![s][k] = Shift(@, p.reading)]
        /\ \E x \in {filter_outliers(HeldIn(site_data, s))} : sendInfluxdb(s, x)

(* The handler storing the reading once the database has its average: for        *)
(* comparison only.                                                              *)
AcceptStoredIfSaved(p) ==
    LET s == sites[p.site]
        k == p.sensor
        d == [site_data EXCEPT ![s][k] = Advanced(Stored(@, p.reading))]
    IN  /\ TrackedPost(p) /\ k \in Sensors /\ Matched(p)
        /\ accepted' = [accepted EXCEPT ![s][k] = Shift(@, p.reading)]
        /\ \E x \in {filter_outliers(HeldIn(d, s))} : sendInfluxdb(s, x)
        /\ site_data' = IF outcome' = "OK" THEN d ELSE site_data

(* A post whose parity matches.  The reading is stored and the index moved       *)
(* BEFORE the database is asked, so a failed write answers 5.00 with the          *)
(* window already changed.                                                        *)
Accept(p) ==
    LET s == sites[p.site]
        k == p.sensor
    IN  /\ TrackedPost(p) /\ k \in Sensors /\ Matched(p)
        /\ site_data' = [site_data EXCEPT ![s][k] = Advanced(Stored(@, p.reading))]
        /\ accepted' = [accepted EXCEPT ![s][k] = Shift(@, p.reading)]
        /\ \E x \in {filter_outliers(HeldIn(site_data', s))} : sendInfluxdb(s, x)

Raise(how) == outcome' = how /\ UNCHANGED <<site_data, point, accepted>>

(* A post whose parity does not match.  The branch meant to repair it looks up    *)
(* self.site_data[site_name]['values'], a key no site has: KeyError, nothing      *)
(* stored, the index not moved.                                                   *)
Mismatch(p) == TrackedPost(p) /\ ~Matched(p) /\ Raise("no site_data['values']")

(* A site code that configuration.py does not know (a payload that does not       *)
(* decode fails at the same place, with nothing assigned).                        *)
UnknownSite(p) == p.site \notin DOMAIN sites /\ Raise("site not in sites")

(* A site that configuration.py knows and self.site_data does not hold.  With a    *)
(* mismatch the same KeyError is raised two lines below.                           *)
UntrackedSite(p) ==
    p.site \in DOMAIN sites /\ ~TrackedPost(p) /\ Raise("site not in site_data")

UnknownSensor(p) ==
    /\ TrackedPost(p) /\ Matched(p) /\ p.sensor \notin Sensors
    /\ Raise("sensor not in site_data")

render_post(p) ==
    \/ Accept(p)
    \/ Mismatch(p)
    \/ UnknownSite(p)
    \/ UntrackedSite(p)
    \/ UnknownSensor(p)

(* The server process ends and starts again: the windows live in memory only.     *)
Restart ==
    /\ site_data' = InitialData
    /\ accepted' = [s \in Tracked |-> [k \in Sensors |-> <<>>]]
    /\ outcome' = "none"
    /\ UNCHANGED point

Next == Restart \/ \E p \in Posts : render_post(p)

Spec == Init /\ [][Next]_vars
-----------------------------------------------------------------------------
Readings == {p.reading : p \in Posts}
Window   == [values : [Slots -> Readings \cup {0}], index : Slots]

TypeOK ==
    /\ site_data \in [Tracked -> [Sensors -> Window]]
    /\ point \in [Tracked -> SUBSET [sum : Int, n : {2, 3}]]
    /\ outcome \in Outcomes
    /\ accepted \in [Tracked -> [Sensors -> Seq(Readings)]]

held == [s \in Tracked |-> HeldIn(site_data, s)]

(* The reading the handler fuses for a sensor is as many accepted posts old as *)
(* the sensor's index: the newest only when the index has just wrapped to 0,    *)
(* and 0 until the sensor's first WINDOW_SIZE posts have filled the window.      *)
HeldReadingAge ==
    \A s \in Tracked, k \in Sensors :
       LET h == accepted[s][k]
           i == site_data[s][k].index
       IN  IF Len(h) = WINDOW_SIZE THEN held[s][k] = h[WINDOW_SIZE - i]
                                   ELSE held[s][k] = 0 /\ i = Len(h)

Warm(h, s) == \A k \in Sensors : Len(h[s][k]) = WINDOW_SIZE

(* Once every sensor of a site has filled its window, a point written for the   *)
(* site lies between two readings its sensors really reported within their       *)
(* windows: the zeros the windows start with are gone from the database.         *)
NoPhantomReading ==
    [][\A s \in Tracked : (point'[s] # point[s] /\ Warm(accepted', s)) =>
         \A x \in point'[s] :
            LET all == UNION {{accepted'[s][k][i] : i \in 1 .. WINDOW_SIZE} : k \in Sensors}
            IN  /\ \E lo \in all : x.n * lo <= x.sum
                /\ \E hi \in all : x.sum <= x.n * hi]_vars

(* One sensor cannot move the database: while the windows of two sensors hold a *)
(* single common reading v, every point written for the site is v, whatever the  *)
(* third sensor has been posting.                                                *)
OneFaultySensorMasked ==
    [][\A s \in Tracked, a, b \in Sensors :
          (/\ point'[s] # point[s] /\ Warm(accepted', s) /\ a # b
           /\ \A i \in 1 .. WINDOW_SIZE : /\ accepted'[s][a][i] = accepted'[s][a][1]
                                          /\ accepted'[s][b][i] = accepted'[s][a][1])
            => point'[s] = {[sum |-> 2 * accepted'[s][a][1], n |-> 2]}]_vars

(* The server with its rings, indexes, parity and half-done posts implements    *)
(* the abstract cell that holds one reading per sensor and fuses what it holds.   *)
Cell == INSTANCE FusionCell WITH Sites <- Tracked, Start <- 0
ImplementsFusionCell == Cell!Spec
-----------------------------------------------------------------------------
(* docs/SENSOR.md:80, of a reading whose parity does not match: "the server      *)
(* average out the corrupted data".  No post ends because of its parity.           *)
MismatchIsRepaired == outcome # "no site_data['values']"

(* README.md:282: "Using selected good sensor readings we take the average of     *)
(* them to get the final output.  This final output is the data we save".  Once    *)
(* the windows of a site are full, storing a reading yields an average, which is    *)
(* saved unless the database fails.                                                *)
StoredReadingIsAveraged ==
    [][\A s \in Tracked : (site_data'[s] # site_data[s] /\ Warm(accepted', s))
                              => outcome' # "NaN not saved"]_vars

(* docs/COMPRESSION.md:11-18 encodes six sites, lille (011) among them, and        *)
(* configuration.py knows the codes: no post from a site of the table is refused    *)
(* for its site.                                                                    *)
EncodedSitesAreServed == outcome # "site not in site_data"
=============================================================================
