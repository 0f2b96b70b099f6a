------------------------------ MODULE Pipeline ------------------------------
(***************************************************************************)
(* From the nodes of one site to the database: each node's loop posts what *)
(* it reports (compute_engine/main.c and gcoap_cli.c), the network loses    *)
(* and reorders posts, and the server of TemperatureServer handles them.    *)
(*                                                                         *)
(* Posts are non-confirmable: RIOT never repeats one, and aiocoap does not  *)
(* hand a repeated message to the handler.  The node's memo of a post is    *)
(* released by its response or by RIOT's timer; the post itself may still   *)
(* be on its way.  What a node reports is SensorNode's business; here it is *)
(* a value that changes while the temperature does.                         *)
(***************************************************************************)
EXTENDS Parity, Functions

CONSTANTS Nodes,            \* the sensors of the site that have a node
          Values,           \* node -> what it may report
          WINDOW_SIZE,      \* slots kept per sensor by the server
          REQ_WAITING_MAX,  \* RIOT's pool of request memos
          MaxInFlight       \* bound: copies of one post the network holds

(* The node's table of sites; a name that is not in it is coded like "UNKNOWN". *)
locationMap == [UNKNOWN |-> "0", grenoble |-> "1", paris |-> "2",
                lille |-> "3", saclay |-> "4", strasbourg |-> "5"]

(* For comparison only: a table in which the site has no entry yet.            *)
BinaryValueMissing(location) ==
    IF location \in DOMAIN locationMap \ {"grenoble"} THEN locationMap[location] ELSE "0"

getBinaryValue(location) ==
    IF location \in DOMAIN locationMap THEN locationMap[location] ELSE "0"

(* SITE_NAME of the build, a site with an entry in every table, and its code. *)
SiteName == "grenoble"
SiteCode == getBinaryValue(SiteName)

AllSensors == {"1", "2", "3"}

ASSUME PipelineAssumption ==
    /\ Nodes \subseteq AllSensors /\ Nodes # {}
    /\ Values \in [Nodes -> SUBSET Int] /\ \A k \in Nodes : Values[k] # {}
    /\ WINDOW_SIZE \in Nat \ {0} /\ REQ_WAITING_MAX \in Nat \ {0} /\ MaxInFlight \in Nat \ {0}

(* The post of node k reporting v: main()'s snprintf and the server's parsing of it. *)
PostOf(k, v) ==
    [site |-> SiteCode, sensor |-> k, reading |-> v, parity |-> calculate_odd_parity(v)]

PostsOf == [k \in Nodes |-> [v \in Values[k] |-> PostOf(k, v)]]
PostsFrom == [k \in Nodes |-> Range(PostsOf[k])]
Posts     == UNION Range(PostsFrom)

VARIABLES reading,   \* node -> what it reports now
          reported,  \* history: node -> what it has posted
          open,      \* node -> memos taken in RIOT's pool
          net,       \* post -> how many of it the network holds
          calm,      \* the temperature and the server's process have become steady
          site_data, point, outcome, accepted     \* TemperatureServer's

Server == INSTANCE TemperatureServer

nodeVars   == <<reading, reported, open>>
serverVars == <<site_data, point, outcome, accepted>>
vars       == <<nodeVars, net, calm, serverVars>>

Init ==
    /\ reading \in {f \in [Nodes -> UNION {Values[k] : k \in Nodes}] :
                      \A k \in Nodes : f[k] \in Values[k]}
    /\ reported = [k \in Nodes |-> {}]
    /\ open = [k \in Nodes |-> 0]
    /\ net = [p \in Posts |-> 0]
    /\ calm = FALSE
    /\ Server!Init
-----------------------------------------------------------------------------
Sent(p) == [net EXCEPT ![p] = IF @ < MaxInFlight THEN @ + 1 ELSE @]

(* For comparison only: the pool of memos growing with every request.                *)
SentWithoutPool(k) ==
    /\ open[k] <= REQ_WAITING_MAX
    /\ open' = [open EXCEPT ![k] = @ + 1]
    /\ net' = Sent(PostsOf[k][reading[k]])
    /\ reported' = [reported EXCEPT ![k] = @ \cup {reading[k]}]
    /\ UNCHANGED <<reading, calm, serverVars>>

(* For comparison only: a turn posting what an earlier one had formatted.             *)
SentStale(k) ==
    /\ open[k] < REQ_WAITING_MAX
    /\ open' = [open EXCEPT ![k] = @ + 1]
    /\ \E v \in reported[k] \cup {reading[k]} : net' = Sent(PostsOf[k][v])
    /\ reported' = [reported EXCEPT ![k] = @ \cup {reading[k]}]
    /\ UNCHANGED <<reading, calm, serverVars>>

(* One turn's gcoap_cli_cmd.  Without a free memo, or without a route, nothing is   *)
(* sent and nobody tries again; a full network drops the post.                       *)
gcoap_cli_cmd(k) ==
    /\ open[k] < REQ_WAITING_MAX
    /\ open' = [open EXCEPT ![k] = @ + 1]
    /\ net' = Sent(PostsOf[k][reading[k]])
    /\ reported' = [reported EXCEPT ![k] = @ \cup {reading[k]}]
    /\ UNCHANGED <<reading, calm, serverVars>>

(* A response or a timeout: printed, and RIOT releases the memo.  The server's       *)
(* answers have no further block, so nothing else is sent.                            *)
_resp_handler(k) ==
    /\ open[k] > 0
    /\ open' = [open EXCEPT ![k] = @ - 1]
    /\ UNCHANGED <<reading, reported, net, calm, serverVars>>

(* The network hands over any of its posts: the order is not kept.                    *)
Deliver(p) ==
    /\ net[p] > 0
    /\ net' = [net EXCEPT ![p] = @ - 1]
    /\ Server!render_post(p)
    /\ UNCHANGED <<nodeVars, calm>>

Lose(p) ==
    /\ net[p] > 0
    /\ net' = [net EXCEPT ![p] = @ - 1]
    /\ UNCHANGED <<nodeVars, calm, serverVars>>

(* Until it is calm, a node may come to report another value and the server may      *)
(* be started again.                                                                   *)
Change(k) ==
    /\ ~calm
    /\ \E v \in Values[k] \ {reading[k]} : reading' = [reading EXCEPT ![k] = v]
    /\ UNCHANGED <<reported, open, net, calm, serverVars>>

Restart == ~calm /\ Server!Restart /\ UNCHANGED <<nodeVars, net, calm>>

Calm == ~calm /\ calm' = TRUE /\ UNCHANGED <<nodeVars, net, serverVars>>

Next ==
    \/ \E k \in Nodes : gcoap_cli_cmd(k) \/ _resp_handler(k) \/ Change(k)
    \/ \E p \in Posts : Deliver(p) \/ Lose(p)
    \/ Restart \/ Calm

DeliverFrom(k) == \E p \in PostsFrom[k] : Deliver(p)
Leave(p)       == net[p] > 0 /\ net' = [net EXCEPT ![p] = @ - 1]
Written(how)   == outcome' = how /\ \E p \in Posts : Deliver(p)

(* The nodes' loops and RIOT's timers never stop (weak fairness of gcoap_cli_cmd and    *)
(* _resp_handler).  Of the environment: no post stays in the network for ever, the      *)
(* network that always gets new posts of a node delivers some (strong fairness), and the *)
(* database does not refuse every average from some point on.  The state predicates are   *)
(* ENABLED of the actions, written out.                                                     *)
NodeFairness(k) ==
    /\ <>[](open[k] < REQ_WAITING_MAX) => []<><<gcoap_cli_cmd(k)>>_vars
    /\ <>[](open[k] > 0) => []<><<_resp_handler(k)>>_vars
    /\ []<>(\E p \in PostsFrom[k] : net[p] > 0) => []<><<DeliverFrom(k)>>_vars

NodesFairness    == \A k \in Nodes : NodeFairness(k)
NetworkFairness  == \A p \in Posts : WF_net(Leave(p))
DatabaseFairness == []<><<Written("average not saved")>>_vars => []<><<Written("OK")>>_vars

Fairness == NodesFairness /\ NetworkFairness /\ DatabaseFairness

Spec == Init /\ [][Next]_vars /\ Fairness
-----------------------------------------------------------------------------
TypeOK ==
    /\ reading \in [Nodes -> Int] /\ \A k \in Nodes : reading[k] \in Values[k]
    /\ reported \in [Nodes -> SUBSET Int] /\ \A k \in Nodes : reported[k] \subseteq Values[k]
    /\ open \in [Nodes -> 0 .. REQ_WAITING_MAX]
    /\ net \in [Posts -> 0 .. MaxInFlight]
    /\ calm \in BOOLEAN
    /\ Server!TypeOK

(* The two languages agree: whatever a node reports, and however late it comes, the        *)
(* server takes it.  The node's code of its site and the name of its sensor are keys of    *)
(* the server's tables, and the server counts the ones of a negative value as the node      *)
(* does.  A post fails, if at all, in the write of its average.                              *)
NoPostRefused == outcome \in {"none", "OK", "average not saved", "NaN not saved"}

(* What the site's sensors report; a sensor without a node keeps the server's zero.   *)
Steady == [k \in AllSensors |-> IF k \in Nodes THEN reading[k] ELSE 0]

(* Nothing of earlier readings is left, in the network or in the site's windows.          *)
Settled ==
    /\ calm
    /\ \A p \in Posts : net[p] > 0 => p.reading = reading[p.sensor]
    /\ \A k \in AllSensors, i \in Server!Slots :
          site_data[SiteName][k].values[i] = Steady[k]

(* No way back: once nothing of earlier readings is left, no loss, delay, refused write or *)
(* rotation of the windows brings any of it back, and a new point can only be the fusion    *)
(* of what the nodes report.                                                                 *)
SettledStays ==
    [][Settled => /\ Settled'
                  /\ point'[SiteName] \in {point[SiteName], {Server!filter_outliers(Steady)}}]_vars

(* And the way there: once it is calm, the network gets rid of what is late and every slot *)
(* of the windows is overwritten, whatever is lost on the way.                               *)
CalmSettles == <>[]calm => <>[]Settled

(* The database follows the sensors: once the readings are steady, whatever was lost,   *)
(* overtaken, refused or forgotten before, the newest point becomes the fusion of what    *)
(* the nodes report and stays it (unless they agree exactly, see server_unanimous).       *)
PointFollowsSensors ==
    <>[](LET x == Server!filter_outliers(Steady)
         IN  (calm /\ ~Server!IsNaN(x)) => point[SiteName] = {x})

(* What a site's sensors may have contributed to its points: what their nodes have       *)
(* posted, and the zero the server's windows start with.                                  *)
seen == [k \in AllSensors |-> {0} \cup (IF k \in Nodes THEN reported[k] ELSE {})]

(* No point comes out of thin air: whatever is lost, delayed, overtaken or forgotten,     *)
(* every point is the mean over at least two of the site's sensors of values that each    *)
(* sensor's own node had posted by then.                                                  *)
Abstract == INSTANCE SiteReport WITH point <- point[SiteName]
ImplementsSiteReport == Abstract!Spec
=============================================================================
