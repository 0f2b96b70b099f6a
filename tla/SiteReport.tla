----------------------------- MODULE SiteReport -----------------------------
(***************************************************************************)
(* What the whole pipeline promises of one site, without memos, network,   *)
(* windows or threshold: a sensor's contribution to a point is something   *)
(* its own node has posted, or the zero the server starts from, and a      *)
(* point is the mean over at least two of the three sensors.               *)
(***************************************************************************)
EXTENDS Fusion

VARIABLES seen,    \* sensor -> the values it may have contributed
          point    \* the newest point in the database, a set of at most one

vars == <<seen, point>>

Init == seen = [k \in Sensors |-> {0}] /\ point = {}

(* A node posts a value, a new one or one it has posted before. *)
Report(k) ==
    /\ \E v \in seen'[k] : v \in Int /\ seen' = [seen EXCEPT ![k] = @ \cup {v}]
    /\ UNCHANGED point

(* One value of every sensor. *)
Choices == {r \in [Sensors -> UNION {seen[k] : k \in Sensors}] :
               \A k \in Sensors : r[k] \in seen[k]}

Mean(r, Q) == Average(r, "1" \in Q, "2" \in Q, "3" \in Q)

(* A new point; the same one written again changes nothing. *)
Write ==
    /\ point' # point
    /\ \E r \in Choices, Q \in SUBSET Sensors : Mean(r, Q).n >= 2 /\ point' = {Mean(r, Q)}
    /\ UNCHANGED seen

Next == Write \/ \E k \in Sensors : Report(k)

Spec == Init /\ [][Next]_vars
=============================================================================
