----------------------------- MODULE FusionCell -----------------------------
(***************************************************************************)
(* What the server promises per site, without windows, indexes or parity:  *)
(* it holds one reading per sensor, a report replaces at most one of them, *)
(* and every point in the database is the fusion of the readings held at   *)
(* the moment it was written.                                              *)
(***************************************************************************)
EXTENDS Fusion

CONSTANTS Sites,        \* the sites the server keeps
          Start         \* the reading held before any report

VARIABLES held,         \* site -> sensor -> reading
          point         \* site -> the newest point in the database, a set of at most one

vars == <<held, point>>

AllStart == [s \in Sites |-> [k \in Sensors |-> Start]]

Init == held = AllStart /\ point = [s \in Sites |-> {}]

(* One sensor of one site reports; its held reading may change.  The fused  *)
(* value is written unless it is undefined or the database refuses it.      *)
Report(s, k) ==
    /\ held'[s][k] \in Int
    /\ held' = [held EXCEPT ![s][k] = held'[s][k]]
    /\ \/ point' = point
       \/ /\ ~IsNaN(filter_outliers(held'[s]))
          /\ point' = [point EXCEPT ![s] = {filter_outliers(held'[s])}]

(* The server process starts again; the database keeps its points. *)
Restart == held' = AllStart /\ UNCHANGED point

Next == Restart \/ \E s \in Sites, k \in Sensors : Report(s, k)

Spec == Init /\ [][Next]_vars
=============================================================================
