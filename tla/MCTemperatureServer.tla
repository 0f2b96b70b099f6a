------------------------- MODULE MCTemperatureServer -------------------------
EXTENDS TemperatureServer

Honest(site, sensor, values) ==
    {[site |-> site, sensor |-> sensor, reading |-> v, parity |-> calculate_odd_parity(v)]
       : v \in values}

Bad(site, sensor, v) ==
    [site |-> site, sensor |-> sensor, reading |-> v,
     parity |-> 1 - calculate_odd_parity(v)]

(* The three sensors of one tracked site; sensor 3 reports a third value, so    *)
(* that triples with and without an outlier occur after the windows are full.   *)
HonestPosts == Honest("1", "1", {1, 3}) \cup Honest("1", "2", {1, 3})
                 \cup Honest("1", "3", {1, 2, 3})

(* One post of each kind the handler refuses: a parity mismatch, a code no       *)
(* table holds, lille, and a fourth sensor.                                      *)
RefusedPosts == {Bad("1", "2", 3)} \cup Honest("9", "1", {1})
                  \cup Honest("3", "1", {1}) \cup Honest("1", "4", {1})

ServerPosts == HonestPosts \cup RefusedPosts
=============================================================================
