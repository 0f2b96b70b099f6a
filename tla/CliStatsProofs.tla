--------------------------- MODULE CliStatsProofs ---------------------------
(***************************************************************************)
(* The counter and the observer of /cli/stats, for any clients, any PUTs   *)
(* and any size of the counter; the last theorem is about liveness.         *)
(***************************************************************************)
EXTENDS CliStats, TLAPS

(* What is due while req_count++ is half done. *)
CountInv ==
    /\ shell.at = "load" => due = Incremented(req_count)
    /\ shell.at = "store" => due = Incremented(shell.val)
    /\ CountComesOut

(* Whoever registers while a notification is on its way has been told the count by the  *)
(* answer to its registration; the others get the notification.                            *)
NotifyInv ==
    /\ shell.at \in {"format", "obs_send"} => shell.for \in Clients
    /\ (shell.at = "obs_send" /\ ~shell.late) => shell.val = req_count
    /\ (/\ shell.at \in {"format", "obs_send"}
        /\ observer \notin {NoClient, shell.for} /\ ~outdated) => told = req_count
    /\ ObserverKnowsCount

Inv == TypeOK /\ CountInv /\ NotifyInv

(* An increment stays within the width of the counter. *)
LEMMA IncrementedType == \A n \in Counts : Incremented(n) \in Counts
  BY CliStatsAssumption DEF Incremented, Counts

(* So does a number that a PUT carries, narrowed. *)
LEMMA NarrowedType == \A n \in Payloads : n % COUNT_SIZE \in Counts
  BY CliStatsAssumption DEF Counts

(* The invariant holds initially. *)
LEMMA InitInv == Init => Inv
<1> SUFFICES ASSUME Init PROVE Inv
  OBVIOUS
<1>1. 0 \in Counts /\ NoClient \in Observers
  BY CliStatsAssumption DEF Counts, Observers
<1>2. TypeOK
  BY <1>1 DEF Init, Idle, TypeOK
<1>3. CountInv /\ NotifyInv
  BY DEF Init, Idle, CountInv, CountComesOut, NotifyInv, ObserverKnowsCount
<1> QED
  BY <1>2, <1>3 DEF Inv

(* No step of either thread leaves the types. *)
LEMMA TypeStep == TypeOK /\ [Next]_vars => TypeOK'
<1> SUFFICES ASSUME TypeOK, [Next]_vars PROVE TypeOK'
  OBVIOUS
<1> 0 \in Counts /\ NoClient \in Observers /\ Clients \subseteq Observers
  BY CliStatsAssumption DEF Counts, Observers
<1> USE IncrementedType, NarrowedType DEF TypeOK, Idle, history
<1>1. CASE SendRequest
  BY <1>1 DEF SendRequest
<1>2. CASE LoadCount
  BY <1>2 DEF LoadCount
<1>3. CASE StoreCount
  BY <1>3 DEF StoreCount
<1>4. CASE ObsInit
  BY <1>4 DEF ObsInit
<1>5. CASE FormatCount
  BY <1>5 DEF FormatCount
<1>6. CASE ObsSend
  BY <1>6 DEF ObsSend
<1>7. ASSUME NEW c \in Clients, GetRegister(c) PROVE TypeOK'
  BY <1>7 DEF GetRegister
<1>8. CASE Deregister
  BY <1>8 DEF Deregister
<1>9. ASSUME NEW n \in Payloads, PutCount(n) PROVE TypeOK'
  BY <1>9 DEF PutCount
<1>10. CASE UNCHANGED vars
  BY <1>10 DEF vars
<1> QED
  BY <1>1, <1>2, <1>3, <1>4, <1>5, <1>6, <1>7, <1>8, <1>9, <1>10
  DEF Next, gcoap_cli_cmd, _stats_handler

(* The count and what is due stay together over every interleaving. *)
LEMMA CountStep == TypeOK /\ CountInv /\ [Next]_vars => CountInv'
<1> SUFFICES ASSUME TypeOK, CountInv, [Next]_vars PROVE CountInv'
  OBVIOUS
<1> USE DEF TypeOK, CountInv, CountComesOut, Idle, history
<1>1. CASE SendRequest
  BY <1>1 DEF SendRequest
<1>2. CASE LoadCount
  BY <1>2 DEF LoadCount
<1>3. CASE StoreCount
  BY <1>3 DEF StoreCount
<1>4. CASE ObsInit
  BY <1>4 DEF ObsInit
<1>5. CASE FormatCount
  BY <1>5 DEF FormatCount
<1>6. CASE ObsSend
  BY <1>6 DEF ObsSend
<1>7. ASSUME NEW c \in Clients, GetRegister(c) PROVE CountInv'
  BY <1>7 DEF GetRegister
<1>8. CASE Deregister
  BY <1>8 DEF Deregister
<1>9. ASSUME NEW n \in Payloads, PutCount(n) PROVE CountInv'
  BY <1>9 DEF PutCount
<1>10. CASE UNCHANGED vars
  BY <1>10 DEF vars
<1> QED
  BY <1>1, <1>2, <1>3, <1>4, <1>5, <1>6, <1>7, <1>8, <1>9, <1>10
  DEF Next, gcoap_cli_cmd, _stats_handler

(* Nor does one leave an observer behind that neither knows the count nor will be told. *)
LEMMA NotifyStep == TypeOK /\ NotifyInv /\ [Next]_vars => NotifyInv'
<1> SUFFICES ASSUME TypeOK, NotifyInv, [Next]_vars PROVE NotifyInv'
  OBVIOUS
<1> NoClient \notin Clients
  BY CliStatsAssumption
<1> USE DEF TypeOK, Observers, NotifyInv, ObserverKnowsCount, Idle, history
<1>1. CASE SendRequest
  BY <1>1 DEF SendRequest
<1>2. CASE LoadCount
  BY <1>2 DEF LoadCount
<1>3. CASE StoreCount
  BY <1>3 DEF StoreCount
<1>4. CASE ObsInit
  BY <1>4 DEF ObsInit
<1>5. CASE FormatCount
  BY <1>5 DEF FormatCount
<1>6. CASE ObsSend
  BY <1>6 DEF ObsSend
<1>7. ASSUME NEW c \in Clients, GetRegister(c) PROVE NotifyInv'
  BY <1>7 DEF GetRegister
<1>8. CASE Deregister
  BY <1>8 DEF Deregister
<1>9. ASSUME NEW n \in Payloads, PutCount(n) PROVE NotifyInv'
  BY <1>9 DEF PutCount
<1>10. CASE UNCHANGED vars
  BY <1>10 DEF vars
<1> QED
  BY <1>1, <1>2, <1>3, <1>4, <1>5, <1>6, <1>7, <1>8, <1>9, <1>10
  DEF Next, gcoap_cli_cmd, _stats_handler

(* The invariant holds in every reachable state. *)
LEMMA Invariant == Spec => []Inv
<1>1. Inv /\ [Next]_vars => Inv'
  BY TypeStep, CountStep, NotifyStep DEF Inv
<1> QED
  BY <1>1, InitInv, PTL DEF Spec

(* Type correctness: in particular the count never leaves its width. *)
THEOREM TypeCorrect == Spec => []TypeOK
<1>1. Inv => TypeOK
  BY DEF Inv
<1> QED
  BY <1>1, Invariant, PTL

(* Every request is counted exactly once, on top of the last PUT that did not fall        *)
(* between the load and the store of an increment (client.c's req_count++).                 *)
THEOREM CountAlwaysComesOut == Spec => []CountComesOut
<1>1. Inv => CountComesOut
  BY DEF Inv, CountInv
<1> QED
  BY <1>1, Invariant, PTL

(* At the prompt the observer has been told the count, whenever it registered and whoever  *)
(* observed before it, unless a PUT changed the count since (server.c's notify_observers).   *)
THEOREM ObserverAlwaysKnows == Spec => []ObserverKnowsCount
<1>1. Inv => ObserverKnowsCount
  BY DEF Inv, NotifyInv
<1> QED
  BY <1>1, Invariant, PTL
-----------------------------------------------------------------------------
(* Nobody is owed the effect of an old PUT: an observer that a command under way is not    *)
(* going to tell has been told since, and what it is going to tell is not older.             *)
Caught ==
    /\ (shell.at = "idle" /\ observer # NoClient) => ~outdated
    /\ (shell.at \in {"format", "obs_send"} /\ observer \notin {NoClient, shell.for}) => ~outdated
    /\ shell.at = "obs_send" => ~shell.late

APut == \E n \in Payloads : PutCount(n)

(* It is so when a command begins ... *)
LEMMA CaughtBySending == TypeOK /\ SendRequest => Caught'
BY DEF TypeOK, SendRequest, Caught

(* ... and stays so as long as no PUT comes. *)
LEMMA CaughtUntilPut == TypeOK /\ Caught /\ [Next]_vars /\ [~APut]_vars => Caught'
<1> SUFFICES ASSUME TypeOK, Caught, [Next]_vars, [~APut]_vars PROVE Caught'
  OBVIOUS
<1> USE DEF TypeOK, Caught, Idle, history
<1>1. CASE SendRequest
  BY <1>1, CaughtBySending
<1>2. CASE LoadCount
  BY <1>2 DEF LoadCount
<1>3. CASE StoreCount
  BY <1>3 DEF StoreCount
<1>4. CASE ObsInit
  BY <1>4 DEF ObsInit
<1>5. CASE FormatCount
  BY <1>5 DEF FormatCount
<1>6. CASE ObsSend
  BY <1>6 DEF ObsSend
<1>7. ASSUME NEW c \in Clients, GetRegister(c) PROVE Caught'
  BY <1>7 DEF GetRegister
<1>8. CASE Deregister
  BY <1>8 DEF Deregister
<1>9. CASE UNCHANGED vars
  BY <1>9 DEF vars
<1>10. CASE Next /\ ~APut
  BY <1>1, <1>2, <1>3, <1>4, <1>5, <1>6, <1>7, <1>8, <1>10
  DEF Next, gcoap_cli_cmd, _stats_handler, APut
<1> QED
  BY <1>9, <1>10

(* A PUT, which notifies nobody (server.c:134), is made good by the next request that is    *)
(* sent: if requests go on and PUTs do not, there is a time after which whoever observes      *)
(* the count at the prompt knows it.                                                            *)
THEOREM ObserverAlwaysCatchesUp == Spec => ObserverCatchesUp
<1> DEFINE Knows == (shell.at = "idle" /\ observer # NoClient) => told = req_count
<1>1. TypeOK /\ <<SendRequest>>_vars => Caught'
  BY CaughtBySending
<1>2. TypeOK /\ Caught /\ [Next]_vars /\ [~APut]_vars => Caught'
  BY CaughtUntilPut
<1>3. Inv /\ Caught => Knows
  BY DEF Inv, NotifyInv, ObserverKnowsCount, Caught
<1>4. Inv => TypeOK
  BY DEF Inv
<1>5. Spec /\ []<><<SendRequest>>_vars /\ <>[][~APut]_vars => <>[]Knows
  <2> HIDE DEF Knows
  <2> QED
    BY <1>1, <1>2, <1>3, <1>4, Invariant, PTL DEF Spec
<1> QED
  BY <1>5 DEF ObserverCatchesUp, APut
=============================================================================
