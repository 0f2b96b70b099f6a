------------------------------ MODULE CliStats ------------------------------
(***************************************************************************)
(* The /cli/stats resource of the gcoap example (network/gcoap): server.c  *)
(* with the counter that client.c keeps and the observer it notifies.      *)
(*                                                                         *)
(* Two threads share req_count without a lock.  The shell's command runs   *)
(* at RIOT's main priority and is cut at every access to the counter or to *)
(* RIOT's observe memo; the gcoap thread runs one priority above it, so    *)
(* each _stats_handler call is one step that may fall between any two of   *)
(* the shell's.  Requests that the response handler sends for the rest of  *)
(* a blockwise answer do not go through _send and are not counted.         *)
(* RIOT keeps one observer per resource.                                   *)
(***************************************************************************)
EXTENDS Integers

CONSTANTS Clients,     \* who may observe the resource
          NoClient,    \* nobody does
          Payloads,    \* the numbers a PUT of at most five characters may carry
          COUNT_SIZE   \* how many values req_count has (2^16 in the code)

ASSUME CliStatsAssumption ==
    /\ NoClient \notin Clients
    /\ Payloads \subseteq Nat
    /\ COUNT_SIZE \in Nat \ {0}

Counts    == 0 .. COUNT_SIZE - 1
Observers == Clients \cup {NoClient}

VARIABLES req_count,
          shell,      \* where the command is, the number and the observer it works with
          observer,   \* RIOT's observe memo of /cli/stats
          told,       \* history: the count the node last sent to its observer
          due,        \* history: the count if req_count++ could not be interrupted by a PUT
          outdated    \* history: a PUT was handled after the count in told was read

vars == <<req_count, shell, observer, told, due, outdated>>
history == <<told, due, outdated>>

(* "idle": at the prompt; "load", "store": the halves of req_count++; "obs_init",   *)
(* "format", "obs_send": the steps of notify_observers.  val is the loaded or the     *)
(* formatted count, for the observer the notification is addressed to, late that a     *)
(* PUT came after the count was formatted.                                               *)
Idle == [at |-> "idle", val |-> 0, for |-> NoClient, late |-> FALSE]

Init ==
    /\ req_count = 0
    /\ shell = Idle
    /\ observer = NoClient
    /\ told = 0 /\ due = 0 /\ outdated = FALSE

Incremented(n) == (n + 1) % COUNT_SIZE
-----------------------------------------------------------------------------
(* For comparison only: a request counted although it could not be sent.               *)
CountedUnsent ==
    /\ shell.at = "idle"
    /\ shell' = [shell EXCEPT !.at = "load"]
    /\ due' \in {due, Incremented(due)}
    /\ UNCHANGED <<req_count, observer, told, outdated>>

(* The command up to gcoap_req_send.  A request that cannot be sent leaves nothing      *)
(* behind: it is neither counted nor notified.                                            *)
SendRequest ==
    /\ shell.at = "idle"
    /\ shell' = [shell EXCEPT !.at = "load"]
    /\ due' = Incremented(due)
    /\ UNCHANGED <<req_count, observer, told, outdated>>

LoadCount ==
    /\ shell.at = "load"
    /\ shell' = [shell EXCEPT !.at = "store", !.val = req_count]
    /\ UNCHANGED <<req_count, observer, history>>

(* For comparison only: the sum kept wider than the counter.                             *)
StoreWide ==
    /\ shell.at = "store"
    /\ req_count' = shell.val + 1
    /\ shell' = [shell EXCEPT !.at = "obs_init"]
    /\ UNCHANGED <<observer, history>>

StoreCount ==
    /\ shell.at = "store"
    /\ req_count' = Incremented(shell.val)
    /\ shell' = [shell EXCEPT !.at = "obs_init"]
    /\ UNCHANGED <<observer, history>>

(* gcoap_obs_init: without an observer the command is over.                               *)
ObsInit ==
    /\ shell.at = "obs_init"
    /\ shell' = IF observer = NoClient THEN Idle
                ELSE [shell EXCEPT !.at = "format", !.for = observer]
    /\ UNCHANGED <<req_count, observer, history>>

(* For comparison only: the notification carrying the count loaded before.               *)
FormatLoaded ==
    /\ shell.at = "format"
    /\ shell' = [shell EXCEPT !.at = "obs_send", !.late = FALSE]
    /\ UNCHANGED <<req_count, observer, history>>

FormatCount ==
    /\ shell.at = "format"
    /\ shell' = [shell EXCEPT !.at = "obs_send", !.val = req_count, !.late = FALSE]
    /\ UNCHANGED <<req_count, observer, history>>

(* gcoap_obs_send looks the observer up again: nothing is sent without one, and a        *)
(* client takes no notification with the token of another.                                 *)
ObsSend ==
    /\ shell.at = "obs_send"
    /\ IF observer # NoClient /\ observer = shell.for
       THEN told' = shell.val /\ outdated' = shell.late
       ELSE UNCHANGED <<told, outdated>>
    /\ shell' = Idle
    /\ UNCHANGED <<req_count, observer, due>>

gcoap_cli_cmd ==
    SendRequest \/ LoadCount \/ StoreCount \/ ObsInit \/ FormatCount \/ ObsSend

(* GET with Observe: RIOT registers the client unless another is registered, and the     *)
(* handler answers with the count.  (A plain GET changes nothing.)                         *)
GetRegister(c) ==
    /\ observer \in {NoClient, c}
    /\ observer' = c
    /\ told' = req_count /\ outdated' = FALSE
    /\ UNCHANGED <<req_count, shell, due>>

(* The client deregisters, or rejects a notification.                                      *)
Deregister ==
    /\ observer # NoClient
    /\ observer' = NoClient
    /\ UNCHANGED <<req_count, shell, history>>

(* PUT of the number n: strtoul, narrowed to 16 bits, with no notification.  (A longer     *)
(* payload is refused and changes nothing.)  In the shadow of a loaded req_count++ it is     *)
(* going to be overwritten, so it is not due.                                                  *)
PutCount(n) ==
    LET v == n % COUNT_SIZE
    IN  /\ req_count' = v
        /\ due' = CASE shell.at = "load"  -> Incremented(v)
                    [] shell.at = "store" -> due
                    [] OTHER              -> v
        /\ shell' = [shell EXCEPT !.late = (shell.at = "obs_send")]
        /\ outdated' = TRUE
        /\ UNCHANGED <<observer, told>>

_stats_handler == (\E c \in Clients : GetRegister(c)) \/ \E n \in Payloads : PutCount(n)

Next == gcoap_cli_cmd \/ _stats_handler \/ Deregister

Spec == Init /\ [][Next]_vars
-----------------------------------------------------------------------------
TypeOK ==
    /\ req_count \in Counts /\ told \in Counts /\ due \in Counts
    /\ shell \in [at : {"idle", "load", "store", "obs_init", "format", "obs_send"},
                  val : Counts, for : Observers, late : BOOLEAN]
    /\ observer \in Observers
    /\ outdated \in BOOLEAN

(* Every request sent is counted once, on top of the last PUT that was not lost, and a   *)
(* PUT is lost only between the load and the store of one increment: whatever the gcoap    *)
(* thread does in between, the count comes out at what is due.                              *)
CountComesOut == shell.at \notin {"load", "store"} => req_count = due

(* At the prompt the observer knows the count, unless a PUT changed it since, although    *)
(* it may have come, gone or been replaced at any point of a command's notification.       *)
ObserverKnowsCount ==
    (shell.at = "idle" /\ observer # NoClient /\ ~outdated) => told = req_count

(* A PUT notifies nobody (server.c:134), and that is made good: once no more of them come   *)
(* and the shell goes on sending requests, there is a time after which whoever observes      *)
(* the count at the prompt knows it, also if the notification under way was formatted before   *)
(* the PUT, or its addressee left.                                                              *)
ObserverCatchesUp ==
    ([]<><<SendRequest>>_vars /\ <>[][~ \E n \in Payloads : PutCount(n)]_vars)
        => <>[]((shell.at = "idle" /\ observer # NoClient) => told = req_count)
-----------------------------------------------------------------------------
(* server.c:106-109: "GET: Returns the count of packets sent by the CLI.  PUT: Updates    *)
(* the count of packets."  A request sent is counted on top of what the resource holds.     *)
CountedOnTop ==
    [][(shell.at = "store" /\ shell'.at # "store") => req_count' = Incremented(req_count)]_vars
=============================================================================
