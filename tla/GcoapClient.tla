----------------------------- MODULE GcoapClient -----------------------------
(***************************************************************************)
(* The CoAP client of network/gcoap_test/client.c, whose handler and shell  *)
(* command compute_engine/gcoap_cli.c and network/gcoap/client.c share,     *)
(* under the three threads of network/gcoap_test/main.c:                    *)
(*   - the shell runs gcoap_cli_cmd and has the lowest priority: the others *)
(*     run between any two of its steps;                                    *)
(*   - coap_server_connect issues a fixed list of requests for ever.  Its    *)
(*     priority is above the shell's and it only blocks in its sleeps, so a  *)
(*     request of it is one step;                                            *)
(*   - RIOT's gcoap thread calls _resp_handler once per response or timeout, *)
(*     one step each.                                                        *)
(* A response may be late or never come.  Retransmissions and duplicates    *)
(* end in RIOT, which finds no memo for them.                               *)
(***************************************************************************)
EXTENDS Integers, Sequences, FiniteSets

CONSTANTS Paths,          \* resource paths; "" stands for a ping's missing path
          Blocks,         \* path -> number of Block2 blocks of its response
          TooLong,        \* texts of _LAST_REQ_PATH_MAX characters or more
          LoopRequests,   \* what coap_server_connect asks for, in order
          ShellCommands,  \* what the user types
          REQ_WAITING_MAX,\* RIOT's pool of request memos
          MaxRequests     \* bound on the requests begun

Texts    == [uri : BOOLEAN, path : Paths]      \* a path, or a whole coap:// URI
Requests == [proxied : BOOLEAN, text : Texts]  \* Uri-Path or Proxy-Uri, and its text
NoText   == [uri |-> FALSE, path |-> ""]       \* _last_req_path after its memset
Uint16    == {n \in Nat : n < 65536}
MemoSlots == 1 .. REQ_WAITING_MAX

ASSUME ClientAssumption ==
    /\ "" \in Paths /\ Blocks \in [Paths -> Nat \ {0}] /\ Blocks[""] = 1
    /\ \E p \in Paths : \A q \in Paths : Blocks[q] <= Blocks[p]    \* the longest response
    /\ TooLong \subseteq Texts \ {NoText}
    /\ LoopRequests \in Seq(Paths) /\ LoopRequests # <<>>
    /\ ShellCommands \subseteq [cmd : {"proxy set", "proxy unset", "request"}, path : Paths]
    /\ REQ_WAITING_MAX \in Nat \ {0} /\ MaxRequests \in Nat

VARIABLES last_req_path,
          proxied,
          req_count,
          memos,      \* slot -> {} or {an open request and the transfer it belongs to}
          shell,      \* where gcoap_cli_cmd is, for which request
          next,       \* position of coap_server_connect in LoopRequests
          begun,      \* requests begun, capped by MaxRequests
          sent        \* history: requests of _send that RIOT accepted

vars == <<last_req_path, proxied, req_count, memos, shell, next, begun, sent>>

Memo == [first : Requests,       \* what the transfer asked for first
         asks : Requests,        \* what this request asks for
         blknum : Nat,
         disturbed : BOOLEAN]    \* history: another request or a proxy command came between

Shell == [pc : {"idle", "cleared", "copied", "sent", "loaded"}, asks : Requests,
          loaded : Uint16, disturbed : BOOLEAN]

Idle == [pc |-> "idle", asks |-> [proxied |-> FALSE, text |-> NoText],
         loaded |-> 0, disturbed |-> FALSE]

Init ==
    /\ last_req_path = NoText /\ proxied = FALSE /\ req_count = 0
    /\ memos = [s \in MemoSlots |-> {}]
    /\ shell = Idle /\ next = 1 /\ begun = 0 /\ sent = 0

(* A request addressed one way with a text of the other kind asks for no resource:  *)
(* its answer is an error of one block.                                              *)
BlocksOf(r) == IF r.proxied = r.text.uri THEN Blocks[r.text.path] ELSE 1

(* The open requests, those whose transfer began in a way of S marked disturbed.     *)
Disturb(S) ==
    [s \in MemoSlots |-> {[m EXCEPT !.disturbed = @ \/ m.first \in S] : m \in memos[s]}]

Free(ms) == {s \in MemoSlots : ms[s] = {}}
LowestFree(ms) == CHOOSE s \in Free(ms) : \A t \in Free(ms) : s <= t

(* gcoap_req_send takes the first unused memo; without one nothing is sent.          *)
gcoap_req_send(ms, m) ==
    IF Free(ms) = {} THEN ms ELSE [ms EXCEPT ![LowestFree(ms)] = {m}]

(* For comparison only: _send counting what RIOT refused as well.                    *)
CountRefusedToo(accepted) == req_count' = (req_count + 1) % 65536

(* The last lines of _send, in a thread nothing interrupts.                          *)
Count(accepted) == req_count' = IF accepted THEN (req_count + 1) % 65536 ELSE req_count

(* For comparison only: the memcpy without its test of the length.                   *)
CopiedUnchecked(old, text) == text

(* The memcpy into _last_req_path, left out when the text is too long.                *)
Copied(old, text) == IF text \in TooLong THEN old ELSE text
-----------------------------------------------------------------------------
(* proxy set and unset; a proxy that does not parse changes nothing.                 *)
ProxyCommand(c) ==
    /\ shell.pc = "idle" /\ c.cmd \in {"proxy set", "proxy unset"}
    /\ proxied' = (c.cmd = "proxy set")
    /\ memos' = Disturb({r \in Requests : r.proxied # proxied'})
    /\ UNCHANGED <<last_req_path, req_count, shell, next, begun, sent>>

(* gcoap_cli_cmd up to the memset of _last_req_path.                                 *)
ShellBegin(c) ==
    /\ shell.pc = "idle" /\ c.cmd = "request" /\ begun < MaxRequests
    /\ last_req_path' = NoText
    /\ shell' = [Idle EXCEPT !.pc = "cleared",
                    !.asks = [proxied |-> proxied, text |-> [uri |-> proxied, path |-> c.path]]]
    /\ memos' = Disturb(Requests)
    /\ begun' = begun + 1
    /\ UNCHANGED <<proxied, req_count, next, sent>>

(* ... the memcpy ...                                                                *)
ShellCopy ==
    /\ shell.pc = "cleared"
    /\ last_req_path' = Copied(last_req_path, shell.asks.text)
    /\ shell' = [shell EXCEPT !.pc = "copied"]
    /\ memos' = Disturb(Requests)
    /\ UNCHANGED <<proxied, req_count, next, begun, sent>>

(* ... and _send: nothing is sent when the payload does not fit, the address does     *)
(* not resolve or no memo is free.                                                    *)
ShellSend ==
    /\ shell.pc = "copied"
    /\ \/ /\ Free(memos) # {}
          /\ memos' = gcoap_req_send(memos, [first |-> shell.asks, asks |-> shell.asks,
                                             blknum |-> 0, disturbed |-> shell.disturbed])
          /\ sent' = sent + 1
          /\ shell' = [shell EXCEPT !.pc = "sent"]
       \/ UNCHANGED <<memos, sent>> /\ shell' = Idle
    /\ UNCHANGED <<last_req_path, proxied, req_count, next, begun>>

(* req_count++ of _send, a load and a store between which the loop may count.         *)
ShellLoad ==
    /\ shell.pc = "sent"
    /\ shell' = [shell EXCEPT !.pc = "loaded", !.loaded = req_count]
    /\ UNCHANGED <<last_req_path, proxied, req_count, memos, next, begun, sent>>

ShellStore ==
    /\ shell.pc = "loaded"
    /\ req_count' = (shell.loaded + 1) % 65536
    /\ shell' = Idle
    /\ UNCHANGED <<last_req_path, proxied, memos, next, begun, sent>>

(* send_coap_get_request and gcoap_post: they never look at _proxied, though _send    *)
(* then sends to the proxy.                                                           *)
LoopRequest ==
    LET asks == [proxied |-> FALSE, text |-> [uri |-> FALSE, path |-> LoopRequests[next]]]
        m    == [first |-> asks, asks |-> asks, blknum |-> 0,
                 disturbed |-> proxied \/ shell.pc = "cleared"]
        ms   == Disturb(Requests \ {asks})
    IN  /\ begun < MaxRequests /\ begun' = begun + 1
        /\ next' = (next % Len(LoopRequests)) + 1
        /\ last_req_path' = Copied(NoText, asks.text)
        /\ memos' = gcoap_req_send(ms, m)
        /\ Count(Free(memos) # {})
        /\ sent' = IF Free(memos) # {} THEN sent + 1 ELSE sent
        /\ shell' = [shell EXCEPT !.disturbed = shell.pc \in {"cleared", "copied"}]
        /\ UNCHANGED proxied
-----------------------------------------------------------------------------
Reask(m, blknum) ==
    {[m EXCEPT !.asks = [proxied |-> proxied, text |-> last_req_path], !.blknum = blknum]}

(* For comparison only: the request for the next block without block.blknum++, and   *)
(* without the test for an empty _last_req_path.                                       *)
SameBlock(m) == IF m.blknum = 0 /\ last_req_path = NoText THEN {} ELSE Reask(m, m.blknum)
NextBlockUnchecked(m) == Reask(m, m.blknum + 1)

(* What _resp_handler asks for after a block that is not the last: the text in        *)
(* _last_req_path, addressed as _proxied says now; nothing after a first block         *)
(* whose path was not remembered.                                                      *)
NextBlock(m) == IF m.blknum = 0 /\ last_req_path = NoText THEN {} ELSE Reask(m, m.blknum + 1)

(* A response.  _resp_handler runs while its memo is still taken, so the request for   *)
(* the next block needs a second one; it ignores the result of gcoap_req_send.         *)
_resp_handler(s) ==
    /\ memos[s] # {}
    /\ \E m \in memos[s] :
          LET more == m.blknum + 1 < BlocksOf(m.asks)
              ask  == IF more THEN NextBlock(m) ELSE {}
          IN  memos' = [t \in MemoSlots |->
                          IF t = s THEN {}
                          ELSE IF ask # {} /\ Free(memos) # {} /\ t = LowestFree(memos)
                               THEN ask ELSE memos[t]]
    /\ UNCHANGED <<last_req_path, proxied, req_count, shell, next, begun, sent>>

(* GCOAP_MEMO_TIMEOUT or an error: printed, and the memo is released.                  *)
Timeout(s) ==
    /\ memos[s] # {}
    /\ memos' = [memos EXCEPT ![s] = {}]
    /\ UNCHANGED <<last_req_path, proxied, req_count, shell, next, begun, sent>>

GcoapThread == \E s \in MemoSlots : _resp_handler(s) \/ Timeout(s)

ShellThread ==
    \/ \E c \in ShellCommands : ProxyCommand(c) \/ ShellBegin(c)
    \/ ShellCopy \/ ShellSend \/ ShellLoad \/ ShellStore

Next == ShellThread \/ LoopRequest \/ GcoapThread

(* A response arrives or RIOT's timer expires: the gcoap thread is woken for every     *)
(* open memo, and nothing of a higher priority runs for ever.                           *)
Spec == Init /\ [][Next]_vars /\ WF_vars(GcoapThread)
-----------------------------------------------------------------------------
PoolOK(ms) ==
    /\ ms \in [MemoSlots -> SUBSET Memo]
    /\ \A s \in MemoSlots : \A m, n \in ms[s] : m = n

TypeOK ==
    /\ last_req_path \in Texts \ TooLong
    /\ proxied \in BOOLEAN
    /\ req_count \in Uint16
    /\ PoolOK(memos)
    /\ shell \in Shell
    /\ next \in 1 .. Len(LoopRequests)
    /\ begun \in Nat /\ begun <= MaxRequests
    /\ sent \in Nat /\ sent <= begun

(* "Retain request path to re-request if response includes block" (client.c:49): as    *)
(* long as no other request and no proxy command comes between, every block of a         *)
(* transfer is asked for with the path and the addressing of its first request.          *)
UndisturbedKeepsRequest ==
    \A s \in MemoSlots : \A m \in memos[s] : m.disturbed \/ m.asks = m.first

(* req_count may lose counts when the loop counts inside the shell's req_count++, but    *)
(* (before it wraps) it never counts a request that was not sent.                         *)
CountNeverAhead == req_count <= sent

(* What may still be asked for: of every open request its block and those after it, as    *)
(* many as any resource has.                                                              *)
AsksFor(m) == UNION {m.blknum .. Blocks[p] - 1 : p \in Paths}
Pending    == UNION {{s} \X UNION {AsksFor(m) : m \in memos[s]} : s \in MemoSlots}

(* No request runs in a circle: although a transfer may be continued on the path of        *)
(* another one with more blocks, every response and every timeout leaves less to ask for,   *)
(* and only a request that is begun adds to it.                                              *)
LessToAskFor ==
    [][/\ GcoapThread => Cardinality(Pending') < Cardinality(Pending)
       /\ sent' = sent => Cardinality(Pending') <= Cardinality(Pending)]_vars

(* When no more requests are begun, the client falls silent: every blockwise transfer,    *)
(* a misdirected one too, ends, and its memo returns to the pool.                          *)
FallsSilent == <>[](\A s \in MemoSlots : memos[s] = {})
-----------------------------------------------------------------------------
(* client.c:49-51: "User must not start a new request (with a new path) until any         *)
(* blockwise transfer completes or times out."  The program is that user: no block is       *)
(* asked for with the path of another request.                                              *)
ContinuationsKeepRequest ==
    \A s \in MemoSlots : \A m \in memos[s] : m.asks = m.first

(* That rule, completed: no request is begun and no proxy set or unset while another one    *)
(* is open or about to be sent, and coap_server_connect asks for nothing while a proxy is     *)
(* set, which it does not look at.                                                             *)
RuleObeyed ==
    /\ begun' # begun \/ proxied' # proxied =>
          (\A s \in MemoSlots : memos[s] = {}) /\ shell.pc \notin {"cleared", "copied"}
    /\ LoopRequest => ~proxied
=============================================================================
