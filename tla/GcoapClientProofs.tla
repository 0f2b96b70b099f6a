-------------------------- MODULE GcoapClientProofs --------------------------
(***************************************************************************)
(* For every list of requests, set of commands and size of pool: types, that *)
(* req_count never runs ahead, that a transfer nothing came between keeps    *)
(* its request, that every answer leaves less to ask for, and that a user    *)
(* who keeps the rule of client.c:49-51 has no transfer misdirected.         *)
(***************************************************************************)
EXTENDS GcoapClient, SequenceTheorems, FiniteSetTheorems, TLAPS

(* What keeps an undisturbed transfer on its path: _last_req_path still holds *)
(* its text and _proxied its addressing; a text too long for the buffer never   *)
(* gets past its first block.                                                   *)
Kept(m) ==
    ~m.disturbed =>
       /\ m.asks = m.first
       /\ m.first.proxied = proxied
       /\ last_req_path = Copied(NoText, m.first.text)
       /\ m.first.text \in TooLong => m.blknum = 0

AllKept == \A s \in MemoSlots : \A m \in memos[s] : Kept(m)

(* Between its memset and its memcpy the shell leaves no undisturbed transfer,   *)
(* and between its memcpy and its send the text is its own.                       *)
ShellInv ==
    /\ shell.pc = "cleared" => /\ \A s \in MemoSlots : \A m \in memos[s] : m.disturbed
                               /\ shell.disturbed \/ last_req_path = NoText
    /\ shell.pc = "copied"  => shell.disturbed
                                 \/ last_req_path = Copied(NoText, shell.asks.text)
    /\ shell.pc \in {"cleared", "copied"} => shell.asks.proxied = proxied

(* A request the shell has begun is missing from sent until it is sent, and then  *)
(* from req_count until it is counted.                                             *)
CountInv ==
    /\ shell.pc \in {"cleared", "copied"} => sent + 1 <= begun
    /\ req_count <= sent
    /\ shell.pc = "sent"   => req_count + 1 <= sent
    /\ shell.pc = "loaded" => shell.loaded + 1 <= sent

IInv == TypeOK /\ AllKept /\ ShellInv /\ CountInv
-----------------------------------------------------------------------------
LEMMA NoTextIsText == NoText \in Texts \ TooLong
BY ClientAssumption DEF NoText, Texts

LEMMA CountIsUint16 ==
    ASSUME NEW n \in Nat
    PROVE  /\ (n + 1) % 65536 \in Uint16 /\ (n + 1) % 65536 <= n + 1
           /\ 0 \in Uint16 /\ Uint16 \subseteq Nat
BY DEF Uint16

LEMMA PoolAssumption == REQ_WAITING_MAX \in Nat \ {0} /\ MaxRequests \in Nat
BY ClientAssumption, Zenon

LEMMA IdleFields ==
    /\ Idle.pc = "idle" /\ Idle.loaded = 0 /\ Idle.disturbed = FALSE
    /\ Idle.asks \in Requests
    /\ Idle \in Shell
BY NoTextIsText, CountIsUint16 DEF Idle, Requests, Shell

LEMMA TypeFacts ==
    ASSUME TypeOK
    PROVE  /\ last_req_path \in Texts \ TooLong
           /\ proxied \in BOOLEAN
           /\ req_count \in Uint16
           /\ PoolOK(memos)
           /\ shell \in Shell
           /\ next \in 1 .. Len(LoopRequests)
           /\ begun \in Nat /\ begun <= MaxRequests
           /\ sent \in Nat /\ sent <= begun
BY Zenon DEF TypeOK

LEMMA ShellFields ==
    ASSUME NEW sh \in Shell
    PROVE  /\ sh.asks \in Requests /\ sh.asks.text \in Texts /\ sh.asks.proxied \in BOOLEAN
           /\ sh.loaded \in Uint16 /\ sh.disturbed \in BOOLEAN
BY DEF Shell, Requests

LEMMA LoopLength == Len(LoopRequests) \in Nat \ {0}
BY ClientAssumption, LenProperties, EmptySeq

LEMMA LoopElement ==
    ASSUME NEW i \in 1 .. Len(LoopRequests)
    PROVE  LoopRequests[i] \in Paths
BY ClientAssumption, ElementOfSeq

LEMMA CopiedIsText ==
    ASSUME NEW old \in Texts \ TooLong, NEW text \in Texts
    PROVE  Copied(old, text) \in Texts \ TooLong
BY DEF Copied

(* Disturbing changes no field of an open request but disturbed.             *)
LEMMA Disturbed ==
    ASSUME TypeOK, NEW S, NEW s \in MemoSlots, NEW n \in Disturb(S)[s]
    PROVE  \E m \in memos[s] :
              /\ m \in Memo /\ n \in Memo
              /\ n = [m EXCEPT !.disturbed = m.disturbed \/ m.first \in S]
              /\ n.first = m.first /\ n.asks = m.asks /\ n.blknum = m.blknum
              /\ n.disturbed = (m.disturbed \/ m.first \in S)
<1>1. Disturb(S)[s] = {[m EXCEPT !.disturbed = @ \/ m.first \in S] : m \in memos[s]}
  BY DEF Disturb
<1>2. PICK m \in memos[s] : n = [m EXCEPT !.disturbed = m.disturbed \/ m.first \in S]
  BY <1>1
<1>3. m \in Memo
  BY DEF TypeOK, PoolOK
<1>4. (m.disturbed \/ m.first \in S) \in BOOLEAN
  OBVIOUS
<1>5. /\ n \in Memo /\ n.first = m.first /\ n.asks = m.asks /\ n.blknum = m.blknum
      /\ n.disturbed = (m.disturbed \/ m.first \in S)
  BY <1>2, <1>3, <1>4 DEF Memo
<1> QED
  BY <1>2, <1>3, <1>5

LEMMA DisturbTypes ==
    ASSUME TypeOK, NEW S
    PROVE  PoolOK(Disturb(S))
<1>1. Disturb(S) \in [MemoSlots -> SUBSET Memo]
  <2>1. \A s \in MemoSlots : Disturb(S)[s] \subseteq Memo
    BY Disturbed
  <2> QED
    BY <2>1 DEF Disturb
<1>2. ASSUME NEW s \in MemoSlots, NEW n1 \in Disturb(S)[s], NEW n2 \in Disturb(S)[s]
      PROVE  n1 = n2
  <2>1. PICK m1 \in memos[s] : n1 = [m1 EXCEPT !.disturbed = m1.disturbed \/ m1.first \in S]
    BY Disturbed
  <2>2. PICK m2 \in memos[s] : n2 = [m2 EXCEPT !.disturbed = m2.disturbed \/ m2.first \in S]
    BY Disturbed
  <2>3. m1 = m2
    BY DEF TypeOK, PoolOK
  <2> QED
    BY <2>1, <2>2, <2>3
<1> QED
  BY <1>1, <1>2 DEF PoolOK

(* Sending puts the new request into one slot or nowhere.                    *)
LEMMA SendPlaces ==
    ASSUME NEW ms, PoolOK(ms), NEW m \in Memo
    PROVE  /\ PoolOK(gcoap_req_send(ms, m))
           /\ \A s \in MemoSlots : \A n \in gcoap_req_send(ms, m)[s] : n \in ms[s] \/ n = m
<1>1. CASE Free(ms) = {}
  BY <1>1 DEF gcoap_req_send
<1>2. CASE Free(ms) # {}
  <2>1. gcoap_req_send(ms, m) = [ms EXCEPT ![LowestFree(ms)] = {m}]
    BY <1>2 DEF gcoap_req_send
  <2>2. ms \in [MemoSlots -> SUBSET Memo]
    BY DEF PoolOK
  <2>3. \A s \in MemoSlots : gcoap_req_send(ms, m)[s] \in {ms[s], {m}}
    BY <2>1, <2>2
  <2>4. gcoap_req_send(ms, m) \in [MemoSlots -> SUBSET Memo]
    BY <2>1, <2>2
  <2>5. \A s \in MemoSlots : \A n1, n2 \in gcoap_req_send(ms, m)[s] : n1 = n2
    BY <2>3 DEF PoolOK
  <2> QED
    BY <2>3, <2>4, <2>5 DEF PoolOK
<1> QED
  BY <1>1, <1>2
-----------------------------------------------------------------------------
(* TypeOK from its conjuncts, primed.                                        *)
LEMMA TypeOKNext ==
    ASSUME last_req_path' \in Texts \ TooLong, proxied' \in BOOLEAN, req_count' \in Uint16,
           PoolOK(memos'), shell' \in Shell, next' \in 1 .. Len(LoopRequests),
           begun' \in Nat, begun' <= MaxRequests, sent' \in Nat, sent' <= begun'
    PROVE  TypeOK'
BY Zenon DEF TypeOK, PoolOK

LEMMA InitIInv == Init => IInv
<1> SUFFICES ASSUME Init PROVE IInv
  OBVIOUS
<1>1. PoolOK(memos)
  BY DEF Init, PoolOK
<1>2. next \in 1 .. Len(LoopRequests)
  BY LoopLength DEF Init
<1>3. begun = 0 /\ sent = 0 /\ req_count = 0 /\ shell = Idle
      /\ last_req_path = NoText /\ proxied = FALSE
  BY DEF Init
<1>4. 0 \in Nat /\ 0 <= MaxRequests /\ 0 <= 0 /\ 0 \in Uint16
  BY PoolAssumption DEF Uint16
<1>5. TypeOK
  BY <1>1, <1>2, <1>3, <1>4, NoTextIsText, IdleFields, Zenon DEF TypeOK
<1>6. AllKept
  BY DEF Init, AllKept
<1>7. ShellInv /\ CountInv
  BY <1>3, IdleFields DEF ShellInv, CountInv
<1> QED
  BY <1>5, <1>6, <1>7 DEF IInv

LEMMA ProxyCommandIInv ==
    ASSUME IInv, NEW c, ProxyCommand(c)
    PROVE  IInv'
<1> DEFINE S == {q \in Requests : q.proxied # proxied'}
<1>1. TypeOK /\ AllKept /\ ShellInv /\ CountInv
  BY DEF IInv
<1>2. /\ memos' = Disturb(S) /\ proxied' \in BOOLEAN /\ shell.pc = "idle"
      /\ UNCHANGED <<last_req_path, req_count, shell, next, begun, sent>>
  BY DEF ProxyCommand
<1>3. TypeOK'
  <2>1. PoolOK(memos')
    BY <1>1, <1>2, DisturbTypes
  <2> QED
    BY <1>1, <1>2, <2>1, TypeFacts, TypeOKNext
<1>4. AllKept'
  <2> SUFFICES ASSUME NEW s \in MemoSlots, NEW n \in Disturb(S)[s], ~n.disturbed
               PROVE  Kept(n)'
    BY <1>2 DEF AllKept, Kept
  <2>1. PICK m \in memos[s] :
           /\ m \in Memo
           /\ n.first = m.first /\ n.asks = m.asks /\ n.blknum = m.blknum
           /\ n.disturbed = (m.disturbed \/ m.first \in S)
    BY <1>1, Disturbed
  <2>2. m.first \in Requests
    BY <2>1 DEF Memo
  <2>3. ~m.disturbed /\ Kept(m) /\ m.first.proxied = proxied'
    BY <1>1, <2>1, <2>2 DEF AllKept
  <2> QED
    BY <1>2, <2>1, <2>3 DEF Kept, Copied
<1>5. ShellInv' /\ CountInv'
  BY <1>1, <1>2 DEF ShellInv, CountInv
<1> QED
  BY <1>3, <1>4, <1>5 DEF IInv

(* After a step that disturbs every transfer, no undisturbed one is left.     *)
LEMMA AllDisturbed ==
    ASSUME TypeOK, NEW s \in MemoSlots, NEW n \in Disturb(Requests)[s]
    PROVE  n.disturbed
<1>1. PICK m \in memos[s] : m \in Memo /\ n.disturbed = (m.disturbed \/ m.first \in Requests)
  BY Disturbed
<1>2. m.first \in Requests
  BY <1>1 DEF Memo
<1> QED
  BY <1>1, <1>2

LEMMA ShellBeginIInv ==
    ASSUME IInv, NEW c \in ShellCommands, ShellBegin(c)
    PROVE  IInv'
<1> DEFINE asks == [proxied |-> proxied, text |-> [uri |-> proxied, path |-> c.path]]
<1>1. TypeOK /\ CountInv
  BY DEF IInv
<1>2. asks \in Requests
  <2>1. c.path \in Paths
    BY ClientAssumption
  <2> QED
    BY <1>1, <2>1, TypeFacts DEF Requests, Texts
<1>3. asks.proxied = proxied
  OBVIOUS
<1>4. /\ shell' = [Idle EXCEPT !.pc = "cleared", !.asks = asks]
      /\ last_req_path' = NoText /\ memos' = Disturb(Requests)
      /\ begun' = begun + 1 /\ begun < MaxRequests
      /\ UNCHANGED <<proxied, req_count, next, sent>>
  BY DEF ShellBegin
<1> HIDE DEF asks
<1>5. /\ shell' \in Shell /\ shell'.pc = "cleared" /\ shell'.asks = asks
      /\ shell'.disturbed = FALSE
  BY <1>2, <1>4, IdleFields DEF Shell
<1>6. begun \in Nat /\ sent \in Nat /\ sent <= begun
  BY <1>1, TypeFacts
<1>7. TypeOK'
  <2>1. PoolOK(memos')
    BY <1>1, <1>4, DisturbTypes
  <2>2. begun' \in Nat /\ begun' <= MaxRequests /\ sent' \in Nat /\ sent' <= begun'
    BY <1>4, <1>6, PoolAssumption
  <2> QED
    BY <1>1, <1>4, <1>5, <2>1, <2>2, NoTextIsText, TypeFacts, TypeOKNext
<1>8. \A s \in MemoSlots : \A n \in memos'[s] : n.disturbed
  BY <1>1, <1>4, AllDisturbed
<1>9. AllKept' /\ ShellInv'
  BY <1>3, <1>4, <1>5, <1>8 DEF AllKept, Kept, ShellInv
<1>10. CountInv'
  BY <1>1, <1>4, <1>5, <1>6 DEF CountInv
<1> QED
  BY <1>7, <1>9, <1>10 DEF IInv

LEMMA ShellCopyIInv ==
    ASSUME IInv, ShellCopy
    PROVE  IInv'
<1>1. TypeOK /\ ShellInv /\ CountInv
  BY DEF IInv
<1>2. /\ shell.pc = "cleared" /\ memos' = Disturb(Requests)
      /\ shell' = [shell EXCEPT !.pc = "copied"]
      /\ last_req_path' = Copied(last_req_path, shell.asks.text)
      /\ UNCHANGED <<proxied, req_count, next, begun, sent>>
  BY DEF ShellCopy
<1>3. shell \in Shell /\ shell.asks.text \in Texts
  BY <1>1, TypeFacts, ShellFields
<1>4. /\ shell' \in Shell /\ shell'.pc = "copied" /\ shell'.asks = shell.asks
      /\ shell'.disturbed = shell.disturbed
  BY <1>2, <1>3 DEF Shell
<1>5. TypeOK'
  <2>1. PoolOK(memos')
    BY <1>1, <1>2, DisturbTypes
  <2>2. last_req_path' \in Texts \ TooLong
    BY <1>1, <1>2, <1>3, TypeFacts, CopiedIsText
  <2> QED
    BY <1>1, <1>2, <1>4, <2>1, <2>2, TypeFacts, TypeOKNext
<1>6. \A s \in MemoSlots : \A n \in memos'[s] : n.disturbed
  BY <1>1, <1>2, AllDisturbed
<1>7. AllKept' /\ ShellInv'
  BY <1>1, <1>2, <1>4, <1>6 DEF AllKept, Kept, ShellInv
<1>8. CountInv'
  BY <1>1, <1>2, <1>4 DEF CountInv
<1> QED
  BY <1>5, <1>7, <1>8 DEF IInv

LEMMA ShellSendIInv ==
    ASSUME IInv, ShellSend
    PROVE  IInv'
<1> DEFINE m == [first |-> shell.asks, asks |-> shell.asks, blknum |-> 0,
                 disturbed |-> shell.disturbed]
<1>1. TypeOK /\ AllKept /\ ShellInv /\ CountInv
  BY DEF IInv
<1>2. /\ shell.pc = "copied"
      /\ UNCHANGED <<last_req_path, proxied, req_count, next, begun>>
  BY DEF ShellSend
<1>3. shell \in Shell /\ shell.asks \in Requests /\ shell.disturbed \in BOOLEAN
  BY <1>1, TypeFacts, ShellFields
<1>4. /\ m \in Memo /\ m.first = shell.asks /\ m.asks = shell.asks /\ m.blknum = 0
      /\ m.disturbed = shell.disturbed
  BY <1>3 DEF Memo
<1> HIDE DEF m
<1>5. CASE UNCHANGED <<memos, sent>> /\ shell' = Idle
  <2>1. TypeOK'
    BY <1>1, <1>2, <1>5, IdleFields, TypeFacts, TypeOKNext
  <2>2. AllKept' /\ ShellInv' /\ CountInv'
    BY <1>1, <1>2, <1>5, IdleFields DEF AllKept, Kept, ShellInv, CountInv, Copied
  <2> QED
    BY <2>1, <2>2 DEF IInv
<1>6. CASE /\ memos' = gcoap_req_send(memos, m)
           /\ sent' = sent + 1 /\ shell' = [shell EXCEPT !.pc = "sent"]
  <2>1. shell' \in Shell /\ shell'.pc = "sent"
    BY <1>3, <1>6 DEF Shell
  <2>2. /\ PoolOK(memos')
        /\ \A s \in MemoSlots : \A n \in memos'[s] : n \in memos[s] \/ n = m
    BY <1>1, <1>4, <1>6, TypeFacts, SendPlaces
  <2>3. req_count \in Nat /\ sent \in Nat /\ begun \in Nat
    BY <1>1, TypeFacts DEF Uint16
  <2>4. sent + 1 <= begun /\ req_count <= sent
    BY <1>1, <1>2 DEF CountInv
  <2>5. sent' \in Nat /\ sent' <= begun' /\ req_count' <= sent' /\ req_count' + 1 <= sent'
    BY <1>2, <1>6, <2>3, <2>4
  <2>6. TypeOK'
    BY <1>1, <1>2, <2>1, <2>2, <2>5, TypeFacts, TypeOKNext
  <2>7. Kept(m)
    BY <1>1, <1>2, <1>4 DEF ShellInv, Kept
  <2>8. AllKept'
    BY <1>1, <1>2, <2>2, <2>7 DEF AllKept, Kept, Copied
  <2>9. ShellInv' /\ CountInv'
    BY <2>1, <2>5 DEF ShellInv, CountInv
  <2> QED
    BY <2>6, <2>8, <2>9 DEF IInv
<1> QED
  BY <1>5, <1>6 DEF ShellSend, m

LEMMA ShellLoadIInv ==
    ASSUME IInv, ShellLoad
    PROVE  IInv'
<1>1. TypeOK /\ AllKept /\ ShellInv /\ CountInv
  BY DEF IInv
<1>2. /\ shell.pc = "sent" /\ shell' = [shell EXCEPT !.pc = "loaded", !.loaded = req_count]
      /\ UNCHANGED <<last_req_path, proxied, req_count, memos, next, begun, sent>>
  BY DEF ShellLoad
<1>3. shell \in Shell /\ req_count \in Uint16
  BY <1>1, TypeFacts
<1>4. shell' \in Shell /\ shell'.pc = "loaded" /\ shell'.loaded = req_count
  BY <1>2, <1>3 DEF Shell
<1>5. TypeOK'
  BY <1>1, <1>2, <1>4, TypeFacts, TypeOKNext
<1>6. AllKept' /\ ShellInv' /\ CountInv'
  BY <1>1, <1>2, <1>4 DEF AllKept, Kept, ShellInv, CountInv, Copied
<1> QED
  BY <1>5, <1>6 DEF IInv

LEMMA ShellStoreIInv ==
    ASSUME IInv, ShellStore
    PROVE  IInv'
<1>1. TypeOK /\ AllKept /\ ShellInv /\ CountInv
  BY DEF IInv
<1>2. /\ shell.pc = "loaded" /\ req_count' = (shell.loaded + 1) % 65536 /\ shell' = Idle
      /\ UNCHANGED <<last_req_path, proxied, memos, next, begun, sent>>
  BY DEF ShellStore
<1>3. shell.loaded \in Nat /\ shell.loaded + 1 <= sent /\ sent \in Nat
  BY <1>1, <1>2, TypeFacts, ShellFields DEF CountInv, Uint16
<1>4. req_count' \in Uint16 /\ req_count' <= shell.loaded + 1 /\ req_count' \in Nat
  BY <1>2, <1>3, CountIsUint16
<1>5. TypeOK'
  BY <1>1, <1>2, <1>4, IdleFields, TypeFacts, TypeOKNext
<1>6. AllKept' /\ ShellInv'
  BY <1>1, <1>2, IdleFields DEF AllKept, Kept, ShellInv, Copied
<1>7. CountInv'
  BY <1>2, <1>3, <1>4, IdleFields DEF CountInv
<1> QED
  BY <1>5, <1>6, <1>7 DEF IInv

LEMMA TimeoutIInv ==
    ASSUME IInv, NEW s \in MemoSlots, Timeout(s)
    PROVE  IInv'
<1>1. TypeOK /\ AllKept /\ ShellInv /\ CountInv
  BY DEF IInv
<1>2. /\ memos' = [memos EXCEPT ![s] = {}]
      /\ UNCHANGED <<last_req_path, proxied, req_count, shell, next, begun, sent>>
  BY DEF Timeout
<1>3. /\ PoolOK(memos') /\ \A t \in MemoSlots : memos'[t] \subseteq memos[t]
  <2>1. memos \in [MemoSlots -> SUBSET Memo]
    BY <1>1, TypeFacts DEF PoolOK
  <2>2. \A t \in MemoSlots : memos'[t] \in {memos[t], {}}
    BY <1>2, <2>1
  <2>3. memos' \in [MemoSlots -> SUBSET Memo]
    BY <1>2, <2>1
  <2> QED
    BY <1>1, <2>2, <2>3, TypeFacts DEF PoolOK
<1>4. TypeOK'
  BY <1>1, <1>2, <1>3, TypeFacts, TypeOKNext
<1>5. AllKept' /\ ShellInv' /\ CountInv'
  BY <1>1, <1>2, <1>3 DEF AllKept, Kept, ShellInv, CountInv, Copied
<1> QED
  BY <1>4, <1>5 DEF IInv

(* The request for the next block of a transfer nothing came between repeats   *)
(* the first one.                                                               *)
LEMMA NextBlockKept ==
    ASSUME TypeOK, NEW m \in Memo, Kept(m), NEW n \in NextBlock(m)
    PROVE  /\ n \in Memo /\ n.disturbed = m.disturbed /\ Kept(n)
           /\ \A n2 \in NextBlock(m) : n2 = n
<1>1. /\ ~(m.blknum = 0 /\ last_req_path = NoText)
      /\ NextBlock(m) = Reask(m, m.blknum + 1)
  BY DEF NextBlock
<1>2. n = [m EXCEPT !.asks = [proxied |-> proxied, text |-> last_req_path],
                    !.blknum = m.blknum + 1]
  BY <1>1 DEF Reask
<1>3. last_req_path \in Texts /\ proxied \in BOOLEAN
  BY TypeFacts
<1>4. [proxied |-> proxied, text |-> last_req_path] \in Requests
  BY <1>3 DEF Requests
<1>5. /\ n \in Memo /\ n.disturbed = m.disturbed /\ n.first = m.first
      /\ n.asks = [proxied |-> proxied, text |-> last_req_path]
  <2>1. m.blknum + 1 \in Nat /\ m.first \in Requests /\ m.disturbed \in BOOLEAN
    BY DEF Memo
  <2>2. n = [first |-> m.first, asks |-> [proxied |-> proxied, text |-> last_req_path],
             blknum |-> m.blknum + 1, disturbed |-> m.disturbed]
    BY <1>2 DEF Memo
  <2> QED
    BY <1>4, <2>1, <2>2 DEF Memo
<1>6. ASSUME ~m.disturbed
      PROVE  Kept(n)
  <2>1. /\ m.first.proxied = proxied
        /\ last_req_path = Copied(NoText, m.first.text)
        /\ m.first.text \in TooLong => m.blknum = 0
    BY <1>6 DEF Kept
  <2>2. m.first.text \notin TooLong /\ last_req_path = m.first.text
    BY <1>1, <2>1 DEF Copied
  <2>3. m.first \in Requests
    BY DEF Memo
  <2>4. n.asks = m.first
    BY <1>5, <2>1, <2>2, <2>3 DEF Requests
  <2> QED
    BY <1>5, <2>1, <2>2, <2>4 DEF Kept
<1>7. Kept(n)
  BY <1>5, <1>6 DEF Kept
<1>8. \A n2 \in NextBlock(m) : n2 = n
  BY <1>1, <1>2 DEF Reask
<1> QED
  BY <1>5, <1>7, <1>8

LEMMA RespHandlerIInv ==
    ASSUME IInv, NEW s \in MemoSlots, _resp_handler(s)
    PROVE  IInv'
<1>1. TypeOK /\ AllKept /\ ShellInv /\ CountInv
  BY DEF IInv
<1>2. UNCHANGED <<last_req_path, proxied, req_count, shell, next, begun, sent>>
  BY DEF _resp_handler
<1>3. PICK m \in memos[s] :
         \E ask \in {NextBlock(m), {}} :
            memos' = [t \in MemoSlots |->
                        IF t = s THEN {}
                        ELSE IF ask # {} /\ Free(memos) # {} /\ t = LowestFree(memos)
                             THEN ask ELSE memos[t]]
  BY DEF _resp_handler
<1>4. m \in Memo /\ Kept(m)
  BY <1>1, TypeFacts DEF PoolOK, AllKept
<1>5. \A t \in MemoSlots : memos'[t] \in {{}, NextBlock(m), memos[t]}
  BY <1>3
<1>6. \A n \in NextBlock(m) : /\ n \in Memo /\ n.disturbed = m.disturbed /\ Kept(n)
                              /\ \A n2 \in NextBlock(m) : n2 = n
  BY <1>1, <1>4, NextBlockKept
<1>7. PoolOK(memos')
  <2>1. PoolOK(memos)
    BY <1>1, TypeFacts
  <2>2. \A t \in MemoSlots : memos'[t] \subseteq Memo
    BY <1>5, <1>6, <2>1 DEF PoolOK
  <2>3. memos' = [t \in MemoSlots |-> memos'[t]]
    BY <1>3
  <2>4. memos' \in [MemoSlots -> SUBSET Memo]
    BY <2>2, <2>3
  <2>5. \A t \in MemoSlots : \A n1, n2 \in memos'[t] : n1 = n2
    BY <1>5, <1>6, <2>1 DEF PoolOK
  <2> QED
    BY <2>4, <2>5 DEF PoolOK
<1>8. TypeOK'
  BY <1>1, <1>2, <1>7, TypeFacts, TypeOKNext
<1>9. \A t \in MemoSlots : \A n \in memos'[t] :
         Kept(n) /\ (n \in memos[t] \/ n.disturbed = m.disturbed)
  BY <1>1, <1>5, <1>6 DEF AllKept
<1>10. AllKept' /\ CountInv'
  BY <1>1, <1>2, <1>9 DEF AllKept, Kept, CountInv, Copied
<1>11. ShellInv'
  BY <1>1, <1>2, <1>9 DEF ShellInv, Copied
<1> QED
  BY <1>8, <1>10, <1>11 DEF IInv

LEMMA LoopRequestIInv ==
    ASSUME IInv, LoopRequest
    PROVE  IInv'
<1> DEFINE asks == [proxied |-> FALSE, text |-> [uri |-> FALSE, path |-> LoopRequests[next]]]
           ms   == Disturb(Requests \ {asks})
           accepted == Free(memos) # {}
<1>1. TypeOK /\ AllKept /\ ShellInv /\ CountInv
  BY DEF IInv
<1>0. PICK m : m = [first |-> asks, asks |-> asks, blknum |-> 0,
                    disturbed |-> proxied \/ shell.pc = "cleared"]
  OBVIOUS
<1>2. /\ begun < MaxRequests /\ begun' = begun + 1
      /\ next' = (next % Len(LoopRequests)) + 1
      /\ last_req_path' = Copied(NoText, asks.text)
      /\ memos' = gcoap_req_send(ms, m)
      /\ req_count' = IF accepted THEN (req_count + 1) % 65536 ELSE req_count
      /\ sent' = IF accepted THEN sent + 1 ELSE sent
      /\ shell' = [shell EXCEPT !.disturbed = shell.pc \in {"cleared", "copied"}]
      /\ proxied' = proxied
  BY <1>0 DEF LoopRequest, Count
<1>3. asks \in Requests /\ asks.text \in Texts /\ asks.proxied = FALSE
  <2>1. LoopRequests[next] \in Paths
    BY <1>1, TypeFacts, LoopElement
  <2> QED
    BY <2>1 DEF Requests, Texts
<1> HIDE DEF asks
<1>4. /\ m \in Memo /\ m.first = asks /\ m.asks = asks /\ m.blknum = 0
      /\ m.disturbed = (proxied \/ shell.pc = "cleared")
  <2>1. (proxied \/ shell.pc = "cleared") \in BOOLEAN
    OBVIOUS
  <2> QED
    BY <1>0, <1>3, <2>1 DEF Memo
<1> HIDE DEF accepted
<1>5. shell \in Shell
  BY <1>1, TypeFacts
<1>6. /\ shell' \in Shell /\ shell'.pc = shell.pc /\ shell'.asks = shell.asks
      /\ shell'.loaded = shell.loaded
      /\ shell'.disturbed = (shell.pc \in {"cleared", "copied"})
  <2> DEFINE b == shell.pc \in {"cleared", "copied"}
  <2>1. b \in BOOLEAN /\ shell' = [shell EXCEPT !.disturbed = b]
    BY <1>2
  <2> HIDE DEF b
  <2>2. /\ shell' \in Shell /\ shell'.pc = shell.pc /\ shell'.asks = shell.asks
        /\ shell'.loaded = shell.loaded /\ shell'.disturbed = b
    BY <1>5, <2>1 DEF Shell
  <2> QED
    BY <2>2 DEF b
<1>7. /\ PoolOK(memos')
      /\ \A s \in MemoSlots : \A n \in memos'[s] : n \in ms[s] \/ n = m
  BY <1>1, <1>2, <1>4, DisturbTypes, SendPlaces
<1>8. TypeOK'
  <2>1. next' \in 1 .. Len(LoopRequests)
    BY <1>1, <1>2, LoopLength, TypeFacts
  <2>2. last_req_path' \in Texts \ TooLong
    BY <1>2, <1>3, NoTextIsText, CopiedIsText
  <2>3. req_count' \in Uint16
    BY <1>1, <1>2, TypeFacts, CountIsUint16 DEF Uint16
  <2>4. begun' \in Nat /\ begun' <= MaxRequests /\ sent' \in Nat /\ sent' <= begun'
    BY <1>1, <1>2, PoolAssumption, TypeFacts
  <2>5. proxied' \in BOOLEAN
    BY <1>1, <1>2, TypeFacts
  <2> QED
    BY <1>6, <1>7, <2>1, <2>2, <2>3, <2>4, <2>5, TypeOKNext
<1>9. ASSUME NEW s \in MemoSlots, NEW n \in ms[s]
      PROVE  Kept(n)' /\ (shell.pc = "cleared" => n.disturbed)
  <2>1. PICK o \in memos[s] :
           /\ o \in Memo
           /\ n.first = o.first /\ n.asks = o.asks /\ n.blknum = o.blknum
           /\ n.disturbed = (o.disturbed \/ o.first \in Requests \ {asks})
    BY <1>1, <1>9, Disturbed
  <2>2. Kept(o) /\ (shell.pc = "cleared" => o.disturbed) /\ o.first \in Requests
    BY <1>1, <2>1 DEF AllKept, ShellInv, Memo
  <2>3. ~n.disturbed => ~o.disturbed /\ o.first = asks
    BY <2>1, <2>2
  <2> QED
    BY <1>2, <2>1, <2>2, <2>3 DEF Kept, Copied
<1>10. Kept(m)' /\ (shell.pc = "cleared" => m.disturbed)
  <2>1. ~m.disturbed => proxied = FALSE
    BY <1>1, <1>4, TypeFacts
  <2>2. /\ m.asks = m.first /\ m.first.proxied = FALSE /\ m.blknum = 0
        /\ last_req_path' = IF m.first.text \in TooLong THEN NoText ELSE m.first.text
    BY <1>2, <1>3, <1>4 DEF Copied
  <2>3. ASSUME ~m.disturbed
        PROVE  m.first.proxied = proxied'
    <3>1. proxied' = proxied
      BY <1>2
    <3>2. proxied = FALSE
      BY <2>1, <2>3
    <3>3. m.first.proxied = FALSE
      BY <2>2
    <3> QED
      BY <3>1, <3>2, <3>3, Zenon
  <2>4. Kept(m)'
    BY <2>2, <2>3 DEF Kept, Copied
  <2> QED
    BY <1>4, <2>4
<1>11. AllKept'
  BY <1>7, <1>9, <1>10 DEF AllKept, Kept
<1>12. ShellInv'
  <2>1. shell.pc = "cleared" => \A s \in MemoSlots : \A n \in memos'[s] : n.disturbed
    BY <1>7, <1>9, <1>10
  <2>2. shell.pc \in {"cleared", "copied"} => shell'.disturbed
    BY <1>6
  <2>3. shell.pc \in {"cleared", "copied"} => shell'.asks.proxied = proxied'
    BY <1>1, <1>2, <1>6 DEF ShellInv
  <2> QED
    BY <1>6, <2>1, <2>2, <2>3 DEF ShellInv
<1>13. CountInv'
  <2>1. req_count \in Nat /\ sent \in Nat /\ begun \in Nat /\ shell.loaded \in Nat
    BY <1>1, <1>5, TypeFacts, ShellFields DEF Uint16
  <2>2. CASE accepted
    <3>1. req_count' \in Nat /\ req_count' <= req_count + 1 /\ sent' = sent + 1
      BY <1>2, <2>1, <2>2, CountIsUint16
    <3> QED
      BY <1>1, <1>2, <1>6, <2>1, <3>1 DEF CountInv
  <2>3. CASE ~accepted
    BY <1>1, <1>2, <1>6, <2>1, <2>3 DEF CountInv
  <2> QED
    BY <2>2, <2>3
<1> QED
  BY <1>8, <1>11, <1>12, <1>13 DEF IInv

LEMMA NextIInv == IInv /\ [Next]_vars => IInv'
<1> SUFFICES ASSUME IInv, [Next]_vars PROVE IInv'
  OBVIOUS
<1>1. ASSUME NEW c \in ShellCommands, ProxyCommand(c) \/ ShellBegin(c) PROVE IInv'
  BY <1>1, ProxyCommandIInv, ShellBeginIInv
<1>2. CASE ShellCopy
  BY <1>2, ShellCopyIInv
<1>3. CASE ShellSend
  BY <1>3, ShellSendIInv
<1>4. CASE ShellLoad
  BY <1>4, ShellLoadIInv
<1>5. CASE ShellStore
  BY <1>5, ShellStoreIInv
<1>6. CASE LoopRequest
  BY <1>6, LoopRequestIInv
<1>7. ASSUME NEW s \in MemoSlots, _resp_handler(s) \/ Timeout(s) PROVE IInv'
  BY <1>7, RespHandlerIInv, TimeoutIInv
<1>8. CASE UNCHANGED vars
  <2>1. UNCHANGED <<last_req_path, proxied, req_count, memos, shell, next, begun, sent>>
    BY <1>8 DEF vars
  <2>2. TypeOK'
    BY <2>1, TypeFacts, TypeOKNext DEF IInv
  <2>3. AllKept' /\ ShellInv' /\ CountInv'
    BY <2>1 DEF IInv, AllKept, Kept, ShellInv, CountInv, Copied
  <2> QED
    BY <2>2, <2>3 DEF IInv
<1> QED
  BY <1>1, <1>2, <1>3, <1>4, <1>5, <1>6, <1>7, <1>8 DEF Next, ShellThread, GcoapThread

LEMMA Inductive == Spec => []IInv
BY InitIInv, NextIInv, PTL DEF Spec
-----------------------------------------------------------------------------
(* In particular nothing too long is ever copied into _last_req_path.          *)
THEOREM TypeCorrect == Spec => []TypeOK
<1>1. IInv => TypeOK
  BY DEF IInv
<1> QED
  BY <1>1, Inductive, PTL

(* Every block of a transfer that no request and no proxy command came between  *)
(* is asked for as its first one was, for every pool and every number of blocks. *)
THEOREM UndisturbedTransferKeepsRequest == Spec => []UndisturbedKeepsRequest
<1>1. IInv => UndisturbedKeepsRequest
  BY DEF IInv, AllKept, Kept, UndisturbedKeepsRequest
<1> QED
  BY <1>1, Inductive, PTL

(* The race between the shell's req_count++ and the loop's loses counts and      *)
(* never invents one.                                                             *)
THEOREM CountIsNeverAhead == Spec => []CountNeverAhead
<1>1. IInv => CountNeverAhead
  BY DEF IInv, CountInv, CountNeverAhead
<1> QED
  BY <1>1, Inductive, PTL
-----------------------------------------------------------------------------
(* Every open request asks for a block that some resource has.                  *)
BlockExists == \A s \in MemoSlots : \A m \in memos[s] : \E p \in Paths : m.blknum < Blocks[p]

(* What a request may still ask for is an interval that ends with the longest response. *)
LEMMA AsksForInterval ==
    \E l \in Nat : /\ \A p \in Paths : Blocks[p] <= l
                   /\ \A m \in Memo : AsksFor(m) = m.blknum .. l - 1
<1>1. PICK q \in Paths : \A p \in Paths : Blocks[p] <= Blocks[q]
  BY ClientAssumption
<1>2. \A p \in Paths : Blocks[p] \in Nat
  BY ClientAssumption
<1>3. ASSUME NEW m \in Memo PROVE AsksFor(m) = m.blknum .. Blocks[q] - 1
  <2>1. m.blknum \in Nat
    BY DEF Memo
  <2>2. \A p \in Paths : m.blknum .. Blocks[p] - 1 \subseteq m.blknum .. Blocks[q] - 1
    BY <1>1, <1>2, <2>1
  <2> QED
    BY <2>2 DEF AsksFor
<1> QED
  BY <1>1, <1>2, <1>3

(* Pending without its unions, before and after a step.                         *)
LEMMA PendingPairs ==
    ASSUME NEW x
    PROVE  x \in Pending <=>
             \E s \in MemoSlots : \E m \in memos[s] : \E i \in AsksFor(m) : x = <<s, i>>
BY DEF Pending

LEMMA PendingPairsNext ==
    ASSUME NEW x
    PROVE  x \in Pending' <=>
             \E s \in MemoSlots : \E m \in memos'[s] : \E i \in AsksFor(m) : x = <<s, i>>
BY DEF Pending, AsksFor

(* There is only so much to ask for.                                            *)
LEMMA PendingFinite ==
    ASSUME TypeOK
    PROVE  IsFiniteSet(Pending)
<1>1. PICK l \in Nat : \A m \in Memo : AsksFor(m) = m.blknum .. l - 1
  BY AsksForInterval
<1>2. IsFiniteSet(MemoSlots) /\ IsFiniteSet(0 .. l - 1)
  BY PoolAssumption, FS_Interval DEF MemoSlots
<1>3. IsFiniteSet(MemoSlots \X (0 .. l - 1))
  BY <1>2, FS_Product
<1>4. \A s \in MemoSlots : \A m \in memos[s] : m \in Memo /\ AsksFor(m) \subseteq 0 .. l - 1
  BY <1>1, TypeFacts DEF PoolOK, Memo
<1>5. Pending \in SUBSET (MemoSlots \X (0 .. l - 1))
  BY <1>4, PendingPairs
<1> QED
  BY <1>3, <1>5, FS_Subset

Less == /\ Cardinality(Pending') < Cardinality(Pending)
        /\ Cardinality(Pending') <= Cardinality(Pending)

(* A request that ends, and is followed by at most one for the next block, leaves less. *)
LEMMA EndingLeavesLess ==
    ASSUME TypeOK, BlockExists, PoolOK(memos'),
           NEW s \in MemoSlots, NEW t \in MemoSlots, NEW m \in memos[s], memos'[s] = {},
           \A u \in MemoSlots : \A n \in memos'[u] :
              n \in memos[u] \/ (u = t /\ memos[t] = {} /\ n.blknum = m.blknum + 1)
    PROVE  Less
<1> DEFINE b == m.blknum
           T == Pending \ {<<s, b>>}
           moved(x) == x[1] = t /\ memos[t] = {}
           f == [x \in Pending' |-> IF moved(x) THEN <<s, x[2]>> ELSE x]
<1>1. PICK l \in Nat : /\ \A p \in Paths : Blocks[p] <= l
                       /\ \A n \in Memo : AsksFor(n) = n.blknum .. l - 1
  BY AsksForInterval
<1>2. m \in Memo /\ b \in Nat
  BY TypeFacts DEF PoolOK, Memo
<1>3. AsksFor(m) = b .. l - 1 /\ b \in AsksFor(m)
  <2>1. PICK p \in Paths : b < Blocks[p]
    BY DEF BlockExists
  <2>2. Blocks[p] \in Nat /\ Blocks[p] <= l
    BY <1>1, ClientAssumption
  <2> QED
    BY <1>1, <1>2, <2>1, <2>2
<1>4. <<s, b>> \in Pending
  BY <1>3, PendingPairs
<1>5. ASSUME NEW x \in Pending'
      PROVE  /\ \E u \in MemoSlots : \E i \in Nat : x = <<u, i>> /\ u # s
             /\ f[x] \in T
  <2>1. PICK u \in MemoSlots : \E n \in memos'[u] : \E i \in AsksFor(n) : x = <<u, i>>
    BY PendingPairsNext
  <2>0. PICK n \in memos'[u], i \in Int : i \in AsksFor(n) /\ x = <<u, i>>
    BY <2>1 DEF AsksFor
  <2>2. u # s
    BY <2>0
  <2>3. n \in Memo /\ n.blknum \in Nat /\ i \in n.blknum .. l - 1
    BY <1>1, <2>0 DEF PoolOK, Memo
  <2>4. i \in Nat
    BY <2>3
  <2>5. CASE n \in memos[u]
    <3>1. x \in Pending /\ ~moved(x)
      BY <2>0, <2>5, PendingPairs
    <3>2. x \in T /\ f[x] = x
      BY <2>0, <2>2, <3>1
    <3> QED
      BY <2>0, <2>2, <2>4, <3>2
  <2>6. CASE u = t /\ memos[t] = {} /\ n.blknum = b + 1
    <3>1. f[x] = <<s, i>>
      BY <2>0, <2>6
    <3>2. i \in AsksFor(m) /\ i # b
      BY <1>2, <1>3, <2>3, <2>6
    <3>3. <<s, i>> \in T
      BY <3>2, PendingPairs
    <3> QED
      BY <2>0, <2>2, <2>4, <3>1, <3>3
  <2> QED
    BY <2>0, <2>5, <2>6
<1>6. ASSUME NEW x \in Pending', NEW y \in Pending', f[x] = f[y]
      PROVE  x = y
  <2>0. \A z \in Pending' : \E u \in MemoSlots : \E i \in Nat : z = <<u, i>> /\ u # s
    BY <1>5
  <2>1. PICK u \in MemoSlots : \E i \in Nat : x = <<u, i>> /\ u # s
    BY <2>0, Zenon
  <2>2. PICK i \in Nat : x = <<u, i>> /\ u # s
    BY <2>1, Zenon
  <2>3. PICK v \in MemoSlots : \E j \in Nat : y = <<v, j>> /\ v # s
    BY <2>0, Zenon
  <2>4. PICK j \in Nat : y = <<v, j>> /\ v # s
    BY <2>3, Zenon
  <2>5. f[x] = (IF u = t /\ memos[t] = {} THEN <<s, i>> ELSE <<u, i>>)
    BY <2>2
  <2>6. f[y] = (IF v = t /\ memos[t] = {} THEN <<s, j>> ELSE <<v, j>>)
    BY <2>4
  <2> HIDE DEF f
  <2> QED
    BY <1>6, <2>2, <2>4, <2>5, <2>6
<1>7. f \in Injection(Pending', T)
  <2>1. f \in [Pending' -> T]
    BY <1>5
  <2> HIDE DEF f, T
  <2> QED
    BY <1>6, <2>1 DEF Injection, IsInjective
<1>8. IsFiniteSet(Pending) /\ IsFiniteSet(T) /\ Cardinality(T) = Cardinality(Pending) - 1
  BY <1>4, PendingFinite, FS_RemoveElement
<1>9. Cardinality(Pending') <= Cardinality(T) /\ Cardinality(Pending') \in Nat
  <2> HIDE DEF f, T
  <2>1. IsFiniteSet(Pending') /\ Cardinality(Pending') <= Cardinality(T)
    BY <1>7, <1>8, FS_Injection
  <2> QED
    BY <2>1, FS_CardinalityType
<1>10. Cardinality(Pending) \in Nat
  BY <1>8, FS_CardinalityType
<1> HIDE DEF T
<1> QED
  BY <1>8, <1>9, <1>10 DEF Less

(* A step after which every open request was open before, for the same block, adds      *)
(* nothing.                                                                              *)
LEMMA NothingNewPending ==
    ASSUME TypeOK, PoolOK(memos'),
           \A u \in MemoSlots : \A n \in memos'[u] : \E o \in memos[u] : n.blknum = o.blknum
    PROVE  Cardinality(Pending') <= Cardinality(Pending)
<1>1. \A n \in Memo, o \in Memo : n.blknum = o.blknum => AsksFor(n) = AsksFor(o)
  BY DEF AsksFor
<1>2. \A u \in MemoSlots : memos[u] \subseteq Memo /\ memos'[u] \subseteq Memo
  BY TypeFacts DEF PoolOK
<1>3. ASSUME NEW x \in Pending' PROVE x \in Pending
  <2>1. PICK u \in MemoSlots : \E n \in memos'[u] : \E i \in AsksFor(n) : x = <<u, i>>
    BY PendingPairsNext
  <2>2. PICK n \in memos'[u] : \E i \in AsksFor(n) : x = <<u, i>>
    BY <2>1
  <2>3. PICK o \in memos[u] : AsksFor(n) = AsksFor(o)
    BY <1>1, <1>2
  <2> QED
    BY <2>2, <2>3, PendingPairs
<1>4. Pending' \in SUBSET Pending
  BY <1>3
<1> QED
  BY <1>4, PendingFinite, FS_Subset

LEMMA LeastSlot ==
    ASSUME NEW S, S \subseteq Nat, S # {}
    PROVE  \E x \in S : \A y \in S : x <= y
<1>1. IsWellFoundedOn(OpToRel(<, Nat), Nat)
  BY NatLessThanWellFounded
<1>2. PICK x \in S : \A y \in S : <<y, x>> \notin OpToRel(<, Nat)
  BY <1>1, WFMin
<1>3. \A a, b \in Nat : a < b => <<a, b>> \in OpToRel(<, Nat)
  BY DEF OpToRel
<1>4. \A y \in S : ~(y < x)
  BY <1>2, <1>3
<1> QED
  BY <1>4

LEMMA HandlerLess ==
    ASSUME IInv, BlockExists, PoolOK(memos'), NEW s \in MemoSlots, _resp_handler(s) \/ Timeout(s)
    PROVE  Less /\ BlockExists'
<1>1. TypeOK /\ memos \in [MemoSlots -> SUBSET Memo]
  BY TypeFacts DEF IInv, PoolOK
<1>2. CASE Timeout(s)
  <2>1. /\ memos[s] # {} /\ memos'[s] = {}
        /\ \A u \in MemoSlots : memos'[u] \subseteq memos[u]
    BY <1>1, <1>2 DEF Timeout
  <2>2. PICK m \in memos[s] : TRUE
    BY <2>1
  <2>3. Less
    BY <1>1, <2>1, <2>2, EndingLeavesLess
  <2> QED
    BY <2>1, <2>3 DEF BlockExists
<1>3. CASE _resp_handler(s)
  <2> DEFINE t == LowestFree(memos)
  <2>0. PICK m \in memos[s] :
           \E ask \in {NextBlock(m), {}} :
              /\ ask # {} => m.blknum + 1 < BlocksOf(m.asks)
              /\ memos' = [u \in MemoSlots |->
                             IF u = s THEN {}
                             ELSE IF ask # {} /\ Free(memos) # {} /\ u = t THEN ask ELSE memos[u]]
    BY <1>3 DEF _resp_handler
  <2>1. PICK ask \in {NextBlock(m), {}} :
           /\ ask # {} => m.blknum + 1 < BlocksOf(m.asks)
           /\ memos' = [u \in MemoSlots |->
                          IF u = s THEN {}
                          ELSE IF ask # {} /\ Free(memos) # {} /\ u = t THEN ask ELSE memos[u]]
    BY <2>0
  <2>2. m \in Memo /\ m.blknum \in Nat /\ m.asks \in Requests /\ m.asks.text.path \in Paths
    BY <1>1 DEF Memo, Requests, Texts
  <2>3. \A n \in NextBlock(m) : n.blknum = m.blknum + 1
    BY <2>2 DEF NextBlock, Reask, Memo
  <2>4. Free(memos) # {} => t \in MemoSlots /\ memos[t] = {}
    <3>1. Free(memos) \subseteq MemoSlots
      BY DEF Free
    <3>2. Free(memos) # {} => \E x \in Free(memos) : \A y \in Free(memos) : x <= y
      BY <3>1, LeastSlot DEF MemoSlots
    <3>3. Free(memos) # {} => t \in Free(memos)
      BY <3>2 DEF LowestFree
    <3> QED
      BY <3>3 DEF Free
  <2>5. PICK r \in MemoSlots :
           \A u \in MemoSlots : \A n \in memos'[u] :
              n \in memos[u] \/ (u = r /\ memos[r] = {} /\ n \in ask)
    <3> HIDE DEF t
    <3>1. CASE Free(memos) = {}
      BY <2>1, <3>1
    <3>2. CASE Free(memos) # {}
      BY <2>1, <2>4, <3>2
    <3> QED
      BY <3>1, <3>2
  <2>6. memos'[s] = {}
    BY <2>1
  <2>7. \A n \in ask : n.blknum = m.blknum + 1
    BY <2>1, <2>3
  <2>8. Less
    BY <1>1, <2>5, <2>6, <2>7, EndingLeavesLess
  <2>9. \A n \in ask : \E p \in Paths : n.blknum < Blocks[p]
    <3>1. \A p \in Paths : Blocks[p] \in Nat
      BY ClientAssumption
    <3>2. ask # {} => m.blknum + 1 < Blocks[m.asks.text.path]
      BY <2>1, <2>2, <3>1 DEF BlocksOf
    <3> QED
      BY <2>2, <2>7, <3>2
  <2>10. BlockExists'
    BY <2>5, <2>9 DEF BlockExists
  <2> QED
    BY <2>8, <2>10
<1> QED
  BY <1>2, <1>3

LEMMA DisturbBlocks ==
    ASSUME TypeOK, NEW S
    PROVE  /\ \A u \in MemoSlots : \A n \in Disturb(S)[u] :
                 \E o \in memos[u] : n.blknum = o.blknum
           /\ Free(Disturb(S)) = Free(memos)
<1>1. ASSUME NEW u \in MemoSlots, NEW n \in Disturb(S)[u]
      PROVE  \E o \in memos[u] : n.blknum = o.blknum
  BY Disturbed
<1>2. \A u \in MemoSlots : Disturb(S)[u] = {} <=> memos[u] = {}
  BY DEF Disturb
<1> QED
  BY <1>1, <1>2 DEF Free

(* A new request asks for a block that exists, its first.                                *)
LEMMA FirstBlockExists == \A m : m.blknum = 0 => \E p \in Paths : m.blknum < Blocks[p]
<1>1. "" \in Paths /\ 0 < Blocks[""]
  <2>1. "" \in Paths /\ Blocks[""] = 1
    BY ClientAssumption, Zenon
  <2>2. 0 < 1
    OBVIOUS
  <2> QED
    BY <2>1, <2>2, Zenon
<1> QED
  BY <1>1, Zenon

(* Every request open after the step was open before, for the same block; or is new.      *)
SameBlocks == \A u \in MemoSlots : \A n \in memos'[u] : \E o \in memos[u] : n.blknum = o.blknum
OldOrFirst == \A u \in MemoSlots : \A n \in memos'[u] :
                 n.blknum = 0 \/ \E o \in memos[u] : n.blknum = o.blknum

LEMMA ShellSendBlocks ==
    ASSUME IInv, ShellSend
    PROVE  (sent' = sent => SameBlocks) /\ OldOrFirst
<1> DEFINE m == [first |-> shell.asks, asks |-> shell.asks, blknum |-> 0,
                 disturbed |-> shell.disturbed]
<1>1. TypeOK /\ sent \in Nat /\ shell \in Shell
  BY TypeFacts DEF IInv
<1>2. m \in Memo /\ m.blknum = 0
  BY <1>1, ShellFields DEF Memo
<1>3. \/ memos' = memos
      \/ memos' = gcoap_req_send(memos, m) /\ sent' = sent + 1
  BY DEF ShellSend
<1> HIDE DEF m
<1>4. \A u \in MemoSlots : \A n \in gcoap_req_send(memos, m)[u] : n \in memos[u] \/ n = m
  BY <1>1, <1>2, TypeFacts, SendPlaces
<1>5. CASE memos' = memos
  BY <1>5 DEF SameBlocks, OldOrFirst
<1>6. CASE memos' = gcoap_req_send(memos, m) /\ sent' = sent + 1
  <2>1. sent' # sent
    BY <1>1, <1>6
  <2>2. OldOrFirst
    BY <1>2, <1>4, <1>6 DEF OldOrFirst
  <2> QED
    BY <2>1, <2>2
<1> QED
  BY <1>3, <1>5, <1>6

LEMMA LoopRequestBlocks ==
    ASSUME IInv, LoopRequest
    PROVE  (sent' = sent => SameBlocks) /\ OldOrFirst
<1> DEFINE asks == [proxied |-> FALSE, text |-> [uri |-> FALSE, path |-> LoopRequests[next]]]
           ms   == Disturb(Requests \ {asks})
<1>0. PICK m : m = [first |-> asks, asks |-> asks, blknum |-> 0,
                    disturbed |-> proxied \/ shell.pc = "cleared"]
  OBVIOUS
<1>1. TypeOK /\ sent \in Nat
  BY TypeFacts DEF IInv
<1>2. /\ memos' = gcoap_req_send(ms, m)
      /\ sent' = IF Free(memos) # {} THEN sent + 1 ELSE sent
  BY <1>0 DEF LoopRequest
<1>3. m \in Memo /\ m.blknum = 0
  <2>1. LoopRequests[next] \in Paths
    BY <1>1, TypeFacts, LoopElement
  <2>2. asks \in Requests
    BY <2>1 DEF Requests, Texts
  <2>3. (proxied \/ shell.pc = "cleared") \in BOOLEAN
    OBVIOUS
  <2> HIDE DEF asks
  <2> QED
    BY <1>0, <2>2, <2>3 DEF Memo
<1> HIDE DEF asks
<1>4. /\ PoolOK(ms) /\ Free(ms) = Free(memos)
      /\ \A u \in MemoSlots : \A n \in ms[u] : \E o \in memos[u] : n.blknum = o.blknum
  BY <1>1, DisturbTypes, DisturbBlocks
<1> HIDE DEF ms
<1>5. OldOrFirst
  <2>1. \A u \in MemoSlots : \A n \in memos'[u] : n \in ms[u] \/ n = m
    BY <1>2, <1>3, <1>4, SendPlaces
  <2> QED
    BY <1>3, <1>4, <2>1 DEF OldOrFirst
<1>6. sent' = sent => memos' = ms
  BY <1>1, <1>2, <1>4 DEF gcoap_req_send
<1>7. memos' = ms => SameBlocks
  BY <1>4 DEF SameBlocks
<1> QED
  BY <1>5, <1>6, <1>7

(* A step of the other two threads adds nothing to what may be asked for unless it sends a *)
(* request.                                                                                *)
LEMMA OtherStep ==
    ASSUME IInv, BlockExists, PoolOK(memos'), ShellThread \/ LoopRequest
    PROVE  /\ sent' = sent => Cardinality(Pending') <= Cardinality(Pending)
           /\ BlockExists'
<1>1. TypeOK
  BY DEF IInv
<1>2. ASSUME NEW S, memos' = Disturb(S) PROVE SameBlocks
  BY <1>1, <1>2, DisturbBlocks DEF SameBlocks
<1>3. memos' = memos => SameBlocks
  BY DEF SameBlocks
<1>4. ASSUME \/ \E c \in ShellCommands : ProxyCommand(c) \/ ShellBegin(c)
             \/ ShellCopy \/ ShellLoad \/ ShellStore
      PROVE  SameBlocks
  <2>1. ASSUME NEW c, ProxyCommand(c) PROVE SameBlocks
    <3>1. memos' = Disturb({r \in Requests : r.proxied # proxied'})
      BY <2>1 DEF ProxyCommand
    <3> QED
      BY <1>2, <3>1
  <2>2. ASSUME NEW c, ShellBegin(c) \/ ShellCopy PROVE SameBlocks
    <3>1. memos' = Disturb(Requests)
      BY <2>2 DEF ShellBegin, ShellCopy
    <3> QED
      BY <1>2, <3>1
  <2>3. ASSUME ShellLoad \/ ShellStore PROVE SameBlocks
    BY <1>3, <2>3 DEF ShellLoad, ShellStore
  <2> QED
    BY <1>4, <2>1, <2>2, <2>3, Zenon
<1>5. SameBlocks => OldOrFirst
  BY DEF SameBlocks, OldOrFirst
<1>6. (sent' = sent => SameBlocks) /\ OldOrFirst
  BY <1>4, <1>5, ShellSendBlocks, LoopRequestBlocks DEF ShellThread
<1>7. BlockExists'
  BY <1>6, FirstBlockExists DEF BlockExists, OldOrFirst
<1>8. SameBlocks => Cardinality(Pending') <= Cardinality(Pending)
  BY <1>1, NothingNewPending DEF SameBlocks
<1> QED
  BY <1>6, <1>7, <1>8

LEMMA PendingStep ==
    ASSUME IInv, BlockExists, [Next]_vars
    PROVE  /\ BlockExists'
           /\ GcoapThread => Cardinality(Pending') < Cardinality(Pending)
           /\ sent' = sent => Cardinality(Pending') <= Cardinality(Pending)
<1>1. PoolOK(memos') /\ TypeOK
  <2>1. TypeOK' /\ TypeOK
    BY NextIInv DEF IInv
  <2> QED
    BY <2>1 DEF TypeOK, PoolOK
<1>2. CASE GcoapThread
  BY <1>1, <1>2, HandlerLess DEF GcoapThread, Less
<1>3. CASE UNCHANGED vars
  <2>1. memos' = memos
    BY <1>3 DEF vars
  <2>2. Pending' = Pending /\ BlockExists'
    BY <2>1 DEF Pending, AsksFor, BlockExists
  <2>3. Cardinality(Pending) \in Nat
    BY <1>1, PendingFinite, FS_CardinalityType
  <2>4. ~GcoapThread
    <3>1. \A s \in MemoSlots : ~(_resp_handler(s) \/ Timeout(s))
      BY <1>1, <2>2, <2>3, HandlerLess DEF Less
    <3> QED
      BY <3>1 DEF GcoapThread
  <2> QED
    BY <2>2, <2>3, <2>4
<1>4. CASE (ShellThread \/ LoopRequest) /\ ~GcoapThread
  BY <1>1, <1>4, OtherStep
<1> QED
  BY <1>2, <1>3, <1>4 DEF Next

(* The ranking FallsSilent rests on, for any paths, responses, pool and requests: each   *)
(* step of the gcoap thread shrinks a finite set that only an accepted request extends,   *)
(* and TypeOK bounds those.                                                                *)
THEOREM EveryAnswerLeavesLess == Spec => LessToAskFor
<1>1. Init => BlockExists
  BY DEF Init, BlockExists
<1>2. IInv /\ BlockExists /\ [Next]_vars =>
        /\ BlockExists'
        /\ [/\ GcoapThread => Cardinality(Pending') < Cardinality(Pending)
            /\ sent' = sent => Cardinality(Pending') <= Cardinality(Pending)]_vars
  BY PendingStep
<1> QED
  BY <1>1, <1>2, Inductive, PTL DEF Spec, LessToAskFor
-----------------------------------------------------------------------------
(* A user who obeys the rule disturbs no transfer, and has none while the shell prepares  *)
(* a request.                                                                              *)
NothingOpen == \A s \in MemoSlots : memos[s] = {}
Preparing   == shell.pc \in {"cleared", "copied"}

ObeyedInv ==
    /\ \A s \in MemoSlots : \A m \in memos[s] : ~m.disturbed
    /\ Preparing => NothingOpen /\ ~shell.disturbed

(* With no open request there is none to disturb.                                          *)
LEMMA NothingToDisturb ==
    ASSUME NothingOpen, NEW S
    PROVE  \A s \in MemoSlots : Disturb(S)[s] = {}
BY DEF Disturb, NothingOpen

LEMMA ProxyCommandObeyed ==
    ASSUME IInv, ObeyedInv, RuleObeyed, NEW c, ProxyCommand(c)
    PROVE  ObeyedInv'
<1> DEFINE S == {r \in Requests : r.proxied # proxied'}
<1>1. memos' = Disturb(S) /\ shell.pc = "idle" /\ shell' = shell
  BY DEF ProxyCommand
<1>2. TypeOK /\ AllKept
  BY DEF IInv
<1>3. ASSUME NEW s \in MemoSlots, NEW n \in memos'[s]
      PROVE  ~n.disturbed
  <2>1. PICK m \in memos[s] : n.disturbed = (m.disturbed \/ m.first \in S)
    BY <1>1, <1>2, <1>3, Disturbed
  <2>2. proxied' = proxied
    BY <2>1 DEF RuleObeyed
  <2>3. ~m.disturbed /\ m.first.proxied = proxied
    BY <1>2, <2>1 DEF ObeyedInv, AllKept, Kept
  <2> QED
    BY <2>1, <2>2, <2>3
<1> QED
  BY <1>1, <1>3 DEF ObeyedInv, Preparing

LEMMA ShellBeginObeyed ==
    ASSUME IInv, RuleObeyed, NEW c, ShellBegin(c)
    PROVE  ObeyedInv'
<1>1. /\ memos' = Disturb(Requests) /\ begun' = begun + 1
      /\ shell' = [Idle EXCEPT !.pc = "cleared",
                      !.asks = [proxied |-> proxied, text |-> [uri |-> proxied, path |-> c.path]]]
  BY DEF ShellBegin
<1>2. begun \in Nat
  BY TypeFacts DEF IInv
<1>3. NothingOpen
  BY <1>1, <1>2 DEF RuleObeyed, NothingOpen
<1>4. ~shell'.disturbed
  BY <1>1 DEF Idle
<1> QED
  BY <1>1, <1>3, <1>4, NothingToDisturb DEF ObeyedInv, NothingOpen

LEMMA ShellCopyObeyed ==
    ASSUME IInv, ObeyedInv, ShellCopy
    PROVE  ObeyedInv'
<1>1. /\ shell.pc = "cleared" /\ memos' = Disturb(Requests)
      /\ shell' = [shell EXCEPT !.pc = "copied"]
  BY DEF ShellCopy
<1>2. NothingOpen /\ ~shell.disturbed
  BY <1>1 DEF ObeyedInv, Preparing
<1>3. shell \in Shell
  BY TypeFacts DEF IInv
<1>4. ~shell'.disturbed
  BY <1>1, <1>2, <1>3 DEF Shell
<1> QED
  BY <1>1, <1>2, <1>4, NothingToDisturb DEF ObeyedInv, NothingOpen

LEMMA ShellSendObeyed ==
    ASSUME IInv, ObeyedInv, ShellSend
    PROVE  ObeyedInv'
<1> DEFINE m == [first |-> shell.asks, asks |-> shell.asks, blknum |-> 0,
                 disturbed |-> shell.disturbed]
<1>1. shell \in Shell /\ shell.pc = "copied" /\ PoolOK(memos)
  BY TypeFacts DEF ShellSend, IInv
<1>2. m \in Memo /\ m.disturbed = shell.disturbed
  BY <1>1, ShellFields DEF Memo
<1>3. ~shell.disturbed
  BY <1>1 DEF ObeyedInv, Preparing
<1>4. \/ memos' = memos /\ shell' = Idle
      \/ memos' = gcoap_req_send(memos, m) /\ shell' = [shell EXCEPT !.pc = "sent"]
  BY DEF ShellSend
<1> HIDE DEF m
<1>5. \A s \in MemoSlots : \A n \in memos'[s] : n \in memos[s] \/ n = m
  BY <1>1, <1>2, <1>4, SendPlaces
<1>6. ~Preparing'
  BY <1>1, <1>4, IdleFields DEF Preparing, Shell
<1> QED
  BY <1>2, <1>3, <1>5, <1>6 DEF ObeyedInv

LEMMA ShellCountObeyed ==
    ASSUME IInv, ObeyedInv, ShellLoad \/ ShellStore
    PROVE  ObeyedInv'
<1>1. shell \in Shell
  BY TypeFacts DEF IInv
<1>2. memos' = memos
  BY DEF ShellLoad, ShellStore
<1>3. ~Preparing'
  <2>1. \/ shell' = [shell EXCEPT !.pc = "loaded", !.loaded = req_count]
        \/ shell' = Idle
    BY DEF ShellLoad, ShellStore
  <2>2. shell'.pc \in {"loaded", "idle"}
    BY <1>1, <2>1, IdleFields DEF Shell
  <2> QED
    BY <2>2 DEF Preparing
<1> QED
  BY <1>2, <1>3 DEF ObeyedInv

LEMMA LoopRequestObeyed ==
    ASSUME IInv, RuleObeyed, LoopRequest
    PROVE  ObeyedInv'
<1> DEFINE asks == [proxied |-> FALSE, text |-> [uri |-> FALSE, path |-> LoopRequests[next]]]
           ms   == Disturb(Requests \ {asks})
<1>0. PICK m : m = [first |-> asks, asks |-> asks, blknum |-> 0,
                    disturbed |-> proxied \/ shell.pc = "cleared"]
  OBVIOUS
<1>1. /\ memos' = gcoap_req_send(ms, m) /\ begun' = begun + 1
      /\ shell' = [shell EXCEPT !.disturbed = shell.pc \in {"cleared", "copied"}]
  BY <1>0 DEF LoopRequest
<1>2. TypeOK /\ begun \in Nat /\ shell \in Shell
  BY TypeFacts DEF IInv
<1>3. NothingOpen /\ ~Preparing /\ ~proxied
  BY <1>1, <1>2 DEF RuleObeyed, NothingOpen, Preparing
<1>4. m \in Memo /\ ~m.disturbed
  <2>1. LoopRequests[next] \in Paths
    BY <1>2, TypeFacts, LoopElement
  <2>2. asks \in Requests
    BY <2>1 DEF Requests, Texts
  <2>3. (proxied \/ shell.pc = "cleared") = FALSE
    BY <1>3 DEF Preparing
  <2> HIDE DEF asks
  <2> QED
    BY <1>0, <2>2, <2>3 DEF Memo
<1> HIDE DEF asks
<1>5. PoolOK(ms) /\ \A s \in MemoSlots : ms[s] = {}
  BY <1>2, <1>3, DisturbTypes, NothingToDisturb
<1> HIDE DEF ms
<1>6. \A s \in MemoSlots : \A n \in memos'[s] : n = m
  BY <1>1, <1>4, <1>5, SendPlaces
<1>7. ~Preparing'
  BY <1>1, <1>2, <1>3 DEF Preparing, Shell
<1> QED
  BY <1>4, <1>6, <1>7 DEF ObeyedInv

LEMMA GcoapThreadObeyed ==
    ASSUME IInv, ObeyedInv, NEW s \in MemoSlots, _resp_handler(s) \/ Timeout(s)
    PROVE  ObeyedInv'
<1>1. TypeOK /\ AllKept /\ memos \in [MemoSlots -> SUBSET Memo]
  BY TypeFacts DEF IInv, PoolOK
<1>2. memos[s] # {} /\ shell' = shell
  BY DEF _resp_handler, Timeout
<1>3. ~Preparing'
  BY <1>2 DEF ObeyedInv, NothingOpen, Preparing
<1>4. CASE Timeout(s)
  <2>1. \A t \in MemoSlots : memos'[t] \subseteq memos[t]
    BY <1>1, <1>4 DEF Timeout
  <2> QED
    BY <1>3, <2>1 DEF ObeyedInv
<1>5. CASE _resp_handler(s)
  <2>1. PICK m \in memos[s] :
           \E ask \in {NextBlock(m), {}} :
              memos' = [t \in MemoSlots |->
                          IF t = s THEN {}
                          ELSE IF ask # {} /\ Free(memos) # {} /\ t = LowestFree(memos)
                               THEN ask ELSE memos[t]]
    BY <1>5 DEF _resp_handler
  <2>2. \A t \in MemoSlots : memos'[t] \in {{}, NextBlock(m), memos[t]}
    BY <2>1
  <2>3. m \in Memo /\ Kept(m) /\ ~m.disturbed
    BY <1>1 DEF AllKept, ObeyedInv
  <2>4. \A n \in NextBlock(m) : n.disturbed = m.disturbed
    BY <1>1, <2>3, NextBlockKept
  <2> QED
    BY <1>3, <2>2, <2>3, <2>4 DEF ObeyedInv
<1> QED
  BY <1>4, <1>5

LEMMA ObeyedStep ==
    ASSUME IInv, ObeyedInv, [Next]_vars, [RuleObeyed]_vars
    PROVE  ObeyedInv'
<1>1. CASE UNCHANGED vars
  BY <1>1 DEF vars, ObeyedInv, NothingOpen, Preparing
<1>2. CASE RuleObeyed /\ \E c \in ShellCommands : ProxyCommand(c) \/ ShellBegin(c)
  BY <1>2, ProxyCommandObeyed, ShellBeginObeyed
<1>3. CASE ShellCopy
  BY <1>3, ShellCopyObeyed
<1>4. CASE ShellSend
  BY <1>4, ShellSendObeyed
<1>5. CASE ShellLoad \/ ShellStore
  BY <1>5, ShellCountObeyed
<1>6. CASE RuleObeyed /\ LoopRequest
  BY <1>6, LoopRequestObeyed
<1>7. CASE GcoapThread
  BY <1>7, GcoapThreadObeyed DEF GcoapThread
<1> QED
  BY <1>1, <1>2, <1>3, <1>4, <1>5, <1>6, <1>7, Zenon DEF Next, ShellThread

(* The rule of client.c:49-51 as RuleObeyed completes it is enough: under it, in every     *)
(* run, every block is asked for with the path and the addressing its transfer began with. *)
THEOREM RuleSuffices == Spec /\ [][RuleObeyed]_vars => []ContinuationsKeepRequest
<1>1. Init => ObeyedInv
  BY IdleFields DEF Init, ObeyedInv, Preparing
<1>2. IInv /\ ObeyedInv /\ [Next]_vars /\ [RuleObeyed]_vars => ObeyedInv'
  BY ObeyedStep
<1>3. IInv /\ ObeyedInv => ContinuationsKeepRequest
  BY DEF IInv, AllKept, Kept, ObeyedInv, ContinuationsKeepRequest
<1> QED
  BY <1>1, <1>2, <1>3, Inductive, PTL DEF Spec
=============================================================================
