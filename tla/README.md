# DataStreamPilot in TLA+

DataStreamPilot collects temperatures: sensor nodes (RIOT, C) smooth their
readings and post them over CoAP; a Python server checks a parity bit, fuses the
readings of the three sensors of a site and writes one value to InfluxDB, which
Grafana displays. This directory models the parts of the repository that compute
or keep state, checks them with TLC and proves the main results with TLAPS.

## 1. Inventory

| component | state | operations | talks to | what is hard, what must hold |
| --- | --- | --- | --- | --- |
| sensor node, `src/compute_engine/main.c` | window `tempList`, `current_index`, sensor state, last payload | boot and reset the sensor, poll its BOOT bit, enable it, fill the window; then for ever: read, add noise, clean, average, report | sensor over I2C (every call can fail), server over CoAP | outliers are zeroed *inside* the window they are judged by; NaN to `int16_t`; failures whose result is ignored. A report stays among the kept readings; one spike is absorbed; boot ends |
| its CoAP command, `src/compute_engine/gcoap_cli.c` | request path, counter | `gcoap_cli_cmd`, `_send`, `_resp_handler` | RIOT's gcoap thread | a trimmed copy of the test client below |
| CoAP server, `src/server/app/coap_server.py`, `configuration.py` | per site and sensor a ring of two values and an index | `render_post`, process restart | nodes (posts in any order, lost or repeated), InfluxDB (writes fail) | state assigned before an exception stays; `values[-1]` is a slot, not the newest reading; start-up zeros; NaN. A point is the fusion of what is held; one faulty sensor does not move it |
| InfluxDB writer, `src/server/app/database.py` | none of its own | `sendInfluxdb` → `client`, `save` | InfluxDB | raises when the database fails or refuses a NaN |
| denoiser, `src/denoiser/main.c` | none | `filter_outliers`, the fusion in C | – | must agree with the Python version |
| test client, `src/network/gcoap_test/{main,client}.c` | `_last_req_path`, `_proxied`, `req_count`, RIOT's memos | shell command, request loop, response handler, each in its own thread | CoAP servers and proxies (late or missing answers) | three threads over shared globals without a lock; a pool that runs out. A transfer keeps asking for its own resource, ends, and is counted at most once |
| gcoap example, `src/network/gcoap` | as the test client, and the `/cli/stats` resource with its observers | the same command; GET and PUT of the counter, notifications | shell, remote clients | PUT racing `req_count++`, observers coming and going during a notification. A request is counted once; at the prompt the observer knows the count |
| legacy node, `src/compute_engine copy`, and `server/app/decoder.py` | batch buffer, base value, subscriptions | connect/subscribe with retries, delta-code a batch; decode it | MQTT-SN broker, server | neither can run, see section 7 |
| border router and networking nodes | RIOT's | start a shell | – | none of their own |
| deployment scripts | `release/*.elf`, running experiments | build or reuse a firmware, flash, stop | IoT-LAB | a cached firmware is never checked against its source |
| MATLAB studies, dashboards, containers | – | offline studies, configuration | – | – |

The node's messages reach the server through RIOT's network stack and the border
router, none of whose code is here. Nodes share nothing; they meet in the server's
table. The test client and the example node are programs of their own: they share
source with the sensor node's CoAP command, not state.

## 2. Plan

1. *(done)* `Parity`, `Fusion` and `FusionCases`: the arithmetic everything rests on.
2. *(done)* `TemperatureServer`, with the abstract `FusionCell` it implements.
3. *(done)* `SensorNode`.
4. *(done)* `GcoapClient`.
5. *(done)* `Pipeline`: nodes, a network that loses and reorders posts, and the server;
   composes `gcoap_cli.c`, `Parity` and `TemperatureServer`.
6. *(done)* `CliStats`: the `/cli/stats` resource of `network/gcoap`.
7. *(done)* `SiteReport`, the abstract specification of the pipeline – a point is the mean over
   values each of which its node posted at some time – and the refinement.
8. *(done)* The theorems about the window's sums (`SensorNodeProofs`) and about the
   composition (`PipelineProofs`).

What is left is in section 7 with its reasons: the legacy node and its decoder, and the deployment
scripts. If the legacy node is ever completed, its delta coding against `decoder.py` is the first
thing to model.

Every module keeps one action per operation, parameters as CONSTANTS with named
assumptions, and no RECURSIVE operator, so that it can be proved about.

## 3. Modules

`Parity` – `calculate_odd_parity` of main.c and `parityCheck` of coap_server.py over the
16 low bits; both shift arithmetically, so a negative reading is its two's complement.

`Fusion` – both `filter_outliers`, for three integer readings. Denominators are
cleared: a z-score at most 1.3 is `300 * Dev^2 <= 169 * Spread`. Equality would need
`169 * Spread / 300` to be a square, which no integers satisfy except with no spread at
all, so float rounding never decides. With no spread every z-score is NaN: the server's `<=` keeps
nothing, the denoiser's `>` rejects nothing. A mean is an exact fraction `[sum, n]`; `n = 0` is NaN.
`FusionCases` drives the filter over all triples and states its properties.

`TemperatureServer` – `site_data` is the Python dictionary; `render_post` is the
disjunction of what a post can end in: `Accept`, or one action per exception, at the
line that raises it. A post is one step because no coroutine on its way waits for
anything. In `Accept` the store and the index move come first and the database may then
fail; this order is what `ImplementsFusionCell` and `HeldReadingAge` look at. The reply
after the write is part of the step. `Restart` empties the windows and keeps the
database. `accepted` is a history variable: what was stored since the last restart.
`FusionCell` is the abstract specification: one held reading per sensor, a report
changes at most one, and a point is the fusion of what is held when it is written.
The refinement maps the cell's `held` to the last slot of each ring.

`SensorNode` – one action per I2C transaction of `main()` (`InitAndReset`, `PollBoot`,
`EnableSensor`, `FillWindow`, `Sample`, `ReadFailed`), each with its failure. `Sample` is
a whole turn: noise added and narrowed to `int16_t`, the slot stored, outliers zeroed
against the mean and deviation of the *uncleaned* window, the average of what is not 0,
rounded half away from zero, the parity. Mean and deviation are exact, scaled by
`WINDOW_SIZE`; a slot exactly on the limit may go either way, because there the code's
float rounding decides. The conversion of NaN is a constant set, `NaNAsInt16`; the runs
take `{0}`, what ARM's runtime returns on the boards used. The noise generator is a set of values.
`Sums` is the loop that adds up the slots, as a recursive function.

`GcoapClient` – the three threads of gcoap_test. The shell has RIOT's lowest priority
of the three, so its command is cut where another thread could see the difference: at the
`memset` of `_last_req_path`, its `memcpy`, the send, and the load and the store of
`req_count++`. The request loop runs at `THREAD_PRIORITY_MAIN - 1`, the priority of
RIOT's gcoap thread: neither preempts the other and a request is one step. The handler is one step. A memo is
RIOT's record of an open request; here it also carries, as history, what its transfer
first asked for and whether anything came between. The handler runs while its own memo is
taken, so a continuation needs a second one, and its failure is ignored (client.c:171).
A continuation asks for whatever `_last_req_path` and `_proxied` say *then*.
Method, payload and port are left out: no property tells them apart. `data_lock` is
taken by one thread only and excludes nothing, so it has no variable.

`CliStats` – the shell's command is cut at each access to `req_count` and to RIOT's
observe memo: send, the load and the store of `req_count++`, then `gcoap_obs_init`, the
formatting and `gcoap_obs_send` of `notify_observers`. `_stats_handler` is one step, because
RIOT's gcoap thread has the higher priority. RIOT holds one observer per resource and a
client drops a notification with another's token. `due`, `told` and `outdated` are history: what the count is
when no PUT falls into an increment, what the node last sent to its observer, and whether a PUT
came after that was read. The width of the counter is the constant `COUNT_SIZE`.

`Pipeline` – several nodes of one site, the network and the server. A node's turn is
`gcoap_cli_cmd` with the value it reports at that time: the memo is taken from RIOT's pool, the post
goes into the network; without a free memo nothing is sent and nothing is repeated, as in the code.
`_resp_handler` is the answer or the timeout; it releases the memo, and since a post is
non-confirmable it says nothing of where the post is. The network is a bag: it delivers its
posts in any order or loses them. `locationMap` and `getBinaryValue` are the node's table of sites. `Deliver` is the server's `render_post`, taken by `INSTANCE` from
`TemperatureServer`. What a node reports is not computed here (that is `SensorNode`) but changes
freely until `Calm`, and the server may restart until then. The `/cli/stats` observers of
`gcoap_cli.c` are left out: `gcoap_cli_init`, which would register the resource, is never called, so
`gcoap_obs_init` never finds one. `reported` is a history variable, what each node has posted.

`SiteReport` – what the pipeline promises of a site, in two variables: `seen`, the values each
sensor may have contributed (the server's zeros, and what its own node has posted), and the newest `point`,
which is the mean over at least two sensors of one such value each. It has no memos, network, windows,
parity or threshold. The refinement maps `seen` to `reported` with the zero, and says that loss,
delay, reordering, refused writes and restarts never produce a point out of thin air: no value of
another sensor, no value that was not posted, no mean over a single sensor.

`MC*` modules hold the values of constants for the runs; `*Proofs` the theorems.

## 4. Runs

| run | states | shows |
| --- | --- | --- |
| `fusion` | 1728 | all triples over 12 readings: at most one reading is rejected; the two implementations agree except on unanimous triples; one faulty sensor is bounded; a lone spike is dropped by however little it differs |
| `server` | 108 914 | three sensors with two or three values each, the four kinds of refused post, failing writes and restarts: the age of the reading fused, no start-up zero in a point of a warm site, one faulty sensor masked, the cell implemented |
| `node` | 43 973 | window of 6, readings jumping between 0.20 and 0.60 with or without noise, every failure of the sensor |
| `client` | 202 268 | four requests, two memos, a three-block resource, an overlong path, a proxy set and unset at any time: what a continuation asks for, that the counter is never ahead, that every answer leaves less to ask for (`LessToAskFor`) and every transfer ends |
| `stats` | 2 860 | two clients that observe, leave and are refused, PUTs at every point of the shell's command, a counter that wraps: the count comes out, the observer knows it at the prompt, and catches up after a PUT |
| `pipeline` | 112 612 | two nodes, one of them changing, posts lost and overtaking each other, refused writes, restarts: no post is refused; once readings are steady, windows and network settle on them (`CalmSettles`) and stay settled (`SettledStays`), and the newest point becomes what the sensors report, and stays it; `SiteReport` implemented |
| `server_mismatch`, `server_unanimous`, `server_sites` | violation | three ways in which a post does not become the point the documentation promises |
| `node_average` | violation | a cleaning that removes every reading left |
| `stats_reset` | violation | a PUT on `/cli/stats` answered 2.04 and overwritten |
| `client_blockwise` | violation | the request loop breaks the rule that the code states for its user |

Bounds. *server*: the window is the code's 2; sites are independent in the code, so one
tracked site is exercised, and the other codes only to be refused; three values for one
sensor are enough for triples with an outlier, without one, and unanimous. The history is
as long as the window, so nothing else is unbounded. *node*: a window of 6 instead of 65
– the smallest in which one spike can leave two deviations (`(n-1)/sqrt(n-1) > 2`
needs `n > 5`) and a quarter of the window is a slot; two temperatures so far apart that
half a window of each is not an outlier and one of six is. The properties speak of shares of the
window, not of 65. *client*: `MaxRequests` = 4 lets two transfers overlap, a third
request disturb them and a fourth meet the full pool; three blocks make a middle block,
which is where a missing test of the path shows; two memos are the fewest with which a
continuation can be sent, and as few as make the pool run out.
`req_count` is 16 bits wide and stays far from wrapping under these bounds.

*stats*: a counter of six values wraps within the run, the PUTs are zero, the value
before the wrap and a number that the cast narrows; two clients are the fewest of which one can
replace the other. *pipeline*: two of a site's three sensors have a node, so the third keeps the
server's zero; node 1 reports 1 or 3 and node 2 always 1, which makes a steady triple with
a rejected reading and one where another is rejected; one memo, so that it runs out (the
pool is that of the node alone); up to two copies of each post in the network (`MaxInFlight`), so that a post
overtakes an older one of the same value and of another; a copy beyond that is one the network loses.

Deadlock is checked in every run. None of them stops: the server always takes posts,
the node always takes readings, and a client that may begin no more requests can still set its proxy.
`client_blockwise` has no shell and stops at its bound only after its violation.

Fairness. `SensorNode` assumes that until it reaches its loop the one thread goes on: every
step ends in a timed sleep or an I2C call that returns. It assumes nothing of the sensor:
`BootEnds` holds with a BOOT bit that never clears. `GcoapClient` assumes weak fairness of the
gcoap thread alone: for an open memo an answer arrives or RIOT's timer fires, and no
thread of higher priority runs for ever. Nothing is assumed of the shell or the loop. The server alone
has no liveness property and no fairness: nobody owes it a post. `CliStats` has none either: nobody owes the
shell a command. `ObserverCatchesUp` assumes in itself what it needs, that requests go on being sent and that PUTs stop. `Pipeline` assumes weak
fairness of the nodes' loops (a timed sleep, then a post) and of the release of memos (RIOT's timer),
and of its environment what any such promise needs: no post stays in the network for ever,
a network that always has posts of a node delivers some of them, and a database that refuses again and again
also accepts again and again. It does not assume that nodes manage to post: that follows from the pool.
In `SensorNode` and `Pipeline` weak and strong fairness are written out, with the state predicate
that ENABLED of the action amounts to (`open[k] < REQ_WAITING_MAX` for a post, a post of the node in
the network for its delivery), because the prover knows nothing of ENABLED and can use these.

## 5. Where the code and its documents disagree

- `server_mismatch`: a reading with a wrong parity bit raises `KeyError`
  (coap_server.py:74); docs/SENSOR.md:80 and docs/COMPRESSION.md:57 promise an average.
- `server_unanimous`: three sensors that agree exactly – README.md assumes they
  should – yield NaN and no point (coap_server.py:127).
- `server_sites`: paris and lille have codes, and no entry in the table (coap_server.py:49).
- `node_average`: after a step of temperature the zeros of one cleaning make the next one
  remove everything (main.c:232). `ZeroWindowIsForever`, which holds, says what follows.
- `stats_reset`: `req_count++` of the shell is not atomic and overwrites a PUT
  (network/gcoap/client.c:176).
- `client_blockwise`: a new path before the blockwise transfer ended (gcoap_test/main.c:64).

## 6. Proofs

All theorems hold for every value of the constants under the modules' named assumptions:
`WindowAssumption` (a window of at least one slot), `PostsAssumption` (posts have integer
readings), `ReadingsAssumption`, `ClientAssumption` (the request list is not empty, a ping's
missing path is one of the paths and is answered in one block, one of the responses is the longest, the empty text fits its buffer),
`CliStatsAssumption` (a counter with at least one value, `NoClient` no client), `NodeAssumption` (a window
of at least one slot; readings, noise and the conversion of NaN are 16-bit), `PipelineAssumption` (some of the three
sensors have nodes, which report integers; a window, a pool and a network with room for one).

- `ParityProofs`: an honest report is accepted; a value that differs in one bit is refused.
  The second is counting: the two sets of one-bits differ in one element.
- `FusionProofs`, `FusionCasesProofs`: each property of `FusionCases` for all integers. The core
  is `SquareSign` and `KeptIsNearArithmetic`: with readings written as one reading
  and two differences, the threshold is a polynomial inequality; `FilterOfAnyOrder` reduces the
  assignments of readings to sensors to one.
- `TemperatureServerProofs`: `TypeOK` is not enough to know what a slot holds. The
  inductive invariant adds `RingHolds`, which places *every* slot of a ring in the history
  of its sensor; `HeldReadingAge` is its instance for the last slot. `RingStep` shows
  that one store and one index move preserve it, over the wrap of the index and the
  first round. `NoPhantomReading` and `OneFaultySensorMasked` combine it with the bounds
  of `FusionProofs`. `ServerImplementsCell`: `Accept` is the cell's `Report`, `Restart` its
  `Restart`, and every refused post a stutter.
- `GcoapClientProofs`: that an undisturbed transfer keeps its request is not inductive.
  The invariant says why it does: `_last_req_path` still holds the text of every
  undisturbed transfer and `_proxied` its addressing, and a text too long for the
  buffer never gets beyond its first block (`AllKept`); while the shell is between its `memset` and
  its send no other transfer is undisturbed, or the shell itself is disturbed (`ShellInv`). For the
  counter, a request sent and not yet counted is the slack a stale load uses up (`CountInv`).

  `EveryAnswerLeavesLess` proves the ranking behind `FallsSilent`. That a transfer ends is not
  plain, because a continuation may be addressed to the resource of another transfer, with more blocks. What may still be asked
  for, `Pending`, is a set of pairs of memo and block: of every open request its block and those after it,
  up to the longest response of any resource. It is finite (`PendingFinite`). An answer frees its memo, and
  the continuation in another one asks for a later block: mapping that memo back to the freed one is an
  injection into what there was, which misses the block just answered (`EndingLeavesLess`). The invariant it needs is
  `BlockExists`: every open request asks for a block that some resource has.

  `RuleSuffices` is the other side of `client_blockwise`: that run refutes `ContinuationsKeepRequest`
  because the program breaks the rule of client.c:49-51; the theorem says that the rule is enough,
  once two things are added that the comment leaves out: a proxy may not be set or unset during a transfer
  either, and the request loop, which never looks at `_proxied`, may not ask for anything while a proxy is set.
  Without the second the property fails even under the first: the
  block after the first of the loop's own transfer is asked for as a Proxy-Uri.
- `CliStatsProofs`: `NotifyInv` says which observers are still to be told: whoever is not the
  addressee of the notification being sent registered after the count was stored, and was
  told by the answer to its registration; `CountInv` says what is due while an
  increment is half done. `ObserverAlwaysCatchesUp` is a liveness theorem that needs no ENABLED: a request
  sent makes the node's count current for whoever observes (`CaughtBySending`), only a PUT undoes that
  (`CaughtUntilPut`), and the property's premises say that requests go on and PUTs end.
- `SensorNodeProofs`: all the safety of the node, for every window size, reading and noise. The
  provers cannot instantiate an induction theorem whose parameter is a predicate, so
  `SetInduction` states induction for a *set* of naturals, from the fact that a non-empty one has a least
  element (`LeastElement`). With it `SumsExist` shows that the recursive sum is defined, and `SumLinear`,
  `SumMonotone` and `SumIndicator` what it is of a combination of windows, of a larger one, and of a
  set's indicator. A report lies between the kept extremes because a sum lies between the
  count times each (`RoundedAverage`). `CleaningRemovesFew` is Chebyshev's inequality: the squared
  deviations of the removed slots add up to more than four variances each (`FewFarAway`).
  `SpikeAbsorbed` and `ZeroWindowIsForever` compute mean and variance of a window with
  one slot unlike the rest (`SpikedMoments`): the slot is beyond two deviations exactly when
  `WINDOW_SIZE > 5`, which both theorems assume and the code's 65 satisfies; the rest is never removed.
  `BootAlwaysEnds`: a rank of eight values grows with every step of the start-up (`RankGrows`), the
  polling of the BOOT bit included, and fairness takes it through them one by one.
- `PipelineProofs`: `PipelineTypeCorrect`, and `PipelineImplementsSiteReport` from two more
  invariants: whatever the network holds, its node has posted (`NetIsReported`), and every slot of the site's
  windows holds a value of its own sensor's `seen` (`WindowsAreSeen`). A delivery that writes a new
  point is then the abstract `Write`, with the filter's two or three kept sensors from `FusionProofs`; a
  turn is its `Report` or a stutter, and everything else stutters. The server's results
  are taken over by instantiating `TemperatureServerProofs` with the nodes' posts: the lemmas `Same...`
  identify the two instances' operators. `OneFaultyNodeMasked` carries the masking of one
  faulty sensor over to the composition in the same way. `NoPostIsRefused` joins `ParityProofs` with the two
  tables of sites: every post a node can make passes (`PostIsAccepted`).

  That the point follows the sensors falls into two halves. `Settled` says that nothing of
  earlier readings is left, in the network or in any slot of the windows. `SettledStaysSettled` proves that
  no step leaves it, and that every point written then is the fusion of the steady readings.
  `SettlingSuffices` proves from it, and from the fairness of nodes, network and
  database, that such a point is in fact written, over any number of lost posts and refused writes
  – provided that `Settled` is reached at all, which is `CalmSettles`.

Only model-checked, and why:
- `CalmSettles`, and with it that `PointFollowsSensors` holds without a premise; and `FallsSilent`. Both are
  inductions over a number the constants determine (slots of a window and posts under way; `Pending`)
  whose induction step is a temporal formula. The temporal prover works with finitely many steps
  that are named one by one, as in `BootAlwaysEnds`; for any number of them it would take an
  induction theorem with a predicate as its parameter. The steps themselves are proved:
  that `Pending` shrinks, that `Settled` is kept.
- The disagreements of section 5, which are counterexamples.

## 7. Not modelled, and why

RIOT itself (gcoap's retransmission, sockets, scheduling) is modelled only as
`gcoap_req_send`, its pool of memos, its observe memo and the order of its threads; the network between
node and server as a bag of posts. `TimeResource`, `getInfluxDB` (no caller),
`coap_client.py` (a script), the border router and networking nodes (RIOT examples), dashboards and
MATLAB hold no state of the system.

The legacy node (`compute_engine copy`) is not a program that can run: its main.c calls `cmd_con`
and `get_qos`, which no file defines; its temperature is the constant 3250, so every delta it would code is 0; and the
keys of its JSON are not the ones the server parses. Its `client.c` and `server.c` are copies of the test client's.
The decoder is never called, and the functions it relies on, `parityCheck` and `filter_outliers`, are
commented out in it. A model of the two would have to invent what is missing. The deployment
scripts are shell, run by hand; their state is the file system's and the testbed's.
`network/gcoap/client.c` repeats the command and the response handler of the test client without its
request loop; `CliStats` models what it adds, the counter under its resource.

main.c:286 compares the result of a failed `lpsxxx_enable` (1) with -1, so
its message never appears and the node goes on with a sensor that is off. No state depends on the comparison; the model has
the boot that ends all the same (`BootEnds`), and a sensor that posts anything or nothing from then on is the
one that `OneFaultySensorMasked` lets a site have. In `SensorNode` the conversion of an infinite noise
value (`log(0)`) is one of the values `Noises` may hold: the runs do not take it, the theorems do. The sleep
between readings has no effect on the state.
