# Formal models of windows-diagnostics-tools

TLA+ models of the concurrent core of this repository, the TLC runs that check
them on small instances, and TLAPS proofs of their safety properties for every
instance. Source references are relative to the root of the repository.

Run a model with `tlc -workers 2 -config MonitorSafety.cfg MCMonitor`, check the
proofs of a module with `tlapm Monitor_proofs.tla`.

## 1. The system

A Windows program with an embedded web page. `main` picks a port and serves HTTP;
the handlers start and stop a *monitoring session* that samples the system and
feeds WebSocket clients, and manage *probes* of network paths.

| component | state it keeps | operations | depends on |
|---|---|---|---|
| Monitoring sessions (`internal/handlers/server.go`) | `isRunning`, `interval`, `samplesCount`, `metricsHistory` under `s.mu`; `stopChan`; channel `broadcast` (100) | start, stop, status requests; one collection loop and one broadcast loop per start | collectors (call), clients (fan-out) |
| WebSocket clients (`websocket.go`, fan-out in `server.go`) | map `clients` under `clientsMu`; per client a connection and a channel `send` (256) | upgrade and register, read pump (teardown), write pump, fan-out | the broadcast loops |
| NetPath probe manager (`collectors/netpath.go`) | map `probes` under `n.mu`; per probe `running`, `stopChan`, `updateChan` (10), history | start, stop, delete, read; `runProbe` and an initial probe per start | the resolver, measurement |
| Measurement (`netpath.go`, `traceroute.go`) | one raw ICMP socket per round or trace; `t.mu` | `doProbe`, `Trace`, `probeHop`, `sendProbe` | the network |
| Collector manager and collectors (`collectors/*.go`) | baselines of the CPU and network collectors under their mutexes | `CollectAll`, one `Collect` each | the Windows API |
| WebSocket framing (`websocket.go`) | none | `ReadMessage`, `WriteMessage` | the connection |
| Dashboard (`cmd/web/app.js`) | socket, timers, history arrays, current probe | start/stop buttons, socket events, polling | all HTTP handlers |
| Start-up (`cmd/main.go`) | none | find a port, listen | the server |

How they interact: HTTP requests run in goroutines of their own and share the
`Server`; `handleStart` spawns the two loops; the collection loop calls
`CollectAll` and sends to `broadcast` without waiting; each broadcast loop takes
from it and offers the sample to every client's channel without waiting; each
client's write pump drains its channel to the socket, its read pump tears it
down. Probe requests change the probe map; the goroutines of a probe report back
through it. The page polls and reconnects on timers.

What is hard about it:

* `s.stopChan` is a field that a start replaces and that the loops read again at
  every `select`, without the lock: a stop and a start between two reads hand a
  loop to the next session (`server.go:199`, `:244`).
* results that outlive what they belong to: samples recorded after stop, probe
  results after stop or delete, the initial probe overtaken by later rounds;
* channels that are closed: twice, while nil, or while others send;
* `DeleteProbe` and `StopProbe` end a probe in two different ways;
* answers that come late, or to somebody else: a raw socket gets every ICMP
  message of the host, and `sendProbe` takes the next one (`netpath.go:467`);
* limits: the history, the two kinds of buffered channel, `maxProbes`;
* a 64-bit duration computed from a request without a check.

What makes each part correct (the properties are named in section 3): sessions
close each channel once, run with both loops, count what they keep and hand each
sample out once and in order; clients are never sent to after their channel is
closed, get each message at most once and in order, hold nobody up, and are
released when they go; the probe map holds every probe that was not told to
stop, stays within its limit, and probes end; a path shows hops no nearer than they are,
ends at the target, and reports exactly its problem hops; the difference a collector reports counts each
tick of CPU time and each octet once, whoever asks, and a rate is taken over an interval close to
that of its traffic;
a failing collector affects its own section only and leaves no mutex locked; reconnecting
replaces a socket of the page and adds none, and the page settles once its world does.

## 2. Plan

The modules, most important behaviour first, each with its `MC` module, configurations
and a `_proofs` module; the two abstract specifications have none of their own:

1. `Monitor`: sessions, their loops and the broadcast channel. `MonitorRequests` extends it by
   the requests that wait for `s.mu`, for the liveness properties.
2. `Hub`: the clients at the other end of that channel. `Feed` is the abstract
   specification of what a client is promised; `Hub` implements it
   (`ClientFeed == INSTANCE Feed WITH ...`), checked by TLC and proved.
3. `NetPath`: the probe map and the goroutines of each probe. `Registry` is the abstract
   specification of the table of probes that callers see; `NetPath` implements it
   (`Reg == INSTANCE Registry WITH ...`), checked by TLC and proved.
4. `Probing` and `PathReport`: one round of a probe, first which answer is taken for
   which question, then what the answers add up to.
5. `Collectors`: the baselines that the loops and the request handlers share.
6. `Dashboard`: the page, with the server as the page sees it.
7. `Server`: `Monitor` and `Hub` composed, one broadcast loop of each being one goroutine.

How they join. `Monitor` ends where the broadcast channel is drained
(each loop's samples in their order, none handed out twice: `QueuedOnceInOrder`), `Hub`
begins there: its samples have a number that only grows and its broadcast loops may be
several, which is what `Monitor` allows after a leak. `Server` makes that argument formal:
it takes the steps of both, jointly where they are the same line of code, and is
proved to implement each. `Collectors` opens up the single
step `CollectAllReturns` of `Monitor` (a sample was made; which of its sections are
filled), with as many callers as there are loops and requests. `NetPath` has a round as
a step that begins and ends, `Probing` and `PathReport` have its inside. `Dashboard`
has the server as one variable, `monitoring`, which is `isRunning` of `Monitor`.

## 3. The modules

Every action carries the name of the code it stands for; `PROJECT.json` maps each
definition to its lines. A definition whose comment begins with "Mutated form" is a
plausible bug used to test that a property can fail; no specification uses it.

### Monitor (sessions)

A handler is a small state machine cut where it takes or leaves `s.mu`:
`StartBegin` (lock, check `isRunning`), `StartCommit` (body decoded with the lock
held; new session), `StopBegin`, the replies. A stop channel is named by the number
of the start that made it, so `stopChan` is a number and `closed` a set; 0 is the
nil channel. A loop is a program counter, the channel its `select` evaluated, and
the sample in its hands. Between reading `s.stopChan` and the outcome of the
`select` other steps may happen, as in the code. A sample is who took it, its
number, and the stop channel in place when its tick fired: enough to tell samples
of different sessions, and their order. `ToDuration` multiplies and wraps as the
64-bit `time.Duration` does, at a small width.

Left out: what a sample contains and the per-request metrics endpoints (both in
module `Collectors`), logging. `handleStatus` is a
read and changes nothing. `time.NewTicker` panicking on a non-positive interval is
kept (`CollectorBegin`), and so are errors and panics of a collection
(`CollectAllFails`). A tick is always possible at a select: the ticker's pace is not
modelled. The data races on `s.stopChan` and, in the stop reply, on `samplesCount`
are taken as reads of the old or the new word.

Properties: `RunningIffOpen`, `SessionHasItsLoops`, `HistoryMatchesCount`,
`OneStragglerPerLoop`, `QueuedOnceInOrder` (safety), `StopEndsAllLoops`,
`SamplesFlow` (liveness), `LoopServesItsSession` (does not hold, see section 5).
`SamplesFlow` has its premise in the formula: `CollectionsSucceed`, collections do not
fail for ever. `StopEndsAllLoops` needs none: collections may fail for ever, with a
tick ready at every select, and the loop still finds the closed channel.

### MonitorRequests (who waits for s.mu)

In `Monitor` a request begins at the moment its handler has `s.mu`. Here it begins when
net/http calls the handler: `Arrive` puts it in `waiting`, and `ServeStart`,
`ServeStop`, `ServeIdleStop` and `ServeStatus` are the moments it gets the lock and
does what `Monitor` says. So several handlers and the collection loops, which record under
the same lock, compete for it. A start keeps `s.mu` while it decodes its body
(`server.go:111`), and everybody else waits behind that. Every step is one of `Monitor`
or leaves its variables alone. `plan` is a bound and not part of the program: it is chosen
at the beginning, and says which handlers get which requests, and how many starts.

Property: `RequestsAreAnswered` (liveness): whoever waits for the lock or has it is
answered, however many others come and go.

### Hub (clients)

One record of program counters per client: its handler goroutine (`Upgrade`,
`Register`, then the read pump: `ReadFails`, `Deregister`, `CloseConn`, `CloseSend`)
and its write pump (`WriterReceive`, `WriteHeader`, `WritePayload`, `WriteFails`,
`WriterDrained`). A broadcast loop holds the read lock from `RLock` to `RUnlock` and
visits the clients in any order, one `Offer` each. Critical sections of one
statement are one step, enabled when no loop holds the read lock. `panicked` records
a send on a closed channel. `PeerGone` is the environment. `written` is a history
variable: the whole frames that went to the connection, `joinedAt` the number
of samples there had been at registration.

`Feed` has no channels, locks or goroutines: a client is away, here or gone, and while it
is here its feed may grow by any published sample that it has not got, that no later one of the
same loop has overtaken, and that was published after it came (or is the first of its
loop: the one a loop was holding when the client registered). The refinement mapping
reads the stage of a client off its read pump (here from registration until `CloseConn`),
the feed is `written`, and what was published is `taken`. A step of the write pump that
completes a frame is `Deliver`; everything else in the fan-out and the pumps is a stutter.
That nothing is delivered to a client that left is the interesting half: the write
pump goes on draining the channel after the teardown and must find the connection closed.

Left out: the bytes of frames; messages from the peer,
which the code reads and drops; the hijack and header checks of the upgrade, which
either lead to `Upgrade` or leave no client.

Properties: `NoSendOnClosedChannel`, `EachOnceInOrder` (safety), `ClientsFollowTheFeed`
(the refinement), `FanOutEnds`, `GoneClientsAreReleased` (liveness).

### Server (sessions and clients together)

`Server` extends `Monitor` and takes `Hub` in by `INSTANCE` with `Broadcasters <- Loops`.
`TakeSample` is `BroadcasterReceive` of the one and `Receive` of the other, `HandedOn` is
`FanOut` of the one and `RUnlock` or `MarshalFails` of the other; every other step belongs
to one of the two and leaves the other's variables alone. The sample's number in `Hub`
is its position in `handed`, a history variable: the samples taken from the channel, in
that order. So a frame on a socket can be traced to the loop and the tick that made it.

Properties: `LoopsAgree` (a loop fans out the sample that it took), `SamplesOnceInOrder`
(from collection to socket), `FirstSessionInOrder` (without a second start the order is
total). They are theorems (section 6). `Server.cfg` is a small instance to try them on,
with `tlc -workers 2 -config Server.cfg MCServer`; it is not among the runs of section 4,
because its questions are those of the two components' runs and its two-session
instances take far longer than theirs.

### NetPath (probe manager)

A probe is named by the number of the start that made it; the map holds 0 for a
target without one. `StartProbe` checks under `n.mu` and keeps the lock during the
lookup (`lookup` is the target looked up), `LookupReturns` installs the probe and
its two goroutines. `StopProbe` and `DeleteProbe` differ as in the code: only the
first clears `running`. `runProbe` is a select over the stop channel, the updates
and the tick; `LoopTick` reads `running` without the lock. A round has a beginning
and an end, so stops and deletes fall into it. A result is the moment its round
began and whether it is the initial one; `late` counts results taken in after the
stop.

`Registry` has no locks, channels, lookups or goroutines: a target has no probe, a running
one or a stopped one, a count of results, and how many of them came after the stop. The
refinement mapping (`OfProbe`) reads these off the probe the map holds for the target.
`LookupReturns` is `Start`, the results taken in by `UpdateProbeResult` are
`ResultOfRunning` or `ResultOfStopped`, and results of a probe that was deleted or
replaced are stutters: nothing of them reaches the probe that follows.

Left out: what a round measures (modules `Probing` and `PathReport`); names, defaults of the
configuration, the JSON of the handlers.

Properties: `NoDoubleClose`, `OpenProbesAreRegistered`, `LateResultsBounded`,
`ProbesFormARegistry` (the refinement), `OlderOnlyFromInitial` (an action property), `GoroutinesEnd`;
`DeletedProbesRest` does not hold, see section 5.

### Probing (which answer is taken for which probe)

A call is a round of `doProbe` (a prober; as many at once as there are probes) or a
request to `Trace` (a tracer; one at a time under `t.mu`), made once. The two hop
loops are the same but for the context that `Trace` looks at between hops, and for a
message of an unexpected type, which `doProbe` counts as lost and `Trace` takes. The
network is the set of echo requests under way; `Answer` delivers the reply of the
router at which the TTL ends, at any later time or never, to every open socket
(`Receive`). A read takes the first message of the inbox (`ReadAnswer`, `ReadOther`)
or times out (`ReadTimesOut`), also when a message is there already. A router is
named by the target it leads to and its distance. `crowded` and `overtime` are
history variables: calls that ran in the company of others' probes, and probes sent
after the context was done.

Assumed of the network: one path per target, routers that answer from one address,
and strangers that are on no path (a stranger that pings the target would make any
call crowded). Left out: reverse lookups of names and `inferDeviceDetails`; messages
too short to parse, which are lost for both callers as a timed out read is.

Properties: `NeverNearerThanItIs`, `PathEndsAtTarget`, `OvertimeIsOneHop` (safety),
`CallsReturn` (liveness); `HopIsItsRouter` does not hold, see section 5.

### PathReport (what a round reports)

One action, `Hop`: `probeHop` returned with a sequence of latencies, and the body of
the loop of `doProbe` runs. Averages, loss percentages and the standard deviation are
fractions; a comparison with a limit multiplies by the denominators, so it is exact
on integers. The rounding of floating point numbers is left out: it could tip a
comparison only exactly at its limit. Minimum, maximum and the duration of a hop are
left out, nothing is decided by them.

Properties: `ListIsTheProblems` relates the list built hop by hop to the set of hops
with a bad status or a steep rise; `BottlenecksHaveNeighbours` says that a silent hop
neither is a bottleneck nor makes one. `TypeOK` includes that the loss totals add up.

### Collectors (what a sample is made from)

A caller is a collection loop, `GET /api/metrics` or `GET /api/metrics/<section>`; it
goes through the sections of `CollectAll` in their order, or calls one collector. `pc`
is the section it is at, with further values inside the three collectors that have more
than one step. `metrics` is the set of sections filled so far; an error or a panic
(`Skip`) leaves the section out and goes on, because each call has a `recover` of its
own. `CpuRead` takes the mutex and reads the times, `CpuUpdate` subtracts, stores and
unlocks, `CpuFails` unlocks by the `defer`. The network collector takes its mutex in
`NetList`, where it also computes `elapsed`, the interval all rates of this collection are
divided by: the time since `lastCollect`, or a second if that is less than a tenth of one
(`Elapsed`). For one adapter after another it then reads a row (`NetRead`, `NetReadFails`)
and subtracts and stores it (`NetStore`); time may pass before, between and after these,
so the moment of a reading is not the `now` of its collection. `NetUpdate` stamps
`lastCollect` with that `now`, `NetPanics` breaks off without; `NetListFails` is the early
return that fills the section with an empty list. `getTcpTable` calls `GetTcpTable2`
twice; the table may grow in between (`TcpSize`, `TcpFetch`, `TcpNoTable`). The other
three collectors are one step (`Snapshot`).

The host moves by ticks of a tenth of a second, the limit at which `elapsed` is clamped;
`Second` is a second in ticks. Each tick is idle, kernel or user time and adds an octet to
some interfaces. Differences are `uint64` (`Minus`, modulo `Word`), interface counters are
`octets % Wrap`, as `GetIfEntry` has 32 bits. `reported` and `counted` are history
variables: the sum of all differences reported. So are `readAt` (when an interface was
read last), `reading`, `fresh` and `broken` (by the collection under way, the last one that
finished, one that broke off since) and `took` (how long the last one took).

`IntervalIsOfTheTraffic` is what one time for all interfaces leaves of "a rate is traffic
by time". When a row is stored, `elapsed` is positive. If the interface was read by the last
collection that finished, or by one that broke off since, `elapsed` is at least the time
from that reading to the start of this collection, so it is short by no more than this
collection takes. If it was read by the last collection that finished, `elapsed` is at most the time between the
two readings and the length of that collection, unless the clamp applies. Without `took`,
without the clamp's disjunct, with the reading in place of the start of this collection, or
extended to interfaces that a broken-off or an earlier collection read, each bound is
refuted by TLC: none of the terms is slack.

Left out: the quotients themselves (percentages, rates, utilization), the values of the
three snapshot sections, packets and errors of an interface (read and subtracted as its
octets are), clocks that step back, fractions of a tick.

Properties: `CpuTimeInOneReport`, `EachOctetInOneRate`, `IntervalIsOfTheTraffic`,
`SectionsStandAlone`, `HolderIsInside`, all safety.

### Dashboard (the page)

The page runs one event at a time, so an action is a callback: an answer of `fetch`
(`StatusAnswered`, `StartAnswered`, `StopAnswered`), a click, `onclose` of a socket,
a timer of `setTimeout` that fires. Its state is the two variables the code has,
`isRunning` and `ws`, and what the browser keeps for it: the sockets that are not
gone, and the number of timers. `OnClose` asks only `isRunning`, never whether the
socket is still `ws`, and `TimerFires` asks nothing, as in the code. A request is
sent, handled by the server, and answered at any later time, or fails; several may be
under way, because no button is disabled before an answer. The server ends and comes
back (then it does not monitor), connections break, and other pages start and stop
monitoring. `opened` is a history variable: the answers that opened a socket.

Left out: `onopen`, `onmessage` and `onerror`, which change no state of this
kind, the charts, and the NetPath panel.

Properties: `ReconnectReplaces` (safety), `PageSettles` (liveness).

## 4. The runs

| run | configuration | question | bounds |
|---|---|---|---|
| monitor_safety | MonitorSafety | Do sessions, counts, history and queue stay consistent when requests and the loops of two sessions interleave? | 2 handlers (symmetric), 2 starts, 2 samples per loop, history of 2, channel of 2 |
| monitor_liveness | MonitorLiveness | Do loops end after the last stop, do sessions collect, does no request wait for ever? | 1 sample per loop; 1 handler with 2 starts and its stops, or 2 handlers with 1 start and any stops and status requests |
| monitor_leaked_loop | MonitorLeak | Does a loop end with the session that spawned it? (no) | as the first |
| hub | Hub | Is a client safely torn down while two broadcast loops send, does it get what `Feed` promises, and does a stalled or departed client hold anybody up? | 1 client, 2 loops, channels of 1, 3 messages |
| netpath | NetPathAll | Do starts, stops, deletes and restarts of probes with rounds in progress keep the map and the probes in order, and is what callers see a bounded table (`Registry`)? | 2 targets, a map of 1, 2 probes, rounds up to clock 2 and the initial ones |
| netpath_delete | NetPathDelete | Does a deleted probe rest? (no) | as above, clock 3 |
| probing | ProbingAll | What can a path show when late answers and foreign messages are taken for answers? | 1 round, 1 trace, targets 1 and 2 hops away, 2 hops of 1 probe, 1 stranger |
| probing_traces | ProbingTraces | Do traces that wait for one another return, and how long do they go on once their time is over? | 2 traces, 2 hops of 1 probe |
| probing_mixup | ProbingMixup | Does each hop show the router its TTL belongs to? (no) | 1 round alone, 2 hops of 1 probe |
| path_report | PathReport | Are the problem hops and bottlenecks of a path the right ones? | 3 hops of 3 probes, latencies 0, 60, 200 ms |
| collectors | Collectors | Do concurrent callers count time and traffic once, and does a failing collector harm only itself? | 2 callers (symmetric), 1 interface, a counter of 3 values, `uint64` of 8, 3 ticks of a tenth of a second, 1 connection, 1 failure |
| dashboard | Dashboard | How many sockets and timers can a page have, and does it settle? | the request at load and 3 clicks, 4 sockets, 1 fault |

Why the bounds are enough to be interesting. Two starts are the least at which a
loop can outlive its session and meet the next one; two samples per loop give an
order to violate and, from two loops, overflow a history of two. An interval of 6 wraps to a
negative duration at the width used and an interval of 1 does not. Two broadcast
loops are what a leaked loop leads to; three messages overflow a channel of one and
the hands of the write pump. One client is enough for the run: clients meet
only in the read lock, two of them with liveness are beyond the time of a run, and the
safety properties and the refinement are theorems for any number of clients.
Two probes and a map with one place let a probe be stopped, replaced, deleted and
restarted while its old round is in progress. Two hops let the answer to the first
be late for it and early for the second, a target one hop away lets a path end early;
a round beside a trace mixes both readers of the same messages. The latencies of
`PathReport` give averages around 50 and 150 ms, deviations around 20 and 50, rises
around 20, and three probes give losses of 0, 33, 67 and 100 %. Two callers are the
least that share a baseline; a counter of three values wraps at the third octet and so
is seen before and after; three ticks, the first of them before the program, let a collection
begin, read and end at different times and the next one start at once, where the clamp
makes ten ticks of none; the table has 0 or 1 rows, so it outgrows a buffer and shrinks below
it; requests for everything and for the network let one caller be inside
each collector while another comes. Two handlers are the least of which one waits for the other; they share one start, and
two sessions are left to the plan of one client, because both together are beyond the time
of a run. A start that finds the bound of starts used up is not answered (`OutOfBounds`). Four requests are the status request of the page,
two starts in a row, and a stop; one fault is a server that ended and came
back, or a connection lost, with sockets, timers and answers under way. There are as many sockets as
requests, and `SocketsSuffice` proves that this bound stops nothing. The proofs of section 6
remove the bounds for the safety properties.

`CHECK_DEADLOCK FALSE` in the Hub, Probing and PathReport configurations: each
connection and each call is made once, the messages are bounded and a path ends, so
the bounded system stops when all is done. In `Monitor`
and `NetPath` a status request or a read is always possible while the lock is free,
and the holder of the lock can always go on, in `Collectors` a caller may always ask
again, in `Dashboard` others may always start and stop, so deadlock is checked there.

### Fairness

* `Monitor`: weak fairness of each loop (the scheduler runs runnable goroutines), strong
  fairness of `CollectorStop` (Go's `select` chooses among ready cases at random, so
  a closed stop channel is taken in the end even if the ticker is ready each time).
  Nothing is assumed of collections, except as the premise of `SamplesFlow`.
* `MonitorRequests`: requests are not fair. Strong fairness of `Serve` (a goroutine that
  waits for an `RWMutex` gets it, in either mode) and weak fairness of `GoOn`, what a
  handler does once it has had the lock. `StartCommit` is a part of that because the
  client sends its body or goes away; the server has no read timeout, so this is an
  assumption about clients.
* `Hub`: a write is fair only once the connection is gone (there is no write
  deadline, a peer may stall for ever), a read only once it fails. A goroutine
  waiting for `clientsMu.Lock` gets it (a waiting writer of an `RWMutex` keeps new
  readers out): strong fairness of `Register` and `Deregister`.
* `NetPath`: goroutines run; the lookup and a round end (each wait in them has a
  deadline); strong fairness of `UpdateProbeResult` (a goroutine waiting for a
  `sync.Mutex` gets it) and of `LoopStop` (the random `select`).
* `Probing`: calls go on, because the lookup ends and each read has a deadline;
  answers are not fair. Strong fairness of `TraceLock` (a goroutine waiting for a
  `sync.Mutex` gets it).
* `Dashboard`: timers run out, and a socket that connects is answered or refused, one
  that is gone gets its `onclose`: the browser promises both. Nothing is assumed of
  answers to requests, of the user, or of a server that is down; `PageSettles` is
  conditional on the page going on to show the same state.
* `Feed` and `Collectors` have no fairness: only safety is stated about them.

## 5. What the code does not keep

* `LoopServesItsSession`: stop is said to stop the collection goroutine, but a loop
  that is collecting or sending, or has not reached its first select, when stop and
  start come reads the new channel and goes on beside the new loop. From then on two
  loops sample and two broadcast. `StopEndsAllLoops` and `OneStragglerPerLoop` say
  how far this goes: all loops end after the last stop, and each leaves at most one
  sample of an earlier session in the history.
* `DeletedProbesRest`: `DeleteProbe` does not clear `running`; a tick that is ready
  together with the closed channel may win the select, and another round begins.
  `GoroutinesEnd` says it ends all the same.
* `HopIsItsRouter`: a hop is said to be the information of its TTL, but replies are
  not matched with the probes they answer. A router slower than the timeout is shown
  one hop further away than it is. `NeverNearerThanItIs` says what is left: a call
  that has the host to itself never shows a router nearer than it is. Calls that run
  at once read each other's answers, and nothing of the kind holds for them.

Further things a reader of the code may expect, and that the models show or allow without a
property of their own:

* `maxProbes`, "Maximum concurrent probes", bounds the map; a deleted probe leaves the
  map at once and its round goes on beside that of its successor.
* The constructor of the CPU collector reads the times, "Initialize baseline", and drops
  what it read (`cpu.go:48`): the first report covers the time since the host started
  (`last` is `Zero` in `Init`). The percentages per core are the total.
* The network collector keeps one time for all interfaces. An interface that the last
  collection missed gets its traffic over an interval that is too short, one that a
  broken-off collection has read over an interval that is too long. Two collections
  within a tenth of a second are taken to be a second apart, so the second shows a tenth of the
  traffic or less. `IntervalIsOfTheTraffic` says how far each goes. A counter of 32 bits
  that wraps gives a huge rate; the utilization, capped at 100, looks plausible.
* A TCP table that grew between the two calls is reported as no connections at all, and
  the section counts as filled (`TcpNoTable`). No property says otherwise.
* A start whose interval wraps to a negative duration leaves monitoring "running" without a
  collection loop, and, because the interval is kept, so does the next start that asks for no
  interval of its own.
* The result of the initial probe replaces the newer one of a round it was slower than, because
  results are taken as they come. `OlderOnlyFromInitial` says that no other result does.
* The page: two starts in a row open two sockets, a stop closes the
  latest only, and a timer that is pending at a stop opens a socket all the same. Samples then
  reach the page more than once or while it shows "Stopped". After a restart of the
  server, or a stop from another page, it shows "Running" for good: the status is asked once.
* The panel of the probes: stopping one target ends the polling of another, since
  there is one timer for all; a poll of a deleted target starts a probe of its own.

## 6. Proofs

All safety properties of the passing runs, the two refinements included, are theorems for every value of the
constants, checked by TLAPS down to the last leaf. Each `_proofs` module has the
same layout: the strengthening, lemmas on operators, frame lemmas (what the steps
of a kind of goroutine leave alone), one lemma per part of the invariant, then
`IInvInit`, `IInvNext`, `IInvAlways` and the theorems. The assumptions are those of
the modules: names are distinct, sizes are naturals, and for `Monitor` that a
duration's width holds a second.

* `Monitor_proofs`. `TypeOK` is not inductive by itself: that `stopChan + 1` is a
  valid channel at `StartCommit` needs `LockInv` (who decodes holds `s.mu` and found
  monitoring stopped), that a sample's number stays in range needs `TickInv`.
  `RunningIffOpen` needs that only channels already made are closed (`ChannelInv`).
  `SessionHasItsLoops` rests on `LoopInv`: a loop waits on its own channel or a later
  one, so it returns only when one of these is closed, and while monitoring runs the
  current one is open. `OneStragglerPerLoop` needs that a loop with a sample from
  before the start in its hands has none in the history (`StragglerInv`), and
  `QueuedOnceInOrder` that what was sent is behind what its loop took last
  (`QueueInv`). `RememberLemma` says what appending and trimming leaves.
  `StopReachesAllWaiters` is the safety half of `StopEndsAllLoops`: no loop waits on a
  channel that no stop will close. It needs `PastInv`, that every channel before the current
  one is closed, which also makes every stop of a leaked loop final.
  `PlausibleIntervalsNeverPanic` is the one theorem with a hypothesis of its own, about the
  requests: their seconds fit a `time.Duration` (some 292 years). Without it
  `CollectorBegin` may panic over a negative interval, and the code does not check.
* `Hub_proofs`. `RegistryInv`: what a loop has still to visit is registered, because
  deregistration waits for the read lock, and a channel is closed only after
  deregistration. `PipeInv`: written, being written and queued messages together are
  sorted, and fresh for each loop that may still offer its message; `WriterThins`
  shows that whatever the write pump does leaves that sequence as it is or leaves a
  stretch out. `HubImplementsFeed` is the refinement, in two lemmas: `FeedInit`, and
  `FeedNext`, which maps each step to `Publish`, `Join`, `Leave`, `Deliver` or a
  stutter. The hard case is the frame that the write pump completes: it must be in order (`PipeInv`),
  its client must still be here (`HoldInv`: once the read pump has closed the connection
  no write succeeds), and it must be no backlog (`BacklogInv`: of each loop at most
  one queued message is older than the registration).
  `LeftClientsRunDown` is what can be proved of `GoneClientsAreReleased` without fairness: a
  measure of what the two goroutines of a deregistered client have still to do. Each
  of their steps lowers it and no other step raises it, because nothing is sent
  to a client that is not registered (`RegistryInv`).
* `NetPath_proofs`. `MapInv`: a running probe in the map has an open channel, so
  nothing closes it twice although delete leaves the flag set. `LookupInv`: the checks
  made before the lookup still hold after it. `PendingInv`: a counting argument (late
  results, the one in hand, those to come) for the bound of two. `ClockInv`: rounds of
  the loop are in order, only initial results are not. `ImplementsRegistry` is the
  refinement. It needs `StatusInv`, which ties what a read of the map returns to the flags of the
  probe, and the bound of two late results, which is a guard in `Registry`. `SendNeverWaits`:
  the goroutine of the initial probe is alone in sending and sends once, so it never blocks on a channel whose
  loop has ended. `StoppedProbesRunDown` is the counterpart of `LeftClientsRunDown` for `GoroutinesEnd`:
  the measure of a stopped probe is at most eight steps, and no start takes the probe up again.
* `Probing_proofs`. `NearInv`: for a call that is not crowded, every message in its
  inbox comes from a router within the TTL it is at, and so does every answer still
  under way; raising the TTL keeps that. Its part `Alone` says that everything under
  way answers probes of that call, because a second socket makes both calls crowded.
  `CallInv` ties sockets, loop variables and hops to the program counter.
  `OvertimeInv`: in the hop that was begun in time, the probes sent after the deadline
  are no more than the loop variable.
  `TracesTakeTurns` and `CallsRunDown` are what can be proved of `CallsReturn` without fairness:
  `t.mu` is held exactly by the trace between lookup and return (`TurnInv`), and each step of a
  call lowers a measure made of its two loop variables, which no message that comes in
  raises; so a flood of foreign answers never makes a call longer.
* `PathReport_proofs`. The invariant relates `previous` and the status of each hop to
  its latencies; an appended hop changes no earlier problem, and its number is larger
  than any in the list. The sums of latencies are left opaque: these theorems hold whatever the
  limits are. `PacketsAreAccounted` (`TypeOK`) needs no induction over the path: the totals are
  variables, and `CountInv` says how each hop adds to them.
* `Collectors_proofs`. `LockInv`: a mutex is held exactly while its holder is between
  the two steps of its collector, so one caller at most is there. `CpuInv`: baseline,
  the times in the holder's hands and the times of the host follow one another (`Since`),
  so no difference is negative; that `reported = last` survives a step needs that the baseline
  has not moved since the read. `NetInv` is its counterpart for counters below their
  width, with the row in the holder's hands between the two. `IntervalInv` orders the times:
  `lastCollect`, then the readings of the last collection, which end within `took` of it
  (`BaselineInv`); `lastCollect`, then the start of the collection under way, then what it has
  read and holds (`UnderWay`). That `took` is not negative needs it too, so `TypeOK` and
  `IntervalInv` are proved together. `SectionInv`: of the sections before the one a caller is at, each is filled or failed.
  Assumed: the width of `uint64` is no less than that of a counter.
* `Dashboard_proofs`. The bound on connections is a counting argument (`CountInv`):
  an answer opens one socket and is done, a socket that goes leaves one timer, a timer
  that fires one socket. `RunInv` keeps one of them while the page shows "Running".
  From the same invariant, `SocketsSuffice`: a free socket object is there whenever the
  page needs one. `OnlyAnswersConnect` is about steps: reconnecting adds no connection,
  loses none while the page shows "Running", and adds no timer while it does not.
* `Server_proofs`. The theorems of `Hub_proofs` hold for any set of loops; here they are used for
  the loops of `Monitor` (`HP == INSTANCE Hub_proofs WITH ...`), whose assumption on sizes
  becomes `ClientSizes`. `ServerImplementsMonitor` and `ServerImplementsHub` say
  that each component, seen alone, behaves as its module says. The composed
  properties rest on `SInv`, the invariants of both and what joins them: `LoopsAgree`, that
  the samples handed out are as many as `Hub` has counted, in each loop's order, and before
  what still waits in the channel (`HandedInv`), that a collection loop which was not started
  has made no sample (`UnbornInv`), and that messages come from the broadcast loops of
  the starts there were (`OriginInv`).
  `SamplesArriveInOrder` then combines `QueuedOnceInOrder` (the order on the channel) with
  `EachOnceInOrder` (the order of each client's frames).

Model-checked only: liveness under fairness (`StopEndsAllLoops`, `SamplesFlow`,
`RequestsAreAnswered`, `FanOutEnds`, `GoneClientsAreReleased`, `GoroutinesEnd`, `CallsReturn`,
`PageSettles`), which this prover does not handle. The three named properties of section 5 are
refuted by TLC.

## 7. Not modelled

* The bytes of a WebSocket frame: a table of four header forms in one direction, and in the
  other a parser of frames that a browser sends and whose payload is dropped.
* The NetPath panel of the page: it shows the answer that came last, together with the
  target in it, and keeps no state that could disagree with an answer; what its
  one polling timer does is described in section 5.
* `findAvailablePort`: the port may be taken by another program between the probe and
  `ListenAndServe`, which then fails and ends the program; nothing is promised
  beyond that.
* `inferDeviceDetails` and reverse lookups (tables of names), all drawing and formatting
  in the page, `index.html`, the build scripts, the structures of the Windows API.
