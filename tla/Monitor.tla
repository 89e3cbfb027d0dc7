------------------------------- MODULE Monitor -------------------------------
(***************************************************************************)
(* The monitoring sessions of Server (src/internal/handlers/server.go):    *)
(* the HTTP handlers that start, stop and query monitoring, the collection *)
(* loop and the broadcast loop each start spawns, and what they share: the *)
(* fields guarded by s.mu, the field s.stopChan (which the loops read      *)
(* without the lock) and the buffered channel s.broadcast.                 *)
(*                                                                         *)
(* A channel made by a start is named by the number of that start, so      *)
(* stopChan is a number, 0 for the nil channel of NewServer, and closed is *)
(* the set of channels handleStop has closed.  Loop i is the one the i-th  *)
(* start spawned.  A sample keeps, instead of metrics, which loop took it, *)
(* the how-manieth of that loop it is, and which stopChan was in place     *)
(* when its tick fired.                                                    *)
(***************************************************************************)
EXTENDS Integers, Sequences

CONSTANTS
    Handlers,      \* goroutines of net/http that serve monitoring requests
    NoHandler,     \* s.mu is free
    Requests,      \* values of the "interval" field of a start request (0: none)
    Second,        \* time.Second, scaled down
    Word,          \* number of values of a time.Duration, scaled down
    MaxHistory,    \* s.maxHistory
    BroadcastCap,  \* capacity of s.broadcast
    MaxSessions,   \* bound: starts
    MaxTicks       \* bound: samples one collection loop takes

ASSUME HandlersAssumption == NoHandler \notin Handlers
ASSUME WidthAssumption == /\ Requests \subseteq Int
                          /\ Second \in Nat \ {0}
                          /\ Word \in Nat \ {0} /\ Second < Word \div 2
ASSUME SizeAssumption == /\ MaxHistory \in Nat \ {0}
                         /\ BroadcastCap \in Nat
                         /\ MaxSessions \in Nat
                         /\ MaxTicks \in Nat

VARIABLES
    mu,              \* the handler inside the critical section of handleStart
    handler,         \* where each handler is
    isRunning, interval, samplesCount, metricsHistory, stopChan,
    closed,          \* stop channels that are closed
    broadcast,       \* contents of the channel s.broadcast
    collector,       \* where each collection loop is
    collectorChan,   \* the channel its select waits on
    metrics,         \* the sample it is working on, or its last one
    broadcaster,     \* where each broadcast loop is
    broadcasterChan, \* the channel its select waits on
    message          \* the sample it took from s.broadcast, or its last one

session == <<isRunning, interval, samplesCount, metricsHistory, stopChan, closed>>
collectors == <<collector, collectorChan, metrics>>
broadcasters == <<broadcaster, broadcasterChan, message>>
vars == <<mu, handler, session, broadcast, collectors, broadcasters>>

-----------------------------------------------------------------------------
Loops == 1..MaxSessions
Channels == 0..MaxSessions
Samples == [loop: Loops, n: 0..MaxTicks, begun: Channels]

HandlerStates == {"idle", "decode", "reply", "stopReply"}
CollectorStates == {"none", "spawned", "loop", "select", "collect", "record",
                    "send", "returned", "panicked"}
BroadcasterStates == {"none", "loop", "select", "fanout", "returned"}

(* A product of durations keeps the low bits of a signed word. *)
Wrap(d) == ((d + Word \div 2) % Word) - Word \div 2

ToDuration(seconds) == Wrap(seconds * Second)

(* Mutated form: one entry too many is kept. *)
RememberOneMore(history, sample) ==
    LET longer == Append(history, sample)
    IN  IF Len(longer) > MaxHistory + 1 THEN Tail(longer) ELSE longer

(* append, then drop the oldest entry when there is one too many *)
Remember(history, sample) ==
    LET longer == Append(history, sample)
    IN  IF Len(longer) > MaxHistory THEN Tail(longer) ELSE longer

Init ==
    /\ mu = NoHandler
    /\ handler = [h \in Handlers |-> "idle"]
    /\ isRunning = FALSE
    /\ interval = Second
    /\ samplesCount = 0
    /\ metricsHistory = <<>>
    /\ stopChan = 0
    /\ closed = {}
    /\ broadcast = <<>>
    /\ collector = [i \in Loops |-> "none"]
    /\ collectorChan = [i \in Loops |-> 0]
    /\ metrics = [i \in Loops |-> [loop |-> i, n |-> 0, begun |-> 0]]
    /\ broadcaster = [i \in Loops |-> "none"]
    /\ broadcasterChan = [i \in Loops |-> 0]
    /\ message = [i \in Loops |-> [loop |-> i, n |-> 0, begun |-> 0]]

-----------------------------------------------------------------------------
(* The handlers *)

(* Mutated form: the early return forgets the unlock. *)
StartBeginKeepsLock(h) ==
    /\ handler[h] = "idle"
    /\ mu = NoHandler
    /\ isRunning \/ stopChan < MaxSessions
    /\ handler' = [handler EXCEPT ![h] = IF isRunning THEN "reply" ELSE "decode"]
    /\ mu' = h
    /\ UNCHANGED <<session, broadcast, collectors, broadcasters>>

(* handleStart takes s.mu.  A start while monitoring runs changes nothing  *)
(* and goes on to build its reply; otherwise the request body is read with *)
(* the lock held.                                                          *)
StartBegin(h) ==
    /\ handler[h] = "idle"
    /\ mu = NoHandler
    /\ \/ /\ isRunning
          /\ handler' = [handler EXCEPT ![h] = "reply"]
          /\ mu' = mu
       \/ /\ ~isRunning
          /\ stopChan < MaxSessions
          /\ handler' = [handler EXCEPT ![h] = "decode"]
          /\ mu' = h
    /\ UNCHANGED <<session, broadcast, collectors, broadcasters>>

(* Mutated form: the count of the last session goes on. *)
StartCommitKeepsCount(h) ==
    /\ handler[h] = "decode"
    /\ \E seconds \in Requests :
          interval' = IF seconds > 0 THEN ToDuration(seconds) ELSE interval
    /\ isRunning' = TRUE
    /\ samplesCount' = samplesCount
    /\ metricsHistory' = <<>>
    /\ stopChan' = stopChan + 1
    /\ mu' = NoHandler
    /\ collector' = [collector EXCEPT ![stopChan + 1] = "spawned"]
    /\ broadcaster' = [broadcaster EXCEPT ![stopChan + 1] = "loop"]
    /\ handler' = [handler EXCEPT ![h] = "reply"]
    /\ UNCHANGED <<closed, broadcast, collectorChan, metrics, broadcasterChan, message>>

(* Mutated form: the history of the last session goes on. *)
StartCommitKeepsHistory(h) ==
    /\ handler[h] = "decode"
    /\ \E seconds \in Requests :
          interval' = IF seconds > 0 THEN ToDuration(seconds) ELSE interval
    /\ isRunning' = TRUE
    /\ samplesCount' = 0
    /\ metricsHistory' = metricsHistory
    /\ stopChan' = stopChan + 1
    /\ mu' = NoHandler
    /\ collector' = [collector EXCEPT ![stopChan + 1] = "spawned"]
    /\ broadcaster' = [broadcaster EXCEPT ![stopChan + 1] = "loop"]
    /\ handler' = [handler EXCEPT ![h] = "reply"]
    /\ UNCHANGED <<closed, broadcast, collectorChan, metrics, broadcasterChan, message>>

(* The body is there, or is not one (0): a new session, and its two loops. *)
StartCommit(h) ==
    /\ handler[h] = "decode"
    /\ \E seconds \in Requests :
          interval' = IF seconds > 0 THEN ToDuration(seconds) ELSE interval
    /\ isRunning' = TRUE
    /\ samplesCount' = 0
    /\ metricsHistory' = <<>>
    /\ stopChan' = stopChan + 1
    /\ mu' = NoHandler
    /\ collector' = [collector EXCEPT ![stopChan + 1] = "spawned"]
    /\ broadcaster' = [broadcaster EXCEPT ![stopChan + 1] = "loop"]
    /\ handler' = [handler EXCEPT ![h] = "reply"]
    /\ UNCHANGED <<closed, broadcast, collectorChan, metrics, broadcasterChan,
                   message>>

(* Mutated form: the channel is closed but monitoring still counts as running. *)
StopBeginStaysRunning(h) ==
    /\ handler[h] = "idle"
    /\ mu = NoHandler
    /\ isRunning
    /\ closed' = closed \cup {stopChan}
    /\ handler' = [handler EXCEPT ![h] = "stopReply"]
    /\ UNCHANGED <<mu, isRunning, interval, samplesCount, metricsHistory, stopChan,
                   broadcast, collectors, broadcasters>>

(* Mutated form: the flag is cleared but the channel stays open. *)
StopBeginLeavesOpen(h) ==
    /\ handler[h] = "idle"
    /\ mu = NoHandler
    /\ isRunning
    /\ isRunning' = FALSE
    /\ handler' = [handler EXCEPT ![h] = "stopReply"]
    /\ UNCHANGED <<mu, interval, samplesCount, metricsHistory, stopChan, closed,
                   broadcast, collectors, broadcasters>>

(* handleStop: closes the channel of the session once, under s.mu. *)
StopBegin(h) ==
    /\ handler[h] = "idle"
    /\ mu = NoHandler
    /\ isRunning
    /\ closed' = closed \cup {stopChan}
    /\ isRunning' = FALSE
    /\ handler' = [handler EXCEPT ![h] = "stopReply"]
    /\ UNCHANGED <<mu, interval, samplesCount, metricsHistory, stopChan,
                   broadcast, collectors, broadcasters>>

(* The reply of handleStop reads samplesCount, no longer under s.mu. *)
StopReply(h) ==
    /\ handler[h] = "stopReply"
    /\ handler' = [handler EXCEPT ![h] = "idle"]
    /\ UNCHANGED <<mu, session, broadcast, collectors, broadcasters>>

(* The reply of handleStart is getStatus, a read under s.mu. *)
StatusReply(h) ==
    /\ handler[h] = "reply"
    /\ mu = NoHandler
    /\ handler' = [handler EXCEPT ![h] = "idle"]
    /\ UNCHANGED <<mu, session, broadcast, collectors, broadcasters>>

(* handleStatus: a whole request that only reads.  It changes nothing, and *)
(* can be served whenever s.mu is free.                                    *)
Status(h) ==
    /\ handler[h] = "idle"
    /\ mu = NoHandler
    /\ UNCHANGED vars

-----------------------------------------------------------------------------
(* The collection loop of session i *)

(* time.NewTicker panics when the interval it reads is not positive, and   *)
(* the deferred recover ends the loop.                                     *)
CollectorBegin(i) ==
    /\ collector[i] = "spawned"
    /\ collector' = [collector EXCEPT ![i] = IF interval > 0 THEN "loop" ELSE "panicked"]
    /\ UNCHANGED <<mu, handler, session, broadcast, collectorChan, metrics, broadcasters>>

(* Each select evaluates the field s.stopChan, without s.mu. *)
CollectorSelect(i) ==
    /\ collector[i] = "loop"
    /\ collectorChan' = [collectorChan EXCEPT ![i] = stopChan]
    /\ collector' = [collector EXCEPT ![i] = "select"]
    /\ UNCHANGED <<mu, handler, session, broadcast, metrics, broadcasters>>

(* Mutated form: any earlier stop counts, not that of the channel waited on. *)
CollectorStopAny(i) ==
    /\ collector[i] = "select"
    /\ closed # {}
    /\ collector' = [collector EXCEPT ![i] = "returned"]
    /\ UNCHANGED <<mu, handler, session, broadcast, collectorChan, metrics, broadcasters>>

(* Mutated form: a nil channel taken for a closed one. *)
CollectorStopAtOnce(i) ==
    /\ collector[i] = "select"
    /\ collector' = [collector EXCEPT ![i] = "returned"]
    /\ UNCHANGED <<mu, handler, session, broadcast, collectorChan, metrics, broadcasters>>

CollectorStop(i) ==
    /\ collector[i] = "select"
    /\ collectorChan[i] \in closed
    /\ collector' = [collector EXCEPT ![i] = "returned"]
    /\ UNCHANGED <<mu, handler, session, broadcast, collectorChan, metrics, broadcasters>>

(* The ticker may be ready at any select, also when the channel is closed. *)
CollectorTick(i) ==
    /\ collector[i] = "select"
    /\ metrics[i].n < MaxTicks
    /\ metrics' = [metrics EXCEPT ![i].begun = stopChan]
    /\ collector' = [collector EXCEPT ![i] = "collect"]
    /\ UNCHANGED <<mu, handler, session, broadcast, collectorChan, broadcasters>>

CollectAllReturns(i) ==
    /\ collector[i] = "collect"
    /\ metrics' = [metrics EXCEPT ![i].n = @ + 1]
    /\ collector' = [collector EXCEPT ![i] = "record"]
    /\ UNCHANGED <<mu, handler, session, broadcast, collectorChan, broadcasters>>

(* An error, or a panic the inner recover caught: nothing is recorded. *)
CollectAllFails(i) ==
    /\ collector[i] = "collect"
    /\ collector' = [collector EXCEPT ![i] = "loop"]
    /\ UNCHANGED <<mu, handler, session, broadcast, collectorChan, metrics, broadcasters>>

(* The count and the history, in one critical section; whether monitoring  *)
(* still runs, and whether it is still the same session, is not asked.     *)
Record(i) ==
    /\ collector[i] = "record"
    /\ mu = NoHandler
    /\ samplesCount' = samplesCount + 1
    /\ metricsHistory' = Remember(metricsHistory, metrics[i])
    /\ collector' = [collector EXCEPT ![i] = "send"]
    /\ UNCHANGED <<mu, handler, isRunning, interval, stopChan, closed,
                   broadcast, collectorChan, metrics, broadcasters>>

(* The non-blocking send: a full channel loses the sample. *)
SendToBroadcast(i) ==
    /\ collector[i] = "send"
    /\ broadcast' = IF Len(broadcast) < BroadcastCap
                    THEN Append(broadcast, metrics[i]) ELSE broadcast
    /\ collector' = [collector EXCEPT ![i] = "loop"]
    /\ UNCHANGED <<mu, handler, session, collectorChan, metrics, broadcasters>>

-----------------------------------------------------------------------------
(* The broadcast loop of session i *)

BroadcasterSelect(i) ==
    /\ broadcaster[i] = "loop"
    /\ broadcasterChan' = [broadcasterChan EXCEPT ![i] = stopChan]
    /\ broadcaster' = [broadcaster EXCEPT ![i] = "select"]
    /\ UNCHANGED <<mu, handler, session, broadcast, collectors, message>>

BroadcasterStop(i) ==
    /\ broadcaster[i] = "select"
    /\ broadcasterChan[i] \in closed
    /\ broadcaster' = [broadcaster EXCEPT ![i] = "returned"]
    /\ UNCHANGED <<mu, handler, session, broadcast, collectors, broadcasterChan,
                   message>>

(* Mutated form: the sample is read and left in the channel. *)
BroadcasterPeek(i) ==
    /\ broadcaster[i] = "select"
    /\ broadcast # <<>>
    /\ message' = [message EXCEPT ![i] = Head(broadcast)]
    /\ broadcaster' = [broadcaster EXCEPT ![i] = "fanout"]
    /\ UNCHANGED <<mu, handler, session, broadcast, collectors, broadcasterChan>>

BroadcasterReceive(i) ==
    /\ broadcaster[i] = "select"
    /\ broadcast # <<>>
    /\ message' = [message EXCEPT ![i] = Head(broadcast)]
    /\ broadcast' = Tail(broadcast)
    /\ broadcaster' = [broadcaster EXCEPT ![i] = "fanout"]
    /\ UNCHANGED <<mu, handler, session, collectors, broadcasterChan>>

(* The fan-out to the clients (module Hub), or the continue when           *)
(* json.Marshal refuses a value.                                           *)
FanOut(i) ==
    /\ broadcaster[i] = "fanout"
    /\ broadcaster' = [broadcaster EXCEPT ![i] = "loop"]
    /\ UNCHANGED <<mu, handler, session, broadcast, collectors, broadcasterChan, message>>

-----------------------------------------------------------------------------
HandlerStep(h) == \/ StartBegin(h) \/ StartCommit(h) \/ StopBegin(h)
                  \/ StopReply(h) \/ StatusReply(h) \/ Status(h)

CollectorStep(i) == \/ CollectorBegin(i) \/ CollectorSelect(i) \/ CollectorStop(i)
                    \/ CollectorTick(i) \/ CollectAllReturns(i) \/ CollectAllFails(i)
                    \/ Record(i) \/ SendToBroadcast(i)

BroadcasterStep(i) == \/ BroadcasterSelect(i) \/ BroadcasterStop(i)
                      \/ BroadcasterReceive(i) \/ FanOut(i)

Next == \/ \E h \in Handlers : HandlerStep(h)
        \/ \E i \in Loops : CollectorStep(i) \/ BroadcasterStep(i)

Spec == Init /\ [][Next]_vars

(* A loop that can take a step takes one: less than what the Go scheduler  *)
(* gives, and enough.  Strong fairness stands for the random choice of a   *)
(* select, which takes a closed stop channel in the end even when the      *)
(* ticker is ready each time.                                              *)
LoopFairness(i) ==
    /\ WF_vars(CollectorStep(i)) /\ WF_vars(BroadcasterStep(i))
    /\ SF_vars(CollectorStop(i))

-----------------------------------------------------------------------------
(* Properties *)

TypeOK ==
    /\ mu \in Handlers \cup {NoHandler}
    /\ handler \in [Handlers -> HandlerStates]
    /\ isRunning \in BOOLEAN
    /\ interval \in Int
    /\ samplesCount \in Nat
    /\ metricsHistory \in Seq(Samples) /\ Len(metricsHistory) <= MaxHistory
    /\ stopChan \in Channels
    /\ closed \subseteq Channels
    /\ broadcast \in Seq(Samples) /\ Len(broadcast) <= BroadcastCap
    /\ collector \in [Loops -> CollectorStates]
    /\ collectorChan \in [Loops -> Channels]
    /\ metrics \in [Loops -> Samples]
    /\ broadcaster \in [Loops -> BroadcasterStates]
    /\ broadcasterChan \in [Loops -> Channels]
    /\ message \in [Loops -> Samples]

(* handleStop never closes a channel twice, nor the nil channel: monitoring *)
(* runs exactly while the current stop channel is open.                     *)
RunningIffOpen == isRunning <=> stopChan \in Loops \ closed

(* Monitoring that runs has the two loops its start spawned: whatever stops *)
(* and starts went before, neither of them has taken an earlier stop for    *)
(* its own; a loop that panicked did so over an interval that is not        *)
(* positive.                                                                *)
SessionHasItsLoops ==
    isRunning => /\ broadcaster[stopChan] \notin {"none", "returned"}
                 /\ collector[stopChan] \notin {"none", "returned"}
                 /\ collector[stopChan] = "panicked" => interval <= 0

(* Count and history tell one story, also when samples of a stopped session *)
(* arrive late and when a start empties both.                               *)
HistoryMatchesCount ==
    Len(metricsHistory) = IF samplesCount < MaxHistory THEN samplesCount ELSE MaxHistory

(* The sample was taken before the start of the present session. *)
Straggler(sample) == sample.begun < stopChan

(* A session's history begins empty, but a collection in flight across stop *)
(* and start lands in it: each earlier loop leaves at most one such sample. *)
OneStragglerPerLoop ==
    \A p, q \in DOMAIN metricsHistory :
        /\ metricsHistory[p].loop = metricsHistory[q].loop
        /\ Straggler(metricsHistory[p]) /\ Straggler(metricsHistory[q])
        => p = q

(* However many loops send and receive, s.broadcast keeps each collection  *)
(* loop's samples in the order they were taken, and no sample is handed to *)
(* the clients twice: it is in the channel once, or in the hands of one    *)
(* broadcast loop.                                                         *)
QueuedOnceInOrder ==
    /\ \A p, q \in DOMAIN broadcast :
          p < q /\ broadcast[p].loop = broadcast[q].loop => broadcast[p].n < broadcast[q].n
    /\ \A i \in Loops : message[i].n > 0 =>
          /\ \A p \in DOMAIN broadcast :
                broadcast[p].loop = message[i].loop => message[i].n < broadcast[p].n
          /\ \A j \in Loops \ {i} : message[i] # message[j]

(* POST /api/monitoring/stop stops the collection goroutine: a loop waits   *)
(* for the stop of the session that spawned it.  It does not hold: a loop   *)
(* in the middle of a collection, or not yet at its first select, when stop *)
(* and start come reads the new channel and goes on beside the new loop.    *)
LoopServesItsSession ==
    \A i \in Loops : collector[i] = "select" => collectorChan[i] = i

LiveCollector(i) == collector[i] \notin {"none", "returned", "panicked"}
LiveBroadcaster(i) == broadcaster[i] \notin {"none", "returned"}

(* Once monitoring is stopped for good every loop ends, the leaked ones and *)
(* those whose ticker is ready at every select included: a collection that   *)
(* fails brings a loop back to its select, as often as it likes.             *)
StopEndsAllLoops ==
    <>[]~isRunning => <>[](\A i \in Loops : ~LiveCollector(i) /\ ~LiveBroadcaster(i))

(* No loop's collections fail for ever. *)
CollectionsSucceed == \A i \in Loops : SF_vars(CollectAllReturns(i))

(* A session with a usable interval gets a sample or is stopped, as long as  *)
(* there are collections that succeed.                                       *)
SamplesFlow ==
    CollectionsSucceed => ((isRunning /\ interval > 0) ~> (samplesCount > 0 \/ ~isRunning))
=============================================================================
