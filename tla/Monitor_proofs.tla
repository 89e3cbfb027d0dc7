---------------------------- MODULE Monitor_proofs ----------------------------
(***************************************************************************)
(* Theorems about module Monitor: what its safety runs check on a small    *)
(* instance, proved for every set of handlers, every interval, history     *)
(* size, channel capacity and number of sessions.                          *)
(***************************************************************************)
EXTENDS Monitor, TLAPS

-----------------------------------------------------------------------------
(* The inductive strengthening *)

(* Whoever decodes a start request holds s.mu, and found monitoring stopped. *)
LockInv ==
    /\ \A h \in Handlers : handler[h] = "decode" => mu = h
    /\ mu # NoHandler => /\ mu \in Handlers /\ handler[mu] = "decode"
                         /\ ~isRunning /\ stopChan < MaxSessions

(* Only channels that were made are closed. *)
ChannelInv == closed \subseteq 1..stopChan /\ RunningIffOpen

(* The loops of a session exist from its start on; each waits on its own    *)
(* channel or a later one, and has returned only because such a channel was *)
(* closed.                                                                  *)
LoopInv ==
    \A i \in Loops :
        /\ collector[i] = "none" <=> i > stopChan
        /\ broadcaster[i] = "none" <=> i > stopChan
        /\ collector[i] = "select" => collectorChan[i] >= i
        /\ broadcaster[i] = "select" => broadcasterChan[i] >= i
        /\ collector[i] = "returned" => \E g \in closed : g >= i
        /\ broadcaster[i] = "returned" => \E g \in closed : g >= i
        /\ collector[i] = "panicked" /\ isRunning /\ i = stopChan => interval <= 0

(* A collection under way has a tick left to count. *)
TickInv == \A i \in Loops : collector[i] = "collect" => metrics[i].n < MaxTicks

(* A collection loop works on its own samples. *)
OwnerInv == \A i \in Loops : metrics[i].loop = i

(* A loop whose collection began before the present session's start has left *)
(* nothing else from before it in the history.                               *)
StragglerInv ==
    /\ OneStragglerPerLoop
    /\ \A i \in Loops :
          collector[i] \in {"collect", "record"} /\ Straggler(metrics[i]) =>
              \A p \in DOMAIN metricsHistory :
                  metricsHistory[p].loop = i => ~Straggler(metricsHistory[p])

(* A sample that was sent is no later than the last its loop took, and       *)
(* earlier than the one its loop is about to send.                           *)
Behind(sample) ==
    /\ 0 < sample.n /\ sample.n <= metrics[sample.loop].n
    /\ collector[sample.loop] \in {"record", "send"} =>
          sample.n < metrics[sample.loop].n

QueueInv ==
    /\ \A i \in Loops : collector[i] \in {"record", "send"} => metrics[i].n > 0
    /\ \A p \in DOMAIN broadcast : Behind(broadcast[p])
    /\ \A i \in Loops : message[i].n > 0 => Behind(message[i])

(* The channels of earlier sessions are closed, and what a loop waits on is   *)
(* the channel of one of the starts.                                         *)
PastInv ==
    /\ 1..(stopChan - 1) \subseteq closed
    /\ \A i \in Loops : /\ collector[i] = "select" => collectorChan[i] \in 1..stopChan
                        /\ broadcaster[i] = "select" => broadcasterChan[i] \in 1..stopChan

-----------------------------------------------------------------------------
(* Lemmas on the operators *)

(* A request's duration is an integer, however it wraps. *)
LEMMA DurationType == ASSUME NEW n \in Int PROVE ToDuration(n) \in Int
BY WidthAssumption, SMT DEF ToDuration, Wrap

(* The duration of an interval below half the word, 292 years of seconds in  *)
(* Go, is that interval.                                                     *)
LEMMA DurationFits ==
    ASSUME NEW n \in Int, n > 0, n * Second < Word \div 2
    PROVE  ToDuration(n) > 0
<1> DEFINE d == n * Second
           half == Word \div 2
<1>1. d \in Int /\ d > 0
  BY WidthAssumption
<1>2. half \in Int /\ 2 * half <= Word /\ half >= 0
  BY WidthAssumption
<1> HIDE DEF d, half
<1>3. 0 <= d + half /\ d + half < Word
  BY <1>1, <1>2, WidthAssumption DEF d, half
<1>4. (d + half) % Word = d + half
  BY <1>1, <1>2, <1>3, WidthAssumption
<1>5. ToDuration(n) = d
  BY <1>1, <1>2, <1>4 DEF ToDuration, Wrap, d, half
<1> QED
  BY <1>1, <1>5

(* What Remember leaves: one entry more, or as many as fit; the new sample  *)
(* last, and before it the latest of the old ones in their order.           *)
LEMMA RememberLemma ==
    ASSUME NEW S, NEW hist \in Seq(S), NEW s \in S, Len(hist) <= MaxHistory,
           NEW r, r = Remember(hist, s)
    PROVE  /\ r \in Seq(S)
           /\ Len(r) = IF Len(hist) < MaxHistory THEN Len(hist) + 1 ELSE MaxHistory
           /\ Len(r) > 0 /\ r[Len(r)] = s
           /\ \A k \in 1..(Len(r) - 1) :
                 /\ k + (Len(hist) + 1 - Len(r)) \in 1..Len(hist)
                 /\ r[k] = hist[k + (Len(hist) + 1 - Len(r))]
<1> DEFINE longer == Append(hist, s)
<1>1. /\ longer \in Seq(S) /\ Len(longer) = Len(hist) + 1
      /\ longer[Len(hist) + 1] = s
      /\ \A k \in 1..Len(hist) : longer[k] = hist[k]
  OBVIOUS
<1>2. r = IF Len(longer) > MaxHistory THEN Tail(longer) ELSE longer
  BY DEF Remember
<1>3. Len(hist) \in Nat
  OBVIOUS
<1> HIDE DEF longer
<1>4. CASE Len(longer) > MaxHistory
  <2>1. Len(hist) = MaxHistory /\ r = Tail(longer)
    BY <1>1, <1>2, <1>3, <1>4, SizeAssumption
  <2>2. /\ r \in Seq(S) /\ Len(r) = Len(hist)
        /\ \A k \in 1..Len(hist) : r[k] = longer[k + 1]
    BY <1>1, <1>3, <2>1
  <2>3. \A k \in 1..(Len(hist) - 1) : r[k] = hist[k + 1]
    BY <1>1, <1>3, <2>2
  <2>4. Len(hist) > 0 /\ r[Len(hist)] = s
    BY <1>1, <2>1, <2>2, SizeAssumption
  <2>5. Len(hist) + 1 - Len(r) = 1
    BY <1>3, <2>2
  <2>6. \A k \in 1..(Len(r) - 1) :
           /\ k + (Len(hist) + 1 - Len(r)) \in 1..Len(hist)
           /\ r[k] = hist[k + (Len(hist) + 1 - Len(r))]
    BY <1>3, <2>2, <2>3, <2>5
  <2>7. Len(r) > 0 /\ r[Len(r)] = s
    BY <2>2, <2>4
  <2>8. Len(r) = IF Len(hist) < MaxHistory THEN Len(hist) + 1 ELSE MaxHistory
    BY <1>3, <2>1, <2>2
  <2> QED
    BY <2>2, <2>6, <2>7, <2>8
<1>5. CASE ~(Len(longer) > MaxHistory)
  <2>1. Len(hist) < MaxHistory /\ r = longer
    BY <1>1, <1>2, <1>3, <1>5, SizeAssumption
  <2> QED
    BY <1>1, <1>3, <2>1
<1> QED
  BY <1>4, <1>5

(* It is a history, within its size. *)
LEMMA RememberType ==
    ASSUME NEW S, NEW hist \in Seq(S), NEW s \in S, Len(hist) <= MaxHistory
    PROVE  Remember(hist, s) \in Seq(S) /\ Len(Remember(hist, s)) <= MaxHistory
<1>1. PICK r : r = Remember(hist, s)
  OBVIOUS
<1>2. /\ r \in Seq(S)
      /\ Len(r) = IF Len(hist) < MaxHistory THEN Len(hist) + 1 ELSE MaxHistory
  BY <1>1, RememberLemma
<1>3. Len(hist) \in Nat
  OBVIOUS
<1>4. Len(r) <= MaxHistory
  BY <1>2, <1>3, SizeAssumption
<1> QED
  BY <1>1, <1>2, <1>4

(* Marking and counting a tick leave a sample a sample. *)
LEMMA SampleLemma ==
    ASSUME NEW m \in Samples
    PROVE  /\ \A g \in Channels : [m EXCEPT !.begun = g] \in Samples
           /\ m.n < MaxTicks => [m EXCEPT !.n = @ + 1] \in Samples
<1>1. m.n \in 0..MaxTicks /\ m.loop \in Loops /\ m.begun \in Channels
      /\ m = [loop |-> m.loop, n |-> m.n, begun |-> m.begun]
  BY DEF Samples
<1>2. \A g \in Channels : [m EXCEPT !.begun = g] = [loop |-> m.loop, n |-> m.n, begun |-> g]
  BY DEF Samples
<1>3. [m EXCEPT !.n = @ + 1] = [loop |-> m.loop, n |-> m.n + 1, begun |-> m.begun]
  BY DEF Samples
<1>4. m.n < MaxTicks => m.n + 1 \in 0..MaxTicks
  BY <1>1, SizeAssumption
<1> QED
  BY <1>1, <1>2, <1>3, <1>4 DEF Samples

-----------------------------------------------------------------------------
(* Types *)

LEMMA TypeInit == Init => TypeOK
<1> SUFFICES ASSUME Init PROVE TypeOK
  OBVIOUS
<1> USE DEF Init
<1>0. 0 \in Channels /\ 0 \in 0..MaxTicks
  BY SizeAssumption DEF Channels
<1>1. \A i \in Loops : [loop |-> i, n |-> 0, begun |-> 0] \in Samples
  BY <1>0 DEF Samples
<1>2. metrics \in [Loops -> Samples] /\ message \in [Loops -> Samples]
  BY <1>1
<1>3. interval \in Int
  BY WidthAssumption
<1>4. metricsHistory \in Seq(Samples) /\ broadcast \in Seq(Samples)
      /\ Len(metricsHistory) = 0 /\ Len(broadcast) = 0
  OBVIOUS
<1>5. /\ handler \in [Handlers -> HandlerStates]
      /\ collector \in [Loops -> CollectorStates]
      /\ broadcaster \in [Loops -> BroadcasterStates]
      /\ collectorChan \in [Loops -> Channels] /\ broadcasterChan \in [Loops -> Channels]
  BY <1>0 DEF HandlerStates, CollectorStates, BroadcasterStates
<1>6. Len(metricsHistory) <= MaxHistory /\ Len(broadcast) <= BroadcastCap
  BY <1>4, SizeAssumption
<1>7. /\ mu \in Handlers \cup {NoHandler} /\ isRunning \in BOOLEAN /\ samplesCount \in Nat
      /\ closed \subseteq Channels /\ stopChan \in Channels
  BY <1>0
<1> QED
  BY <1>2, <1>3, <1>4, <1>5, <1>6, <1>7 DEF TypeOK

LEMMA TypeNext ==
    ASSUME TypeOK, LockInv, TickInv, [Next]_vars PROVE TypeOK'
<1>1. CASE UNCHANGED vars
  BY <1>1 DEF TypeOK, vars, session, collectors, broadcasters
<1>2. ASSUME NEW h \in Handlers, HandlerStep(h) PROVE TypeOK'
  <2>1. CASE StartBegin(h)
    BY <2>1 DEF StartBegin, TypeOK, HandlerStates, session, collectors, broadcasters
  <2>2. CASE StartCommit(h)
    <3>1. /\ stopChan + 1 \in Loops
          /\ interval' \in Int
      <4>1. stopChan \in Nat /\ stopChan < MaxSessions /\ MaxSessions \in Nat
        BY <2>2, HandlersAssumption, SizeAssumption
           DEF StartCommit, TypeOK, LockInv, Channels
      <4>2. PICK n \in Requests : interval' = IF n > 0 THEN ToDuration(n) ELSE interval
        BY <2>2 DEF StartCommit
      <4>3. ToDuration(n) \in Int
        BY DurationType, WidthAssumption
      <4> QED
        BY <4>1, <4>2, <4>3 DEF Loops, TypeOK
    <3>2. stopChan' \in Channels
      BY <2>2, <3>1 DEF StartCommit, Channels, Loops
    <3>3. metricsHistory' \in Seq(Samples) /\ Len(metricsHistory') <= MaxHistory
      BY <2>2, SizeAssumption DEF StartCommit
    <3> QED
      BY <2>2, <3>1, <3>2, <3>3
         DEF StartCommit, TypeOK, HandlerStates, CollectorStates, BroadcasterStates
  <2>3. CASE StopBegin(h)
    BY <2>3 DEF StopBegin, TypeOK, HandlerStates, collectors, broadcasters
  <2>4. CASE StopReply(h)
    BY <2>4 DEF StopReply, TypeOK, HandlerStates, session, collectors, broadcasters
  <2>5. CASE StatusReply(h)
    BY <2>5 DEF StatusReply, TypeOK, HandlerStates, session, collectors, broadcasters
  <2>6. CASE Status(h)
    BY <2>6 DEF Status, TypeOK, vars, session, collectors, broadcasters
  <2> QED
    BY <1>2, <2>1, <2>2, <2>3, <2>4, <2>5, <2>6 DEF HandlerStep
<1>3. ASSUME NEW i \in Loops, CollectorStep(i) PROVE TypeOK'
  <2> USE DEF CollectorStates
  <2>1. CASE CollectorBegin(i)
    BY <2>1 DEF CollectorBegin, TypeOK, session, broadcasters
  <2>2. CASE CollectorSelect(i)
    BY <2>2 DEF CollectorSelect, TypeOK, session, broadcasters
  <2>3. CASE CollectorStop(i)
    BY <2>3 DEF CollectorStop, TypeOK, session, broadcasters
  <2>4. CASE CollectorTick(i)
    <3>1. [metrics[i] EXCEPT !.begun = stopChan] \in Samples
      BY <2>4, SampleLemma DEF CollectorTick, TypeOK
    <3> QED
      BY <2>4, <3>1 DEF CollectorTick, TypeOK, session, broadcasters
  <2>5. CASE CollectAllReturns(i)
    <3>1. [metrics[i] EXCEPT !.n = @ + 1] \in Samples
      BY <2>5, SampleLemma DEF CollectAllReturns, TypeOK, TickInv
    <3> QED
      BY <2>5, <3>1 DEF CollectAllReturns, TypeOK, session, broadcasters
  <2>6. CASE CollectAllFails(i)
    BY <2>6 DEF CollectAllFails, TypeOK, session, broadcasters
  <2>7. CASE Record(i)
    <3>1. metricsHistory' \in Seq(Samples) /\ Len(metricsHistory') <= MaxHistory
      <4>1. metrics[i] \in Samples /\ metricsHistory \in Seq(Samples)
            /\ Len(metricsHistory) <= MaxHistory
        BY DEF TypeOK
      <4>2. metricsHistory' = Remember(metricsHistory, metrics[i])
        BY <2>7 DEF Record
      <4> QED
        BY <4>1, <4>2, RememberType
    <3>2. samplesCount' \in Nat
      BY <2>7 DEF Record, TypeOK
    <3> QED
      BY <2>7, <3>1, <3>2 DEF Record, TypeOK, broadcasters
  <2>8. CASE SendToBroadcast(i)
    <3>1. broadcast' \in Seq(Samples) /\ Len(broadcast') <= BroadcastCap
      BY <2>8, SizeAssumption DEF SendToBroadcast, TypeOK
    <3> QED
      BY <2>8, <3>1 DEF SendToBroadcast, TypeOK, session, broadcasters
  <2> QED
    BY <1>3, <2>1, <2>2, <2>3, <2>4, <2>5, <2>6, <2>7, <2>8 DEF CollectorStep
<1>4. ASSUME NEW i \in Loops, BroadcasterStep(i) PROVE TypeOK'
  <2> USE DEF BroadcasterStates
  <2>1. CASE BroadcasterSelect(i)
    BY <2>1 DEF BroadcasterSelect, TypeOK, session, collectors
  <2>2. CASE BroadcasterStop(i)
    BY <2>2 DEF BroadcasterStop, TypeOK, session, collectors
  <2>3. CASE BroadcasterReceive(i)
    <3>1. /\ Head(broadcast) \in Samples
          /\ Tail(broadcast) \in Seq(Samples) /\ Len(Tail(broadcast)) <= BroadcastCap
      BY <2>3, SizeAssumption DEF BroadcasterReceive, TypeOK
    <3> QED
      BY <2>3, <3>1 DEF BroadcasterReceive, TypeOK, session, collectors
  <2>4. CASE FanOut(i)
    BY <2>4 DEF FanOut, TypeOK, session, collectors
  <2> QED
    BY <1>4, <2>1, <2>2, <2>3, <2>4 DEF BroadcasterStep
<1> QED
  BY <1>1, <1>2, <1>3, <1>4 DEF Next

-----------------------------------------------------------------------------
(* What the steps of the loops leave alone *)

LEMMA CollectorFrame ==
    ASSUME NEW i \in Loops, CollectorStep(i)
    PROVE  UNCHANGED <<mu, handler, isRunning, interval, stopChan, closed, broadcasters>>
BY DEF CollectorStep, CollectorBegin, CollectorSelect, CollectorStop, CollectorTick,
       CollectAllReturns, CollectAllFails, Record, SendToBroadcast, session, broadcasters

LEMMA BroadcasterFrame ==
    ASSUME NEW i \in Loops, BroadcasterStep(i)
    PROVE  UNCHANGED <<mu, handler, session, collectors>>
BY DEF BroadcasterStep, BroadcasterSelect, BroadcasterStop, BroadcasterReceive, FanOut

LEMMA ReplyFrame ==
    ASSUME NEW h \in Handlers, StopReply(h) \/ StatusReply(h) \/ Status(h)
    PROVE  UNCHANGED <<mu, session, broadcast, collectors, broadcasters>>
BY DEF StopReply, StatusReply, Status, vars

-----------------------------------------------------------------------------
(* The parts of the strengthening *)

LEMMA LockNext ==
    ASSUME TypeOK, LockInv, [Next]_vars PROVE LockInv'
<1>1. CASE UNCHANGED vars
  BY <1>1 DEF LockInv, vars, session
<1>2. ASSUME NEW h \in Handlers, HandlerStep(h) PROVE LockInv'
  <2>1. CASE StartBegin(h)
    BY <2>1, HandlersAssumption DEF StartBegin, LockInv, TypeOK, session
  <2>2. CASE StartCommit(h)
    BY <2>2, HandlersAssumption DEF StartCommit, LockInv, TypeOK
  <2>3. CASE StopBegin(h)
    BY <2>3, HandlersAssumption DEF StopBegin, LockInv, TypeOK
  <2>4. CASE StopReply(h)
    BY <2>4 DEF StopReply, LockInv, TypeOK, session
  <2>5. CASE StatusReply(h)
    BY <2>5 DEF StatusReply, LockInv, TypeOK, session
  <2>6. CASE Status(h)
    BY <2>6 DEF Status, LockInv, vars, session
  <2> QED
    BY <1>2, <2>1, <2>2, <2>3, <2>4, <2>5, <2>6 DEF HandlerStep
<1>3. ASSUME NEW i \in Loops, CollectorStep(i) PROVE LockInv'
  BY <1>3, CollectorFrame DEF LockInv
<1>4. ASSUME NEW i \in Loops, BroadcasterStep(i) PROVE LockInv'
  BY <1>4, BroadcasterFrame DEF LockInv, session
<1> QED
  BY <1>1, <1>2, <1>3, <1>4 DEF Next

LEMMA ChannelNext ==
    ASSUME TypeOK, LockInv, ChannelInv, [Next]_vars PROVE ChannelInv'
<1> USE DEF ChannelInv, RunningIffOpen
<1>1. CASE UNCHANGED vars
  BY <1>1 DEF vars, session
<1>2. ASSUME NEW h \in Handlers, HandlerStep(h) PROVE ChannelInv'
  <2>1. CASE StartBegin(h)
    BY <2>1 DEF StartBegin, session
  <2>2. CASE StartCommit(h)
    <3>1. stopChan < MaxSessions /\ stopChan \in 0..MaxSessions
      BY <2>2, HandlersAssumption DEF StartCommit, LockInv, TypeOK, Channels
    <3> QED
      BY <2>2, <3>1, SizeAssumption DEF StartCommit, Loops
  <2>3. CASE StopBegin(h)
    BY <2>3, SizeAssumption DEF StopBegin, TypeOK, Channels, Loops
  <2>4. CASE StopReply(h) \/ StatusReply(h) \/ Status(h)
    BY <2>4, ReplyFrame DEF session
  <2> QED
    BY <1>2, <2>1, <2>2, <2>3, <2>4 DEF HandlerStep
<1>3. ASSUME NEW i \in Loops, CollectorStep(i) PROVE ChannelInv'
  BY <1>3, CollectorFrame
<1>4. ASSUME NEW i \in Loops, BroadcasterStep(i) PROVE ChannelInv'
  BY <1>4, BroadcasterFrame DEF session
<1> QED
  BY <1>1, <1>2, <1>3, <1>4 DEF Next

LEMMA TickNext ==
    ASSUME TypeOK, LockInv, TickInv, [Next]_vars PROVE TickInv'
<1> USE DEF TickInv
<1>1. CASE UNCHANGED vars
  BY <1>1 DEF vars, collectors
<1>2. ASSUME NEW h \in Handlers, HandlerStep(h) PROVE TickInv'
  <2>1. CASE StartCommit(h)
    BY <2>1 DEF StartCommit, TypeOK
  <2>2. CASE ~StartCommit(h)
    BY <1>2, <2>2, ReplyFrame DEF HandlerStep, StartBegin, StopBegin, collectors
  <2> QED
    BY <2>1, <2>2
<1>3. ASSUME NEW i \in Loops, CollectorStep(i) PROVE TickInv'
  <2>1. CASE CollectorTick(i)
    BY <2>1 DEF CollectorTick, TypeOK, Samples
  <2>2. CASE CollectAllReturns(i)
    BY <2>2 DEF CollectAllReturns, TypeOK
  <2>3. CASE ~CollectorTick(i) /\ ~CollectAllReturns(i)
    BY <1>3, <2>3
       DEF CollectorStep, CollectorBegin, CollectorSelect, CollectorStop,
           CollectAllFails, Record, SendToBroadcast, TypeOK
  <2> QED
    BY <2>1, <2>2, <2>3
<1>4. ASSUME NEW i \in Loops, BroadcasterStep(i) PROVE TickInv'
  BY <1>4, BroadcasterFrame DEF collectors
<1> QED
  BY <1>1, <1>2, <1>3, <1>4 DEF Next

LEMMA LoopNext ==
    ASSUME TypeOK, LockInv, ChannelInv, LoopInv, [Next]_vars PROVE LoopInv'
<1> USE DEF LoopInv
<1>1. CASE UNCHANGED vars
  BY <1>1 DEF vars, session, collectors, broadcasters
<1>2. ASSUME NEW h \in Handlers, HandlerStep(h) PROVE LoopInv'
  <2>1. CASE StartBegin(h)
    BY <2>1 DEF StartBegin, session, collectors, broadcasters
  <2>2. CASE StartCommit(h)
    <3>1. /\ stopChan \in Nat /\ stopChan + 1 \in Loops
      BY <2>2, HandlersAssumption, SizeAssumption
         DEF StartCommit, LockInv, TypeOK, Channels, Loops
    <3>2. /\ collector' = [collector EXCEPT ![stopChan + 1] = "spawned"]
          /\ broadcaster' = [broadcaster EXCEPT ![stopChan + 1] = "loop"]
          /\ stopChan' = stopChan + 1 /\ closed' = closed
          /\ UNCHANGED <<collectorChan, broadcasterChan>>
      BY <2>2 DEF StartCommit
    <3> QED
      BY <3>1, <3>2 DEF TypeOK, Loops
  <2>3. CASE StopBegin(h)
    BY <2>3 DEF StopBegin, collectors, broadcasters
  <2>4. CASE StopReply(h) \/ StatusReply(h) \/ Status(h)
    BY <2>4, ReplyFrame DEF session, collectors, broadcasters
  <2> QED
    BY <1>2, <2>1, <2>2, <2>3, <2>4 DEF HandlerStep
<1>3. ASSUME NEW i \in Loops, CollectorStep(i) PROVE LoopInv'
  <2>1. /\ UNCHANGED <<isRunning, interval, stopChan, closed, broadcaster, broadcasterChan>>
        /\ i \in Nat /\ stopChan \in Nat /\ interval \in Int /\ Loops \subseteq Nat
    BY <1>3, CollectorFrame DEF broadcasters, TypeOK, Loops, Channels
  <2>2. CASE CollectorBegin(i)
    BY <2>1, <2>2 DEF CollectorBegin, TypeOK
  <2>3. CASE CollectorSelect(i)
    BY <2>1, <2>3 DEF CollectorSelect, TypeOK
  <2>4. CASE CollectorStop(i)
    BY <2>1, <2>4 DEF CollectorStop, TypeOK
  <2>5. CASE ~CollectorBegin(i) /\ ~CollectorSelect(i) /\ ~CollectorStop(i)
    BY <1>3, <2>1, <2>5
       DEF CollectorStep, CollectorTick, CollectAllReturns, CollectAllFails, Record,
           SendToBroadcast, TypeOK
  <2> QED
    BY <2>2, <2>3, <2>4, <2>5
<1>4. ASSUME NEW i \in Loops, BroadcasterStep(i) PROVE LoopInv'
  <2>1. /\ UNCHANGED <<isRunning, interval, stopChan, closed, collector, collectorChan>>
        /\ i \in Nat /\ stopChan \in Nat /\ Loops \subseteq Nat
    BY <1>4, BroadcasterFrame DEF session, collectors, TypeOK, Loops, Channels
  <2>2. CASE BroadcasterSelect(i)
    BY <2>1, <2>2 DEF BroadcasterSelect, TypeOK
  <2>3. CASE BroadcasterStop(i)
    BY <2>1, <2>3 DEF BroadcasterStop, TypeOK
  <2>4. CASE BroadcasterReceive(i) \/ FanOut(i)
    BY <2>1, <2>4 DEF BroadcasterReceive, FanOut, TypeOK
  <2> QED
    BY <1>4, <2>2, <2>3, <2>4 DEF BroadcasterStep
<1> QED
  BY <1>1, <1>2, <1>3, <1>4 DEF Next

LEMMA HistoryNext ==
    ASSUME TypeOK, HistoryMatchesCount, [Next]_vars PROVE HistoryMatchesCount'
<1> USE DEF HistoryMatchesCount
<1>1. CASE UNCHANGED vars
  BY <1>1 DEF vars, session
<1>2. ASSUME NEW h \in Handlers, HandlerStep(h) PROVE HistoryMatchesCount'
  <2>1. CASE StartCommit(h)
    BY <2>1, SizeAssumption DEF StartCommit
  <2>2. CASE ~StartCommit(h)
    BY <1>2, <2>2, ReplyFrame DEF HandlerStep, StartBegin, StopBegin, session
  <2> QED
    BY <2>1, <2>2
<1>3. ASSUME NEW i \in Loops, CollectorStep(i) PROVE HistoryMatchesCount'
  <2>1. CASE Record(i)
    <3>1. /\ metricsHistory \in Seq(Samples) /\ metrics[i] \in Samples
          /\ Len(metricsHistory) <= MaxHistory /\ samplesCount \in Nat
      BY DEF TypeOK
    <3>2. /\ metricsHistory' = Remember(metricsHistory, metrics[i])
          /\ samplesCount' = samplesCount + 1
      BY <2>1 DEF Record
    <3>3. Len(metricsHistory') = IF Len(metricsHistory) < MaxHistory
                                THEN Len(metricsHistory) + 1 ELSE MaxHistory
      BY <3>1, <3>2, RememberLemma
    <3> QED
      BY <3>1, <3>2, <3>3, SizeAssumption
  <2>2. CASE ~Record(i)
    BY <1>3, <2>2
       DEF CollectorStep, CollectorBegin, CollectorSelect, CollectorStop, CollectorTick,
           CollectAllReturns, CollectAllFails, SendToBroadcast, session
  <2> QED
    BY <2>1, <2>2
<1>4. ASSUME NEW i \in Loops, BroadcasterStep(i) PROVE HistoryMatchesCount'
  BY <1>4, BroadcasterFrame DEF session
<1> QED
  BY <1>1, <1>2, <1>3, <1>4 DEF Next

LEMMA OwnerNext ==
    ASSUME TypeOK, OwnerInv, [Next]_vars PROVE OwnerInv'
<1> USE DEF OwnerInv
<1>1. CASE UNCHANGED vars
  BY <1>1 DEF vars, collectors
<1>2. ASSUME NEW h \in Handlers, HandlerStep(h) PROVE OwnerInv'
  BY <1>2, ReplyFrame DEF HandlerStep, StartBegin, StartCommit, StopBegin, collectors
<1>3. ASSUME NEW i \in Loops, CollectorStep(i) PROVE OwnerInv'
  <2>1. CASE CollectorTick(i) \/ CollectAllReturns(i)
    <3>1. metrics[i].loop = i /\ metrics \in [Loops -> Samples]
      BY DEF TypeOK
    <3>2. metrics'[i].loop = i
      BY <2>1, <3>1 DEF CollectorTick, CollectAllReturns, Samples
    <3>3. \A j \in Loops \ {i} : metrics'[j] = metrics[j]
      BY <2>1, <3>1 DEF CollectorTick, CollectAllReturns
    <3> QED
      BY <3>2, <3>3
  <2>2. CASE ~CollectorTick(i) /\ ~CollectAllReturns(i)
    BY <1>3, <2>2
       DEF CollectorStep, CollectorBegin, CollectorSelect, CollectorStop,
           CollectAllFails, Record, SendToBroadcast
  <2> QED
    BY <2>1, <2>2
<1>4. ASSUME NEW i \in Loops, BroadcasterStep(i) PROVE OwnerInv'
  BY <1>4, BroadcasterFrame DEF collectors
<1> QED
  BY <1>1, <1>2, <1>3, <1>4 DEF Next

LEMMA StragglerNext ==
    ASSUME TypeOK, LockInv, OwnerInv, StragglerInv, [Next]_vars PROVE StragglerInv'
<1> USE DEF StragglerInv, OneStragglerPerLoop, Straggler
<1>1. CASE UNCHANGED vars
  BY <1>1 DEF vars, session, collectors
<1>2. ASSUME NEW h \in Handlers, HandlerStep(h) PROVE StragglerInv'
  <2>1. CASE StartCommit(h)
    <3>1. DOMAIN metricsHistory' = {}
      BY <2>1 DEF StartCommit
    <3> QED
      BY <3>1
  <2>2. CASE ~StartCommit(h)
    BY <1>2, <2>2, ReplyFrame DEF HandlerStep, StartBegin, StopBegin, session, collectors
  <2> QED
    BY <2>1, <2>2
<1>3. ASSUME NEW i \in Loops, CollectorStep(i) PROVE StragglerInv'
  <2>1. CASE CollectorTick(i)
    <3>1. /\ UNCHANGED <<metricsHistory, stopChan>>
          /\ metrics' = [metrics EXCEPT ![i].begun = stopChan]
          /\ collector' = [collector EXCEPT ![i] = "collect"]
      BY <2>1 DEF CollectorTick, session
    <3>2. metrics'[i].begun = stopChan /\ stopChan \in Int
      BY <3>1 DEF TypeOK, Samples, Channels
    <3>3. \A j \in Loops \ {i} : metrics'[j] = metrics[j] /\ collector'[j] = collector[j]
      BY <3>1 DEF TypeOK
    <3> QED
      BY <3>1, <3>2, <3>3
  <2>2. CASE CollectAllReturns(i)
    <3>1. /\ UNCHANGED <<metricsHistory, stopChan>>
          /\ metrics' = [metrics EXCEPT ![i].n = @ + 1]
          /\ collector[i] = "collect"
          /\ collector' = [collector EXCEPT ![i] = "record"]
      BY <2>2 DEF CollectAllReturns, session
    <3>2. metrics'[i].begun = metrics[i].begun
      BY <3>1 DEF TypeOK, Samples
    <3>3. \A j \in Loops \ {i} : metrics'[j] = metrics[j] /\ collector'[j] = collector[j]
      BY <3>1 DEF TypeOK
    <3> QED
      BY <3>1, <3>2, <3>3
  <2>3. CASE Record(i)
    <3>1. /\ metricsHistory \in Seq(Samples) /\ metrics[i] \in Samples
          /\ Len(metricsHistory) <= MaxHistory
          /\ metricsHistory' = Remember(metricsHistory, metrics[i])
          /\ UNCHANGED <<stopChan, metrics>>
          /\ collector[i] = "record" /\ collector' = [collector EXCEPT ![i] = "send"]
      BY <2>3 DEF Record, TypeOK
    <3> DEFINE d == Len(metricsHistory) + 1 - Len(metricsHistory')
    <3>2. /\ metricsHistory' \in Seq(Samples) /\ Len(metricsHistory') > 0
          /\ metricsHistory'[Len(metricsHistory')] = metrics[i]
          /\ \A k \in 1..(Len(metricsHistory') - 1) :
                k + d \in 1..Len(metricsHistory)
                /\ metricsHistory'[k] = metricsHistory[k + d]
      <4> DEFINE r == metricsHistory'
      <4>1. r = Remember(metricsHistory, metrics[i])
        BY <3>1
      <4> HIDE DEF r
      <4>2. /\ r \in Seq(Samples) /\ Len(r) > 0 /\ r[Len(r)] = metrics[i]
            /\ \A k \in 1..(Len(r) - 1) :
                  /\ k + (Len(metricsHistory) + 1 - Len(r)) \in 1..Len(metricsHistory)
                  /\ r[k] = metricsHistory[k + (Len(metricsHistory) + 1 - Len(r))]
        <5>1. r \in Seq(Samples) /\ Len(r) > 0 /\ r[Len(r)] = metrics[i]
          BY <3>1, <4>1, RememberLemma
        <5>2. ASSUME NEW k \in 1..(Len(r) - 1)
              PROVE  /\ k + (Len(metricsHistory) + 1 - Len(r)) \in 1..Len(metricsHistory)
                     /\ r[k] = metricsHistory[k + (Len(metricsHistory) + 1 - Len(r))]
          BY <3>1, <4>1, RememberLemma
        <5> QED
          BY <5>1, <5>2
      <4> QED
        BY <4>2 DEF r
    <3>3. /\ DOMAIN metricsHistory = 1..Len(metricsHistory)
          /\ DOMAIN metricsHistory' = 1..Len(metricsHistory')
          /\ Len(metricsHistory') \in Nat /\ d \in Int
      BY <3>1, <3>2
    <3> HIDE DEF d
    <3>4. metrics[i].loop = i
      BY DEF OwnerInv
    <3>5. ASSUME NEW p \in DOMAIN metricsHistory', p # Len(metricsHistory')
          PROVE  p + d \in DOMAIN metricsHistory /\ metricsHistory'[p] = metricsHistory[p + d]
      BY <3>2, <3>3, <3>5
    <3>6. ASSUME NEW p \in DOMAIN metricsHistory', p # Len(metricsHistory'),
                 metricsHistory'[p].loop = i, metricsHistory'[p].begun < stopChan',
                 metrics[i].begun < stopChan'
          PROVE  FALSE
      BY <3>1, <3>6, <3>5
    <3>7. ASSUME NEW p \in DOMAIN metricsHistory', NEW q \in DOMAIN metricsHistory',
                 metricsHistory'[p].loop = metricsHistory'[q].loop,
                 metricsHistory'[p].begun < stopChan', metricsHistory'[q].begun < stopChan'
          PROVE  p = q
      <4>1. CASE p = Len(metricsHistory') \/ q = Len(metricsHistory')
        BY <3>7, <3>6, <4>1, <3>2, <3>4
      <4>2. CASE p # Len(metricsHistory') /\ q # Len(metricsHistory')
        <5>1. /\ p + d \in DOMAIN metricsHistory /\ metricsHistory'[p] = metricsHistory[p + d]
              /\ q + d \in DOMAIN metricsHistory /\ metricsHistory'[q] = metricsHistory[q + d]
          BY <3>5, <4>2
        <5>2. p + d = q + d
          BY <3>1, <3>7, <5>1
        <5> QED
          BY <5>2, <3>3
      <4> QED
        BY <4>1, <4>2
    <3>8. ASSUME NEW j \in Loops, collector'[j] \in {"collect", "record"},
                 metrics'[j].begun < stopChan', NEW p \in DOMAIN metricsHistory',
                 metricsHistory'[p].loop = j
          PROVE  ~(metricsHistory'[p].begun < stopChan')
      <4>1. j # i /\ collector[j] \in {"collect", "record"}
        BY <3>1, <3>8 DEF TypeOK
      <4>2. p # Len(metricsHistory')
        BY <3>2, <3>4, <3>8, <4>1
      <4>3. p + d \in DOMAIN metricsHistory /\ metricsHistory'[p] = metricsHistory[p + d]
        BY <3>5, <4>2
      <4> QED
        BY <3>1, <3>8, <4>1, <4>3
    <3> QED
      BY <3>7, <3>8
  <2>4. CASE ~CollectorTick(i) /\ ~CollectAllReturns(i) /\ ~Record(i)
    <3>1. /\ UNCHANGED <<metricsHistory, stopChan, metrics>>
          /\ \A j \in Loops : collector'[j] \in {"collect", "record"} =>
                              collector'[j] = collector[j]
      BY <1>3, <2>4
         DEF CollectorStep, CollectorBegin, CollectorSelect, CollectorStop,
             CollectAllFails, SendToBroadcast, session, TypeOK
    <3> QED
      BY <3>1
  <2> QED
    BY <2>1, <2>2, <2>3, <2>4
<1>4. ASSUME NEW i \in Loops, BroadcasterStep(i) PROVE StragglerInv'
  BY <1>4, BroadcasterFrame DEF session, collectors
<1> QED
  BY <1>1, <1>2, <1>3, <1>4 DEF Next

(* A step that moves no sample keeps the queue, unless it sets a loop to     *)
(* recording or sending.                                                     *)
LEMMA QueueFrame ==
    ASSUME TypeOK, QueueInv, QueuedOnceInOrder,
           UNCHANGED <<broadcast, message>>,
           \A i \in Loops : metrics'[i].n = metrics[i].n,
           \A i \in Loops : collector'[i] \in {"record", "send"} =>
                              collector[i] \in {"record", "send"}
    PROVE  QueueInv' /\ QueuedOnceInOrder'
<1>1. /\ \A p \in DOMAIN broadcast : broadcast[p].loop \in Loops
      /\ \A i \in Loops : message[i].loop \in Loops
  <2>1. /\ \A p \in DOMAIN broadcast : broadcast[p] \in Samples
        /\ \A i \in Loops : message[i] \in Samples
    BY DEF TypeOK
  <2> QED
    BY <2>1 DEF Samples
<1>2. \A p \in DOMAIN broadcast : Behind(broadcast[p])'
  BY <1>1 DEF QueueInv, Behind
<1>3. \A i \in Loops : message[i].n > 0 => Behind(message[i])'
  BY <1>1 DEF QueueInv, Behind
<1>4. QueueInv'
  BY <1>2, <1>3 DEF QueueInv
<1>5. QueuedOnceInOrder'
  BY DEF QueuedOnceInOrder
<1> QED
  BY <1>4, <1>5

LEMMA QueueNext ==
    ASSUME TypeOK, OwnerInv, QueueInv, QueuedOnceInOrder, [Next]_vars
    PROVE  QueueInv' /\ QueuedOnceInOrder'
<1>1. CASE UNCHANGED vars
  BY <1>1, QueueFrame DEF vars, collectors, broadcasters
<1>2. ASSUME NEW h \in Handlers, HandlerStep(h) PROVE QueueInv' /\ QueuedOnceInOrder'
  <2>1. /\ UNCHANGED <<broadcast, message, metrics>>
        /\ collector' = collector \/ collector' = [collector EXCEPT ![stopChan + 1] = "spawned"]
    BY <1>2, ReplyFrame
       DEF HandlerStep, StartBegin, StartCommit, StopBegin, collectors, broadcasters
  <2> QED
    BY <2>1, QueueFrame DEF TypeOK
<1>3. ASSUME NEW i \in Loops, CollectorStep(i) PROVE QueueInv' /\ QueuedOnceInOrder'
  <2>0. message' = message
    BY <1>3, CollectorFrame DEF broadcasters
  <2>1. CASE CollectAllReturns(i)
    <3>1. /\ collector[i] = "collect" /\ collector' = [collector EXCEPT ![i] = "record"]
          /\ broadcast' = broadcast /\ metrics[i].n \in Nat
          /\ metrics' = [metrics EXCEPT ![i].n = @ + 1]
      BY <2>1 DEF CollectAllReturns, TypeOK, Samples
    <3>2. metrics'[i].n = metrics[i].n + 1
      BY <3>1 DEF TypeOK, Samples
    <3>3. \A j \in Loops \ {i} : metrics'[j] = metrics[j] /\ collector'[j] = collector[j]
      BY <3>1 DEF TypeOK
    <3>4. ASSUME NEW s \in Samples, Behind(s)
          PROVE  0 < s.n /\ s.n <= metrics'[s.loop].n
                 /\ (collector'[s.loop] \in {"record", "send"} => s.n < metrics'[s.loop].n)
      <4>1. s.n \in Nat /\ s.loop \in Loops
        BY DEF Samples
      <4> QED
        BY <3>1, <3>2, <3>3, <3>4, <4>1 DEF Behind
    <3>5. /\ \A p \in DOMAIN broadcast : broadcast[p] \in Samples
          /\ \A j \in Loops : message[j] \in Samples
      BY DEF TypeOK
    <3>6. /\ \A p \in DOMAIN broadcast : Behind(broadcast[p])'
          /\ \A j \in Loops : message[j].n > 0 => Behind(message[j])'
      BY <2>0, <3>1, <3>4, <3>5 DEF QueueInv, Behind
    <3>7. \A j \in Loops : collector'[j] \in {"record", "send"} => metrics'[j].n > 0
      BY <3>1, <3>2, <3>3 DEF QueueInv
    <3>8. QueueInv'
      BY <2>0, <3>1, <3>6, <3>7 DEF QueueInv
    <3> QED
      BY <2>0, <3>1, <3>8 DEF QueuedOnceInOrder
  <2>2. CASE SendToBroadcast(i)
    <3>1. /\ collector[i] = "send" /\ collector' = [collector EXCEPT ![i] = "loop"]
          /\ metrics' = metrics
          /\ metrics[i] \in Samples /\ metrics[i].loop = i /\ metrics[i].n > 0
          /\ broadcast \in Seq(Samples)
      BY <2>2 DEF SendToBroadcast, TypeOK, OwnerInv, QueueInv
    <3>2. \A s \in Samples : Behind(s) => Behind(s)'
      BY <3>1 DEF Behind, Samples, TypeOK
    <3>3. CASE broadcast' = broadcast
      BY <2>0, <3>1, <3>3, QueueFrame DEF TypeOK
    <3>4. CASE broadcast' = Append(broadcast, metrics[i])
      <4>1. /\ DOMAIN broadcast = 1..Len(broadcast) /\ Len(broadcast) \in Nat
            /\ DOMAIN broadcast' = 1..(Len(broadcast) + 1)
            /\ broadcast'[Len(broadcast) + 1] = metrics[i]
            /\ \A p \in DOMAIN broadcast : broadcast'[p] = broadcast[p]
        BY <3>1, <3>4
      <4>2. \A p \in DOMAIN broadcast : Behind(broadcast[p])
            /\ (broadcast[p].loop = i => broadcast[p].n < metrics[i].n)
        BY <3>1 DEF QueueInv, Behind
      <4>3. \A j \in Loops : message[j].n > 0 => Behind(message[j])
            /\ (message[j].loop = i => message[j].n < metrics[i].n)
        BY <3>1 DEF QueueInv, Behind
      <4>4. \A p \in DOMAIN broadcast' :
               \/ p \in DOMAIN broadcast /\ broadcast'[p] = broadcast[p]
               \/ p = Len(broadcast) + 1 /\ broadcast'[p] = metrics[i]
        BY <4>1
      <4>5. 0 < metrics[i].n /\ metrics[i].n <= metrics'[metrics[i].loop].n
            /\ collector'[metrics[i].loop] = "loop"
        BY <3>1 DEF TypeOK, Samples
      <4>6. ASSUME NEW p \in DOMAIN broadcast'
            PROVE  /\ 0 < broadcast'[p].n /\ broadcast'[p].n <= metrics'[broadcast'[p].loop].n
                   /\ collector'[broadcast'[p].loop] \in {"record", "send"} =>
                         broadcast'[p].n < metrics'[broadcast'[p].loop].n
        <5>1. CASE p \in DOMAIN broadcast /\ broadcast'[p] = broadcast[p]
          <6>1. Behind(broadcast[p]) /\ broadcast[p] \in Samples
            BY <4>2, <5>1, <3>1
          <6> QED
            BY <5>1, <6>1, <3>1 DEF Behind, Samples, TypeOK
        <5>2. CASE broadcast'[p] = metrics[i]
          BY <4>5, <5>2
        <5> QED
          BY <4>4, <5>1, <5>2
      <4>7. \A p \in DOMAIN broadcast' : Behind(broadcast[p])'
        BY <4>6 DEF Behind
      <4>8. \A j \in Loops : message'[j].n > 0 => Behind(message[j])'
        BY <2>0, <3>1, <4>3 DEF Behind, TypeOK, Samples
      <4>9. \A j \in Loops : collector'[j] \in {"record", "send"} => metrics'[j].n > 0
        BY <3>1 DEF QueueInv, TypeOK
      <4>10. QueueInv'
        BY <4>7, <4>8, <4>9 DEF QueueInv
      <4>11. ASSUME NEW p \in DOMAIN broadcast', NEW q \in DOMAIN broadcast',
                    p < q, broadcast'[p].loop = broadcast'[q].loop
             PROVE  broadcast'[p].n < broadcast'[q].n
        <5>1. p \in DOMAIN broadcast /\ broadcast'[p] = broadcast[p]
          BY <4>1, <4>4, <4>11
        <5>2. CASE q \in DOMAIN broadcast /\ broadcast'[q] = broadcast[q]
          BY <4>11, <5>1, <5>2 DEF QueuedOnceInOrder
        <5>3. CASE broadcast'[q] = metrics[i]
          BY <3>1, <4>2, <4>11, <5>1, <5>3
        <5> QED
          BY <4>4, <5>2, <5>3
      <4>12. ASSUME NEW j \in Loops, message[j].n > 0, NEW p \in DOMAIN broadcast',
                    broadcast'[p].loop = message[j].loop
             PROVE  message[j].n < broadcast'[p].n
        BY <3>1, <4>3, <4>4, <4>12 DEF QueuedOnceInOrder
      <4> QED
        BY <2>0, <4>10, <4>11, <4>12 DEF QueuedOnceInOrder
    <3> QED
      BY <2>2, <3>3, <3>4 DEF SendToBroadcast
  <2>3. CASE CollectorTick(i)
    <3>1. /\ broadcast' = broadcast /\ collector' = [collector EXCEPT ![i] = "collect"]
          /\ \A j \in Loops : metrics'[j].n = metrics[j].n
      BY <2>3 DEF CollectorTick, TypeOK, Samples
    <3> QED
      BY <2>0, <3>1, QueueFrame DEF TypeOK
  <2>4. CASE ~CollectAllReturns(i) /\ ~SendToBroadcast(i) /\ ~CollectorTick(i)
    <3>1. /\ UNCHANGED <<broadcast, metrics>>
          /\ \A j \in Loops : collector'[j] \in {"record", "send"} =>
                               collector[j] \in {"record", "send"}
      BY <1>3, <2>4
         DEF CollectorStep, CollectorBegin, CollectorSelect, CollectorStop,
             CollectAllFails, Record, TypeOK
    <3> QED
      BY <2>0, <3>1, QueueFrame
  <2> QED
    BY <2>1, <2>2, <2>3, <2>4
<1>4. ASSUME NEW i \in Loops, BroadcasterStep(i) PROVE QueueInv' /\ QueuedOnceInOrder'
  <2>0. UNCHANGED <<metrics, collector>>
    BY <1>4, BroadcasterFrame DEF collectors
  <2>1. CASE BroadcasterReceive(i)
    <3>1. /\ broadcast # <<>> /\ broadcast \in Seq(Samples)
          /\ message' = [message EXCEPT ![i] = Head(broadcast)]
          /\ broadcast' = Tail(broadcast) /\ message \in [Loops -> Samples]
      BY <2>1 DEF BroadcasterReceive, TypeOK
    <3>2. /\ 1 \in DOMAIN broadcast /\ Head(broadcast) = broadcast[1]
          /\ \A p \in DOMAIN broadcast' : p \in Int /\ p > 0
                /\ p + 1 \in DOMAIN broadcast /\ broadcast'[p] = broadcast[p + 1]
      BY <3>1
    <3>3. message'[i] = broadcast[1] /\ \A j \in Loops \ {i} : message'[j] = message[j]
      BY <3>1, <3>2
    <3>4. \A p \in DOMAIN broadcast' : Behind(broadcast[p])'
      BY <2>0, <3>2 DEF QueueInv, Behind
    <3>5. \A j \in Loops : message'[j].n > 0 => Behind(message[j])'
      BY <2>0, <3>2, <3>3 DEF QueueInv, Behind
    <3>6. QueueInv'
      BY <2>0, <3>4, <3>5 DEF QueueInv
    <3>7. ASSUME NEW p \in DOMAIN broadcast', NEW q \in DOMAIN broadcast',
                 p < q, broadcast'[p].loop = broadcast'[q].loop
          PROVE  broadcast'[p].n < broadcast'[q].n
      BY <3>2, <3>7 DEF QueuedOnceInOrder
    <3>8. ASSUME NEW j \in Loops, message'[j].n > 0, NEW p \in DOMAIN broadcast',
                 broadcast'[p].loop = message'[j].loop
          PROVE  message'[j].n < broadcast'[p].n
      <4>1. CASE j = i
        BY <3>2, <3>3, <3>8, <4>1 DEF QueuedOnceInOrder
      <4>2. CASE j # i
        BY <3>2, <3>3, <3>8, <4>2 DEF QueuedOnceInOrder
      <4> QED
        BY <4>1, <4>2
    <3>9. ASSUME NEW j \in Loops, message'[j].n > 0, NEW k \in Loops \ {j}
          PROVE  message'[j] # message'[k]
      <4>1. broadcast[1].n > 0 /\ broadcast[1] \in Samples
        BY <3>1, <3>2 DEF QueueInv, Behind
      <4>2. ASSUME NEW l \in Loops PROVE message[l] # broadcast[1]
        <5>1. message[l].n \in Nat
          BY <3>1 DEF Samples
        <5> QED
          BY <3>2, <4>1, <5>1 DEF QueuedOnceInOrder
      <4>3. CASE j # i /\ k # i
        BY <3>3, <3>9, <4>3 DEF QueuedOnceInOrder
      <4>4. CASE j = i \/ k = i
        BY <3>3, <4>2, <4>4
      <4> QED
        BY <4>3, <4>4
    <3> QED
      BY <3>6, <3>7, <3>8, <3>9 DEF QueuedOnceInOrder
  <2>2. CASE ~BroadcasterReceive(i)
    <3>1. UNCHANGED <<broadcast, message>>
      BY <1>4, <2>2 DEF BroadcasterStep, BroadcasterSelect, BroadcasterStop, FanOut
    <3> QED
      BY <2>0, <3>1, QueueFrame
  <2> QED
    BY <2>1, <2>2
<1> QED
  BY <1>1, <1>2, <1>3, <1>4 DEF Next

LEMMA PastNext ==
    ASSUME TypeOK, LockInv, ChannelInv, LoopInv, PastInv, [Next]_vars PROVE PastInv'
<1> USE DEF PastInv
<1>0. stopChan \in Nat /\ closed \subseteq Nat
  BY DEF TypeOK, Channels
<1>1. CASE UNCHANGED vars
  BY <1>1 DEF vars, session, collectors, broadcasters
<1>2. ASSUME NEW h \in Handlers, HandlerStep(h) PROVE PastInv'
  <2>1. CASE StartCommit(h)
    <3>1. /\ ~isRunning /\ stopChan < MaxSessions
          /\ collector' = [collector EXCEPT ![stopChan + 1] = "spawned"]
          /\ broadcaster' = [broadcaster EXCEPT ![stopChan + 1] = "loop"]
          /\ stopChan' = stopChan + 1
          /\ UNCHANGED <<closed, collectorChan, broadcasterChan>>
      BY <2>1, HandlersAssumption DEF StartCommit, LockInv, TypeOK
    <3>2. stopChan > 0 => stopChan \in closed
      BY <1>0, <3>1, SizeAssumption DEF ChannelInv, RunningIffOpen, Loops
    <3>3. 1..(stopChan' - 1) \subseteq closed'
      BY <1>0, <3>1, <3>2
    <3>4. \A i \in Loops : /\ collector'[i] = "select" => collector[i] = "select"
                           /\ broadcaster'[i] = "select" => broadcaster[i] = "select"
      BY <3>1 DEF TypeOK
    <3> QED
      BY <1>0, <3>1, <3>3, <3>4
  <2>2. CASE StopBegin(h)
    BY <2>2 DEF StopBegin, collectors, broadcasters
  <2>3. CASE StartBegin(h) \/ StopReply(h) \/ StatusReply(h) \/ Status(h)
    BY <2>3, ReplyFrame DEF StartBegin, session, collectors, broadcasters
  <2> QED
    BY <1>2, <2>1, <2>2, <2>3 DEF HandlerStep
<1>3. ASSUME NEW i \in Loops, CollectorStep(i) PROVE PastInv'
  <2>1. /\ UNCHANGED <<stopChan, closed, broadcaster, broadcasterChan>>
        /\ collector[i] # "none" => stopChan > 0
    BY <1>0, <1>3, CollectorFrame DEF broadcasters, LoopInv, Loops
  <2>2. CASE CollectorSelect(i)
    BY <1>0, <2>1, <2>2 DEF CollectorSelect, TypeOK
  <2>3. CASE ~CollectorSelect(i)
    BY <1>3, <2>1, <2>3
       DEF CollectorStep, CollectorBegin, CollectorStop, CollectorTick, CollectAllReturns,
           CollectAllFails, Record, SendToBroadcast, TypeOK
  <2> QED
    BY <2>2, <2>3
<1>4. ASSUME NEW i \in Loops, BroadcasterStep(i) PROVE PastInv'
  <2>1. /\ UNCHANGED <<stopChan, closed, collector, collectorChan>>
        /\ broadcaster[i] # "none" => stopChan > 0
    BY <1>0, <1>4, BroadcasterFrame DEF session, collectors, LoopInv, Loops
  <2>2. CASE BroadcasterSelect(i)
    BY <1>0, <2>1, <2>2 DEF BroadcasterSelect, TypeOK
  <2>3. CASE ~BroadcasterSelect(i)
    BY <1>4, <2>1, <2>3
       DEF BroadcasterStep, BroadcasterStop, BroadcasterReceive, FanOut, TypeOK
  <2> QED
    BY <2>2, <2>3
<1> QED
  BY <1>1, <1>2, <1>3, <1>4 DEF Next

-----------------------------------------------------------------------------
(* The inductive invariant *)

IInv == /\ TypeOK /\ LockInv /\ ChannelInv /\ LoopInv /\ TickInv
        /\ HistoryMatchesCount
        /\ OwnerInv /\ StragglerInv /\ QueueInv /\ QueuedOnceInOrder

LEMMA IInvInit == Init => IInv
<1> SUFFICES ASSUME Init PROVE IInv
  OBVIOUS
<1>1. TypeOK
  BY TypeInit
<1>2. LockInv /\ TickInv
  BY HandlersAssumption DEF Init, LockInv, TickInv
<1>3. ChannelInv
  BY SizeAssumption DEF Init, ChannelInv, RunningIffOpen, Loops
<1>4. LoopInv
  BY SizeAssumption DEF Init, LoopInv, Loops
<1>5. HistoryMatchesCount
  <2>1. Len(metricsHistory) = 0 /\ samplesCount = 0
    BY DEF Init
  <2> QED
    BY <2>1, SizeAssumption DEF HistoryMatchesCount
<1>6. OwnerInv /\ StragglerInv
  BY DEF Init, OwnerInv, StragglerInv, OneStragglerPerLoop
<1>7. QueueInv /\ QueuedOnceInOrder
  BY DEF Init, QueueInv, QueuedOnceInOrder
<1> QED
  BY <1>1, <1>2, <1>3, <1>4, <1>5, <1>6, <1>7 DEF IInv

LEMMA IInvNext == IInv /\ [Next]_vars => IInv'
BY TypeNext, LockNext, ChannelNext, LoopNext, TickNext, HistoryNext, OwnerNext,
   StragglerNext, QueueNext DEF IInv

LEMMA IInvAlways == Spec => []IInv
BY IInvInit, IInvNext, PTL DEF Spec

(* The loops of a session that runs have not taken an earlier stop for their *)
(* own: what they wait on is its channel, and that one is open.              *)
LEMMA LoopsOfSession ==
    ASSUME TypeOK, ChannelInv, LoopInv PROVE SessionHasItsLoops
<1> SUFFICES ASSUME isRunning
             PROVE  /\ broadcaster[stopChan] \notin {"none", "returned"}
                    /\ collector[stopChan] \notin {"none", "returned"}
                    /\ collector[stopChan] = "panicked" => interval <= 0
  BY DEF SessionHasItsLoops
<1>1. stopChan \in Loops /\ stopChan \notin closed /\ closed \subseteq 1..stopChan
  BY DEF ChannelInv, RunningIffOpen
<1>2. stopChan \in Nat
  BY DEF TypeOK, Channels
<1>3. ~\E g \in closed : g >= stopChan
  BY <1>1, <1>2
<1> QED
  BY <1>1, <1>2, <1>3 DEF LoopInv

-----------------------------------------------------------------------------
(* The theorems *)

(* Every reachable state is well typed: history and channel stay within the *)
(* sizes the code gives them, and no loop waits on a channel never made.    *)
THEOREM TypeCorrect == Spec => []TypeOK
<1>1. IInv => TypeOK
  BY DEF IInv
<1> QED
  BY <1>1, IInvAlways, PTL

(* handleStop never closes a closed channel or the nil one, whatever the    *)
(* handlers and however their starts and stops interleave.                  *)
THEOREM NoSecondClose == Spec => []RunningIffOpen
<1>1. IInv => RunningIffOpen
  BY DEF IInv, ChannelInv
<1> QED
  BY <1>1, IInvAlways, PTL

(* Monitoring that runs has both its loops, unless the collection loop fell *)
(* over an interval that is not positive: no earlier stop ends them.        *)
THEOREM RunningHasLoops == Spec => []SessionHasItsLoops
<1>1. IInv => SessionHasItsLoops
  BY LoopsOfSession DEF IInv
<1> QED
  BY <1>1, IInvAlways, PTL

(* The count and the length of the history agree, up to the history's size, *)
(* whichever loops record and whenever a start empties both.                *)
THEOREM CountAndHistory == Spec => []HistoryMatchesCount
<1>1. IInv => HistoryMatchesCount
  BY DEF IInv
<1> QED
  BY <1>1, IInvAlways, PTL

(* Of the samples taken before the present start, the history holds at most *)
(* one of each earlier loop.                                                *)
THEOREM StragglersBounded == Spec => []OneStragglerPerLoop
<1>1. IInv => OneStragglerPerLoop
  BY DEF IInv, StragglerInv
<1> QED
  BY <1>1, IInvAlways, PTL

(* However many loops send to s.broadcast and receive from it, the samples   *)
(* of a loop stay in order there and no two broadcast loops hold one sample. *)
THEOREM OrderedAndOnce == Spec => []QueuedOnceInOrder
<1>1. IInv => QueuedOnceInOrder
  BY DEF IInv
<1> QED
  BY <1>1, IInvAlways, PTL

(* Every loop that waits does so on a closed channel, or on that of the       *)
(* session that runs: however many loops have leaked, a stop leaves none that *)
(* no channel will ever wake.                                                 *)
THEOREM StopReachesAllWaiters ==
    Spec => [](\A i \in Loops :
        /\ collector[i] = "select" =>
              collectorChan[i] \in closed \/ (isRunning /\ collectorChan[i] = stopChan)
        /\ broadcaster[i] = "select" =>
              broadcasterChan[i] \in closed \/ (isRunning /\ broadcasterChan[i] = stopChan))
<1> DEFINE Reached == \A i \in Loops :
        /\ collector[i] = "select" =>
              collectorChan[i] \in closed \/ (isRunning /\ collectorChan[i] = stopChan)
        /\ broadcaster[i] = "select" =>
              broadcasterChan[i] \in closed \/ (isRunning /\ broadcasterChan[i] = stopChan)
<1>1. Init => PastInv
  BY DEF Init, PastInv
<1>2. IInv /\ PastInv /\ [Next]_vars => PastInv'
  BY PastNext DEF IInv
<1>3. IInv /\ PastInv => Reached
  <2> SUFFICES ASSUME IInv, PastInv PROVE Reached
    OBVIOUS
  <2>1. stopChan \in 0..MaxSessions /\ MaxSessions \in Nat
    BY SizeAssumption DEF IInv, TypeOK, Channels
  <2>2. \A g \in 1..stopChan : g \in closed \/ (isRunning /\ g = stopChan)
    BY <2>1 DEF PastInv, IInv, ChannelInv, RunningIffOpen, Loops
  <2> QED
    BY <2>2 DEF PastInv
<1> QED
  BY <1>1, <1>2, <1>3, IInvAlways, PTL DEF Spec

(* With requests whose seconds fit a time.Duration no collection loop ever    *)
(* panics over its ticker: the interval is positive, whatever is requested.   *)
THEOREM PlausibleIntervalsNeverPanic ==
    ASSUME \A s \in Requests : s * Second < Word \div 2
    PROVE  Spec => [](interval > 0 /\ \A i \in Loops : collector[i] # "panicked")
<1> DEFINE Sound == interval > 0 /\ \A i \in Loops : collector[i] # "panicked"
<1>1. Init => Sound
  BY WidthAssumption DEF Init
<1>2. IInv /\ Sound /\ [Next]_vars => Sound'
  <2> SUFFICES ASSUME TypeOK, Sound, [Next]_vars PROVE Sound'
    BY DEF IInv
  <2>1. CASE UNCHANGED vars
    BY <2>1 DEF vars, session, collectors
  <2>2. ASSUME NEW h \in Handlers, HandlerStep(h) PROVE Sound'
    <3>1. CASE StartCommit(h)
      <4>1. PICK n \in Requests : interval' = IF n > 0 THEN ToDuration(n) ELSE interval
        BY <3>1 DEF StartCommit
      <4>2. n \in Int /\ n * Second < Word \div 2
        BY WidthAssumption
      <4>3. interval' > 0
        BY <4>1, <4>2, DurationFits
      <4> QED
        BY <3>1, <4>3 DEF StartCommit, TypeOK
    <3>2. CASE ~StartCommit(h)
      BY <2>2, <3>2, ReplyFrame DEF HandlerStep, StartBegin, StopBegin, session, collectors
    <3> QED
      BY <3>1, <3>2
  <2>3. ASSUME NEW i \in Loops, CollectorStep(i) PROVE Sound'
    <3>1. interval' = interval
      BY <2>3, CollectorFrame
    <3> QED
      BY <2>3, <3>1
         DEF CollectorStep, CollectorBegin, CollectorSelect, CollectorStop, CollectorTick,
             CollectAllReturns, CollectAllFails, Record, SendToBroadcast, TypeOK
  <2>4. ASSUME NEW i \in Loops, BroadcasterStep(i) PROVE Sound'
    BY <2>4, BroadcasterFrame DEF session, collectors
  <2> QED
    BY <2>1, <2>2, <2>3, <2>4 DEF Next
<1> QED
  BY <1>1, <1>2, IInvAlways, PTL DEF Spec
=============================================================================
