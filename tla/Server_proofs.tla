----------------------------- MODULE Server_proofs -----------------------------
(***************************************************************************)
(* Theorems about module Server: it implements Monitor, Hub and Feed, so   *)
(* what is proved of them holds of the program in which they run together; *)
(* and what only both of them together give, the way of a sample from its  *)
(* collection to the sockets of the clients.                               *)
(***************************************************************************)
EXTENDS Server, Monitor_proofs

HP == INSTANCE Hub_proofs WITH Broadcasters <- Loops, broadcaster <- fanout

(* What module Hub assumes of its constants. *)
ClientSizes == SendCap \in Nat \ {0} /\ MaxMessages \in Nat

-----------------------------------------------------------------------------
(* Every step of the server is a step of each module, or none *)

LEMMA HubSizes == ClientSizes => HP!SizeAssumption
BY DEF ClientSizes, HP!SizeAssumption

LEMMA HubVars == UNCHANGED hubVars <=> UNCHANGED HP!vars
BY DEF hubVars, HP!vars, HP!clientVars, HP!broadcastVars

LEMMA ReaderIsHubs ==
    ASSUME NEW c \in Clients PROVE H!ReaderStep(c) => HP!ReaderStep(c)
BY DEF H!ReaderStep, HP!ReaderStep, H!Upgrade, HP!Upgrade, H!Register, HP!Register,
       H!ReadFails, HP!ReadFails, H!Deregister, HP!Deregister, H!CloseConn, HP!CloseConn,
       H!CloseSend, HP!CloseSend, H!NoReadLock, HP!NoReadLock, H!broadcastVars, HP!broadcastVars

LEMMA WriterIsHubs ==
    ASSUME NEW c \in Clients
    PROVE  H!WriterStep(c) \/ H!PeerGone(c) => HP!WriterStep(c) \/ HP!PeerGone(c)
BY DEF H!WriterStep, HP!WriterStep, H!WriterReceive, HP!WriterReceive,
       H!WriterDrained, HP!WriterDrained, H!WriteHeader, HP!WriteHeader,
       H!WritePayload, HP!WritePayload, H!WriteFails, HP!WriteFails,
       H!PeerGone, HP!PeerGone, H!broadcastVars, HP!broadcastVars

LEMMA LoopIsHubs ==
    ASSUME NEW i \in Loops
    PROVE  /\ H!Receive(i) <=> HP!Receive(i)
           /\ H!MarshalFails(i) <=> HP!MarshalFails(i)
           /\ H!RLock(i) <=> HP!RLock(i)
           /\ H!RUnlock(i) <=> HP!RUnlock(i)
           /\ \A c \in Clients : H!Offer(i, c) <=> HP!Offer(i, c)
<1>1. H!Receive(i) <=> HP!Receive(i)
  BY DEF H!Receive, HP!Receive, H!clientVars, HP!clientVars
<1>2. H!MarshalFails(i) <=> HP!MarshalFails(i)
  BY DEF H!MarshalFails, HP!MarshalFails, H!clientVars, HP!clientVars
<1>3. H!RLock(i) <=> HP!RLock(i)
  BY DEF H!RLock, HP!RLock, H!clientVars, HP!clientVars
<1>4. H!RUnlock(i) <=> HP!RUnlock(i)
  BY DEF H!RUnlock, HP!RUnlock, H!clientVars, HP!clientVars
<1>5. \A c \in Clients : H!Offer(i, c) <=> HP!Offer(i, c)
  BY DEF H!Offer, HP!Offer, H!clientVars, HP!clientVars
<1> QED
  BY <1>1, <1>2, <1>3, <1>4, <1>5

LEMMA HubInit == ServerInit => HP!Init
BY DEF ServerInit, H!Init, HP!Init

LEMMA HubNext == [ServerNext]_serverVars => [HP!Next]_(HP!vars)
<1> SUFFICES ASSUME [ServerNext]_serverVars PROVE [HP!Next]_(HP!vars)
  OBVIOUS
<1>1. CASE UNCHANGED serverVars \/ SessionStep
  <2>1. UNCHANGED hubVars
    BY <1>1 DEF serverVars, SessionStep
  <2> QED
    BY <2>1, HubVars
<1>2. CASE ClientStep
  <2>1. ASSUME NEW c \in Clients, H!ReaderStep(c) \/ H!WriterStep(c) \/ H!PeerGone(c)
        PROVE  HP!Next
    BY <2>1, ReaderIsHubs, WriterIsHubs DEF HP!Next
  <2>2. ASSUME NEW i \in Loops, H!RLock(i) \/ \E c \in Clients : H!Offer(i, c)
        PROVE  HP!Next
    BY <2>2, LoopIsHubs DEF HP!Next, HP!BroadcasterStep
  <2> QED
    BY <1>2, <2>1, <2>2 DEF ClientStep
<1>3. ASSUME NEW i \in Loops, TakeSample(i) \/ HandedOn(i) PROVE HP!Next
  BY <1>3, LoopIsHubs DEF TakeSample, HandedOn, HP!Next, HP!BroadcasterStep
<1> QED
  BY <1>1, <1>2, <1>3 DEF ServerNext

LEMMA MonitorNext == [ServerNext]_serverVars => [Next]_vars
<1> SUFFICES ASSUME [ServerNext]_serverVars PROVE [Next]_vars
  OBVIOUS
<1>1. CASE UNCHANGED serverVars \/ ClientStep
  BY <1>1 DEF serverVars, ClientStep
<1>2. CASE SessionStep
  BY <1>2 DEF SessionStep, Next, BroadcasterStep
<1>3. ASSUME NEW i \in Loops, TakeSample(i) \/ HandedOn(i) PROVE Next
  BY <1>3 DEF TakeSample, HandedOn, Next, BroadcasterStep
<1> QED
  BY <1>1, <1>2, <1>3 DEF ServerNext

-----------------------------------------------------------------------------
(* The inductive strengthening *)

(* A loop that has not been spawned has taken no sample. *)
UnbornInv == \A i \in Loops : collector[i] = "none" => metrics[i].n = 0

(* The samples that were handed out: as many as Hub has counted, those of a  *)
(* loop in their order, and before what waits in the channel.                *)
HandedInv ==
    /\ handed \in Seq(Samples) /\ Len(handed) = taken
    /\ \A k \in DOMAIN handed : Behind(handed[k])
    /\ \A k, l \in DOMAIN handed :
          k < l /\ handed[k].loop = handed[l].loop => handed[k].n < handed[l].n
    /\ \A k \in DOMAIN handed, p \in DOMAIN broadcast :
          handed[k].loop = broadcast[p].loop => handed[k].n < broadcast[p].n

(* Messages come from the broadcast loops of the starts there were. *)
OriginInv ==
    /\ \A i \in Loops : data[i].n > 0 => i <= stopChan
    /\ \A c \in Clients : \A p \in DOMAIN HP!Pipe(c) : HP!Pipe(c)[p].by <= stopChan

-----------------------------------------------------------------------------
(* The parts of the strengthening *)

LEMMA UnbornNext == ASSUME TypeOK, UnbornInv, [Next]_vars PROVE UnbornInv'
<1> USE DEF UnbornInv
<1>1. CASE UNCHANGED vars
  BY <1>1 DEF vars, collectors
<1>2. ASSUME NEW h \in Handlers, HandlerStep(h) PROVE UnbornInv'
  <2>1. /\ metrics' = metrics
        /\ collector' = collector \/ collector' = [collector EXCEPT ![stopChan + 1] = "spawned"]
    BY <1>2, ReplyFrame DEF HandlerStep, StartBegin, StartCommit, StopBegin, collectors
  <2> QED
    BY <2>1 DEF TypeOK
<1>3. ASSUME NEW i \in Loops, CollectorStep(i) PROVE UnbornInv'
  <2>1. \A j \in Loops \ {i} : collector'[j] = collector[j] /\ metrics'[j] = metrics[j]
    BY <1>3
       DEF CollectorStep, CollectorBegin, CollectorSelect, CollectorStop, CollectorTick,
           CollectAllReturns, CollectAllFails, Record, SendToBroadcast, TypeOK
  <2>2. collector'[i] # "none"
    BY <1>3
       DEF CollectorStep, CollectorBegin, CollectorSelect, CollectorStop, CollectorTick,
           CollectAllReturns, CollectAllFails, Record, SendToBroadcast, TypeOK
  <2> QED
    BY <2>1, <2>2
<1>4. ASSUME NEW i \in Loops, BroadcasterStep(i) PROVE UnbornInv'
  BY <1>4, BroadcasterFrame DEF collectors
<1> QED
  BY <1>1, <1>2, <1>3, <1>4 DEF Next

(* A sample that is behind its loop stays so. *)
LEMMA BehindStays ==
    ASSUME TypeOK, [Next]_vars, NEW s \in Samples, Behind(s)
    PROVE  /\ 0 < s.n /\ s.n <= metrics'[s.loop].n
           /\ collector'[s.loop] \in {"record", "send"} => s.n < metrics'[s.loop].n
<1>0. s.n \in Nat /\ s.loop \in Loops /\ metrics[s.loop].n \in Nat
  BY DEF Samples, TypeOK
<1>1. CASE UNCHANGED collectors
  BY <1>1 DEF Behind, collectors
<1>2. ASSUME NEW h \in Handlers, HandlerStep(h), ~UNCHANGED collectors
      PROVE  /\ metrics' = metrics
             /\ collector' = [collector EXCEPT ![stopChan + 1] = "spawned"]
  BY <1>2, ReplyFrame DEF HandlerStep, StartBegin, StartCommit, StopBegin, collectors
<1>3. ASSUME NEW i \in Loops, CollectorStep(i)
      PROVE  \/ metrics'[s.loop].n = metrics[s.loop].n + 1
             \/ /\ metrics'[s.loop].n = metrics[s.loop].n
                /\ collector'[s.loop] \in {"record", "send"} =>
                      collector[s.loop] \in {"record", "send"}
  <2>1. CASE CollectAllReturns(i)
    BY <1>0, <2>1 DEF CollectAllReturns, TypeOK, Samples
  <2>2. CASE CollectorTick(i)
    BY <1>0, <2>2 DEF CollectorTick, TypeOK, Samples
  <2>3. CASE ~CollectAllReturns(i) /\ ~CollectorTick(i)
    BY <1>0, <1>3, <2>3
       DEF CollectorStep, CollectorBegin, CollectorSelect, CollectorStop,
           CollectAllFails, Record, SendToBroadcast, TypeOK
  <2> QED
    BY <2>1, <2>2, <2>3
<1>4. ASSUME NEW i \in Loops, BroadcasterStep(i) PROVE UNCHANGED collectors
  BY <1>4, BroadcasterFrame
<1>5. CASE \E h \in Handlers : HandlerStep(h) /\ ~UNCHANGED collectors
  BY <1>0, <1>2, <1>5 DEF Behind, TypeOK
<1>6. CASE \E i \in Loops : CollectorStep(i)
  BY <1>0, <1>3, <1>6 DEF Behind
<1> QED
  BY <1>1, <1>4, <1>5, <1>6 DEF Next, vars

(* What one step adds to the channel of samples comes after all that was     *)
(* handed out; nothing else does.                                            *)
LEMMA ChannelSteps ==
    ASSUME TypeOK, [Next]_vars, NEW p \in DOMAIN broadcast'
    PROVE  \/ \E q \in DOMAIN broadcast : broadcast'[p] = broadcast[q]
           \/ \E i \in Loops : collector[i] = "send" /\ broadcast'[p] = metrics[i]
<1>0. broadcast \in Seq(Samples)
  BY DEF TypeOK
<1>1. CASE UNCHANGED broadcast
  BY <1>1
<1>2. ASSUME NEW h \in Handlers, HandlerStep(h) PROVE UNCHANGED broadcast
  BY <1>2, ReplyFrame DEF HandlerStep, StartBegin, StartCommit, StopBegin
<1>3. ASSUME NEW i \in Loops, CollectorStep(i)
      PROVE  \/ UNCHANGED broadcast
             \/ collector[i] = "send" /\ broadcast' = Append(broadcast, metrics[i])
  BY <1>3
     DEF CollectorStep, CollectorBegin, CollectorSelect, CollectorStop, CollectorTick,
         CollectAllReturns, CollectAllFails, Record, SendToBroadcast
<1>4. ASSUME NEW i \in Loops, BroadcasterStep(i)
      PROVE  \/ UNCHANGED broadcast
             \/ broadcast # <<>> /\ broadcast' = Tail(broadcast)
  BY <1>4 DEF BroadcasterStep, BroadcasterSelect, BroadcasterStop, BroadcasterReceive, FanOut
<1>5. ASSUME NEW i \in Loops, collector[i] = "send", broadcast' = Append(broadcast, metrics[i])
      PROVE  \/ \E q \in DOMAIN broadcast : broadcast'[p] = broadcast[q]
             \/ broadcast'[p] = metrics[i]
  BY <1>0, <1>5
<1>6. ASSUME broadcast # <<>>, broadcast' = Tail(broadcast)
      PROVE  \E q \in DOMAIN broadcast : broadcast'[p] = broadcast[q]
  <2>1. p \in Int /\ p + 1 \in DOMAIN broadcast /\ broadcast'[p] = broadcast[p + 1]
    BY <1>0, <1>6
  <2> QED
    BY <2>1
<1> QED
  BY <1>1, <1>2, <1>3, <1>4, <1>5, <1>6 DEF Next, vars

LEMMA HandedNext ==
    ASSUME HP!SizeAssumption, TypeOK, OwnerInv, QueueInv, QueuedOnceInOrder, HandedInv,
           [ServerNext]_serverVars
    PROVE  HandedInv'
<1>0. /\ handed \in Seq(Samples) /\ Len(handed) = taken /\ broadcast \in Seq(Samples)
      /\ \A k \in DOMAIN handed : handed[k] \in Samples /\ handed[k].n \in Nat
      /\ \A p \in DOMAIN broadcast : broadcast[p] \in Samples /\ broadcast[p].n \in Nat
      /\ [Next]_vars
  <2>1. \A m \in Samples : m.n \in Nat
    BY DEF Samples
  <2> QED
    BY <2>1, MonitorNext DEF HandedInv, TypeOK
<1>1. ASSUME handed' = handed, taken' = taken PROVE HandedInv'
  <2>1. ASSUME NEW k \in DOMAIN handed
        PROVE  /\ 0 < handed[k].n /\ handed[k].n <= metrics'[handed[k].loop].n
               /\ collector'[handed[k].loop] \in {"record", "send"} =>
                     handed[k].n < metrics'[handed[k].loop].n
    <3>1. handed[k] \in Samples /\ Behind(handed[k])
      BY <1>0 DEF HandedInv
    <3> QED
      BY <1>0, <3>1, BehindStays
  <2>2. \A k \in DOMAIN handed' : Behind(handed[k])'
    BY <1>1, <2>1 DEF Behind
  <2>3. ASSUME NEW k \in DOMAIN handed, NEW p \in DOMAIN broadcast',
               handed[k].loop = broadcast'[p].loop
        PROVE  handed[k].n < broadcast'[p].n
    <3>1. CASE \E q \in DOMAIN broadcast : broadcast'[p] = broadcast[q]
      BY <2>3, <3>1 DEF HandedInv
    <3>2. ASSUME NEW i \in Loops, collector[i] = "send", broadcast'[p] = metrics[i]
          PROVE  handed[k].n < metrics[i].n
      BY <2>3, <3>2 DEF HandedInv, Behind, OwnerInv
    <3> QED
      BY <1>0, <3>1, <3>2, ChannelSteps
  <2> QED
    BY <1>0, <1>1, <2>2, <2>3 DEF HandedInv
<1>2. ASSUME NEW i \in Loops, TakeSample(i) PROVE HandedInv'
  <2>1. /\ broadcast # <<>> /\ broadcast' = Tail(broadcast)
        /\ handed' = Append(handed, Head(broadcast)) /\ taken' = taken + 1
        /\ UNCHANGED collectors
    BY <1>2 DEF TakeSample, BroadcasterReceive, H!Receive
  <2>2. /\ Head(broadcast) = broadcast[1] /\ 1 \in DOMAIN broadcast
        /\ \A p \in DOMAIN broadcast' : p \in Int /\ p > 0
              /\ p + 1 \in DOMAIN broadcast /\ broadcast'[p] = broadcast[p + 1]
    BY <1>0, <2>1
  <2>3. /\ handed' \in Seq(Samples) /\ Len(handed') = taken'
        /\ \A k \in DOMAIN handed' :
              \/ k \in DOMAIN handed /\ handed'[k] = handed[k]
              \/ k = Len(handed) + 1 /\ handed'[k] = broadcast[1]
        /\ DOMAIN handed = 1..Len(handed) /\ DOMAIN handed' = 1..(Len(handed) + 1)
    <3>1. /\ handed' \in Seq(Samples) /\ Len(handed') = Len(handed) + 1
          /\ \A k \in 1..Len(handed) : handed'[k] = handed[k]
          /\ handed'[Len(handed) + 1] = broadcast[1]
          /\ DOMAIN handed = 1..Len(handed) /\ Len(handed) \in Nat
      BY <1>0, <2>1, <2>2
    <3> QED
      BY <1>0, <2>1, <3>1
  <2>4. \A k \in DOMAIN handed' : Behind(handed'[k])
    BY <2>2, <2>3 DEF HandedInv, QueueInv
  <2>5. \A k \in DOMAIN handed' : Behind(handed[k])'
    BY <2>1, <2>4 DEF Behind, collectors
  <2>6. ASSUME NEW k \in DOMAIN handed', NEW l \in DOMAIN handed', k < l,
               handed'[k].loop = handed'[l].loop
        PROVE  handed'[k].n < handed'[l].n
    <3>1. k \in DOMAIN handed /\ handed'[k] = handed[k]
      BY <1>0, <2>3, <2>6
    <3> QED
      BY <2>2, <2>3, <2>6, <3>1 DEF HandedInv
  <2>7. ASSUME NEW k \in DOMAIN handed', NEW p \in DOMAIN broadcast',
               handed'[k].loop = broadcast'[p].loop
        PROVE  handed'[k].n < broadcast'[p].n
    <3>1. p \in Int /\ p > 0 /\ p + 1 \in DOMAIN broadcast /\ broadcast'[p] = broadcast[p + 1]
      BY <2>2
    <3>2. CASE k \in DOMAIN handed /\ handed'[k] = handed[k]
      BY <2>7, <3>1, <3>2 DEF HandedInv
    <3>3. CASE handed'[k] = broadcast[1]
      BY <2>2, <2>7, <3>1, <3>3 DEF QueuedOnceInOrder
    <3> QED
      BY <2>3, <3>2, <3>3
  <2> QED
    BY <2>3, <2>5, <2>6, <2>7 DEF HandedInv
<1>3. ASSUME NEW i \in Loops, HandedOn(i) PROVE UNCHANGED <<handed, taken>>
  BY <1>3 DEF HandedOn, H!RUnlock, H!MarshalFails
<1>4. CASE ClientStep
  <2>1. handed' = handed
    BY <1>4 DEF ClientStep
  <2>2. taken' = taken
    <3>1. ASSUME NEW c \in Clients, H!ReaderStep(c) \/ H!WriterStep(c) \/ H!PeerGone(c)
          PROVE  taken' = taken
      BY <3>1, ReaderIsHubs, WriterIsHubs, HP!ReaderFrame, HP!WriterFrame DEF HP!broadcastVars
    <3>2. ASSUME NEW i \in Loops, H!RLock(i) \/ \E c \in Clients : H!Offer(i, c)
          PROVE  taken' = taken
      BY <3>2 DEF H!RLock, H!Offer
    <3> QED
      BY <1>4, <3>1, <3>2 DEF ClientStep
  <2> QED
    BY <1>1, <2>1, <2>2
<1>5. CASE SessionStep \/ UNCHANGED serverVars
  BY <1>1, <1>5 DEF SessionStep, serverVars, hubVars
<1> QED
  BY <1>1, <1>2, <1>3, <1>4, <1>5 DEF ServerNext

(* The broadcast loops as Monitor steps them on its own. *)
LEMMA SessionFrame ==
    ASSUME TypeOK, LoopInv, SessionStep
    PROVE  /\ UNCHANGED <<message, hubVars, handed>> /\ stopChan' >= stopChan
           /\ \A i \in Loops : broadcaster[i] = "fanout" <=> broadcaster'[i] = "fanout"
<1>0. stopChan \in Nat /\ UNCHANGED <<hubVars, handed>>
  BY DEF TypeOK, Channels, SessionStep
<1>1. ASSUME NEW h \in Handlers, HandlerStep(h)
      PROVE  /\ message' = message /\ stopChan' >= stopChan
             /\ \A i \in Loops : broadcaster[i] = "fanout" <=> broadcaster'[i] = "fanout"
  <2>1. CASE StartCommit(h)
    <3>1. /\ message' = message /\ stopChan' = stopChan + 1
          /\ broadcaster' = [broadcaster EXCEPT ![stopChan + 1] = "loop"]
      BY <2>1 DEF StartCommit
    <3>2. \A i \in Loops : i = stopChan + 1 => broadcaster[i] = "none"
      BY <1>0 DEF LoopInv, Loops
    <3> QED
      BY <1>0, <3>1, <3>2 DEF TypeOK
  <2>2. CASE ~StartCommit(h)
    <3>1. UNCHANGED <<message, broadcaster, stopChan>>
      BY <1>1, <2>2, ReplyFrame DEF HandlerStep, StartBegin, StopBegin, broadcasters, session
    <3> QED
      BY <1>0, <3>1
  <2> QED
    BY <2>1, <2>2
<1>2. ASSUME NEW i \in Loops, CollectorStep(i)
      PROVE  UNCHANGED <<message, broadcaster, stopChan>>
  BY <1>2, CollectorFrame DEF broadcasters
<1>3. ASSUME NEW i \in Loops, BroadcasterSelect(i) \/ BroadcasterStop(i)
      PROVE  /\ UNCHANGED <<message, stopChan>>
             /\ \A j \in Loops : broadcaster[j] = "fanout" <=> broadcaster'[j] = "fanout"
  BY <1>3 DEF BroadcasterSelect, BroadcasterStop, TypeOK, session
<1> QED
  BY <1>0, <1>1, <1>2, <1>3 DEF SessionStep

(* What a client adds to the state of Hub, and the loop that looks at it. *)
LEMMA ClientFrame ==
    ASSUME HP!SizeAssumption, HP!TypeOK, ClientStep
    PROVE  /\ UNCHANGED <<vars, handed, data, taken>>
           /\ \A i \in Loops : fanout[i] \in {"marshal", "fanout"} <=>
                                 fanout'[i] \in {"marshal", "fanout"}
<1>1. ASSUME NEW c \in Clients, H!ReaderStep(c) \/ H!WriterStep(c) \/ H!PeerGone(c)
      PROVE  UNCHANGED <<data, taken, fanout>>
  BY <1>1, ReaderIsHubs, WriterIsHubs, HP!ReaderFrame, HP!WriterFrame DEF HP!broadcastVars
<1>2. ASSUME NEW i \in Loops, H!RLock(i)
      PROVE  /\ UNCHANGED <<data, taken>>
             /\ \A j \in Loops : fanout[j] \in {"marshal", "fanout"} <=>
                                   fanout'[j] \in {"marshal", "fanout"}
  BY <1>2 DEF H!RLock, HP!TypeOK
<1>3. ASSUME NEW i \in Loops, NEW c \in Clients, H!Offer(i, c)
      PROVE  UNCHANGED <<data, taken, fanout>>
  BY <1>3 DEF H!Offer
<1> QED
  BY <1>1, <1>2, <1>3 DEF ClientStep

LEMMA AgreeNext ==
    ASSUME HP!SizeAssumption, TypeOK, LoopInv, HP!TypeOK, HP!DataInv, HandedInv, LoopsAgree,
           [ServerNext]_serverVars
    PROVE  LoopsAgree'
<1> USE DEF LoopsAgree
<1>0. handed \in Seq(Samples) /\ Len(handed) = taken /\ broadcast \in Seq(Samples)
  BY DEF HandedInv, TypeOK
<1>1. CASE UNCHANGED serverVars
  BY <1>1 DEF serverVars, vars, hubVars, broadcasters
<1>2. CASE SessionStep
  BY <1>2, SessionFrame DEF hubVars
<1>3. CASE ClientStep
  BY <1>3, ClientFrame DEF vars, broadcasters
<1>4. ASSUME NEW i \in Loops, TakeSample(i) PROVE LoopsAgree'
  <2>1. /\ broadcaster[i] = "select"
        /\ message' = [message EXCEPT ![i] = Head(broadcast)]
        /\ broadcaster' = [broadcaster EXCEPT ![i] = "fanout"]
        /\ fanout' = [fanout EXCEPT ![i] = "marshal"]
        /\ data' = [data EXCEPT ![i].n = taken + 1]
        /\ broadcast # <<>> /\ handed' = Append(handed, Head(broadcast))
    BY <1>4 DEF TakeSample, BroadcasterReceive, H!Receive
  <2>2. data'[i].n = taken + 1 /\ \A j \in Loops \ {i} : data'[j] = data[j]
    BY <2>1 DEF HP!TypeOK
  <2>3. /\ Len(handed) + 1 \in DOMAIN handed' /\ handed'[Len(handed) + 1] = Head(broadcast)
        /\ \A k \in DOMAIN handed : k \in DOMAIN handed' /\ handed'[k] = handed[k]
    BY <1>0, <2>1
  <2>4. message'[i] = Head(broadcast) /\ \A j \in Loops \ {i} : message'[j] = message[j]
    BY <2>1 DEF TypeOK
  <2>5. /\ broadcaster'[i] = "fanout" /\ fanout'[i] = "marshal"
        /\ \A j \in Loops \ {i} : broadcaster'[j] = broadcaster[j] /\ fanout'[j] = fanout[j]
    BY <2>1 DEF TypeOK, HP!TypeOK
  <2> QED
    BY <1>0, <2>2, <2>3, <2>4, <2>5
<1>5. ASSUME NEW i \in Loops, HandedOn(i) PROVE LoopsAgree'
  <2>1. /\ broadcaster' = [broadcaster EXCEPT ![i] = "loop"] /\ message' = message
        /\ fanout' = [fanout EXCEPT ![i] = "receive"] /\ data' = data /\ handed' = handed
    BY <1>5 DEF HandedOn, FanOut, H!RUnlock, H!MarshalFails
  <2> QED
    BY <2>1 DEF TypeOK, HP!TypeOK
<1> QED
  BY <1>1, <1>2, <1>3, <1>4, <1>5 DEF ServerNext

(* A step adds nothing to a pipe but the message of a loop. *)
LEMMA PipeSteps ==
    ASSUME HP!SizeAssumption, HP!TypeOK, HP!DataInv, HP!WriterInv, [HP!Next]_(HP!vars),
           NEW c \in Clients, NEW p \in DOMAIN HP!Pipe(c)'
    PROVE  \/ \E q \in DOMAIN HP!Pipe(c) : HP!Pipe(c)'[p] = HP!Pipe(c)[q]
           \/ \E i \in Loops : data[i].n > 0 /\ HP!Pipe(c)'[p] = data[i]
<1>1. ASSUME UNCHANGED <<send, writing, written>>
      PROVE  \E q \in DOMAIN HP!Pipe(c) : HP!Pipe(c)'[p] = HP!Pipe(c)[q]
  BY <1>1 DEF HP!Pipe
<1>2. CASE UNCHANGED HP!vars
  BY <1>1, <1>2 DEF HP!vars, HP!clientVars
<1>3. ASSUME NEW d \in Clients, HP!ReaderStep(d) \/ HP!PeerGone(d)
      PROVE  UNCHANGED <<send, writing, written>>
  BY <1>3, HP!ReaderFrame
<1>4. ASSUME NEW d \in Clients, HP!WriterStep(d)
      PROVE  \E q \in DOMAIN HP!Pipe(c) : HP!Pipe(c)'[p] = HP!Pipe(c)[q]
  <2>1. CASE d = c
    <3>1. PICK k \in Nat, m \in Nat : HP!Thinned(HP!Pipe(c)', HP!Pipe(c), k, m)
      BY <1>4, <2>1, HP!WriterThins
    <3> QED
      BY <3>1 DEF HP!Thinned
  <2>2. CASE d # c
    <3>1. HP!Pipe(c)' = HP!Pipe(c)
      BY <1>4, <2>2
         DEF HP!WriterStep, HP!WriterReceive, HP!WriterDrained, HP!WriteHeader,
             HP!WritePayload, HP!WriteFails, HP!Pipe, HP!TypeOK
    <3> QED
      BY <3>1
  <2> QED
    BY <2>1, <2>2
<1>5. ASSUME NEW i \in Loops, HP!BroadcasterStep(i)
      PROVE  \/ \E q \in DOMAIN HP!Pipe(c) : HP!Pipe(c)'[p] = HP!Pipe(c)[q]
             \/ data[i].n > 0 /\ HP!Pipe(c)'[p] = data[i]
  <2>1. CASE send' = send
    <3>1. UNCHANGED <<send, writing, written>>
      BY <1>5, <2>1, HP!BroadcasterFrame DEF HP!clientVars
    <3> QED
      BY <1>1, <3>1
  <2>2. CASE send' # send
    <3>1. PICK d \in Clients : HP!Offer(i, d)
      BY <1>5, <2>2
         DEF HP!BroadcasterStep, HP!Receive, HP!MarshalFails, HP!RLock, HP!RUnlock
    <3>2. data[i].n > 0
      BY <3>1 DEF HP!Offer, HP!DataInv
    <3>3. CASE d # c
      <4>1. HP!Pipe(c)' = HP!Pipe(c)
        BY <2>2, <3>1, <3>3, HP!OfferAppends
      <4> QED
        BY <4>1
    <3>4. CASE d = c
      <4>1. \/ p \in DOMAIN HP!Pipe(c) /\ HP!Pipe(c)'[p] = HP!Pipe(c)[p]
            \/ HP!Pipe(c)'[p] = data[i]
        BY <2>2, <3>1, <3>4, HP!OfferAppends
      <4> QED
        BY <3>2, <4>1
    <3> QED
      BY <3>3, <3>4
  <2> QED
    BY <2>1, <2>2
<1> QED
  BY <1>1, <1>2, <1>3, <1>4, <1>5 DEF HP!Next

LEMMA OriginNext ==
    ASSUME HP!SizeAssumption, TypeOK, LoopInv, HP!TypeOK, HP!DataInv, HP!WriterInv, OriginInv,
           [ServerNext]_serverVars, TypeOK'
    PROVE  OriginInv'
<1>1. stopChan' >= stopChan /\ stopChan \in Nat /\ stopChan' \in Nat
  <2>1. stopChan' = stopChan \/ stopChan' >= stopChan
    <3>1. ASSUME NEW i \in Loops, TakeSample(i) \/ HandedOn(i) PROVE stopChan' = stopChan
      BY <3>1 DEF TakeSample, BroadcasterReceive, HandedOn, FanOut, session
    <3> QED
      BY <3>1, SessionFrame DEF ServerNext, ClientStep, serverVars, vars, session
  <2> QED
    BY <2>1 DEF TypeOK, Channels
<1>2. ASSUME NEW i \in Loops, data'[i].n > 0 PROVE i <= stopChan'
  <2>1. CASE data'[i].n = data[i].n
    BY <1>1, <1>2, <2>1 DEF OriginInv, Loops
  <2>2. CASE TakeSample(i)
    <3>1. broadcaster[i] = "select"
      BY <2>2 DEF TakeSample, BroadcasterReceive
    <3> QED
      BY <1>1, <3>1 DEF LoopInv, Loops
  <2>3. ASSUME NEW j \in Loops \ {i}, TakeSample(j) PROVE data'[i] = data[i]
    BY <2>3 DEF TakeSample, H!Receive, HP!TypeOK
  <2>4. ASSUME NEW j \in Loops, HandedOn(j) PROVE data' = data
    BY <2>4 DEF HandedOn, H!RUnlock, H!MarshalFails
  <2>5. CASE SessionStep \/ ClientStep \/ UNCHANGED serverVars
    BY <2>1, <2>5, SessionFrame, ClientFrame DEF hubVars, serverVars
  <2> QED
    BY <2>1, <2>2, <2>3, <2>4, <2>5 DEF ServerNext
<1>3. ASSUME NEW c \in Clients, NEW p \in DOMAIN HP!Pipe(c)'
      PROVE  HP!Pipe(c)'[p].by <= stopChan'
  <2>1. HP!Pipe(c) \in Seq(HP!Messages)
    BY HP!PipeType
  <2>2. ASSUME NEW q \in DOMAIN HP!Pipe(c), HP!Pipe(c)'[p] = HP!Pipe(c)[q]
        PROVE  HP!Pipe(c)'[p].by <= stopChan'
    <3>1. HP!Pipe(c)[q].by \in Loops
      <4>1. HP!Pipe(c)[q] \in HP!Messages
        BY <2>1
      <4> QED
        BY <4>1 DEF HP!Messages
    <3> QED
      BY <1>1, <2>2, <3>1 DEF OriginInv, Loops
  <2>3. ASSUME NEW i \in Loops, data[i].n > 0, HP!Pipe(c)'[p] = data[i]
        PROVE  HP!Pipe(c)'[p].by <= stopChan'
    BY <1>1, <2>3 DEF OriginInv, HP!DataInv, Loops
  <2> QED
    BY <2>2, <2>3, PipeSteps, HubNext
<1> QED
  BY <1>2, <1>3 DEF OriginInv

-----------------------------------------------------------------------------
(* The inductive invariant: those of the two modules, and what ties them *)

SInv == /\ IInv /\ HP!IInv /\ UnbornInv /\ HandedInv /\ LoopsAgree /\ OriginInv

LEMMA SInvInit == ASSUME HP!SizeAssumption PROVE ServerInit => SInv
<1> SUFFICES ASSUME ServerInit PROVE SInv
  OBVIOUS
<1>1. Init /\ HP!Init /\ handed = <<>>
  BY HubInit DEF ServerInit
<1>2. IInv
  BY <1>1, IInvInit
<1>3. HP!IInv
  BY <1>1, HP!IInvInit
<1>4. UnbornInv
  BY <1>1 DEF Init, UnbornInv
<1>5. HandedInv
  <2>1. handed \in Seq(Samples) /\ Len(handed) = 0 /\ DOMAIN handed = {} /\ taken = 0
    BY <1>1 DEF HP!Init
  <2> QED
    BY <2>1 DEF HandedInv
<1>6. LoopsAgree
  BY <1>1 DEF Init, HP!Init, LoopsAgree
<1>7. OriginInv
  <2>1. \A i \in Loops : data[i].n = 0
    BY <1>1 DEF HP!Init
  <2>2. \A c \in Clients : HP!Pipe(c) = <<>>
    BY <1>1 DEF HP!Init, HP!Pipe
  <2> QED
    BY <2>1, <2>2 DEF OriginInv
<1> QED
  BY <1>2, <1>3, <1>4, <1>5, <1>6, <1>7 DEF SInv

LEMMA SInvNext == ASSUME HP!SizeAssumption PROVE SInv /\ [ServerNext]_serverVars => SInv'
<1> SUFFICES ASSUME SInv, [ServerNext]_serverVars PROVE SInv'
  OBVIOUS
<1>0. [Next]_vars /\ [HP!Next]_(HP!vars) /\ IInv /\ HP!IInv
  BY MonitorNext, HubNext DEF SInv
<1>1. IInv'
  BY <1>0, IInvNext
<1>2. HP!IInv'
  BY <1>0, HP!IInvNext
<1>3. UnbornInv'
  BY <1>0, UnbornNext DEF SInv, IInv
<1>4. HandedInv'
  BY HandedNext DEF SInv, IInv
<1>5. LoopsAgree'
  BY AgreeNext DEF SInv, IInv, HP!IInv
<1>6. OriginInv'
  BY <1>1, OriginNext DEF SInv, IInv, HP!IInv
<1> QED
  BY <1>1, <1>2, <1>3, <1>4, <1>5, <1>6 DEF SInv

LEMMA SInvAlways == ASSUME HP!SizeAssumption PROVE ServerSpec => []SInv
<1>1. ServerInit => SInv
  BY SInvInit
<1>2. SInv /\ [ServerNext]_serverVars => SInv'
  BY SInvNext
<1> QED
  BY <1>1, <1>2, PTL DEF ServerSpec

(* Two samples that reached a client are two samples, and those of one loop  *)
(* that came the same way are in order.                                      *)
LEMMA PipeOrder ==
    ASSUME HP!SizeAssumption, SInv, NEW c \in Clients,
           NEW p \in DOMAIN HP!Pipe(c), NEW q \in DOMAIN HP!Pipe(c), p < q,
           NEW m, m = HP!Pipe(c)[p], NEW n, n = HP!Pipe(c)[q]
    PROVE  /\ m.n \in DOMAIN handed /\ n.n \in DOMAIN handed
           /\ handed[m.n] # handed[n.n]
           /\ m.by = n.by => m.n < n.n
           /\ m.n < n.n /\ handed[m.n].loop = handed[n.n].loop => handed[m.n].n < handed[n.n].n
<1>1. m \in HP!Messages /\ n \in HP!Messages
  <2>1. HP!Pipe(c) \in Seq(HP!Messages)
    BY HP!PipeType DEF SInv, HP!IInv
  <2> QED
    BY <2>1
<1>2. m.n \in Nat /\ m.n > 0 /\ m.n <= taken /\ n.n \in Nat /\ n.n > 0 /\ n.n <= taken
  BY <1>1 DEF HP!Messages, SInv, HP!IInv, HP!PipeInv
<1>3. /\ handed \in Seq(Samples) /\ Len(handed) = taken
      /\ \A k \in DOMAIN handed : handed[k].n \in Nat
  <2>1. handed \in Seq(Samples) /\ Len(handed) = taken
    BY DEF SInv, HandedInv
  <2>2. \A k \in DOMAIN handed : handed[k] \in Samples
    BY <2>1
  <2> QED
    BY <2>1, <2>2 DEF Samples
<1>4. m.n \in DOMAIN handed /\ n.n \in DOMAIN handed
  BY <1>2, <1>3
<1>5. m.n # n.n /\ (m.by = n.by => m.n < n.n)
  BY DEF SInv, HP!IInv, HP!PipeInv, HP!Sorted
<1>6. \A k, l \in DOMAIN handed :
         k < l /\ handed[k].loop = handed[l].loop => handed[k].n < handed[l].n
  BY DEF SInv, HandedInv
<1>7. handed[m.n] # handed[n.n]
  <2>1. m.n < n.n \/ n.n < m.n
    BY <1>2, <1>5
  <2> QED
    BY <1>3, <1>4, <1>6, <2>1
<1> QED
  BY <1>4, <1>5, <1>6, <1>7

LEMMA SamplesInOrder == ASSUME HP!SizeAssumption, SInv PROVE SamplesOnceInOrder
<1>1. \A c \in Clients : H!Pipe(c) = HP!Pipe(c)
  BY DEF H!Pipe, HP!Pipe
<1> SUFFICES ASSUME NEW c \in Clients,
                    NEW p \in DOMAIN HP!Pipe(c), NEW q \in DOMAIN HP!Pipe(c), p < q
             PROVE  LET m == HP!Pipe(c)[p]
                        n == HP!Pipe(c)[q]
                    IN  /\ handed[m.n] # handed[n.n]
                        /\ m.by = n.by /\ handed[m.n].loop = handed[n.n].loop =>
                              handed[m.n].n < handed[n.n].n
  BY <1>1 DEF SamplesOnceInOrder
<1>2. PICK m, n : m = HP!Pipe(c)[p] /\ n = HP!Pipe(c)[q]
  OBVIOUS
<1> QED
  BY <1>2, PipeOrder

LEMMA FirstSession == ASSUME HP!SizeAssumption, SInv PROVE FirstSessionInOrder
<1>1. \A c \in Clients : H!Pipe(c) = HP!Pipe(c)
  BY DEF H!Pipe, HP!Pipe
<1> SUFFICES ASSUME stopChan <= 1, NEW c \in Clients,
                    NEW p \in DOMAIN HP!Pipe(c), NEW q \in DOMAIN HP!Pipe(c), p < q
             PROVE  handed[HP!Pipe(c)[p].n].n < handed[HP!Pipe(c)[q].n].n
  BY <1>1 DEF FirstSessionInOrder
<1>2. PICK m, n : m = HP!Pipe(c)[p] /\ n = HP!Pipe(c)[q]
  OBVIOUS
<1>3. m.by = 1 /\ n.by = 1
  <2>1. HP!Pipe(c) \in Seq(HP!Messages)
    BY HP!PipeType DEF SInv, HP!IInv
  <2>2. m \in HP!Messages /\ n \in HP!Messages
    BY <1>2, <2>1
  <2>3. m.by \in Loops /\ n.by \in Loops
    BY <2>2 DEF HP!Messages
  <2>4. m.by <= stopChan /\ n.by <= stopChan
    BY <1>2 DEF SInv, OriginInv
  <2>5. stopChan \in Int
    BY DEF SInv, IInv, TypeOK, Channels
  <2> QED
    BY <2>3, <2>4, <2>5 DEF Loops
<1>4. /\ m.n \in DOMAIN handed /\ n.n \in DOMAIN handed /\ m.n < n.n
      /\ m.n < n.n /\ handed[m.n].loop = handed[n.n].loop => handed[m.n].n < handed[n.n].n
  BY <1>2, <1>3, PipeOrder
<1>5. ASSUME NEW k \in DOMAIN handed PROVE handed[k].loop = 1
  <2>1. handed[k] \in Samples /\ Behind(handed[k])
    BY DEF SInv, HandedInv
  <2>2. handed[k].loop \in Loops /\ handed[k].n \in Nat /\ metrics[handed[k].loop].n \in Nat
    BY <2>1 DEF Samples, SInv, IInv, TypeOK
  <2>3. collector[handed[k].loop] # "none"
    BY <2>1, <2>2 DEF SInv, UnbornInv, Behind
  <2>4. stopChan \in Int
    BY DEF SInv, IInv, TypeOK, Channels
  <2> QED
    BY <2>2, <2>3, <2>4 DEF SInv, IInv, LoopInv, Loops
<1> QED
  BY <1>2, <1>4, <1>5

-----------------------------------------------------------------------------
(* The theorems *)

(* Beside clients that come, go and stall, the sessions do what module       *)
(* Monitor says: the fan-out is a step they only wait for.                   *)
THEOREM ServerImplementsMonitor == ServerSpec => Spec
<1>1. ServerInit => Init
  BY DEF ServerInit
<1>2. [ServerNext]_serverVars => [Next]_vars
  BY MonitorNext
<1> QED
  BY <1>1, <1>2, PTL DEF ServerSpec, Spec

(* Fed by the broadcast loops of sessions that start, stop and leak, the     *)
(* clients' side does what module Hub says.                                  *)
THEOREM ServerImplementsHub == ServerSpec => HP!Spec
<1>1. ServerInit => HP!Init
  BY HubInit
<1>2. [ServerNext]_serverVars => [HP!Next]_(HP!vars)
  BY HubNext
<1> QED
  BY <1>1, <1>2, PTL DEF ServerSpec, HP!Spec

(* So each connection of the whole server is a feed: messages in order, none *)
(* twice, only while it is in use, without a backlog.                        *)
THEOREM ServerImplementsFeed ==
    ASSUME ClientSizes PROVE ServerSpec => HP!ClientsFollowTheFeed
<1>0. HP!SizeAssumption
  BY HubSizes
<1>1. HP!Spec => HP!ClientsFollowTheFeed
  BY <1>0, HP!HubImplementsFeed
<1> QED
  BY <1>1, ServerImplementsHub, PTL

(* No broadcast loop, of the present session or a leaked one, ever sends on  *)
(* a closed channel: no client ends the program, whatever starts and stops.  *)
THEOREM ServerSendsAreSafe ==
    ASSUME ClientSizes PROVE ServerSpec => []HP!NoSendOnClosedChannel
<1>0. HP!SizeAssumption
  BY HubSizes
<1>1. HP!Spec => []HP!NoSendOnClosedChannel
  BY <1>0, HP!SendsAreSafe
<1> QED
  BY <1>1, ServerImplementsHub, PTL

(* The two views of a broadcast loop agree: it fans out exactly while its    *)
(* session waits for it, and what it fans out is the sample it took.         *)
THEOREM OneLoopTwoViews ==
    ASSUME ClientSizes PROVE ServerSpec => []LoopsAgree
<1>0. HP!SizeAssumption
  BY HubSizes
<1>1. ServerSpec => []SInv
  BY <1>0, SInvAlways
<1>2. SInv => LoopsAgree
  BY DEF SInv
<1> QED
  BY <1>1, <1>2, PTL

(* From the collection to the sockets, with any number of sessions, leaked   *)
(* loops and clients: no client gets a sample twice, and what one collection *)
(* loop took and one broadcast loop passed on arrives in its order.          *)
THEOREM SamplesArriveInOrder ==
    ASSUME ClientSizes PROVE ServerSpec => []SamplesOnceInOrder
<1>0. HP!SizeAssumption
  BY HubSizes
<1>1. ServerSpec => []SInv
  BY <1>0, SInvAlways
<1>2. SInv => SamplesOnceInOrder
  BY <1>0, SamplesInOrder
<1> QED
  BY <1>1, <1>2, PTL

(* Until the first restart every client sees its samples in the order they   *)
(* were collected.                                                           *)
THEOREM FirstSessionArrivesInOrder ==
    ASSUME ClientSizes PROVE ServerSpec => []FirstSessionInOrder
<1>0. HP!SizeAssumption
  BY HubSizes
<1>1. ServerSpec => []SInv
  BY <1>0, SInvAlways
<1>2. SInv => FirstSessionInOrder
  BY <1>0, FirstSession
<1> QED
  BY <1>1, <1>2, PTL
=============================================================================
