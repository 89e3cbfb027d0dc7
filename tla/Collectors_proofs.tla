-------------------------- MODULE Collectors_proofs --------------------------
(***************************************************************************)
(* Theorems about module Collectors, for every set of callers, interfaces  *)
(* and loads, and every width of the counters.                             *)
(***************************************************************************)
EXTENDS Collectors, TLAPS

-----------------------------------------------------------------------------
(* The inductive strengthening *)

(* The mutexes are held exactly between the first and the last step in the  *)
(* collector, so one caller at most is there.                               *)
LockInv ==
    /\ \A c \in Callers : pc[c] = "cpuUpdate" <=> cpuMu = c
    /\ \A c \in Callers : pc[c] = "netRead" <=> netMu = c

(* t was read after s: nothing has gone back, and idle time has not gained  *)
(* on the kernel time that includes it.                                     *)
Since(s, t) ==
    /\ s.idle <= t.idle /\ s.kernel <= t.kernel /\ s.user <= t.user
    /\ t.idle - s.idle <= t.kernel - s.kernel

(* The baseline, what the holder has read and the times of the host follow  *)
(* each other.                                                              *)
CpuInv ==
    /\ reported = last
    /\ times.kernel + times.user = clock
    /\ Since(last, times)
    /\ \A c \in Callers : pc[c] = "cpuUpdate" => Since(last, got[c]) /\ Since(got[c], times)

(* A counter that has not wrapped around only grows: the last reading, the   *)
(* row in hand and the counter follow each other.  Only the holder has a row. *)
NetInv ==
    /\ \A i \in known : octets[i] < Wrap => counted[i] = lastStats[i] /\ lastStats[i] <= octets[i]
    /\ \A c \in Callers : \A r \in row[c] :
          /\ pc[c] = "netRead"
          /\ octets[r.adapter] < Wrap =>
                /\ r.octets <= octets[r.adapter]
                /\ r.adapter \in known => lastStats[r.adapter] <= r.octets

(* What the last collection has read was read after lastCollect and before  *)
(* it ended, what one that broke off has read was read after that.          *)
BaselineInv ==
    /\ lastCollect <= clock
    /\ \A i \in fresh \cup broken : i \in known /\ lastCollect <= readAt[i]
    /\ \A i \in fresh : readAt[i] <= lastCollect + took

(* Its rates are divided by the time from lastCollect to its beginning, and  *)
(* what it reads it reads after that.                                        *)
UnderWay(c) ==
    /\ lastCollect <= now[c] /\ now[c] <= clock
    /\ elapsed[c] = IF now[c] - lastCollect < 1 THEN Second ELSE now[c] - lastCollect
    /\ \A r \in row[c] : now[c] <= r.at /\ r.at <= clock
    /\ \A i \in reading : i \in known /\ now[c] <= readAt[i] /\ readAt[i] <= clock

IntervalInv ==
    /\ BaselineInv
    /\ \A c \in Callers : pc[c] = "netRead" => UnderWay(c)

(* The sections CollectAll is through with when it is at s. *)
Before(s) ==
    CASE s = "memory" -> {"tcp"}
      [] s \in {"cpu", "cpuUpdate"} -> {"tcp", "memory"}
      [] s = "disk" -> {"tcp", "memory", "cpu"}
      [] s \in {"network", "netRead"} -> {"tcp", "memory", "cpu", "disk"}
      [] s = "process" -> {"tcp", "memory", "cpu", "disk", "network"}
      [] s = "done" -> Sections
      [] OTHER -> {}

(* Each section CollectAll is through with is filled or has failed. *)
SectionInv ==
    \A c \in Callers : request[c] = "all" /\ pc[c] # "idle" =>
        /\ metrics[c] \cup failed[c] = Before(pc[c])
        /\ metrics[c] \cap failed[c] = {}

IInv ==
    /\ TypeOK /\ LockInv /\ CpuInv /\ NetInv /\ IntervalInv /\ SectionInv

-----------------------------------------------------------------------------
(* Operators *)

LEMMA FollowingType ==
    \A s \in Sections : Following(s) \in Sections \cup {"done"}
  BY DEF Following, Sections

LEMMA FollowingBefore ==
    \A s \in Sections : Before(Following(s)) = Before(s) \cup {s} /\ s \notin Before(s)
  BY DEF Following, Before, Sections

LEMMA MinusType == ASSUME NEW x \in Nat, NEW y \in Nat, x < y => y - x <= Word
                   PROVE  Minus(x, y) \in Nat
  BY CollectorsAssumption DEF Minus

LEMMA CounterType == ASSUME NEW i \in Interfaces, octets \in [Interfaces -> Nat]
                     PROVE  Counter(i) \in 0..(Wrap - 1) /\
                            (octets[i] < Wrap => Counter(i) = octets[i])
  <1>1. octets[i] \in Nat /\ Wrap \in Nat \ {0} BY CollectorsAssumption
  <1>2. octets[i] % Wrap \in 0..(Wrap - 1) BY <1>1
  <1>3. octets[i] < Wrap => octets[i] % Wrap = octets[i] BY <1>1
  <1> QED BY <1>2, <1>3 DEF Counter

-----------------------------------------------------------------------------
(* The parts of the type invariant *)

HostOK ==
    /\ clock \in Boot..MaxClock
    /\ times \in Times
    /\ octets \in [Interfaces -> Nat]
    /\ table \in 0..MaxConns

CallOK ==
    /\ pc \in [Callers -> PcStates]
    /\ request \in [Callers -> Sections \cup {"all"}]
    /\ metrics \in [Callers -> SUBSET Sections]
    /\ failed \in [Callers -> SUBSET Sections]
    /\ failures \in 0..MaxFailures

TcpOK == size \in [Callers -> 0..MaxConns]

CpuOK ==
    /\ cpuMu \in Callers \cup {NoCaller}
    /\ last \in Times /\ reported \in Times
    /\ got \in [Callers -> Times]

NetOK ==
    /\ netMu \in Callers \cup {NoCaller}
    /\ lastCollect \in 0..MaxClock /\ now \in [Callers -> 0..MaxClock]
    /\ lastStats \in [Interfaces -> 0..(Wrap - 1)]
    /\ known \subseteq Interfaces
    /\ elapsed \in [Callers -> Nat]
    /\ adapters \in [Callers -> SUBSET Interfaces]
    /\ row \in [Callers -> SUBSET Rows]
    /\ counted \in [Interfaces -> Nat]
    /\ readAt \in [Interfaces -> 0..MaxClock]
    /\ reading \subseteq Interfaces /\ took \in 0..MaxClock
    /\ fresh \subseteq Interfaces /\ broken \subseteq Interfaces

LEMMA TypeParts == TypeOK <=> HostOK /\ CallOK /\ TcpOK /\ CpuOK /\ NetOK
  BY DEF TypeOK, HostOK, CallOK, TcpOK, CpuOK, NetOK

LEMMA TypePartsNext == TypeOK' <=> HostOK' /\ CallOK' /\ TcpOK' /\ CpuOK' /\ NetOK'
  BY DEF TypeOK, HostOK, CallOK, TcpOK, CpuOK, NetOK

LEMMA HostFrame == HostOK /\ UNCHANGED hostVars => HostOK'
  BY DEF HostOK, hostVars

LEMMA CallFrame == CallOK /\ UNCHANGED callVars => CallOK'
  BY DEF CallOK, callVars

LEMMA TcpFrame == TcpOK /\ UNCHANGED size => TcpOK'
  BY DEF TcpOK

LEMMA CpuFrame == CpuOK /\ UNCHANGED cpuVars => CpuOK'
  BY DEF CpuOK, cpuVars

LEMMA NetFrame == NetOK /\ UNCHANGED netVars => NetOK'
  BY DEF NetOK, netVars, baseVars, localVars, historyVars

(* A caller that goes on inside a section. *)
LEMMA GoOn == ASSUME CallOK, NEW c \in Callers, NEW s \in PcStates,
                     pc' = [pc EXCEPT ![c] = s],
                     UNCHANGED <<request, metrics, failed, failures>>
              PROVE  CallOK'
  BY DEF CallOK

(* A caller that is through with a section. *)
LEMMA Through ==
    ASSUME CallOK, NEW c \in Callers, NEW s \in Sections, Fill(c, s) \/ Skip(c, s)
    PROVE  CallOK' /\ pc'[c] \in Sections \cup {"done"} /\ request' = request
           /\ \A d \in Callers \ {c} : pc'[d] = pc[d]
  <1>1. Following(s) \in Sections \cup {"done"} BY FollowingType
  <1>2. (IF request[c] = "all" THEN Following(s) ELSE "done") \in Sections \cup {"done"}
    BY <1>1
  <1>3. CASE Fill(c, s)
    <2>1. metrics' \in [Callers -> SUBSET Sections] BY <1>3 DEF Fill, CallOK
    <2> QED BY <1>2, <1>3, <2>1 DEF Fill, CallOK, PcStates
  <1>4. CASE Skip(c, s)
    <2>1. failed' \in [Callers -> SUBSET Sections] BY <1>4 DEF Skip, CallOK
    <2>2. failures' \in 0..MaxFailures
      BY <1>4, CollectorsAssumption DEF Skip, CallOK
    <2> QED BY <1>2, <1>4, <2>1, <2>2 DEF Skip, CallOK, PcStates
  <1> QED BY <1>3, <1>4

-----------------------------------------------------------------------------
(* Types *)

LEMMA TypeInit == Init => TypeOK
  <1> SUFFICES ASSUME Init PROVE TypeOK OBVIOUS
  <1>1. Zero \in Times BY DEF Zero, Times
  <1>2. HostOK
    <2>1. times \in Times
      BY CollectorsAssumption DEF Init, Zero, Times
    <2> QED BY <2>1, CollectorsAssumption DEF Init, HostOK
  <1>3. CallOK BY CollectorsAssumption DEF Init, CallOK, PcStates
  <1>4. TcpOK BY CollectorsAssumption DEF Init, TcpOK
  <1>5. CpuOK BY <1>1 DEF Init, CpuOK
  <1>6. NetOK BY CollectorsAssumption DEF Init, NetOK
  <1> QED BY <1>2, <1>3, <1>4, <1>5, <1>6, TypeParts

LEMMA TickType ==
    ASSUME HostOK, NEW load \in Loads, Tick(load)
    PROVE  HostOK' /\ Since(times, times') /\ clock' = clock + 1
           /\ times'.kernel + times'.user = times.kernel + times.user + 1
           /\ \A i \in Interfaces : octets[i] <= octets'[i]
  <1> USE CollectorsAssumption
  <1>1. load.kind \in {"idle", "kernel", "user"} OBVIOUS
  <1>2. times \in Times BY DEF HostOK
  <1>3. CASE load.kind = "idle"
    <2>1. times' = [times EXCEPT !.idle = @ + 1, !.kernel = @ + 1] BY <1>3 DEF Tick
    <2>a. times' = [idle |-> times.idle + 1, kernel |-> times.kernel + 1, user |-> times.user]
      BY <1>2, <2>1 DEF Times
    <2>2. times' \in Times BY <1>2, <2>a DEF Times
    <2>3. Since(times, times') BY <1>2, <2>1 DEF Times, Since
    <2>4. times'.kernel + times'.user = times.kernel + times.user + 1
      BY <1>2, <2>1 DEF Times
    <2> QED BY <2>2, <2>3, <2>4 DEF Tick, HostOK
  <1>4. CASE load.kind = "kernel"
    <2>1. times' = [times EXCEPT !.kernel = @ + 1] BY <1>4 DEF Tick
    <2>2. times' \in Times BY <1>2, <2>1 DEF Times
    <2>3. Since(times, times') BY <1>2, <2>1 DEF Times, Since
    <2>4. times'.kernel + times'.user = times.kernel + times.user + 1
      BY <1>2, <2>1 DEF Times
    <2> QED BY <2>2, <2>3, <2>4 DEF Tick, HostOK
  <1>5. CASE load.kind = "user"
    <2>1. times' = [times EXCEPT !.user = @ + 1] BY <1>5 DEF Tick
    <2>2. times' \in Times BY <1>2, <2>1 DEF Times
    <2>3. Since(times, times') BY <1>2, <2>1 DEF Times, Since
    <2>4. times'.kernel + times'.user = times.kernel + times.user + 1
      BY <1>2, <2>1 DEF Times
    <2> QED BY <2>2, <2>3, <2>4 DEF Tick, HostOK
  <1> QED BY <1>1, <1>3, <1>4, <1>5

LEMMA BeginType == ASSUME CallOK, NEW c \in Callers, NEW r \in Requests, Begin(c, r)
                   PROVE  CallOK'
  <1>1. r \in Sections \cup {"all"} BY CollectorsAssumption
  <1>2. (IF r = "all" THEN "tcp" ELSE r) \in PcStates BY <1>1 DEF PcStates, Sections
  <1> QED BY <1>1, <1>2 DEF Begin, CallOK

LEMMA TcpType ==
    ASSUME HostOK, CallOK, TcpOK, NEW c \in Callers, TcpStep(c)
    PROVE  CallOK' /\ TcpOK'
  <1>0. 0 \in 0..MaxConns BY CollectorsAssumption
  <1>1. CASE TcpSize(c)
    <2>1. "tcpFetch" \in PcStates BY DEF PcStates
    <2>2. CallOK' BY <1>1, <2>1, GoOn DEF TcpSize
    <2> QED BY <1>1, <2>2 DEF TcpSize, TcpOK, HostOK
  <1>2. CASE TcpFetch(c) \/ TcpNoTable(c) \/ TcpPanics(c)
    <2>1. "tcp" \in Sections BY DEF Sections
    <2>2. Fill(c, "tcp") \/ Skip(c, "tcp") BY <1>2 DEF TcpFetch, TcpNoTable, TcpPanics
    <2>3. CallOK' BY <2>1, <2>2, Through
    <2> QED BY <1>0, <1>2, <2>3 DEF TcpFetch, TcpNoTable, TcpPanics, TcpOK
  <1> QED BY <1>1, <1>2 DEF TcpStep

(* The differences of the next report, to a baseline that was read before. *)
LEMMA DeltasSince ==
    ASSUME CpuOK, NEW c \in Callers, Since(last, got[c])
    PROVE  /\ Deltas(c) = [idle |-> got[c].idle - last.idle,
                           kernel |-> got[c].kernel - last.kernel,
                           user |-> got[c].user - last.user]
           /\ Deltas(c) \in Times
  <1>1. last \in Times /\ got[c] \in Times BY DEF CpuOK
  <1>2. Deltas(c) = [idle |-> got[c].idle - last.idle,
                     kernel |-> got[c].kernel - last.kernel,
                     user |-> got[c].user - last.user]
    BY <1>1 DEF Deltas, Minus, Since, Times
  <1>3. /\ got[c].idle - last.idle \in Nat
        /\ got[c].kernel - last.kernel \in Nat
        /\ got[c].user - last.user \in Nat
    BY <1>1 DEF Since, Times
  <1> QED BY <1>2, <1>3 DEF Times

LEMMA CpuType ==
    ASSUME HostOK, CallOK, CpuOK, CpuInv, NEW c \in Callers, CpuStep(c)
    PROVE  CallOK' /\ CpuOK'
  <1>0. Zero \in Times BY DEF Zero, Times
  <1>s. "cpu" \in Sections BY DEF Sections
  <1>1. CASE CpuRead(c)
    <2>1. "cpuUpdate" \in PcStates BY DEF PcStates
    <2>2. CallOK' BY <1>1, <2>1, GoOn DEF CpuRead
    <2> QED BY <1>1, <2>2 DEF CpuRead, CpuOK, HostOK
  <1>2. CASE CpuUpdate(c)
    <2>1. CallOK' BY <1>2, <1>s, Through DEF CpuUpdate
    <2>2. Deltas(c) \in Times BY <1>2, DeltasSince DEF CpuUpdate, CpuInv
    <2>3. reported \in Times BY DEF CpuOK
    <2>4. reported' = [idle |-> reported.idle + Deltas(c).idle,
                       kernel |-> reported.kernel + Deltas(c).kernel,
                       user |-> reported.user + Deltas(c).user]
      BY <1>2 DEF CpuUpdate, Zero
    <2>5. reported' \in Times BY <2>2, <2>3, <2>4 DEF Times
    <2> QED BY <1>0, <1>2, <2>1, <2>5 DEF CpuUpdate, CpuOK
  <1>3. CASE CpuFails(c)
    <2>1. CallOK' BY <1>3, <1>s, Through DEF CpuFails
    <2> QED BY <1>0, <1>3, <2>1 DEF CpuFails, CpuOK
  <1> QED BY <1>1, <1>2, <1>3 DEF CpuStep

LEMMA ElapsedType == ASSUME HostOK, NetOK PROVE Elapsed \in Nat
  BY CollectorsAssumption DEF HostOK, NetOK, Elapsed

(* The end of a collection. *)
LEMMA NetDoneType ==
    ASSUME NetOK, NEW c \in Callers, NetDone(c)
    PROVE  /\ now' \in [Callers -> 0..MaxClock] /\ elapsed' \in [Callers -> Nat]
           /\ adapters' \in [Callers -> SUBSET Interfaces]
           /\ row' \in [Callers -> SUBSET Rows]
           /\ reading' \subseteq Interfaces
  BY CollectorsAssumption DEF NetDone, NetOK

LEMMA NetType ==
    ASSUME HostOK, CallOK, NetOK, IntervalInv, NEW c \in Callers, NetStep(c)
    PROVE  CallOK' /\ NetOK'
  <1>s. "network" \in Sections BY DEF Sections
  <1>c. clock \in 0..MaxClock BY CollectorsAssumption DEF HostOK
  <1>1. ASSUME NEW up \in SUBSET Interfaces, NetList(c, up) PROVE CallOK' /\ NetOK'
    <2>1. "netRead" \in PcStates BY DEF PcStates
    <2>2. CallOK' BY <1>1, <2>1, GoOn DEF NetList
    <2> QED BY <1>1, <1>c, <2>2, ElapsedType DEF NetList, NetOK, baseVars
  <1>2. CASE NetListFails(c)
    <2>1. CallOK' BY <1>2, <1>s, Through DEF NetListFails
    <2> QED BY <1>2, <2>1, NetFrame DEF NetListFails
  <1>3. ASSUME NEW i \in Interfaces, NetRead(c, i) PROVE CallOK' /\ NetOK'
    <2>1. CallOK' BY <1>3, CallFrame DEF NetRead
    <2>2. Counter(i) \in 0..(Wrap - 1) BY CounterType DEF HostOK
    <2>3. [adapter |-> i, octets |-> Counter(i), at |-> clock] \in Rows
      BY <1>c, <2>2 DEF Rows
    <2>4. row' \in [Callers -> SUBSET Rows] BY <1>3, <2>3 DEF NetRead, NetOK
    <2> QED BY <1>3, <2>1, <2>4 DEF NetRead, NetOK, baseVars, historyVars
  <1>4. ASSUME NEW i \in Interfaces, NetReadFails(c, i) PROVE CallOK' /\ NetOK'
    <2>1. CallOK' BY <1>4, CallFrame DEF NetReadFails
    <2> QED BY <1>4, <2>1 DEF NetReadFails, NetOK, baseVars, historyVars
  <1>5. ASSUME NEW r \in row[c], NetStore(c, r) PROVE CallOK' /\ NetOK'
    <2>1. CallOK' BY <1>5, CallFrame DEF NetStore
    <2>2. r \in Rows BY DEF NetOK
    <2>3. r.adapter \in Interfaces /\ r.octets \in 0..(Wrap - 1) /\ r.at \in 0..MaxClock
      BY <2>2 DEF Rows
    <2>4. lastStats[r.adapter] \in 0..(Wrap - 1) BY <2>3 DEF NetOK
    <2>5. Minus(r.octets, lastStats[r.adapter]) \in Nat
      BY <2>3, <2>4, CollectorsAssumption DEF Minus
    <2>6. counted[r.adapter] + Minus(r.octets, lastStats[r.adapter]) \in Nat
      BY <2>3, <2>5 DEF NetOK
    <2>7. r.octets \in Nat BY <2>3, CollectorsAssumption
    <2>8. counted' \in [Interfaces -> Nat] BY <1>5, <2>6, <2>7 DEF NetStore, NetOK
    <2>9. lastStats' \in [Interfaces -> 0..(Wrap - 1)] BY <1>5, <2>3 DEF NetStore, NetOK
    <2>10. readAt' \in [Interfaces -> 0..MaxClock] BY <1>5, <2>3 DEF NetStore, NetOK
    <2>11. row' \in [Callers -> SUBSET Rows] BY <1>5 DEF NetStore, NetOK
    <2> QED BY <1>5, <2>1, <2>3, <2>8, <2>9, <2>10, <2>11 DEF NetStore, NetOK
  <1>6. CASE NetUpdate(c)
    <2>1. CallOK' BY <1>6, <1>s, Through DEF NetUpdate
    <2>2. now[c] <= clock BY <1>6 DEF NetUpdate, IntervalInv, UnderWay
    <2>3. now[c] \in 0..MaxClock BY DEF NetOK
    <2>4. took' = clock - now[c] /\ took' \in 0..MaxClock
      BY <1>6, <1>c, <2>2, <2>3, CollectorsAssumption DEF NetUpdate
    <2> QED BY <1>6, <2>1, <2>3, <2>4, NetDoneType DEF NetUpdate, NetOK
  <1>7. CASE NetPanics(c)
    <2>1. CallOK' BY <1>7, <1>s, Through DEF NetPanics
    <2> QED BY <1>7, <2>1, NetDoneType DEF NetPanics, NetOK, baseVars
  <1> QED BY <1>1, <1>2, <1>3, <1>4, <1>5, <1>6, <1>7 DEF NetStep, getNetworkAdapters

LEMMA SnapshotType ==
    ASSUME CallOK, NEW c \in Callers, SnapshotStep(c)
    PROVE  CallOK'
  <1>1. PICK s \in {"memory", "disk", "process"} : Fill(c, s) \/ Skip(c, s)
    BY DEF SnapshotStep, MemoryCollect, DiskCollect, ProcessCollect, Snapshot
  <1>2. s \in Sections BY DEF Sections
  <1> QED BY <1>1, <1>2, Through

(* What a step of each kind leaves alone. *)
LEMMA StepFrames ==
    ASSUME NEW c \in Callers
    PROVE  /\ TcpStep(c) => UNCHANGED <<hostVars, cpuVars, netVars>>
           /\ CpuStep(c) => UNCHANGED <<hostVars, size, netVars>>
           /\ NetStep(c) => UNCHANGED <<hostVars, size, cpuVars>>
           /\ SnapshotStep(c) => UNCHANGED <<hostVars, size, cpuVars, netVars>>
           /\ \A r \in Requests :
                 Begin(c, r) => UNCHANGED <<hostVars, failures, size, cpuVars, netVars>>
           /\ \A load \in Loads :
                 Tick(load) => UNCHANGED <<table, callVars, size, cpuVars, netVars>>
           /\ \A n \in 0..MaxConns : ConnectionsChange(n) =>
                 UNCHANGED <<clock, times, octets, callVars, size, cpuVars, netVars>>
  <1>1. TcpStep(c) => UNCHANGED <<hostVars, cpuVars, netVars>>
    BY DEF TcpStep, TcpSize, TcpFetch, TcpNoTable, TcpPanics
  <1>2. CpuStep(c) => UNCHANGED <<hostVars, size, netVars>>
    BY DEF CpuStep, CpuRead, CpuUpdate, CpuFails
  <1>3. NetStep(c) => UNCHANGED <<hostVars, size, cpuVars>>
    BY DEF NetStep, NetList, NetListFails, NetRead, NetReadFails, NetStore, NetUpdate,
           NetPanics
  <1>4. SnapshotStep(c) => UNCHANGED <<hostVars, size, cpuVars, netVars>>
    BY DEF SnapshotStep, MemoryCollect, DiskCollect, ProcessCollect, Snapshot
  <1>5. \A r \in Requests :
           Begin(c, r) => UNCHANGED <<hostVars, failures, size, cpuVars, netVars>>
    BY DEF Begin
  <1>6. \A load \in Loads :
           Tick(load) => UNCHANGED <<table, callVars, size, cpuVars, netVars>>
    BY DEF Tick
  <1>7. \A n \in 0..MaxConns : ConnectionsChange(n) =>
           UNCHANGED <<clock, times, octets, callVars, size, cpuVars, netVars>>
    BY DEF ConnectionsChange
  <1> QED BY <1>1, <1>2, <1>3, <1>4, <1>5, <1>6, <1>7

(* A step of the host that is not a tick changes the connections only. *)
LEMMA HostCases ==
    HostStep => (\E load \in Loads : Tick(load))
                \/ (UNCHANGED <<clock, times, octets>> /\ table' \in 0..MaxConns)
  BY DEF HostStep, ConnectionsChange

LEMMA HostQuiet == HostStep => UNCHANGED <<callVars, size, cpuVars, netVars>>
  BY DEF HostStep, Tick, ConnectionsChange

LEMMA TypeNext == TypeOK /\ CpuInv /\ IntervalInv /\ [Next]_vars => TypeOK'
  <1> SUFFICES ASSUME TypeOK, CpuInv, IntervalInv, [Next]_vars PROVE TypeOK' OBVIOUS
  <1>0. HostOK /\ CallOK /\ TcpOK /\ CpuOK /\ NetOK BY TypeParts
  <1>1. CASE HostStep
    <2>1. HostOK'
      <3>1. ASSUME NEW load \in Loads, Tick(load) PROVE HostOK'
        BY <1>0, <3>1, TickType
      <3>2. CASE UNCHANGED <<clock, times, octets>> /\ table' \in 0..MaxConns
        BY <1>0, <3>2 DEF HostOK
      <3> QED BY <1>1, <3>1, <3>2, HostCases
    <2> QED BY <1>0, <1>1, <2>1, HostQuiet, CallFrame, TcpFrame, CpuFrame, NetFrame,
               TypePartsNext
  <1>2. ASSUME NEW c \in Callers, TcpStep(c) PROVE TypeOK'
    BY <1>0, <1>2, TcpType, StepFrames, HostFrame, CpuFrame, NetFrame, TypePartsNext
  <1>3. ASSUME NEW c \in Callers, CpuStep(c) PROVE TypeOK'
    BY <1>0, <1>3, CpuType, StepFrames, HostFrame, TcpFrame, NetFrame, TypePartsNext
  <1>4. ASSUME NEW c \in Callers, NetStep(c) PROVE TypeOK'
    BY <1>0, <1>4, NetType, StepFrames, HostFrame, TcpFrame, CpuFrame, TypePartsNext
  <1>5. ASSUME NEW c \in Callers, SnapshotStep(c) PROVE TypeOK'
    BY <1>0, <1>5, SnapshotType, StepFrames, HostFrame, TcpFrame, CpuFrame, NetFrame,
       TypePartsNext
  <1>6. ASSUME NEW c \in Callers, NEW r \in Requests, Begin(c, r) PROVE TypeOK'
    BY <1>0, <1>6, BeginType, StepFrames, HostFrame, TcpFrame, CpuFrame, NetFrame,
       TypePartsNext
  <1>7. CASE UNCHANGED vars
    BY <1>0, <1>7, HostFrame, CallFrame, TcpFrame, CpuFrame, NetFrame, TypePartsNext DEF vars
  <1> QED BY <1>1, <1>2, <1>3, <1>4, <1>5, <1>6, <1>7 DEF Next, CallerStep

-----------------------------------------------------------------------------
(* The mutexes *)

(* A step that moves one caller, neither to nor from a critical section. *)
LEMMA LockMove ==
    ASSUME LockInv, NEW c \in Callers, UNCHANGED <<cpuMu, netMu>>,
           pc[c] \notin {"cpuUpdate", "netRead"}, pc'[c] \notin {"cpuUpdate", "netRead"},
           \A d \in Callers \ {c} : pc'[d] = pc[d]
    PROVE  LockInv'
  BY DEF LockInv

LEMMA LockNext == TypeOK /\ LockInv /\ [Next]_vars => LockInv'
  <1> SUFFICES ASSUME TypeOK, LockInv, [Next]_vars PROVE LockInv' OBVIOUS
  <1>0. CallOK BY TypeParts
  <1>s. {"tcp", "cpu", "network"} \subseteq Sections BY DEF Sections
  <1>t. Sections \cup {"done"} \subseteq PcStates \ {"idle", "cpuUpdate", "netRead"}
    BY DEF Sections, PcStates
  <1>n. NoCaller \notin Callers BY CollectorsAssumption
  <1>1. CASE HostStep \/ UNCHANGED vars
    <2>1. UNCHANGED <<pc, cpuMu, netMu>>
      BY <1>1, HostQuiet DEF vars, callVars, cpuVars, netVars
    <2> QED BY <2>1 DEF LockInv
  <1>2. ASSUME NEW c \in Callers, TcpStep(c) PROVE LockInv'
    <2>1. UNCHANGED <<cpuMu, netMu>> BY <1>2, StepFrames DEF cpuVars, netVars
    <2>2. CASE TcpSize(c)
      <3>1. pc[c] = "tcp" /\ pc'[c] = "tcpFetch" /\ \A d \in Callers \ {c} : pc'[d] = pc[d]
        BY <1>0, <2>2 DEF TcpSize, CallOK
      <3> QED BY <2>1, <3>1, LockMove
    <2>3. CASE TcpFetch(c) \/ TcpNoTable(c) \/ TcpPanics(c)
      <3>1. Fill(c, "tcp") \/ Skip(c, "tcp") BY <2>3 DEF TcpFetch, TcpNoTable, TcpPanics
      <3>2. pc[c] \in {"tcp", "tcpFetch"} BY <2>3 DEF TcpFetch, TcpNoTable, TcpPanics
      <3>3. pc'[c] \in Sections \cup {"done"} /\ \A d \in Callers \ {c} : pc'[d] = pc[d]
        BY <1>0, <1>s, <3>1, Through
      <3> QED BY <1>t, <2>1, <3>2, <3>3, LockMove
    <2> QED BY <1>2, <2>2, <2>3 DEF TcpStep
  <1>3. ASSUME NEW c \in Callers, CpuStep(c) PROVE LockInv'
    <2>1. UNCHANGED netMu BY <1>3, StepFrames DEF netVars
    <2>2. CASE CpuRead(c)
      <3>1. pc' = [pc EXCEPT ![c] = "cpuUpdate"] /\ pc[c] = "cpu" /\ cpuMu' = c
            /\ cpuMu = NoCaller
        BY <2>2 DEF CpuRead
      <3> QED BY <1>0, <1>n, <2>1, <3>1 DEF LockInv, CallOK
    <2>3. CASE CpuUpdate(c) \/ CpuFails(c)
      <3>1. Fill(c, "cpu") \/ Skip(c, "cpu") BY <2>3 DEF CpuUpdate, CpuFails
      <3>2. pc[c] = "cpuUpdate" /\ cpuMu' = NoCaller BY <2>3 DEF CpuUpdate, CpuFails
      <3>3. pc'[c] \in Sections \cup {"done"} /\ \A d \in Callers \ {c} : pc'[d] = pc[d]
        BY <1>0, <1>s, <3>1, Through
      <3> QED BY <1>n, <1>t, <2>1, <3>2, <3>3 DEF LockInv
    <2> QED BY <1>3, <2>2, <2>3 DEF CpuStep
  <1>4. ASSUME NEW c \in Callers, NetStep(c) PROVE LockInv'
    <2>1. UNCHANGED cpuMu BY <1>4, StepFrames DEF cpuVars
    <2>2. ASSUME NEW up \in SUBSET Interfaces, NetList(c, up) PROVE LockInv'
      <3>1. pc' = [pc EXCEPT ![c] = "netRead"] /\ pc[c] = "network" /\ netMu' = c
            /\ netMu = NoCaller
        BY <2>2 DEF NetList
      <3> QED BY <1>0, <1>n, <2>1, <3>1 DEF LockInv, CallOK
    <2>3. CASE NetListFails(c)
      <3>1. pc[c] = "network" /\ UNCHANGED netMu BY <2>3 DEF NetListFails, netVars
      <3>2. pc'[c] \in Sections \cup {"done"} /\ \A d \in Callers \ {c} : pc'[d] = pc[d]
        BY <1>0, <1>s, <2>3, Through DEF NetListFails
      <3> QED BY <1>t, <2>1, <3>1, <3>2, LockMove
    <2>4. ASSUME NEW i \in Interfaces, NetRead(c, i) \/ NetReadFails(c, i) PROVE LockInv'
      BY <2>1, <2>4 DEF NetRead, NetReadFails, LockInv, callVars
    <2>6. ASSUME NEW r \in row[c], NetStore(c, r) PROVE LockInv'
      BY <2>1, <2>6 DEF NetStore, LockInv, callVars
    <2>5. CASE NetUpdate(c) \/ NetPanics(c)
      <3>1. Fill(c, "network") \/ Skip(c, "network") BY <2>5 DEF NetUpdate, NetPanics
      <3>2. pc[c] = "netRead" /\ netMu' = NoCaller BY <2>5 DEF NetUpdate, NetPanics
      <3>3. pc'[c] \in Sections \cup {"done"} /\ \A d \in Callers \ {c} : pc'[d] = pc[d]
        BY <1>0, <1>s, <3>1, Through
      <3> QED BY <1>n, <1>t, <2>1, <3>2, <3>3 DEF LockInv
    <2> QED BY <1>4, <2>2, <2>3, <2>4, <2>5, <2>6 DEF NetStep, getNetworkAdapters
  <1>5. ASSUME NEW c \in Callers, SnapshotStep(c) PROVE LockInv'
    <2>1. UNCHANGED <<cpuMu, netMu>> BY <1>5, StepFrames DEF cpuVars, netVars
    <2>2. PICK s \in Sections : s \in {"memory", "disk", "process"} /\ pc[c] = s
                                /\ (Fill(c, s) \/ Skip(c, s))
      BY <1>5 DEF SnapshotStep, MemoryCollect, DiskCollect, ProcessCollect, Snapshot, Sections
    <2>3. pc'[c] \in Sections \cup {"done"} /\ \A d \in Callers \ {c} : pc'[d] = pc[d]
      BY <1>0, <2>2, Through
    <2> QED BY <1>t, <2>1, <2>2, <2>3, LockMove
  <1>6. ASSUME NEW c \in Callers, NEW r \in Requests, Begin(c, r) PROVE LockInv'
    <2>1. UNCHANGED <<cpuMu, netMu>> BY <1>6, StepFrames DEF cpuVars, netVars
    <2>2. r \in Sections \cup {"all"} BY CollectorsAssumption
    <2>3. pc[c] \in {"idle", "done"} /\ pc'[c] \in Sections
          /\ \A d \in Callers \ {c} : pc'[d] = pc[d]
      BY <1>0, <1>6, <1>s, <2>2 DEF Begin, CallOK
    <2> QED BY <1>t, <2>1, <2>3, LockMove
  <1> QED BY <1>1, <1>2, <1>3, <1>4, <1>5, <1>6 DEF Next, CallerStep

(* One caller at most is in a critical section. *)
LEMMA OneHolder ==
    ASSUME LockInv, NEW c \in Callers, NEW d \in Callers
    PROVE  /\ pc[c] = "cpuUpdate" /\ pc[d] = "cpuUpdate" => c = d
           /\ pc[c] = "netRead" /\ pc[d] = "netRead" => c = d
  BY DEF LockInv

(* Who is in a critical section after a step that leaves its mutex alone    *)
(* was there before, and the other way round.                               *)
LEMMA SameHolder ==
    ASSUME LockInv, LockInv', NEW c \in Callers
    PROVE  /\ UNCHANGED cpuMu => (pc'[c] = "cpuUpdate" <=> pc[c] = "cpuUpdate")
           /\ UNCHANGED netMu => (pc'[c] = "netRead" <=> pc[c] = "netRead")
  BY DEF LockInv

-----------------------------------------------------------------------------
(* The CPU baseline *)

LEMMA SinceTransitive ==
    ASSUME NEW r \in Times, NEW s \in Times, NEW t \in Times, Since(r, s), Since(s, t)
    PROVE  Since(r, t)
  BY DEF Since, Times

LEMMA SinceReflexive == ASSUME NEW s \in Times PROVE Since(s, s)
  BY DEF Since, Times

LEMMA CpuFrameInv ==
    ASSUME CpuInv, LockInv, LockInv', UNCHANGED <<clock, times, cpuVars>>
    PROVE  CpuInv'
  BY SameHolder DEF CpuInv, Since, cpuVars

LEMMA CpuInvNext == TypeOK /\ LockInv /\ CpuInv /\ [Next]_vars => CpuInv'
  <1> SUFFICES ASSUME TypeOK, LockInv, CpuInv, [Next]_vars PROVE CpuInv' OBVIOUS
  <1>0. HostOK /\ CallOK /\ CpuOK BY TypeParts
  <1>l. LockInv' BY LockNext
  <1>t. times \in Times /\ last \in Times /\ \A c \in Callers : got[c] \in Times
    BY <1>0 DEF HostOK, CpuOK
  <1>1. ASSUME NEW load \in Loads, Tick(load) PROVE CpuInv'
    <2>1. /\ Since(times, times') /\ clock' = clock + 1
          /\ times'.kernel + times'.user = times.kernel + times.user + 1
          /\ times' \in Times
      BY <1>0, <1>1, TickType DEF HostOK
    <2>2. UNCHANGED <<reported, last, got, cpuMu>> BY <1>1 DEF Tick, cpuVars
    <2>3. Since(last', times') BY <1>t, <2>1, <2>2, SinceTransitive DEF CpuInv
    <2>4. ASSUME NEW c \in Callers, pc'[c] = "cpuUpdate"
          PROVE  Since(last', got'[c]) /\ Since(got'[c], times')
      <3>1. Since(last, got[c]) /\ Since(got[c], times)
        BY <1>l, <2>2, <2>4, SameHolder DEF CpuInv
      <3>2. Since(got[c], times') BY <1>t, <2>1, <3>1, SinceTransitive
      <3> QED BY <2>2, <3>1, <3>2
    <2> QED BY <2>1, <2>2, <2>3, <2>4 DEF CpuInv
  <1>2. CASE UNCHANGED <<clock, times, cpuVars>> BY <1>l, <1>2, CpuFrameInv
  <1>3. ASSUME NEW c \in Callers, CpuRead(c) PROVE CpuInv'
    <2>1. /\ got' = [got EXCEPT ![c] = times] /\ UNCHANGED <<clock, times, last, reported>>
          /\ cpuMu' = c
      BY <1>3 DEF CpuRead, hostVars
    <2>2. \A d \in Callers : pc'[d] = "cpuUpdate" => d = c BY <1>l, <2>1 DEF LockInv
    <2>3. got'[c] = times BY <1>0, <2>1 DEF CpuOK
    <2>4. Since(times, times) BY <1>t, SinceReflexive
    <2>5. Since(last', times') BY <2>1 DEF CpuInv
    <2>6. \A d \in Callers : pc'[d] = "cpuUpdate" =>
             Since(last', got'[d]) /\ Since(got'[d], times')
      BY <2>1, <2>2, <2>3, <2>4, <2>5
    <2> QED BY <2>1, <2>5, <2>6 DEF CpuInv
  <1>4. ASSUME NEW c \in Callers, CpuUpdate(c) PROVE CpuInv'
    <2>1. /\ pc[c] = "cpuUpdate" /\ last' = got[c] /\ cpuMu' = NoCaller
          /\ UNCHANGED <<clock, times>>
      BY <1>4 DEF CpuUpdate, hostVars
    <2>2. Since(last, got[c]) /\ Since(got[c], times) BY <2>1 DEF CpuInv
    <2>3. Deltas(c) = [idle |-> got[c].idle - last.idle,
                       kernel |-> got[c].kernel - last.kernel,
                       user |-> got[c].user - last.user]
      BY <1>0, <2>2, DeltasSince
    <2>4. reported' = [idle |-> last.idle + Deltas(c).idle,
                       kernel |-> last.kernel + Deltas(c).kernel,
                       user |-> last.user + Deltas(c).user]
      BY <1>4 DEF CpuUpdate, Zero, CpuInv
    <2>5. got[c] = [idle |-> got[c].idle, kernel |-> got[c].kernel, user |-> got[c].user]
      BY <1>t DEF Times
    <2>6. reported' = got[c] BY <1>t, <2>3, <2>4, <2>5 DEF Times
    <2>7. \A d \in Callers : pc'[d] # "cpuUpdate"
      BY <1>l, <2>1, CollectorsAssumption DEF LockInv
    <2>8. Since(last', times') BY <2>1, <2>2
    <2> QED BY <2>1, <2>6, <2>7, <2>8 DEF CpuInv
  <1>5. ASSUME NEW c \in Callers, CpuFails(c) PROVE CpuInv'
    <2>1. UNCHANGED <<clock, times, last, reported>> /\ cpuMu' = NoCaller
      BY <1>5 DEF CpuFails, hostVars
    <2>2. \A d \in Callers : pc'[d] # "cpuUpdate"
      BY <1>l, <2>1, CollectorsAssumption DEF LockInv
    <2>3. Since(last', times') BY <2>1 DEF CpuInv
    <2> QED BY <2>1, <2>2, <2>3 DEF CpuInv
  <1>6. CASE HostStep
    <2>1. CASE UNCHANGED <<clock, times, octets>>
      BY <1>2, <1>6, <2>1, HostQuiet DEF HostStep
    <2> QED BY <1>1, <1>6, <2>1, HostCases
  <1>7. ASSUME NEW c \in Callers, CpuStep(c) PROVE CpuInv'
    BY <1>3, <1>4, <1>5, <1>7 DEF CpuStep
  <1>8. ASSUME NEW c \in Callers, TcpStep(c) \/ NetStep(c) \/ SnapshotStep(c) PROVE CpuInv'
    BY <1>2, <1>8, StepFrames DEF hostVars
  <1>9. ASSUME NEW c \in Callers, NEW r \in Requests, Begin(c, r) PROVE CpuInv'
    BY <1>2, <1>9, StepFrames DEF hostVars
  <1>10. CASE UNCHANGED vars BY <1>2, <1>10 DEF vars, hostVars
  <1> QED BY <1>6, <1>7, <1>8, <1>9, <1>10 DEF Next, CallerStep

-----------------------------------------------------------------------------
(* The network baseline *)

(* A step that stores no row and takes none. *)
LEMMA NetFrameInv ==
    ASSUME NetInv, LockInv, LockInv', UNCHANGED <<octets, known, counted, lastStats>>,
           \/ UNCHANGED <<netMu, row>>
           \/ \E c \in Callers : row' = [row EXCEPT ![c] = {}] /\ row \in [Callers -> SUBSET Rows]
                                 /\ pc[c] = "netRead"
    PROVE  NetInv'
  <1>1. ASSUME NEW d \in Callers, NEW r \in row'[d] PROVE r \in row[d] /\ pc'[d] = "netRead"
    <2>1. CASE UNCHANGED <<netMu, row>>
      BY <1>1, <2>1, SameHolder DEF NetInv
    <2>2. ASSUME NEW c \in Callers, row' = [row EXCEPT ![c] = {}], pc[c] = "netRead",
                 row \in [Callers -> SUBSET Rows]
          PROVE  r \in row[d] /\ pc'[d] = "netRead"
      <3>1. d # c /\ r \in row[d] BY <1>1, <2>2
      <3>2. pc[d] = "netRead" BY <3>1 DEF NetInv
      <3> QED BY <2>2, <3>1, <3>2, OneHolder
    <2> QED BY <2>1, <2>2
  <1> QED BY <1>1 DEF NetInv

LEMMA NetInvNext == TypeOK /\ LockInv /\ NetInv /\ [Next]_vars => NetInv'
  <1> SUFFICES ASSUME TypeOK, LockInv, NetInv, [Next]_vars PROVE NetInv' OBVIOUS
  <1>0. HostOK /\ NetOK BY TypeParts
  <1>l. LockInv' BY LockNext
  <1>t. /\ Wrap \in Nat /\ known \subseteq Interfaces
        /\ \A i \in Interfaces : octets[i] \in Nat /\ lastStats[i] \in Nat
        /\ \A c \in Callers : \A r \in row[c] : r.adapter \in Interfaces /\ r.octets \in Nat
    BY <1>0, CollectorsAssumption DEF HostOK, NetOK, Rows
  <1>1. ASSUME NEW load \in Loads, Tick(load) PROVE NetInv'
    <2>1. \A i \in Interfaces : octets[i] <= octets'[i] /\ octets'[i] \in Nat
      BY <1>0, <1>1, TickType DEF HostOK
    <2>2. UNCHANGED <<pc, known, counted, lastStats, row>>
      BY <1>1 DEF Tick, callVars, netVars, baseVars, localVars, historyVars
    <2>3. \A i \in known' : octets'[i] < Wrap =>
             counted'[i] = lastStats'[i] /\ lastStats'[i] <= octets'[i]
      BY <1>t, <2>1, <2>2 DEF NetInv
    <2>4. ASSUME NEW c \in Callers, NEW r \in row'[c]
          PROVE  /\ pc'[c] = "netRead"
                 /\ octets'[r.adapter] < Wrap =>
                       /\ r.octets <= octets'[r.adapter]
                       /\ r.adapter \in known' => lastStats'[r.adapter] <= r.octets
      BY <1>t, <2>1, <2>2, <2>4 DEF NetInv
    <2> QED BY <2>3, <2>4 DEF NetInv
  <1>2. CASE UNCHANGED <<octets, netVars>>
    BY <1>l, <1>2, NetFrameInv DEF netVars, baseVars, localVars, historyVars
  <1>3. ASSUME NEW c \in Callers, NEW i \in Interfaces, NetRead(c, i) PROVE NetInv'
    <2>1. /\ row' = [row EXCEPT ![c] = {[adapter |-> i, octets |-> Counter(i), at |-> clock]}]
          /\ pc[c] = "netRead" /\ UNCHANGED <<pc, octets, known, counted, lastStats>>
      BY <1>3 DEF NetRead, hostVars, callVars, baseVars, historyVars
    <2>2. octets[i] < Wrap => Counter(i) = octets[i] BY <1>0, CounterType DEF HostOK
    <2>3. ASSUME NEW d \in Callers, NEW r \in row'[d]
          PROVE  /\ pc'[d] = "netRead"
                 /\ octets'[r.adapter] < Wrap =>
                       /\ r.octets <= octets'[r.adapter]
                       /\ r.adapter \in known' => lastStats'[r.adapter] <= r.octets
      <3>1. CASE d = c
        <4>1. r.adapter = i /\ r.octets = Counter(i) BY <1>0, <2>1, <2>3, <3>1 DEF NetOK
        <4> QED BY <1>t, <2>1, <2>2, <3>1, <4>1 DEF NetInv
      <3>2. CASE d # c
        <4>1. r \in row[d] BY <1>0, <2>1, <2>3, <3>2 DEF NetOK
        <4> QED BY <2>1, <4>1 DEF NetInv
      <3> QED BY <3>1, <3>2
    <2> QED BY <2>1, <2>3 DEF NetInv
  <1>4. ASSUME NEW c \in Callers, NEW q \in row[c], NetStore(c, q) PROVE NetInv'
    <2> DEFINE i == q.adapter
    <2>1. /\ lastStats' = [lastStats EXCEPT ![i] = q.octets]
          /\ known' = known \cup {i} /\ UNCHANGED <<pc, octets>> /\ pc[c] = "netRead"
          /\ row' = [row EXCEPT ![c] = {}]
          /\ counted' = [counted EXCEPT ![i] = IF i \in known
                            THEN counted[i] + Minus(q.octets, lastStats[i]) ELSE q.octets]
      BY <1>4 DEF NetStore, hostVars, callVars
    <2>i. i \in Interfaces /\ q.octets \in Nat BY <1>t
    <2>2. lastStats'[i] = q.octets BY <1>0, <2>1, <2>i DEF NetOK
    <2>3. counted'[i] = IF i \in known THEN counted[i] + Minus(q.octets, lastStats[i])
                        ELSE q.octets
      BY <1>0, <2>1, <2>i DEF NetOK
    <2>4. \A j \in Interfaces \ {i} : lastStats'[j] = lastStats[j] /\ counted'[j] = counted[j]
      BY <1>0, <2>1 DEF NetOK
    <2>5. octets[i] < Wrap => q.octets <= octets[i] /\ (i \in known => lastStats[i] <= q.octets)
      BY <1>4 DEF NetInv
    <2>6. octets[i] < Wrap => counted'[i] = q.octets
      BY <1>t, <2>i, <2>3, <2>5 DEF NetInv, Minus
    <2>7. ASSUME NEW j \in known', octets'[j] < Wrap
          PROVE  counted'[j] = lastStats'[j] /\ lastStats'[j] <= octets'[j]
      <3>1. CASE j = i BY <2>1, <2>2, <2>5, <2>6, <2>7, <3>1
      <3>2. CASE j # i BY <1>t, <2>1, <2>4, <2>7, <3>2 DEF NetInv
      <3> QED BY <3>1, <3>2
    <2>8. ASSUME NEW d \in Callers PROVE row'[d] = {}
      <3>1. CASE d = c BY <1>0, <2>1, <3>1 DEF NetOK
      <3>2. CASE d # c
        <4>1. pc[d] # "netRead" BY <2>1, <3>2, OneHolder
        <4>2. row[d] = {} BY <4>1 DEF NetInv
        <4> QED BY <1>0, <2>1, <3>2, <4>2 DEF NetOK
      <3> QED BY <3>1, <3>2
    <2> QED BY <2>7, <2>8 DEF NetInv
  <1>5. ASSUME NEW c \in Callers, NetUpdate(c) \/ NetPanics(c) PROVE NetInv'
    <2>1. pc[c] = "netRead" /\ row' = [row EXCEPT ![c] = {}]
          /\ UNCHANGED <<octets, known, counted, lastStats>>
      BY <1>5 DEF NetUpdate, NetPanics, NetDone, hostVars, baseVars
    <2> QED BY <1>0, <1>l, <2>1, NetFrameInv DEF NetOK
  <1>6. ASSUME NEW c \in Callers, NetStep(c) PROVE NetInv'
    <2>1. CASE NetListFails(c) BY <1>2, <2>1 DEF NetListFails, hostVars
    <2>2. ASSUME NEW up \in SUBSET Interfaces, NetList(c, up) PROVE NetInv'
      <3>1. UNCHANGED <<octets, known, counted, lastStats, row>> /\ netMu' = c /\ netMu = NoCaller
        BY <2>2 DEF NetList, hostVars, baseVars
      <3>2. \A d \in Callers : row[d] = {}
        BY <3>1, CollectorsAssumption DEF NetInv, LockInv
      <3> QED BY <3>1, <3>2 DEF NetInv
    <2>3. ASSUME NEW i \in Interfaces, NetReadFails(c, i) PROVE NetInv'
      BY <1>l, <2>3, NetFrameInv DEF NetReadFails, hostVars, baseVars, historyVars
    <2> QED BY <1>3, <1>4, <1>5, <1>6, <2>1, <2>2, <2>3 DEF NetStep, getNetworkAdapters
  <1>7. CASE HostStep
    <2>1. CASE UNCHANGED <<clock, times, octets>> BY <1>2, <1>7, <2>1, HostQuiet
    <2> QED BY <1>1, <1>7, <2>1, HostCases
  <1>8. ASSUME NEW c \in Callers, TcpStep(c) \/ CpuStep(c) \/ SnapshotStep(c) PROVE NetInv'
    BY <1>2, <1>8, StepFrames DEF hostVars
  <1>9. ASSUME NEW c \in Callers, NEW r \in Requests, Begin(c, r) PROVE NetInv'
    BY <1>2, <1>9, StepFrames DEF hostVars
  <1>10. CASE UNCHANGED vars BY <1>2, <1>10 DEF vars, hostVars
  <1> QED BY <1>6, <1>7, <1>8, <1>9, <1>10 DEF Next, CallerStep

-----------------------------------------------------------------------------
(* The intervals of the rates *)

(* What IntervalInv compares are numbers. *)
LEMMA IntervalTypes ==
    ASSUME TypeOK
    PROVE  /\ clock \in Nat /\ lastCollect \in Nat /\ took \in Nat
           /\ fresh \subseteq Interfaces /\ broken \subseteq Interfaces
           /\ reading \subseteq Interfaces
           /\ \A i \in Interfaces : readAt[i] \in Nat
           /\ \A c \in Callers : now[c] \in Nat
           /\ \A c \in Callers : \A r \in row[c] : r.adapter \in Interfaces /\ r.at \in Nat
  <1>0. HostOK /\ NetOK BY TypeParts
  <1>1. clock \in Nat BY <1>0, CollectorsAssumption DEF HostOK
  <1>2. \A c \in Callers : \A r \in row[c] : r \in Rows BY <1>0 DEF NetOK
  <1>3. \A r \in Rows : r.adapter \in Interfaces /\ r.at \in 0..MaxClock BY DEF Rows
  <1>4. 0..MaxClock \subseteq Nat BY CollectorsAssumption
  <1> QED BY <1>0, <1>1, <1>2, <1>3, <1>4 DEF NetOK

(* A step that at most lets time pass and takes an adapter off the list. *)
LEMMA IntervalFrame ==
    ASSUME TypeOK, IntervalInv, LockInv, LockInv', clock' \in Nat, clock <= clock',
           UNCHANGED <<netMu, baseVars, now, elapsed, row, historyVars>>
    PROVE  IntervalInv'
  <1>0. UNCHANGED <<lastCollect, known, readAt, reading, took, fresh, broken>>
    BY DEF baseVars, historyVars
  <1>1. BaselineInv' BY <1>0, IntervalTypes DEF IntervalInv, BaselineInv
  <1>2. ASSUME NEW c \in Callers, pc'[c] = "netRead" PROVE UnderWay(c)'
    <2>1. UnderWay(c) BY <1>2, SameHolder DEF IntervalInv
    <2>2. lastCollect' <= now'[c] /\ now'[c] <= clock' BY <1>0, <2>1, IntervalTypes DEF UnderWay
    <2>3. elapsed'[c] = IF now'[c] - lastCollect' < 1 THEN Second ELSE now'[c] - lastCollect'
      BY <1>0, <2>1 DEF UnderWay
    <2>4. \A r \in row'[c] : now'[c] <= r.at /\ r.at <= clock'
      BY <2>1, IntervalTypes DEF UnderWay
    <2>5. \A i \in reading' : i \in known' /\ now'[c] <= readAt'[i] /\ readAt'[i] <= clock'
      BY <1>0, <2>1, IntervalTypes DEF UnderWay
    <2> QED BY <2>2, <2>3, <2>4, <2>5 DEF UnderWay
  <1> QED BY <1>1, <1>2 DEF IntervalInv

LEMMA IntervalNext ==
    TypeOK /\ LockInv /\ NetInv /\ IntervalInv /\ [Next]_vars => IntervalInv'
  <1> SUFFICES ASSUME TypeOK, LockInv, NetInv, IntervalInv, [Next]_vars PROVE IntervalInv'
    OBVIOUS
  <1>0. HostOK /\ NetOK BY TypeParts
  <1>l. LockInv' BY LockNext
  <1>n. NoCaller \notin Callers BY CollectorsAssumption
  <1>t. clock \in Nat BY IntervalTypes
  <1>1. CASE UNCHANGED <<clock, netVars>>
    BY <1>l, <1>t, <1>1, IntervalFrame DEF netVars, localVars
  <1>2. ASSUME NEW c \in Callers, NEW up \in SUBSET Interfaces, NetList(c, up)
        PROVE  IntervalInv'
    <2>1. /\ now' = [now EXCEPT ![c] = clock] /\ elapsed' = [elapsed EXCEPT ![c] = Elapsed]
          /\ netMu = NoCaller /\ netMu' = c /\ reading' = {}
          /\ UNCHANGED <<clock, lastCollect, known, row, readAt, took, fresh, broken>>
      BY <1>2 DEF NetList, hostVars, baseVars
    <2>2. BaselineInv' BY <2>1 DEF IntervalInv, BaselineInv
    <2>3. now'[c] = clock /\ elapsed'[c] = Elapsed BY <1>0, <2>1 DEF NetOK
    <2>4. row'[c] = {} BY <1>n, <2>1 DEF NetInv, LockInv
    <2>5. UnderWay(c)'
      BY <1>t, <2>1, <2>3, <2>4 DEF UnderWay, IntervalInv, BaselineInv, Elapsed
    <2>6. \A d \in Callers : pc'[d] = "netRead" => d = c BY <1>l, <2>1 DEF LockInv
    <2> QED BY <2>2, <2>5, <2>6 DEF IntervalInv
  <1>3. ASSUME NEW c \in Callers, NEW i \in Interfaces, NetRead(c, i) PROVE IntervalInv'
    <2>1. /\ row' = [row EXCEPT ![c] = {[adapter |-> i, octets |-> Counter(i), at |-> clock]}]
          /\ pc[c] = "netRead"
          /\ UNCHANGED <<pc, clock, lastCollect, known, now, elapsed, readAt, reading, took,
                         fresh, broken>>
      BY <1>3 DEF NetRead, hostVars, callVars, baseVars, historyVars
    <2>2. BaselineInv' BY <2>1 DEF IntervalInv, BaselineInv
    <2>3. UnderWay(c) BY <2>1 DEF IntervalInv
    <2>4. row'[c] = {[adapter |-> i, octets |-> Counter(i), at |-> clock]}
      BY <1>0, <2>1 DEF NetOK
    <2>5. \A r \in row'[c] : r.at = clock BY <2>4
    <2>6. UnderWay(c)' BY <1>t, <2>1, <2>3, <2>5 DEF UnderWay
    <2>7. \A d \in Callers : pc'[d] = "netRead" => d = c BY <2>1, OneHolder
    <2> QED BY <2>2, <2>6, <2>7 DEF IntervalInv
  <1>4. ASSUME NEW c \in Callers, NEW r \in row[c], NetStore(c, r) PROVE IntervalInv'
    <2> DEFINE i == r.adapter
    <2>1. /\ readAt' = [readAt EXCEPT ![i] = r.at] /\ known' = known \cup {i}
          /\ reading' = reading \cup {i} /\ fresh' = fresh \ {i} /\ broken' = broken \ {i}
          /\ row' = [row EXCEPT ![c] = {}] /\ pc[c] = "netRead"
          /\ UNCHANGED <<pc, clock, lastCollect, now, elapsed, took>>
      BY <1>4 DEF NetStore, hostVars, callVars
    <2>2. UnderWay(c) BY <2>1 DEF IntervalInv
    <2>3. i \in Interfaces /\ now[c] <= r.at /\ r.at <= clock
      BY <2>2, IntervalTypes DEF UnderWay
    <2>4. readAt'[i] = r.at /\ \A j \in Interfaces \ {i} : readAt'[j] = readAt[j]
      BY <1>0, <2>1, <2>3 DEF NetOK
    <2>5. BaselineInv' BY <2>1, <2>4, IntervalTypes DEF IntervalInv, BaselineInv
    <2>6. row'[c] = {} BY <1>0, <2>1 DEF NetOK
    <2>7. \A j \in reading' : j \in known' /\ now'[c] <= readAt'[j] /\ readAt'[j] <= clock'
      BY <2>1, <2>2, <2>3, <2>4, IntervalTypes DEF UnderWay
    <2>8. UnderWay(c)' BY <2>1, <2>2, <2>6, <2>7 DEF UnderWay
    <2>9. \A d \in Callers : pc'[d] = "netRead" => d = c BY <2>1, OneHolder
    <2> QED BY <2>5, <2>8, <2>9 DEF IntervalInv
  <1>5. ASSUME NEW c \in Callers, NetUpdate(c) \/ NetPanics(c) PROVE IntervalInv'
    <2>1. pc[c] = "netRead" /\ netMu' = NoCaller /\ UNCHANGED <<clock, known, readAt>>
      BY <1>5 DEF NetUpdate, NetPanics, hostVars, baseVars
    <2>2. \A d \in Callers : pc'[d] # "netRead" BY <1>l, <1>n, <2>1 DEF LockInv
    <2>3. UnderWay(c) BY <2>1 DEF IntervalInv
    <2>4. CASE NetUpdate(c)
      <3>1. lastCollect' = now[c] /\ took' = clock - now[c] /\ fresh' = reading /\ broken' = {}
        BY <2>4 DEF NetUpdate
      <3>2. BaselineInv' BY <2>1, <2>3, <3>1, IntervalTypes DEF BaselineInv, UnderWay
      <3> QED BY <2>2, <3>2 DEF IntervalInv
    <2>5. CASE NetPanics(c)
      <3>1. UNCHANGED <<lastCollect, took, fresh>> /\ broken' = broken \cup reading
        BY <2>5 DEF NetPanics, baseVars
      <3>2. BaselineInv'
        BY <2>1, <2>3, <3>1, IntervalTypes DEF IntervalInv, BaselineInv, UnderWay
      <3> QED BY <2>2, <3>2 DEF IntervalInv
    <2> QED BY <1>5, <2>4, <2>5
  <1>6. ASSUME NEW c \in Callers, NetStep(c) PROVE IntervalInv'
    <2>1. UNCHANGED clock BY <1>6, StepFrames DEF hostVars
    <2>2. CASE NetListFails(c) BY <1>1, <2>1, <2>2 DEF NetListFails
    <2>3. ASSUME NEW i \in Interfaces, NetReadFails(c, i) PROVE IntervalInv'
      BY <1>l, <1>t, <2>1, <2>3, IntervalFrame DEF NetReadFails
    <2> QED BY <1>2, <1>3, <1>4, <1>5, <1>6, <2>2, <2>3 DEF NetStep, getNetworkAdapters
  <1>7. CASE HostStep
    <2>1. UNCHANGED netVars BY <1>7, HostQuiet
    <2>2. ASSUME NEW load \in Loads, Tick(load) PROVE IntervalInv'
      <3>1. clock' \in Nat /\ clock <= clock' BY <1>t, <2>2 DEF Tick
      <3> QED BY <1>l, <2>1, <3>1, IntervalFrame DEF netVars, localVars
    <2> QED BY <1>1, <1>7, <2>1, <2>2, HostCases
  <1>8. ASSUME NEW c \in Callers, TcpStep(c) \/ CpuStep(c) \/ SnapshotStep(c)
        PROVE  IntervalInv'
    BY <1>1, <1>8, StepFrames DEF hostVars
  <1>9. ASSUME NEW c \in Callers, NEW r \in Requests, Begin(c, r) PROVE IntervalInv'
    BY <1>1, <1>9, StepFrames DEF hostVars
  <1>10. CASE UNCHANGED vars BY <1>1, <1>10 DEF vars, hostVars
  <1> QED BY <1>6, <1>7, <1>8, <1>9, <1>10 DEF Next, CallerStep

-----------------------------------------------------------------------------
(* The sections of a sample *)

(* What SectionInv says of one caller. *)
Accounted(c) ==
    request[c] = "all" /\ pc[c] # "idle" =>
        /\ metrics[c] \cup failed[c] = Before(pc[c])
        /\ metrics[c] \cap failed[c] = {}

LEMMA SectionThrough ==
    ASSUME CallOK, SectionInv, NEW c \in Callers, NEW s \in Sections,
           Fill(c, s) \/ Skip(c, s), pc[c] # "idle", Before(pc[c]) = Before(s)
    PROVE  SectionInv'
  <1>1. /\ \A d \in Callers \ {c} : /\ pc'[d] = pc[d] /\ metrics'[d] = metrics[d]
                                    /\ failed'[d] = failed[d]
        /\ request' = request
        /\ pc'[c] = IF request[c] = "all" THEN Following(s) ELSE "done"
        /\ \/ metrics'[c] = metrics[c] \cup {s} /\ failed'[c] = failed[c]
           \/ metrics'[c] = metrics[c] /\ failed'[c] = failed[c] \cup {s}
    BY DEF Fill, Skip, CallOK
  <1>2. Before(Following(s)) = Before(s) \cup {s} /\ s \notin Before(s) BY FollowingBefore
  <1>3. Accounted(c)'
    <2>1. CASE request[c] = "all"
      <3>1. metrics[c] \cup failed[c] = Before(s) /\ metrics[c] \cap failed[c] = {}
        BY <2>1 DEF SectionInv
      <3>2. Before(pc'[c]) = Before(s) \cup {s} BY <1>1, <1>2, <2>1
      <3>3. s \notin metrics[c] /\ s \notin failed[c] BY <1>2, <3>1
      <3>4. metrics'[c] \cup failed'[c] = Before(pc'[c]) BY <1>1, <3>1, <3>2
      <3>5. metrics'[c] \cap failed'[c] = {} BY <1>1, <3>1, <3>3
      <3> QED BY <3>4, <3>5 DEF Accounted, Before
    <2>2. CASE request[c] # "all" BY <1>1, <2>2 DEF Accounted
    <2> QED BY <2>1, <2>2
  <1>4. \A d \in Callers \ {c} : Accounted(d)'
    BY <1>1 DEF SectionInv, Accounted, Before
  <1>5. \A d \in Callers : Accounted(d)' BY <1>3, <1>4
  <1> QED BY <1>5 DEF SectionInv, Accounted, Before

LEMMA SectionGoOn ==
    ASSUME CallOK, SectionInv, NEW c \in Callers, NEW s \in PcStates,
           pc' = [pc EXCEPT ![c] = s], UNCHANGED <<request, metrics, failed>>,
           pc[c] # "idle", Before(pc[c]) = Before(s)
    PROVE  SectionInv'
  <1>1. pc'[c] = s /\ \A d \in Callers \ {c} : pc'[d] = pc[d] BY DEF CallOK
  <1>2. Before(pc'[c]) = Before(pc[c]) BY <1>1
  <1>3. \A d \in Callers : Accounted(d)' BY <1>1, <1>2 DEF SectionInv, Accounted, Before
  <1> QED BY <1>3 DEF SectionInv, Accounted, Before

LEMMA SectionNext == TypeOK /\ SectionInv /\ [Next]_vars => SectionInv'
  <1> SUFFICES ASSUME TypeOK, SectionInv, [Next]_vars PROVE SectionInv' OBVIOUS
  <1>0. CallOK BY TypeParts
  <1>s. {"tcp", "cpu", "network"} \subseteq Sections BY DEF Sections
  <1>p. {"tcpFetch", "cpuUpdate", "netRead"} \subseteq PcStates BY DEF PcStates
  <1>1. CASE UNCHANGED callVars BY <1>1 DEF SectionInv, callVars, Before
  <1>2. ASSUME NEW c \in Callers, TcpStep(c) PROVE SectionInv'
    <2>b. Before("tcp") = {} /\ Before("tcpFetch") = {} BY DEF Before
    <2>1. CASE TcpSize(c) BY <1>0, <1>p, <2>1, <2>b, SectionGoOn DEF TcpSize
    <2>2. CASE TcpFetch(c) \/ TcpNoTable(c) \/ TcpPanics(c)
      <3>1. Fill(c, "tcp") \/ Skip(c, "tcp") BY <2>2 DEF TcpFetch, TcpNoTable, TcpPanics
      <3>2. pc[c] \in {"tcp", "tcpFetch"} BY <2>2 DEF TcpFetch, TcpNoTable, TcpPanics
      <3> QED BY <1>0, <1>s, <2>b, <3>1, <3>2, SectionThrough
    <2> QED BY <1>2, <2>1, <2>2 DEF TcpStep
  <1>3. ASSUME NEW c \in Callers, CpuStep(c) PROVE SectionInv'
    <2>b. Before("cpu") = Before("cpuUpdate") BY DEF Before
    <2>1. CASE CpuRead(c) BY <1>0, <1>p, <2>1, <2>b, SectionGoOn DEF CpuRead
    <2>2. CASE CpuUpdate(c) \/ CpuFails(c)
      <3>1. (Fill(c, "cpu") \/ Skip(c, "cpu")) /\ pc[c] = "cpuUpdate"
        BY <2>2 DEF CpuUpdate, CpuFails
      <3> QED BY <1>0, <1>s, <2>b, <3>1, SectionThrough
    <2> QED BY <1>3, <2>1, <2>2 DEF CpuStep
  <1>4. ASSUME NEW c \in Callers, NetStep(c) PROVE SectionInv'
    <2>b. Before("network") = Before("netRead") BY DEF Before
    <2>1. ASSUME NEW up \in SUBSET Interfaces, NetList(c, up) PROVE SectionInv'
      BY <1>0, <1>p, <2>1, <2>b, SectionGoOn DEF NetList
    <2>2. CASE NetListFails(c) \/ NetUpdate(c) \/ NetPanics(c)
      <3>1. (Fill(c, "network") \/ Skip(c, "network")) /\ pc[c] \in {"network", "netRead"}
        BY <2>2 DEF NetListFails, NetUpdate, NetPanics
      <3> QED BY <1>0, <1>s, <2>b, <3>1, SectionThrough
    <2>3. ASSUME NEW i \in Interfaces, NetRead(c, i) \/ NetReadFails(c, i) PROVE SectionInv'
      BY <1>1, <2>3 DEF NetRead, NetReadFails
    <2>4. ASSUME NEW r \in row[c], NetStore(c, r) PROVE SectionInv'
      BY <1>1, <2>4 DEF NetStore
    <2> QED BY <1>4, <2>1, <2>2, <2>3, <2>4 DEF NetStep, getNetworkAdapters
  <1>5. ASSUME NEW c \in Callers, SnapshotStep(c) PROVE SectionInv'
    <2>1. PICK s \in Sections : s \in {"memory", "disk", "process"} /\ pc[c] = s
                                /\ (Fill(c, s) \/ Skip(c, s))
      BY <1>5 DEF SnapshotStep, MemoryCollect, DiskCollect, ProcessCollect, Snapshot, Sections
    <2>2. pc[c] # "idle" BY <2>1
    <2> QED BY <1>0, <2>1, <2>2, SectionThrough
  <1>6. ASSUME NEW c \in Callers, NEW r \in Requests, Begin(c, r) PROVE SectionInv'
    <2>1. /\ \A d \in Callers \ {c} : /\ pc'[d] = pc[d] /\ metrics'[d] = metrics[d]
                                      /\ failed'[d] = failed[d] /\ request'[d] = request[d]
          /\ request'[c] = r /\ metrics'[c] = {} /\ failed'[c] = {}
          /\ pc'[c] = IF r = "all" THEN "tcp" ELSE r
      BY <1>0, <1>6 DEF Begin, CallOK
    <2>2. Before("tcp") = {} BY DEF Before
    <2>3. r = "all" => Before(pc'[c]) = {} BY <2>1, <2>2
    <2>4. Accounted(c)' BY <2>1, <2>3 DEF Accounted, Before
    <2>5. \A d \in Callers \ {c} : Accounted(d)' BY <2>1 DEF SectionInv, Accounted, Before
    <2>6. \A d \in Callers : Accounted(d)' BY <2>4, <2>5
    <2> QED BY <2>6 DEF SectionInv, Accounted, Before
  <1>7. CASE HostStep BY <1>1, <1>7, HostQuiet
  <1>8. CASE UNCHANGED vars BY <1>1, <1>8 DEF vars
  <1> QED BY <1>2, <1>3, <1>4, <1>5, <1>6, <1>7, <1>8 DEF Next, CallerStep

-----------------------------------------------------------------------------
(* The inductive invariant *)

LEMMA IInvInit == Init => IInv
  <1> SUFFICES ASSUME Init PROVE IInv OBVIOUS
  <1>1. TypeOK BY TypeInit
  <1>2. LockInv BY CollectorsAssumption DEF Init, LockInv
  <1>3. CpuInv
    <2>1. times = [idle |-> 0, kernel |-> Boot, user |-> 0] /\ last = Zero /\ reported = Zero
          /\ clock = Boot /\ \A c \in Callers : pc[c] = "idle"
      BY DEF Init, Zero
    <2>2. Since(last, times) BY <2>1, CollectorsAssumption DEF Since, Zero
    <2>3. times.kernel + times.user = clock BY <2>1, CollectorsAssumption
    <2> QED BY <2>1, <2>2, <2>3 DEF CpuInv
  <1>4. NetInv /\ IntervalInv
    BY CollectorsAssumption DEF Init, NetInv, IntervalInv, BaselineInv
  <1>5. SectionInv BY DEF Init, SectionInv
  <1> QED BY <1>1, <1>2, <1>3, <1>4, <1>5 DEF IInv

LEMMA IInvNext == IInv /\ [Next]_vars => IInv'
  BY TypeNext, LockNext, CpuInvNext, NetInvNext, IntervalNext, SectionNext DEF IInv

(* The strengthening holds in every reachable state. *)
THEOREM IInvAlways == Spec => []IInv
  BY IInvInit, IInvNext, PTL DEF Spec

-----------------------------------------------------------------------------
(* Theorems *)

(* Every variable of the collectors and of the calls keeps its type; no      *)
(* difference to the CPU baseline is negative.                               *)
THEOREM Types == Spec => []TypeOK
  <1>1. IInv => TypeOK BY DEF IInv
  <1> QED BY <1>1, IInvAlways, PTL

(* The reports of CPUCollector.Collect add up to the baseline, for any       *)
(* number of callers, and the next one is a share of the time there was.     *)
THEOREM CpuTimeIsReportedOnce == Spec => []CpuTimeInOneReport
  <1>1. IInv => CpuTimeInOneReport
    <2> SUFFICES ASSUME IInv PROVE CpuTimeInOneReport OBVIOUS
    <2>0. CpuInv /\ CpuOK /\ HostOK BY TypeParts DEF IInv
    <2>1. ASSUME NEW c \in Callers, pc[c] = "cpuUpdate"
          PROVE  Deltas(c).idle <= Deltas(c).kernel /\ Deltas(c).kernel + Deltas(c).user <= clock
      <3>1. Since(last, got[c]) /\ Since(got[c], times) BY <2>0, <2>1 DEF CpuInv
      <3>2. last \in Times /\ got[c] \in Times /\ times \in Times
        BY <2>0 DEF CpuOK, HostOK
      <3>3. Deltas(c) = [idle |-> got[c].idle - last.idle,
                         kernel |-> got[c].kernel - last.kernel,
                         user |-> got[c].user - last.user]
        BY <2>0, <3>1, DeltasSince
      <3>4. got[c].idle - last.idle <= got[c].kernel - last.kernel
        BY <3>1 DEF Since
      <3>5. (got[c].kernel - last.kernel) + (got[c].user - last.user)
              <= times.kernel + times.user
        BY <3>1, <3>2 DEF Since, Times
      <3> QED BY <2>0, <3>3, <3>4, <3>5 DEF CpuInv
    <2> QED BY <2>0, <2>1 DEF CpuTimeInOneReport, CpuInv
  <1> QED BY <1>1, IInvAlways, PTL

(* The rates of NetworkCollector.Collect count each octet of an interface    *)
(* whose counter has not wrapped around once.                                *)
THEOREM TrafficIsCountedOnce == Spec => []EachOctetInOneRate
  <1>1. IInv => EachOctetInOneRate BY DEF IInv, NetInv, EachOctetInOneRate
  <1> QED BY <1>1, IInvAlways, PTL

(* The differences of NetworkCollector.Collect are divided by the time in    *)
(* which their traffic passed, or close to it, however long collections take, *)
(* for any number of callers and interfaces, and whatever breaks off.        *)
THEOREM IntervalsMatch == Spec => []IntervalIsOfTheTraffic
  <1>1. IInv => IntervalIsOfTheTraffic
    <2> SUFFICES ASSUME IInv, NEW c \in Callers, NEW r \in row[c]
                 PROVE  /\ elapsed[c] > 0
                        /\ r.adapter \in fresh \cup broken =>
                              elapsed[c] >= now[c] - readAt[r.adapter]
                        /\ r.adapter \in fresh =>
                              \/ elapsed[c] <= r.at - readAt[r.adapter] + took
                              \/ elapsed[c] = Second /\ now[c] = lastCollect
      BY DEF IntervalIsOfTheTraffic
    <2>1. pc[c] = "netRead" BY DEF IInv, NetInv
    <2>2. UnderWay(c) /\ BaselineInv BY <2>1 DEF IInv, IntervalInv
    <2>3. TypeOK BY DEF IInv
    <2>4. /\ now[c] \in Nat /\ lastCollect \in Nat /\ took \in Nat /\ r.at \in Nat
          /\ readAt[r.adapter] \in Nat
      BY <2>3, IntervalTypes
    <2>5. lastCollect <= now[c] /\ now[c] <= r.at BY <2>2 DEF UnderWay
    <2>6. CASE now[c] - lastCollect < 1
      <3>1. now[c] = lastCollect /\ elapsed[c] = Second BY <2>2, <2>4, <2>5, <2>6 DEF UnderWay
      <3>2. r.adapter \in fresh \cup broken => now[c] - readAt[r.adapter] <= 0
        BY <2>2, <2>4, <3>1 DEF BaselineInv
      <3> QED BY <2>4, <3>1, <3>2, CollectorsAssumption
    <2>7. CASE ~(now[c] - lastCollect < 1)
      <3>1. elapsed[c] = now[c] - lastCollect /\ elapsed[c] \in Nat /\ elapsed[c] > 0
        BY <2>2, <2>4, <2>7 DEF UnderWay
      <3>2. r.adapter \in fresh \cup broken => lastCollect <= readAt[r.adapter]
        BY <2>2 DEF BaselineInv
      <3>3. r.adapter \in fresh => readAt[r.adapter] <= lastCollect + took
        BY <2>2 DEF BaselineInv
      <3> QED BY <2>4, <2>5, <3>1, <3>2, <3>3
    <2> QED BY <2>6, <2>7
  <1> QED BY <1>1, IInvAlways, PTL

(* CollectAll leaves out a section only if the collector of that section     *)
(* failed in this call.                                                      *)
THEOREM FailuresStayApart == Spec => []SectionsStandAlone
  <1>1. IInv => SectionsStandAlone
    <2> SUFFICES ASSUME IInv, NEW c \in Callers, pc[c] = "done", request[c] = "all"
                 PROVE  metrics[c] = Sections \ failed[c]
      BY DEF SectionsStandAlone
    <2>1. metrics[c] \cup failed[c] = Sections /\ metrics[c] \cap failed[c] = {}
      BY DEF IInv, SectionInv, Before
    <2> QED BY <2>1
  <1> QED BY <1>1, IInvAlways, PTL

(* Who holds the mutex of a collector is inside it.                          *)
THEOREM NoMutexIsLeftLocked == Spec => []HolderIsInside
  <1>1. IInv => HolderIsInside
    <2> SUFFICES ASSUME IInv PROVE HolderIsInside OBVIOUS
    <2>1. LockInv /\ CpuOK /\ NetOK BY TypeParts DEF IInv
    <2> QED BY <2>1 DEF LockInv, CpuOK, NetOK, HolderIsInside
  <1> QED BY <1>1, IInvAlways, PTL
=============================================================================
