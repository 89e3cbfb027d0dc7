----------------------------- MODULE Collectors -----------------------------
(***************************************************************************)
(* The collectors of src/internal/collectors (collector.go, cpu.go,        *)
(* network.go, tcp.go, memory.go, disk.go, process.go) and the requests    *)
(* that read them.  Collection loops and GET /api/metrics go through       *)
(* CollectAll, section after section; GET /api/metrics/<section> calls one *)
(* collector.  All callers share the collectors: the CPU and the network   *)
(* collector keep a baseline under a mutex of their own and report the     *)
(* difference to it, the TCP collector reads a table in two calls, and the *)
(* others keep nothing.                                                    *)
(*                                                                         *)
(* The host moves on at any time: each tick counts as idle, kernel or user *)
(* time, adds traffic to some interfaces, and connections come and go.  A  *)
(* tick is a tenth of a second, the shortest interval the network          *)
(* collector takes as it is; a step takes none or more of them.            *)
(***************************************************************************)
EXTENDS Integers, FiniteSets

CONSTANTS
    Callers,      \* goroutines that collect: loops and request handlers
    Requests,     \* what they ask for: "all", or a section
    Interfaces,   \* network adapters of the host
    Second,       \* a second in ticks: 10 in the code
    Wrap,         \* values of an interface counter: 2^32 in the code
    Word,         \* values of uint64
    Loads,        \* what a tick of the host may be: CPU time and traffic
    Boot,         \* ticks the host has run before the program
    MaxClock,     \* bound: ticks since the host started
    MaxConns,     \* bound: TCP connections at a time
    MaxFailures,  \* bound: errors and panics
    NoCaller

Sections == {"tcp", "memory", "cpu", "disk", "network", "process"}

ASSUME CollectorsAssumption ==
    /\ Requests \subseteq Sections \cup {"all"}
    /\ Loads \subseteq [kind: {"idle", "kernel", "user"}, busy: SUBSET Interfaces]
    /\ Second \in Nat \ {0} /\ Wrap \in Nat \ {0} /\ Boot \in Nat \ {0} /\ MaxClock \in Nat
    /\ Boot <= MaxClock /\ Word \in Nat /\ Word >= Wrap /\ MaxConns \in Nat
    /\ MaxFailures \in Nat
    /\ NoCaller \notin Callers

VARIABLES
    clock,        \* ticks since the host started
    times,        \* GetSystemTimes: idle, kernel (idle included) and user ticks
    octets,       \* traffic of each interface; its counter shows octets % Wrap
    table,        \* number of TCP connections
    pc,           \* where each caller is
    request,      \* what it asked for
    metrics,      \* sections of its SystemMetrics that are filled
    failed,       \* history: sections whose collector failed in this call
    failures,     \* errors and panics so far
    size,         \* rows the buffer of the caller has room for
    cpuMu,        \* who holds CPUCollector.mu
    last,         \* CPUCollector.lastIdle, lastKernel, lastUser
    got,          \* the times the caller has read
    reported,     \* history: sum of the times in all CPU reports
    netMu,        \* who holds NetworkCollector.mu
    lastCollect,  \* NetworkCollector.lastCollect, 0 for the zero time.Time
    lastStats,    \* NetworkCollector.lastStats: the counter at the last reading
    known,        \* interfaces that are keys of lastStats
    now,          \* NetworkCollector.Collect: its time.Now()
    elapsed,      \* NetworkCollector.Collect: what it divides differences by
    adapters,     \* the adapters the caller has still to read
    row,          \* the row of GetIfEntry it has in hand, if any
    counted,      \* history: first reading of each interface and the sum of what
                  \* its rates counted since
    readAt,       \* history: when the last reading of each interface was taken
    reading,      \* history: interfaces the collection under way has read
    took,         \* history: how long the last finished collection took
    fresh,        \* history: interfaces it has read, and nobody since
    broken        \* history: interfaces read since, by one that broke off

hostVars == <<clock, times, octets, table>>
callVars == <<pc, request, metrics, failed, failures>>
cpuVars == <<cpuMu, last, got, reported>>
baseVars == <<lastCollect, lastStats, known>>
localVars == <<now, elapsed, adapters, row>>
historyVars == <<counted, readAt, reading, took, fresh, broken>>
netVars == <<netMu, baseVars, localVars, historyVars>>
vars == <<hostVars, callVars, size, cpuVars, netVars>>

Zero == [idle |-> 0, kernel |-> 0, user |-> 0]
PcStates == Sections \cup {"idle", "tcpFetch", "cpuUpdate", "netRead", "done"}

Init ==
    /\ clock = Boot
    /\ times = [Zero EXCEPT !.kernel = Boot]
    /\ octets = [i \in Interfaces |-> Boot]
    /\ table = 0
    /\ pc = [c \in Callers |-> "idle"]
    /\ request = [c \in Callers |-> "all"]
    /\ metrics = [c \in Callers |-> {}]
    /\ failed = [c \in Callers |-> {}]
    /\ failures = 0
    /\ size = [c \in Callers |-> 0]
    /\ cpuMu = NoCaller
    /\ last = Zero
    /\ got = [c \in Callers |-> Zero]
    /\ reported = Zero
    /\ netMu = NoCaller
    /\ lastCollect = 0
    /\ lastStats = [i \in Interfaces |-> 0]
    /\ known = {}
    /\ now = [c \in Callers |-> 0]
    /\ elapsed = [c \in Callers |-> 0]
    /\ adapters = [c \in Callers |-> {}]
    /\ row = [c \in Callers |-> {}]
    /\ counted = [i \in Interfaces |-> 0]
    /\ readAt = [i \in Interfaces |-> 0]
    /\ reading = {}
    /\ took = 0
    /\ fresh = {}
    /\ broken = {}

-----------------------------------------------------------------------------
(* The host *)

Tick(load) ==
    /\ clock < MaxClock
    /\ clock' = clock + 1
    /\ times' = CASE load.kind = "idle" -> [times EXCEPT !.idle = @ + 1, !.kernel = @ + 1]
                  [] load.kind = "kernel" -> [times EXCEPT !.kernel = @ + 1]
                  [] load.kind = "user" -> [times EXCEPT !.user = @ + 1]
    /\ octets' = [i \in Interfaces |-> IF i \in load.busy THEN octets[i] + 1 ELSE octets[i]]
    /\ UNCHANGED <<table, callVars, size, cpuVars, netVars>>

ConnectionsChange(n) ==
    /\ table' = n
    /\ UNCHANGED <<clock, times, octets, callVars, size, cpuVars, netVars>>

-----------------------------------------------------------------------------
(* CollectAll and the handlers *)

(* The section CollectAll turns to after s. *)
Following(s) ==
    CASE s = "tcp" -> "memory" [] s = "memory" -> "cpu" [] s = "cpu" -> "disk"
      [] s = "disk" -> "network" [] s = "network" -> "process" [] s = "process" -> "done"

Begin(c, r) ==
    /\ pc[c] \in {"idle", "done"}
    /\ request' = [request EXCEPT ![c] = r]
    /\ pc' = [pc EXCEPT ![c] = IF r = "all" THEN "tcp" ELSE r]
    /\ metrics' = [metrics EXCEPT ![c] = {}]
    /\ failed' = [failed EXCEPT ![c] = {}]
    /\ UNCHANGED <<hostVars, failures, size, cpuVars, netVars>>

(* The section is filled, and the caller goes on with the following one, or  *)
(* answers its request.                                                      *)
Fill(c, s) ==
    /\ metrics' = [metrics EXCEPT ![c] = @ \cup {s}]
    /\ pc' = [pc EXCEPT ![c] = IF request[c] = "all" THEN Following(s) ELSE "done"]
    /\ UNCHANGED <<request, failed, failures>>

(* Mutated form: one recover around all sections. *)
SkipAbandons(c, s) ==
    /\ failures < MaxFailures
    /\ failures' = failures + 1
    /\ failed' = [failed EXCEPT ![c] = @ \cup {s}]
    /\ pc' = [pc EXCEPT ![c] = "done"]
    /\ UNCHANGED <<request, metrics>>

(* Collect returned an error, or panicked and was recovered: CollectAll      *)
(* leaves the section out, a handler of one section answers with an error    *)
(* (net/http recovers a panic).                                              *)
Skip(c, s) ==
    /\ failures < MaxFailures
    /\ failures' = failures + 1
    /\ failed' = [failed EXCEPT ![c] = @ \cup {s}]
    /\ pc' = [pc EXCEPT ![c] = IF request[c] = "all" THEN Following(s) ELSE "done"]
    /\ UNCHANGED <<request, metrics>>

(* The collectors that keep nothing between calls: what they read of the      *)
(* host is theirs alone.                                                      *)
Snapshot(c, s) ==
    /\ pc[c] = s
    /\ Fill(c, s) \/ Skip(c, s)
    /\ UNCHANGED <<hostVars, size, cpuVars, netVars>>

(* MemoryCollector.Collect: a call that failed leaves its values at zero. *)
MemoryCollect(c) == Snapshot(c, "memory")

(* DiskCollector.Collect: a drive that gave an error is left out. *)
DiskCollect(c) == Snapshot(c, "disk")

(* ProcessCollector.Collect: a process that could not be opened is left out. *)
ProcessCollect(c) == Snapshot(c, "process")

-----------------------------------------------------------------------------
(* TCPCollector.Collect: GetTcpTable2 twice, for the size and for the rows *)

TcpSize(c) ==
    /\ pc[c] = "tcp"
    /\ size' = [size EXCEPT ![c] = table]
    /\ pc' = [pc EXCEPT ![c] = "tcpFetch"]
    /\ UNCHANGED <<hostVars, request, metrics, failed, failures, cpuVars, netVars>>

(* The table fits into the buffer, and its rows are parsed. *)
TcpFetch(c) ==
    /\ pc[c] = "tcpFetch"
    /\ table <= size[c]
    /\ size' = [size EXCEPT ![c] = 0]
    /\ Fill(c, "tcp")
    /\ UNCHANGED <<hostVars, cpuVars, netVars>>

(* The table has outgrown the buffer, or either call failed: no connections, *)
(* and the section is filled all the same.                                   *)
TcpNoTable(c) ==
    /\ pc[c] \in {"tcp", "tcpFetch"}
    /\ size' = [size EXCEPT ![c] = 0]
    /\ Fill(c, "tcp")
    /\ UNCHANGED <<hostVars, cpuVars, netVars>>

TcpPanics(c) ==
    /\ pc[c] \in {"tcp", "tcpFetch"}
    /\ size' = [size EXCEPT ![c] = 0]
    /\ Skip(c, "tcp")
    /\ UNCHANGED <<hostVars, cpuVars, netVars>>

-----------------------------------------------------------------------------
(* CPUCollector.Collect *)

(* uint64 subtraction *)
Minus(a, b) == IF a >= b THEN a - b ELSE Word + a - b

(* What the collector reports: the times since its baseline. *)
Deltas(c) == [idle |-> Minus(got[c].idle, last.idle),
              kernel |-> Minus(got[c].kernel, last.kernel),
              user |-> Minus(got[c].user, last.user)]

(* Mutated form: the times are read before the mutex is taken. *)
CpuReadUnlocked(c) ==
    /\ pc[c] = "cpu"
    /\ got' = [got EXCEPT ![c] = times]
    /\ pc' = [pc EXCEPT ![c] = "cpuUpdate"]
    /\ UNCHANGED <<hostVars, request, metrics, failed, failures, size, cpuMu, last, reported,
                   netVars>>

(* c.mu.Lock and GetSystemTimes *)
CpuRead(c) ==
    /\ pc[c] = "cpu"
    /\ cpuMu = NoCaller
    /\ cpuMu' = c
    /\ got' = [got EXCEPT ![c] = times]
    /\ pc' = [pc EXCEPT ![c] = "cpuUpdate"]
    /\ UNCHANGED <<hostVars, request, metrics, failed, failures, size, last, reported,
                   netVars>>

CpuUpdate(c) ==
    /\ pc[c] = "cpuUpdate"
    /\ reported' = [f \in DOMAIN Zero |-> reported[f] + Deltas(c)[f]]
    /\ last' = got[c]
    /\ got' = [got EXCEPT ![c] = Zero]
    /\ cpuMu' = NoCaller
    /\ Fill(c, "cpu")
    /\ UNCHANGED <<hostVars, size, netVars>>

(* GetSystemTimes failed, or something panicked: the deferred Unlock runs,   *)
(* the baseline stays.                                                       *)
CpuFails(c) ==
    /\ pc[c] = "cpuUpdate"
    /\ got' = [got EXCEPT ![c] = Zero]
    /\ cpuMu' = NoCaller
    /\ Skip(c, "cpu")
    /\ UNCHANGED <<hostVars, size, last, reported, netVars>>

-----------------------------------------------------------------------------
(* NetworkCollector.Collect *)

(* Mutated form: the counter is taken for one of 64 bits. *)
CounterWide(i) == octets[i]

(* The counter that GetIfEntry reads, of 32 bits. *)
Counter(i) == octets[i] % Wrap

(* GetAdaptersAddresses: the adapters that are up, whichever these are. *)
getNetworkAdapters == SUBSET Interfaces

(* Mutated form: two collections at one time have no time between them. *)
ElapsedUnclamped == clock - lastCollect

(* The interval of the rates: less than a tenth of a second, a tick, is taken *)
(* for a second.                                                              *)
Elapsed == IF clock - lastCollect < 1 THEN Second ELSE clock - lastCollect

(* Mutated form: the mutex is not taken. *)
NetListUnlocked(c, up) ==
    /\ pc[c] = "network"
    /\ now' = [now EXCEPT ![c] = clock]
    /\ elapsed' = [elapsed EXCEPT ![c] = Elapsed]
    /\ adapters' = [adapters EXCEPT ![c] = up]
    /\ reading' = {}
    /\ pc' = [pc EXCEPT ![c] = "netRead"]
    /\ UNCHANGED <<hostVars, request, metrics, failed, failures, size, cpuVars, netMu,
                   baseVars, row, counted, readAt, took, fresh, broken>>

(* c.mu.Lock, the list of adapters, and the interval of all their rates. *)
NetList(c, up) ==
    /\ pc[c] = "network"
    /\ netMu = NoCaller
    /\ netMu' = c
    /\ now' = [now EXCEPT ![c] = clock]
    /\ elapsed' = [elapsed EXCEPT ![c] = Elapsed]
    /\ adapters' = [adapters EXCEPT ![c] = up]
    /\ reading' = {}
    /\ pc' = [pc EXCEPT ![c] = "netRead"]
    /\ UNCHANGED <<hostVars, request, metrics, failed, failures, size, cpuVars,
                   baseVars, row, counted, readAt, took, fresh, broken>>

(* Mutated form: lastCollect is stamped whether or not there was a list. *)
NetListFailsStamped(c) ==
    /\ pc[c] = "network"
    /\ netMu = NoCaller
    /\ lastCollect' = clock
    /\ Fill(c, "network")
    /\ UNCHANGED <<hostVars, size, cpuVars, netMu, lastStats, known, localVars, historyVars>>

(* It failed, or 15000 bytes were too few: an empty list and no error. *)
NetListFails(c) ==
    /\ pc[c] = "network"
    /\ netMu = NoCaller
    /\ Fill(c, "network")
    /\ UNCHANGED <<hostVars, size, cpuVars, netVars>>

(* GetIfEntry: the row is as of now. *)
NetRead(c, i) ==
    /\ pc[c] = "netRead"
    /\ row[c] = {}
    /\ i \in adapters[c]
    /\ adapters' = [adapters EXCEPT ![c] = @ \ {i}]
    /\ row' = [row EXCEPT ![c] = {[adapter |-> i, octets |-> Counter(i), at |-> clock]}]
    /\ UNCHANGED <<hostVars, callVars, size, cpuVars, netMu, baseVars, now, elapsed,
                   historyVars>>

(* Mutated form: the row of a call that failed is taken for a reading. *)
NetReadFailsStored(c, i) ==
    /\ pc[c] = "netRead"
    /\ row[c] = {}
    /\ i \in adapters[c]
    /\ adapters' = [adapters EXCEPT ![c] = @ \ {i}]
    /\ row' = [row EXCEPT ![c] = {[adapter |-> i, octets |-> 0, at |-> clock]}]
    /\ UNCHANGED <<hostVars, callVars, size, cpuVars, netMu, baseVars, now, elapsed,
                   historyVars>>

(* GetIfEntry failed: the adapter is shown without counters. *)
NetReadFails(c, i) ==
    /\ pc[c] = "netRead"
    /\ row[c] = {}
    /\ i \in adapters[c]
    /\ adapters' = [adapters EXCEPT ![c] = @ \ {i}]
    /\ UNCHANGED <<hostVars, callVars, size, cpuVars, netMu, baseVars, now, elapsed, row,
                   historyVars>>

(* The counter is subtracted from the one before as uint64 (a wrapped counter *)
(* of 32 bits gives a huge difference) and divided by elapsed; the first      *)
(* reading gives no rate.                                                     *)
NetStore(c, r) ==
    /\ pc[c] = "netRead"
    /\ r \in row[c]
    /\ row' = [row EXCEPT ![c] = {}]
    /\ lastStats' = [lastStats EXCEPT ![r.adapter] = r.octets]
    /\ known' = known \cup {r.adapter}
    /\ counted' = [counted EXCEPT ![r.adapter] =
                      IF r.adapter \in known THEN @ + Minus(r.octets, lastStats[r.adapter])
                      ELSE r.octets]
    /\ readAt' = [readAt EXCEPT ![r.adapter] = r.at]
    /\ reading' = reading \cup {r.adapter}
    /\ fresh' = fresh \ {r.adapter}
    /\ broken' = broken \ {r.adapter}
    /\ UNCHANGED <<hostVars, callVars, size, cpuVars, netMu, lastCollect, now, elapsed,
                   adapters, took>>

(* What becomes of the variables of Collect when it returns. *)
NetDone(c) ==
    /\ now' = [now EXCEPT ![c] = 0]
    /\ elapsed' = [elapsed EXCEPT ![c] = 0]
    /\ adapters' = [adapters EXCEPT ![c] = {}]
    /\ row' = [row EXCEPT ![c] = {}]
    /\ reading' = {}

NetUpdate(c) ==
    /\ pc[c] = "netRead"
    /\ adapters[c] = {} /\ row[c] = {}
    /\ lastCollect' = now[c]
    /\ took' = clock - now[c]
    /\ fresh' = reading
    /\ broken' = {}
    /\ NetDone(c)
    /\ netMu' = NoCaller
    /\ Fill(c, "network")
    /\ UNCHANGED <<hostVars, size, cpuVars, lastStats, known, counted, readAt>>

(* Mutated form: Unlock is called at the end and not deferred. *)
NetPanicsLocked(c) ==
    /\ pc[c] = "netRead"
    /\ broken' = broken \cup reading
    /\ NetDone(c)
    /\ Skip(c, "network")
    /\ UNCHANGED <<hostVars, size, cpuVars, netMu, baseVars, counted, readAt, took, fresh>>

NetPanics(c) ==
    /\ pc[c] = "netRead"
    /\ broken' = broken \cup reading
    /\ NetDone(c)
    /\ netMu' = NoCaller
    /\ Skip(c, "network")
    /\ UNCHANGED <<hostVars, size, cpuVars, baseVars, counted, readAt, took, fresh>>

-----------------------------------------------------------------------------
TcpStep(c) == TcpSize(c) \/ TcpFetch(c) \/ TcpNoTable(c) \/ TcpPanics(c)
CpuStep(c) == CpuRead(c) \/ CpuUpdate(c) \/ CpuFails(c)
NetStep(c) ==
    \/ NetListFails(c) \/ NetUpdate(c) \/ NetPanics(c)
    \/ \E up \in getNetworkAdapters : NetList(c, up)
    \/ \E i \in Interfaces : NetRead(c, i) \/ NetReadFails(c, i)
    \/ \E r \in row[c] : NetStore(c, r)
SnapshotStep(c) == MemoryCollect(c) \/ DiskCollect(c) \/ ProcessCollect(c)
CallerStep(c) == TcpStep(c) \/ CpuStep(c) \/ NetStep(c) \/ SnapshotStep(c)

HostStep ==
    \/ \E load \in Loads : Tick(load)
    \/ \E n \in 0..MaxConns : ConnectionsChange(n)

Next ==
    \/ HostStep
    \/ \E c \in Callers : CallerStep(c) \/ \E r \in Requests : Begin(c, r)

Spec == Init /\ [][Next]_vars

-----------------------------------------------------------------------------
(* Properties *)

Times == [idle: Nat, kernel: Nat, user: Nat]
Rows == [adapter: Interfaces, octets: 0..(Wrap - 1), at: 0..MaxClock]

TypeOK ==
    /\ clock \in Boot..MaxClock
    /\ times \in Times /\ last \in Times /\ reported \in Times
    /\ got \in [Callers -> Times]
    /\ octets \in [Interfaces -> Nat]
    /\ table \in 0..MaxConns
    /\ pc \in [Callers -> PcStates]
    /\ request \in [Callers -> Sections \cup {"all"}]
    /\ metrics \in [Callers -> SUBSET Sections]
    /\ failed \in [Callers -> SUBSET Sections]
    /\ failures \in 0..MaxFailures
    /\ size \in [Callers -> 0..MaxConns]
    /\ cpuMu \in Callers \cup {NoCaller} /\ netMu \in Callers \cup {NoCaller}
    /\ lastCollect \in 0..MaxClock /\ now \in [Callers -> 0..MaxClock]
    /\ lastStats \in [Interfaces -> 0..(Wrap - 1)]
    /\ known \subseteq Interfaces
    /\ elapsed \in [Callers -> Nat]
    /\ adapters \in [Callers -> SUBSET Interfaces]
    /\ row \in [Callers -> SUBSET Rows]
    /\ counted \in [Interfaces -> Nat]
    /\ readAt \in [Interfaces -> 0..MaxClock]
    /\ reading \subseteq Interfaces /\ took \in 0..MaxClock
    /\ fresh \subseteq Interfaces /\ broken \subseteq Interfaces

(* CPU time is reported once, whoever asks: the reports of all callers       *)
(* together count each tick up to the baseline  exactly once (the first of  *)
(* them those since the host started, for NewCPUCollector drops its own      *)
(* reading), and no difference of a report to come is negative or more than  *)
(* there was.                                                                *)
CpuTimeInOneReport ==
    /\ reported = last
    /\ \A c \in Callers : pc[c] = "cpuUpdate" =>
          LET d == Deltas(c) IN
          /\ d.idle <= d.kernel
          /\ d.kernel + d.user <= clock

(* Traffic is counted once, whoever asks: as long as its counter has not    *)
(* wrapped around, the first reading of an interface and what its rates      *)
(* counted since make up its last reading, each octet in one of them.        *)
EachOctetInOneRate ==
    \A i \in known : octets[i] < Wrap => counted[i] = lastStats[i]

(* A difference is divided by the time in which its traffic passed, or close *)
(* to it.  Collect keeps one time for all interfaces, taken before it reads  *)
(* them, and it may break off between two of them; yet when it stores a row, *)
(*   - it divides by something;                                              *)
(*   - by no less than the time from the last reading of the interface to    *)
(*     the beginning of this collection, if the last collection that         *)
(*     finished has read it, or one that broke off since: a collection under *)
(*     way is all that can make a rate too high;                             *)
(*   - by no more than the time between the two readings and what the last   *)
(*     collection took, if that one has read it: only the clamp, for two     *)
(*     collections within a tick, makes a rate lower.                        *)
(* That an interface which the last collection missed gets a rate too high,  *)
(* and one that a broken-off collection has read a rate too low, is what the *)
(* code does.                                                                *)
IntervalIsOfTheTraffic ==
    \A c \in Callers : \A r \in row[c] :
        /\ elapsed[c] > 0
        /\ r.adapter \in fresh \cup broken => elapsed[c] >= now[c] - readAt[r.adapter]
        /\ r.adapter \in fresh =>
              \/ elapsed[c] <= r.at - readAt[r.adapter] + took
              \/ elapsed[c] = Second /\ now[c] = lastCollect

(* The sample of CollectAll has every section but those whose collectors     *)
(* failed in this call: an error or a panic in one leaves out no other.      *)
SectionsStandAlone ==
    \A c \in Callers : pc[c] = "done" /\ request[c] = "all" =>
        metrics[c] = Sections \ failed[c]

(* A collector that failed or panicked keeps no mutex from the callers that  *)
(* come after: who holds one is inside the collector, about to release it.   *)
HolderIsInside ==
    /\ cpuMu # NoCaller => pc[cpuMu] = "cpuUpdate"
    /\ netMu # NoCaller => pc[netMu] = "netRead"
=============================================================================
