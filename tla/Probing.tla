------------------------------- MODULE Probing -------------------------------
(***************************************************************************)
(* What a round of NetPathCollector (doProbe in netpath.go) and a request  *)
(* to TraceRouteCollector (Trace in traceroute.go) measure: per TTL some   *)
(* echo requests, and for each the next ICMP message that comes in before  *)
(* the deadline, whoever it answers.  Every call has a raw socket of its   *)
(* own, and each raw socket gets all the ICMP messages of the host.        *)
(*                                                                         *)
(* A call is made once, by a prober (doProbe, as many at a time as there   *)
(* are probes) or a tracer (Trace, one at a time under t.mu).  Latencies   *)
(* and the verdict on a hop are in module PathReport.                      *)
(***************************************************************************)
EXTENDS Integers, Sequences, FiniteSets

CONSTANTS
    Probers, Tracers,
    NoTracer,       \* t.mu is free
    Targets,
    Distance,       \* how many hops each target is away
    Stranger,       \* on no path: sends ICMP messages nobody here asked for
    NoAddress,      \* the empty string
    MaxHops, ProbesPerHop,
    MaxStrangers    \* bound: messages of strangers

Calls == Probers \cup Tracers

ASSUME CallsAssumption == Probers \cap Tracers = {} /\ NoTracer \notin Tracers
ASSUME DistanceAssumption == Distance \in [Targets -> Nat \ {0}]
ASSUME AddressAssumption ==
    /\ {Stranger, NoAddress} \cap (Targets \X Nat) = {}
    /\ Stranger # NoAddress
ASSUME SizeAssumption == /\ MaxHops \in Nat \ {0}
                         /\ ProbesPerHop \in Nat \ {0}
                         /\ MaxStrangers \in Nat

VARIABLES
    mu,         \* holder of t.mu
    pc,         \* where each call is
    target,     \* the target of each call
    ttl, seq,   \* the loop variables of doProbe or Trace, and of probeHop
    hopIP, received,   \* of the hop under way: hopIP, hop.PacketsRecv
    hops,       \* result.Hops
    completed,  \* result.Completed
    expired,    \* tracers whose context is done
    open,       \* calls whose socket is open
    inbox,      \* messages a socket has received and its call has not read
    network,    \* echo requests, or the answers to them, under way
    strangers,  \* messages of strangers so far
    crowded,    \* history: calls during which other calls had probes under way
    overtime    \* history: probes each tracer sent after its context was done

hopVars == <<ttl, seq, hopIP, received>>
resultVars == <<hops, completed>>
netVars == <<open, inbox, network, strangers, crowded>>
vars == <<mu, pc, target, hopVars, resultVars, expired, netVars, overtime>>

(* A router is the target it is on the way to, and how far it is away. *)
Addresses == (Targets \X Nat) \cup {Stranger}
TargetAddress(t) == <<t, Distance[t]>>

(* answer: an echo reply, or time exceeded, or unreachable *)
Messages == [from: Addresses, answer: BOOLEAN]
Echoes == [by: Calls, ttl: 1..MaxHops, seq: 0..(ProbesPerHop - 1)]
Hops == [ip: Addresses \cup {NoAddress}, received: 0..ProbesPerHop]

(* Who answers an echo request: the router at which the TTL ends, or the target. *)
Responder(t, n) == <<t, IF n < Distance[t] THEN n ELSE Distance[t]>>

States == {"idle", "lock", "lookup", "head", "send", "wait", "returned"}

Init ==
    /\ mu = NoTracer
    /\ pc = [m \in Calls |-> "idle"]
    /\ target \in [Calls -> Targets]
    /\ ttl = [m \in Calls |-> 1]
    /\ seq = [m \in Calls |-> 0]
    /\ hopIP = [m \in Calls |-> NoAddress]
    /\ received = [m \in Calls |-> 0]
    /\ hops = [m \in Calls |-> <<>>]
    /\ completed = [m \in Calls |-> FALSE]
    /\ expired = {}
    /\ open = {}
    /\ inbox = [m \in Calls |-> <<>>]
    /\ network = {}
    /\ strangers = 0
    /\ crowded = {}
    /\ overtime = [m \in Calls |-> 0]

-----------------------------------------------------------------------------
(* Opening the socket, and returning *)

(* icmp.ListenPacket.  Whoever has a socket, or left probes under way, is in *)
(* the company of the new one.                                               *)
Listen(m) ==
    /\ open' = open \cup {m}
    /\ crowded' = IF open # {} \/ network # {} THEN crowded \cup open \cup {m} ELSE crowded
    /\ UNCHANGED <<inbox, network, strangers>>

(* The deferred conn.Close and t.mu.Unlock. *)
Return(m) ==
    /\ pc' = [pc EXCEPT ![m] = "returned"]
    /\ mu' = IF mu = m THEN NoTracer ELSE mu
    /\ open' = open \ {m}
    /\ inbox' = [inbox EXCEPT ![m] = <<>>]
    /\ UNCHANGED <<target, hopVars, expired, network, strangers, crowded, overtime>>

(* doProbe, of a round or of ProbeOnce *)
ProbeListens(m) ==
    /\ m \in Probers
    /\ pc[m] = "idle"
    /\ pc' = [pc EXCEPT ![m] = "send"]
    /\ Listen(m)
    /\ UNCHANGED <<mu, target, hopVars, resultVars, expired, overtime>>

ProbeListenFails(m) ==
    /\ m \in Probers
    /\ pc[m] = "idle"
    /\ Return(m)
    /\ UNCHANGED resultVars

(* handleTrace makes the context and calls Trace, which takes the lock first. *)
TraceRequest(m) ==
    /\ m \in Tracers
    /\ pc[m] = "idle"
    /\ pc' = [pc EXCEPT ![m] = "lock"]
    /\ UNCHANGED <<mu, target, hopVars, resultVars, expired, netVars, overtime>>

TraceLock(m) ==
    /\ pc[m] = "lock"
    /\ mu = NoTracer
    /\ mu' = m
    /\ pc' = [pc EXCEPT ![m] = "lookup"]
    /\ UNCHANGED <<target, hopVars, resultVars, expired, netVars, overtime>>

(* Mutated form: the lock is kept when the name is unknown. *)
TraceLookupFailsKeepsLock(m) ==
    /\ pc[m] = "lookup"
    /\ pc' = [pc EXCEPT ![m] = "returned"]
    /\ UNCHANGED <<mu, target, hopVars, resultVars, expired, netVars, overtime>>

TraceLookupFails(m) ==
    /\ pc[m] = "lookup"
    /\ Return(m)
    /\ UNCHANGED resultVars

(* Without privileges traceWithCommand returns one hop that says so. *)
TraceListenFails(m) ==
    /\ pc[m] = "lookup"
    /\ Return(m)
    /\ hops' = [hops EXCEPT ![m] = <<[ip |-> NoAddress, received |-> 0]>>]
    /\ UNCHANGED completed

TraceListens(m) ==
    /\ pc[m] = "lookup"
    /\ pc' = [pc EXCEPT ![m] = "head"]
    /\ Listen(m)
    /\ UNCHANGED <<mu, target, hopVars, resultVars, expired, overtime>>

(* The 60 seconds of the context are over, or the client went away. *)
ContextDone(m) ==
    /\ m \in Tracers
    /\ pc[m] \notin {"idle", "returned"}
    /\ m \notin expired
    /\ expired' = expired \cup {m}
    /\ UNCHANGED <<mu, pc, target, hopVars, resultVars, netVars, overtime>>

-----------------------------------------------------------------------------
(* The loop over the TTLs *)

(* Mutated form: the context is not looked at. *)
TraceHopAlways(m) ==
    /\ pc[m] = "head"
    /\ pc' = [pc EXCEPT ![m] = "send"]
    /\ UNCHANGED <<mu, target, hopVars, resultVars, expired, netVars, overtime>>

TraceHop(m) ==
    /\ pc[m] = "head"
    /\ m \notin expired
    /\ pc' = [pc EXCEPT ![m] = "send"]
    /\ UNCHANGED <<mu, target, hopVars, resultVars, expired, netVars, overtime>>

(* The hops so far, with an error; handleTrace replies with Completed false. *)
TraceCancelled(m) ==
    /\ pc[m] = "head"
    /\ m \in expired
    /\ Return(m)
    /\ completed' = [completed EXCEPT ![m] = FALSE]
    /\ UNCHANGED hops

HopEnds(m) ==
    /\ pc[m] = "send"
    /\ seq[m] = ProbesPerHop
    /\ hops' = [hops EXCEPT ![m] = Append(@, [ip |-> hopIP[m], received |-> received[m]])]

(* Mutated form: whoever answers ends the path. *)
ReachedByAny(m) == hopIP[m] # NoAddress

(* Mutated form: the address is compared with a name, and never equal. *)
ReachedNever(m) == FALSE

Reached(m) == hopIP[m] = TargetAddress(target[m])

LastHop(m) ==
    /\ HopEnds(m)
    /\ Reached(m) \/ ttl[m] = MaxHops
    /\ completed' = [completed EXCEPT ![m] = Reached(m)]
    /\ Return(m)

(* Mutated form: one hop more than MaxHops. *)
NextHopOneMore(m) ==
    /\ HopEnds(m)
    /\ ~Reached(m) /\ ttl[m] <= MaxHops
    /\ ttl' = [ttl EXCEPT ![m] = @ + 1]
    /\ seq' = [seq EXCEPT ![m] = 0]
    /\ hopIP' = [hopIP EXCEPT ![m] = NoAddress]
    /\ received' = [received EXCEPT ![m] = 0]
    /\ pc' = [pc EXCEPT ![m] = IF m \in Tracers THEN "head" ELSE "send"]
    /\ UNCHANGED <<mu, target, completed, expired, netVars, overtime>>

NextHop(m) ==
    /\ HopEnds(m)
    /\ ~Reached(m) /\ ttl[m] < MaxHops
    /\ ttl' = [ttl EXCEPT ![m] = @ + 1]
    /\ seq' = [seq EXCEPT ![m] = 0]
    /\ hopIP' = [hopIP EXCEPT ![m] = NoAddress]
    /\ received' = [received EXCEPT ![m] = 0]
    /\ pc' = [pc EXCEPT ![m] = IF m \in Tracers THEN "head" ELSE "send"]
    /\ UNCHANGED <<mu, target, completed, expired, netVars, overtime>>

-----------------------------------------------------------------------------
(* sendProbe, and the loop of probeHop around it *)

Send(m) ==
    /\ pc[m] = "send"
    /\ seq[m] < ProbesPerHop
    /\ network' = network \cup {[by |-> m, ttl |-> ttl[m], seq |-> seq[m]]}
    /\ overtime' = [overtime EXCEPT ![m] = IF m \in expired THEN @ + 1 ELSE @]
    /\ pc' = [pc EXCEPT ![m] = "wait"]
    /\ UNCHANGED <<mu, target, hopVars, resultVars, expired, open, inbox, strangers, crowded>>

(* A probe without an answer counts as lost, and the next one follows. *)
Lost(m) ==
    /\ seq' = [seq EXCEPT ![m] = @ + 1]
    /\ pc' = [pc EXCEPT ![m] = "send"]
    /\ UNCHANGED <<mu, target, ttl, hopIP, received, resultVars, expired, overtime>>

(* SetTTL or WriteTo returns an error. *)
SendFails(m) ==
    /\ pc[m] = "send"
    /\ seq[m] < ProbesPerHop
    /\ Lost(m)
    /\ UNCHANGED netVars

(* The deadline passes before ReadFrom has a message to return. *)
ReadTimesOut(m) ==
    /\ pc[m] = "wait"
    /\ Lost(m)
    /\ UNCHANGED netVars

(* The next message is the answer, whatever it answers; the address of the *)
(* first is the address of the hop.                                        *)
ReadAnswer(m) ==
    /\ pc[m] = "wait"
    /\ inbox[m] # <<>>
    /\ Head(inbox[m]).answer \/ m \in Tracers
    /\ hopIP' = [hopIP EXCEPT ![m] = IF @ = NoAddress THEN Head(inbox[m]).from ELSE @]
    /\ received' = [received EXCEPT ![m] = @ + 1]
    /\ inbox' = [inbox EXCEPT ![m] = Tail(@)]
    /\ seq' = [seq EXCEPT ![m] = @ + 1]
    /\ pc' = [pc EXCEPT ![m] = "send"]
    /\ UNCHANGED <<mu, target, ttl, resultVars, expired, open, network, strangers, crowded,
                   overtime>>

(* A message of another type is an error for doProbe; Trace takes it. *)
ReadOther(m) ==
    /\ pc[m] = "wait"
    /\ inbox[m] # <<>>
    /\ ~Head(inbox[m]).answer /\ m \in Probers
    /\ inbox' = [inbox EXCEPT ![m] = Tail(@)]
    /\ Lost(m)
    /\ UNCHANGED <<open, network, strangers, crowded>>

-----------------------------------------------------------------------------
(* The network and the raw sockets *)

(* A message that comes in is for every open raw socket. *)
Receive(message) ==
    /\ inbox' = [m \in Calls |-> IF m \in open THEN Append(inbox[m], message) ELSE inbox[m]]
    /\ UNCHANGED <<mu, pc, target, hopVars, resultVars, expired, open, crowded, overtime>>

(* An answer may take any time; one that never comes is lost. *)
Answer(echo) ==
    /\ network' = network \ {echo}
    /\ Receive([from |-> Responder(target[echo.by], echo.ttl), answer |-> TRUE])
    /\ UNCHANGED strangers

(* Other programs ping, and other hosts ping this one. *)
StrangerArrives ==
    /\ strangers < MaxStrangers
    /\ strangers' = strangers + 1
    /\ \E b \in BOOLEAN : Receive([from |-> Stranger, answer |-> b])
    /\ UNCHANGED network

-----------------------------------------------------------------------------
CallStep(m) ==
    \/ ProbeListens(m) \/ ProbeListenFails(m)
    \/ TraceLock(m) \/ TraceLookupFails(m) \/ TraceListenFails(m) \/ TraceListens(m)
    \/ TraceHop(m) \/ TraceCancelled(m) \/ LastHop(m) \/ NextHop(m)
    \/ Send(m) \/ SendFails(m) \/ ReadTimesOut(m) \/ ReadAnswer(m) \/ ReadOther(m)

Next ==
    \/ \E m \in Calls : CallStep(m) \/ TraceRequest(m) \/ ContextDone(m)
    \/ \E echo \in network : Answer(echo)
    \/ StrangerArrives

Spec == Init /\ [][Next]_vars

(* A call goes on: the lookup ends, each read has a deadline.  Strong       *)
(* fairness for the lock: a goroutine that waits for a sync.Mutex gets it   *)
(* in the end, however often others have it in between.                     *)
FairSpec ==
    /\ Spec
    /\ \A m \in Calls : WF_vars(CallStep(m)) /\ SF_vars(TraceLock(m))

-----------------------------------------------------------------------------
(* Properties *)

TypeOK ==
    /\ mu \in Tracers \cup {NoTracer}
    /\ pc \in [Calls -> States]
    /\ target \in [Calls -> Targets]
    /\ ttl \in [Calls -> 1..MaxHops]
    /\ seq \in [Calls -> 0..ProbesPerHop]
    /\ hopIP \in [Calls -> Addresses \cup {NoAddress}]
    /\ received \in [Calls -> 0..ProbesPerHop]
    /\ hops \in [Calls -> Seq(Hops)]
    /\ completed \in [Calls -> BOOLEAN]
    /\ expired \subseteq Tracers
    /\ open \subseteq Calls
    /\ inbox \in [Calls -> Seq(Messages)]
    /\ network \subseteq Echoes
    /\ strangers \in 0..MaxStrangers
    /\ crowded \subseteq Calls
    /\ overtime \in [Calls -> Nat]

(* An address is no router, or one on the way to t that is n hops away at most. *)
Within(address, t, n) ==
    address \in Targets \X Nat => address[1] = t /\ address[2] <= n

(* Late answers are taken for answers to later probes.  A call that has the *)
(* host to itself still never shows a router nearer than it is, and never   *)
(* says it reached the target with fewer hops than there are: the message   *)
(* it shows at a hop answered a probe of this TTL or of a smaller one.      *)
NeverNearerThanItIs ==
    \A m \in Calls \ crowded :
        /\ \A h \in DOMAIN hops[m] : Within(hops[m][h].ip, target[m], h)
        /\ completed[m] => Len(hops[m]) >= Distance[target[m]]

(* Trace looks at its context between hops: what it still sends once its    *)
(* time is over, or its client gone, are the probes of one hop at most.     *)
OvertimeIsOneHop == \A m \in Tracers : overtime[m] <= ProbesPerHop

(* A path that shows the target ends there and says so: no hop is shown     *)
(* beyond it.                                                               *)
PathEndsAtTarget ==
    \A m \in Calls : \A h \in DOMAIN hops[m] :
        hops[m][h].ip = TargetAddress(target[m]) => h = Len(hops[m]) /\ completed[m]

(* Every request for a trace is answered and every round ends, whatever is  *)
(* lost: traces wait for one another, none for ever.                        *)
CallsReturn == \A m \in Calls : pc[m] # "idle" ~> pc[m] = "returned"

(* A hop shows the router its TTL belongs to, or none.  It does not hold:   *)
(* replies are not matched with the probes they answer.                     *)
HopIsItsRouter ==
    \A m \in Calls : \A h \in DOMAIN hops[m] :
        hops[m][h].ip \in {NoAddress, Responder(target[m], h)}
=============================================================================
