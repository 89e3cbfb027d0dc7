---------------------------- MODULE Probing_proofs ----------------------------
(***************************************************************************)
(* Theorems about module Probing: its safety properties for every number   *)
(* of calls, targets, hops and probes per hop.                             *)
(***************************************************************************)
EXTENDS Probing, TLAPS

-----------------------------------------------------------------------------
(* The inductive strengthening *)

(* Where a call is, what it has done of its loops and whether its socket is open. *)
CallInv ==
    \A m \in Calls :
        /\ m \in open <=> pc[m] \in {"head", "send", "wait"}
        /\ pc[m] \in {"lock", "lookup", "head"} => m \in Tracers
        /\ pc[m] \in {"idle", "lock", "lookup"} => ttl[m] = 1 /\ inbox[m] = <<>>
        /\ pc[m] \in {"idle", "lock", "lookup", "head"} =>
              seq[m] = 0 /\ hopIP[m] = NoAddress
        /\ pc[m] = "wait" => seq[m] < ProbesPerHop
        /\ pc[m] # "returned" => Len(hops[m]) = ttl[m] - 1 /\ ~completed[m]
        /\ received[m] <= seq[m]

(* What a tracer sends after its context is done belongs to the hop under way. *)
OvertimeInv ==
    \A m \in Calls :
        /\ m \notin expired => overtime[m] = 0
        /\ overtime[m] <= ProbesPerHop
        /\ pc[m] = "send" => overtime[m] <= seq[m]
        /\ pc[m] = "wait" => overtime[m] <= seq[m] + 1

(* The host belongs to m: everything under way answers probes of m. *)
Alone(m) ==
    /\ open = {m}
    /\ \A echo \in network : echo.by = m /\ echo.ttl <= ttl[m]
    /\ \A k \in DOMAIN inbox[m] : Within(inbox[m][k].from, target[m], ttl[m])

NearInv ==
    /\ NeverNearerThanItIs
    /\ \A m \in Calls \ crowded :
          /\ pc[m] # "returned" => Within(hopIP[m], target[m], ttl[m])
          /\ m \in open => Alone(m)

IInv == TypeOK /\ CallInv /\ OvertimeInv /\ PathEndsAtTarget /\ NearInv

-----------------------------------------------------------------------------
(* Types *)

LEMMA TypeInit == Init => TypeOK
BY SizeAssumption, CallsAssumption DEF Init, TypeOK, States

LEMMA ResponderType ==
    ASSUME NEW t \in Targets, NEW n \in Nat
    PROVE  /\ Responder(t, n) \in Targets \X Nat
           /\ Responder(t, n)[1] = t /\ Responder(t, n)[2] <= n
           /\ Responder(t, n)[2] <= Distance[t]
BY DistanceAssumption DEF Responder

LEMMA ReturnType ==
    ASSUME TypeOK, NEW m \in Calls, Return(m)
    PROVE  /\ mu' \in Tracers \cup {NoTracer} /\ pc' \in [Calls -> States]
           /\ open' \subseteq Calls /\ inbox' \in [Calls -> Seq(Messages)]
           /\ UNCHANGED <<target, hopVars, expired, network, strangers, crowded, overtime>>
<1>1. <<>> \in Seq(Messages)
  OBVIOUS
<1> QED
  BY <1>1 DEF Return, TypeOK, States

LEMMA HopType ==
    ASSUME TypeOK, NEW m \in Calls, HopEnds(m)
    PROVE  hops' \in [Calls -> Seq(Hops)]
<1>1. [ip |-> hopIP[m], received |-> received[m]] \in Hops /\ hops[m] \in Seq(Hops)
  BY DEF TypeOK, Hops
<1>2. Append(hops[m], [ip |-> hopIP[m], received |-> received[m]]) \in Seq(Hops)
  BY <1>1
<1> QED
  BY <1>2 DEF HopEnds, TypeOK

LEMMA ReceiveType ==
    ASSUME TypeOK, NEW message \in Messages, Receive(message)
    PROVE  inbox' \in [Calls -> Seq(Messages)]
<1>1. \A m \in Calls : Append(inbox[m], message) \in Seq(Messages)
  BY DEF TypeOK
<1> QED
  BY <1>1 DEF Receive, TypeOK

LEMMA TypeNext == ASSUME TypeOK, CallInv, [Next]_vars PROVE TypeOK'
<1>1. CASE UNCHANGED vars
  BY <1>1 DEF TypeOK, vars, hopVars, resultVars, netVars
<1>2. ASSUME NEW m \in Calls, CallStep(m) PROVE TypeOK'
  <2> USE DEF hopVars, resultVars, netVars
  <2>1. CASE ProbeListens(m)
    BY <2>1 DEF ProbeListens, Listen, TypeOK, States
  <2>2. CASE ProbeListenFails(m)
    BY <2>2, ReturnType DEF ProbeListenFails, TypeOK
  <2>3. CASE TraceLock(m)
    <3>1. m \in Tracers
      BY <2>3 DEF TraceLock, CallInv
    <3> QED
      BY <2>3, <3>1 DEF TraceLock, TypeOK, States
  <2>4. CASE TraceLookupFails(m)
    BY <2>4, ReturnType DEF TraceLookupFails, TypeOK
  <2>5. CASE TraceListenFails(m)
    <3>1. <<[ip |-> NoAddress, received |-> 0]>> \in Seq(Hops)
      BY SizeAssumption DEF Hops
    <3> QED
      BY <2>5, <3>1, ReturnType DEF TraceListenFails, TypeOK
  <2>6. CASE TraceListens(m)
    BY <2>6 DEF TraceListens, Listen, TypeOK, States
  <2>7. CASE TraceHop(m)
    BY <2>7 DEF TraceHop, TypeOK, States
  <2>8. CASE TraceCancelled(m)
    BY <2>8, ReturnType DEF TraceCancelled, TypeOK
  <2>9. CASE LastHop(m)
    <3>1. hops' \in [Calls -> Seq(Hops)]
      BY <2>9, HopType DEF LastHop
    <3>2. completed' \in [Calls -> BOOLEAN]
      BY <2>9 DEF LastHop, TypeOK, Reached
    <3> QED
      BY <2>9, <3>1, <3>2, ReturnType DEF LastHop, TypeOK
  <2>10. CASE NextHop(m)
    <3>1. hops' \in [Calls -> Seq(Hops)]
      BY <2>10, HopType DEF NextHop
    <3>2. ttl[m] + 1 \in 1..MaxHops /\ 0 \in 0..ProbesPerHop
      BY <2>10, SizeAssumption DEF NextHop, TypeOK
    <3> QED
      BY <2>10, <3>1, <3>2 DEF NextHop, TypeOK, States
  <2>11. CASE Send(m)
    <3>1. [by |-> m, ttl |-> ttl[m], seq |-> seq[m]] \in Echoes
      BY <2>11, SizeAssumption DEF Send, TypeOK, Echoes
    <3>2. overtime' \in [Calls -> Nat]
      BY <2>11 DEF Send, TypeOK
    <3> QED
      BY <2>11, <3>1, <3>2 DEF Send, TypeOK, States
  <2>12. CASE SendFails(m) \/ ReadTimesOut(m) \/ ReadOther(m)
    <3>1. Lost(m) /\ seq[m] < ProbesPerHop
      BY <2>12 DEF SendFails, ReadTimesOut, ReadOther, CallInv
    <3>2. seq' \in [Calls -> 0..ProbesPerHop] /\ pc' \in [Calls -> States]
      BY <3>1, SizeAssumption DEF Lost, TypeOK, States
    <3>3. inbox' \in [Calls -> Seq(Messages)] /\ UNCHANGED <<open, network, strangers, crowded>>
      <4>1. inbox[m] # <<>> => Tail(inbox[m]) \in Seq(Messages)
        BY DEF TypeOK
      <4> QED
        BY <2>12, <4>1 DEF SendFails, ReadTimesOut, ReadOther, TypeOK
    <3> QED
      BY <3>1, <3>2, <3>3 DEF Lost, TypeOK
  <2>13. CASE ReadAnswer(m)
    <3>1. Head(inbox[m]) \in Messages /\ Tail(inbox[m]) \in Seq(Messages)
      BY <2>13 DEF ReadAnswer, TypeOK
    <3>2. Head(inbox[m]).from \in Addresses
      BY <3>1 DEF Messages
    <3>3. seq[m] + 1 \in 0..ProbesPerHop /\ received[m] + 1 \in 0..ProbesPerHop
      BY <2>13, SizeAssumption DEF ReadAnswer, TypeOK, CallInv
    <3> QED
      BY <2>13, <3>1, <3>2, <3>3 DEF ReadAnswer, TypeOK, States
  <2> QED
    BY <1>2, <2>1, <2>2, <2>3, <2>4, <2>5, <2>6, <2>7, <2>8, <2>9, <2>10, <2>11, <2>12, <2>13
       DEF CallStep
<1>3. ASSUME NEW m \in Calls, TraceRequest(m) PROVE TypeOK'
  BY <1>3 DEF TraceRequest, TypeOK, States, hopVars, resultVars, netVars
<1>4. ASSUME NEW m \in Calls, ContextDone(m) PROVE TypeOK'
  BY <1>4 DEF ContextDone, TypeOK, hopVars, resultVars, netVars
<1>5. ASSUME NEW echo \in network, Answer(echo) PROVE TypeOK'
  <2>1. echo.by \in Calls /\ echo.ttl \in Nat
    BY SizeAssumption DEF TypeOK, Echoes
  <2>2. [from |-> Responder(target[echo.by], echo.ttl), answer |-> TRUE] \in Messages
    BY <2>1, ResponderType DEF TypeOK, Messages, Addresses
  <2>3. inbox' \in [Calls -> Seq(Messages)]
    BY <1>5, <2>2, ReceiveType DEF Answer
  <2> QED
    BY <1>5, <2>3 DEF Answer, Receive, TypeOK, hopVars, resultVars
<1>6. ASSUME StrangerArrives PROVE TypeOK'
  <2>1. \A b \in BOOLEAN : [from |-> Stranger, answer |-> b] \in Messages
    BY DEF Messages, Addresses
  <2>2. inbox' \in [Calls -> Seq(Messages)]
    BY <1>6, <2>1, ReceiveType DEF StrangerArrives
  <2>3. strangers' \in 0..MaxStrangers
    BY <1>6, SizeAssumption DEF StrangerArrives, TypeOK
  <2> QED
    BY <1>6, <2>2, <2>3 DEF StrangerArrives, Receive, TypeOK, hopVars, resultVars
<1> QED
  BY <1>1, <1>2, <1>3, <1>4, <1>5, <1>6 DEF Next

-----------------------------------------------------------------------------
(* The control of the calls *)

LEMMA HopLength ==
    ASSUME TypeOK, NEW m \in Calls, HopEnds(m)
    PROVE  /\ Len(hops'[m]) = Len(hops[m]) + 1
           /\ hops'[m][Len(hops[m]) + 1].ip = hopIP[m]
           /\ \A h \in DOMAIN hops[m] : hops'[m][h] = hops[m][h]
           /\ DOMAIN hops[m] = 1..Len(hops[m]) /\ Len(hops[m]) \in Nat
           /\ DOMAIN hops'[m] = 1..(Len(hops[m]) + 1)
           /\ \A o \in Calls \ {m} : hops'[o] = hops[o]
<1>1. hops[m] \in Seq(Hops) /\ [ip |-> hopIP[m], received |-> received[m]] \in Hops
  BY DEF TypeOK, Hops
<1>2. hops'[m] = Append(hops[m], [ip |-> hopIP[m], received |-> received[m]])
      /\ \A o \in Calls \ {m} : hops'[o] = hops[o]
  BY DEF HopEnds, TypeOK
<1> QED
  BY <1>1, <1>2

LEMMA CallNext == ASSUME TypeOK, CallInv, [Next]_vars PROVE CallInv'
<1> USE DEF CallInv
<1>1. CASE UNCHANGED vars
  BY <1>1 DEF vars, hopVars, resultVars, netVars
<1>2. ASSUME NEW m \in Calls, CallStep(m) PROVE CallInv'
  <2> USE DEF hopVars, resultVars, netVars
  <2>1. CASE ProbeListens(m)
    BY <2>1, SizeAssumption DEF ProbeListens, Listen, TypeOK
  <2>2. CASE ProbeListenFails(m)
    BY <2>2 DEF ProbeListenFails, Return, TypeOK
  <2>3. CASE TraceLock(m)
    BY <2>3 DEF TraceLock, TypeOK
  <2>4. CASE TraceLookupFails(m)
    BY <2>4 DEF TraceLookupFails, Return, TypeOK
  <2>5. CASE TraceListenFails(m)
    BY <2>5 DEF TraceListenFails, Return, TypeOK
  <2>6. CASE TraceListens(m)
    BY <2>6 DEF TraceListens, Listen, TypeOK
  <2>7. CASE TraceHop(m)
    BY <2>7 DEF TraceHop, TypeOK
  <2>8. CASE TraceCancelled(m)
    BY <2>8 DEF TraceCancelled, Return, TypeOK
  <2>9. CASE LastHop(m)
    <3>1. pc' = [pc EXCEPT ![m] = "returned"] /\ pc[m] = "send" /\ open' = open \ {m}
          /\ inbox' = [inbox EXCEPT ![m] = <<>>]
          /\ UNCHANGED <<ttl, seq, hopIP, received>>
          /\ \A o \in Calls \ {m} : hops'[o] = hops[o] /\ completed'[o] = completed[o]
      BY <2>9, HopLength DEF LastHop, HopEnds, Return, TypeOK
    <3> QED
      BY <3>1 DEF TypeOK
  <2>10. CASE NextHop(m)
    <3>1. pc[m] = "send" /\ m \in open /\ Len(hops[m]) = ttl[m] - 1 /\ ~completed[m]
          /\ ttl[m] \in Nat
      BY <2>10 DEF NextHop, HopEnds, TypeOK
    <3>2. Len(hops'[m]) = ttl'[m] - 1
      <4>1. ttl'[m] = ttl[m] + 1
        BY <2>10 DEF NextHop, TypeOK
      <4>2. Len(hops'[m]) = Len(hops[m]) + 1
        BY <2>10, HopLength DEF NextHop
      <4> QED
        BY <3>1, <4>1, <4>2
    <3>3. \A o \in Calls \ {m} : hops'[o] = hops[o]
      BY <2>10, HopLength DEF NextHop
    <3>4. pc'[m] = (IF m \in Tracers THEN "head" ELSE "send") /\ seq'[m] = 0
          /\ hopIP'[m] = NoAddress /\ received'[m] = 0
          /\ UNCHANGED <<open, inbox, completed>>
      BY <2>10 DEF NextHop, TypeOK
    <3>5. \A o \in Calls \ {m} : /\ pc'[o] = pc[o] /\ seq'[o] = seq[o] /\ ttl'[o] = ttl[o]
                                  /\ hopIP'[o] = hopIP[o] /\ received'[o] = received[o]
      BY <2>10 DEF NextHop, TypeOK
    <3>6. 0 <= 0
      OBVIOUS
    <3> QED
      BY <3>1, <3>2, <3>3, <3>4, <3>5, <3>6
  <2>11. CASE Send(m)
    BY <2>11 DEF Send, TypeOK
  <2>12. CASE SendFails(m) \/ ReadTimesOut(m) \/ ReadOther(m)
    <3>1. Lost(m) /\ pc[m] \in {"send", "wait"} /\ open' = open
      BY <2>12 DEF SendFails, ReadTimesOut, ReadOther
    <3>2. \A o \in Calls \ {m} : inbox'[o] = inbox[o]
      BY <2>12 DEF SendFails, ReadTimesOut, ReadOther, TypeOK
    <3>3. seq[m] \in Nat /\ received[m] \in Nat
      BY SizeAssumption DEF TypeOK
    <3> QED
      BY <3>1, <3>2, <3>3 DEF Lost, TypeOK
  <2>13. CASE ReadAnswer(m)
    <3>1. seq[m] \in Nat /\ received[m] \in Nat
      BY SizeAssumption DEF TypeOK
    <3> QED
      BY <2>13, <3>1 DEF ReadAnswer, TypeOK
  <2> QED
    BY <1>2, <2>1, <2>2, <2>3, <2>4, <2>5, <2>6, <2>7, <2>8, <2>9, <2>10, <2>11, <2>12, <2>13
       DEF CallStep
<1>3. ASSUME NEW m \in Calls, TraceRequest(m) PROVE CallInv'
  BY <1>3 DEF TraceRequest, TypeOK, hopVars, resultVars, netVars
<1>4. ASSUME NEW m \in Calls, ContextDone(m) PROVE CallInv'
  BY <1>4 DEF ContextDone, TypeOK, hopVars, resultVars, netVars
<1>5. ASSUME NEW message, Receive(message) PROVE CallInv'
  BY <1>5 DEF Receive, TypeOK, hopVars, resultVars
<1> QED
  BY <1>1, <1>2, <1>3, <1>4, <1>5 DEF Next, Answer, StrangerArrives

-----------------------------------------------------------------------------
(* What is sent after the context is done *)

LEMMA OvertimeNext == ASSUME TypeOK, CallInv, OvertimeInv, [Next]_vars PROVE OvertimeInv'
<1> USE DEF OvertimeInv
<1>0. \A m \in Calls : seq[m] \in Nat /\ seq[m] <= ProbesPerHop /\ overtime[m] \in Nat
                       /\ ProbesPerHop \in Nat
  BY SizeAssumption DEF TypeOK
<1>1. CASE UNCHANGED vars
  BY <1>1 DEF vars, hopVars
<1>2. ASSUME NEW m \in Calls, CallStep(m) PROVE OvertimeInv'
  <2>1. expired' = expired
    BY <1>2 DEF CallStep, ProbeListens, ProbeListenFails, TraceLock, TraceLookupFails,
                TraceListenFails, TraceListens, TraceHop, TraceCancelled, LastHop, NextHop,
                Send, SendFails, ReadTimesOut, ReadAnswer, ReadOther, Lost, Return
  <2>2. CASE Send(m)
    BY <1>0, <2>2 DEF Send, hopVars, TypeOK, CallInv
  <2>3. CASE SendFails(m) \/ ReadTimesOut(m) \/ ReadOther(m)
    <3>1. Lost(m) /\ pc[m] \in {"send", "wait"}
      BY <2>3 DEF SendFails, ReadTimesOut, ReadOther
    <3> QED
      BY <1>0, <3>1 DEF Lost, TypeOK
  <2>4. CASE ReadAnswer(m)
    BY <1>0, <2>4 DEF ReadAnswer, TypeOK
  <2>5. CASE NextHop(m)
    <3>1. /\ overtime' = overtime
          /\ pc' = [pc EXCEPT ![m] = IF m \in Tracers THEN "head" ELSE "send"]
          /\ seq' = [seq EXCEPT ![m] = 0]
      BY <2>5 DEF NextHop
    <3>2. m \notin Tracers => overtime[m] = 0
      BY DEF TypeOK
    <3> QED
      BY <1>0, <2>1, <3>1, <3>2 DEF TypeOK
  <2>6. CASE TraceHop(m)
    BY <1>0, <2>6 DEF TraceHop, hopVars, TypeOK
  <2>7. CASE ProbeListens(m)
    <3>1. m \notin expired
      BY <2>7, CallsAssumption DEF ProbeListens, TypeOK
    <3> QED
      BY <1>0, <2>7, <3>1 DEF ProbeListens, hopVars, TypeOK
  <2>8. CASE \/ ProbeListenFails(m) \/ TraceLookupFails(m) \/ TraceListenFails(m)
             \/ TraceCancelled(m) \/ LastHop(m)
    <3>1. Return(m)
      BY <2>8 DEF ProbeListenFails, TraceLookupFails, TraceListenFails, TraceCancelled, LastHop
    <3> QED
      BY <3>1 DEF Return, hopVars, TypeOK
  <2>9. CASE TraceLock(m) \/ TraceListens(m)
    <3>1. /\ UNCHANGED <<seq, overtime>>
          /\ pc' = [pc EXCEPT ![m] = "lookup"] \/ pc' = [pc EXCEPT ![m] = "head"]
      BY <2>9 DEF TraceLock, TraceListens, hopVars
    <3> QED
      BY <2>1, <3>1 DEF TypeOK
  <2> QED
    BY <1>2, <2>2, <2>3, <2>4, <2>5, <2>6, <2>7, <2>8, <2>9 DEF CallStep
<1>3. ASSUME NEW m \in Calls, TraceRequest(m) PROVE OvertimeInv'
  BY <1>3 DEF TraceRequest, TypeOK, hopVars
<1>4. ASSUME NEW m \in Calls, ContextDone(m) PROVE OvertimeInv'
  BY <1>0, <1>4 DEF ContextDone, TypeOK, hopVars
<1>5. ASSUME NEW message, Receive(message) PROVE OvertimeInv'
  BY <1>5 DEF Receive, hopVars
<1> QED
  BY <1>1, <1>2, <1>3, <1>4, <1>5 DEF Next, Answer, StrangerArrives

-----------------------------------------------------------------------------
(* The path ends at the target *)

LEMMA PathNext ==
    ASSUME TypeOK, CallInv, PathEndsAtTarget, [Next]_vars PROVE PathEndsAtTarget'
<1> USE DEF PathEndsAtTarget
<1>1. CASE UNCHANGED vars
  BY <1>1 DEF vars, resultVars
<1>2. ASSUME NEW m \in Calls, CallStep(m) PROVE PathEndsAtTarget'
  <2>0. target' = target
    BY <1>2 DEF CallStep, ProbeListens, ProbeListenFails, TraceLock, TraceLookupFails,
                TraceListenFails, TraceListens, TraceHop, TraceCancelled, LastHop, NextHop,
                Send, SendFails, ReadTimesOut, ReadAnswer, ReadOther, Lost, Return
  <2>1. CASE TraceListenFails(m)
    <3>1. NoAddress # TargetAddress(target[m])
      BY AddressAssumption, DistanceAssumption DEF TargetAddress, TypeOK
    <3>2. \A h \in DOMAIN hops'[m] : hops'[m][h].ip = NoAddress
      BY <2>1 DEF TraceListenFails, TypeOK
    <3>3. \A o \in Calls \ {m} : hops'[o] = hops[o] /\ completed'[o] = completed[o]
      BY <2>1 DEF TraceListenFails, TypeOK
    <3> QED
      BY <2>0, <3>1, <3>2, <3>3
  <2>2. CASE TraceCancelled(m)
    <3>1. hops' = hops /\ pc[m] = "head"
          /\ \A o \in Calls \ {m} : completed'[o] = completed[o]
      BY <2>2 DEF TraceCancelled, TypeOK
    <3>2. \A h \in DOMAIN hops[m] : hops[m][h].ip # TargetAddress(target[m])
      BY <3>1 DEF CallInv
    <3> QED
      BY <2>0, <3>1, <3>2
  <2>3. CASE LastHop(m) \/ NextHop(m)
    <3>1. HopEnds(m) /\ pc[m] = "send"
      BY <2>3 DEF LastHop, NextHop, HopEnds
    <3>2. \A h \in DOMAIN hops[m] : hops[m][h].ip # TargetAddress(target[m])
      BY <3>1 DEF CallInv
    <3>3. hopIP[m] = TargetAddress(target[m]) => completed'[m]
      BY <2>3 DEF LastHop, NextHop, Reached, TypeOK
    <3>4. \A o \in Calls \ {m} : completed'[o] = completed[o]
      BY <2>3 DEF LastHop, NextHop, TypeOK
    <3>5. ASSUME NEW h \in DOMAIN hops'[m], hops'[m][h].ip = TargetAddress(target[m])
          PROVE  h = Len(hops'[m]) /\ completed'[m]
      <4>1. h \in 1..(Len(hops[m]) + 1) /\ Len(hops'[m]) = Len(hops[m]) + 1
        BY <3>1, HopLength
      <4>2. DOMAIN hops[m] = 1..Len(hops[m]) /\ Len(hops[m]) \in Nat
        BY <3>1, HopLength
      <4>3. h \notin DOMAIN hops[m]
        BY <3>1, <3>2, <3>5, HopLength
      <4>4. h = Len(hops[m]) + 1
        BY <4>1, <4>2, <4>3
      <4>5. hops'[m][Len(hops[m]) + 1].ip = hopIP[m]
        BY <3>1, HopLength
      <4> QED
        BY <3>3, <3>5, <4>1, <4>4, <4>5
    <3>6. \A o \in Calls \ {m} : hops'[o] = hops[o]
      BY <3>1, HopLength
    <3> QED
      BY <2>0, <3>4, <3>5, <3>6
  <2>4. CASE ~TraceListenFails(m) /\ ~TraceCancelled(m) /\ ~LastHop(m) /\ ~NextHop(m)
    <3>1. UNCHANGED resultVars
      BY <1>2, <2>4
         DEF CallStep, ProbeListens, ProbeListenFails, TraceLock, TraceLookupFails, TraceListens,
             TraceHop, Send, SendFails, ReadTimesOut, ReadAnswer, ReadOther, Lost
    <3> QED
      BY <2>0, <3>1 DEF resultVars
  <2> QED
    BY <2>1, <2>2, <2>3, <2>4
<1>3. ASSUME NEW m \in Calls, TraceRequest(m) \/ ContextDone(m) PROVE PathEndsAtTarget'
  BY <1>3 DEF TraceRequest, ContextDone, resultVars
<1>4. ASSUME NEW message, Receive(message) PROVE PathEndsAtTarget'
  BY <1>4 DEF Receive, resultVars
<1> QED
  BY <1>1, <1>2, <1>3, <1>4 DEF Next, Answer, StrangerArrives

-----------------------------------------------------------------------------
(* A call that has the host to itself *)

(* What is within reach stays so at a higher TTL. *)
LEMMA WithinMonotone ==
    ASSUME NEW a, NEW t, NEW n \in Nat, NEW k \in Nat, n <= k, Within(a, t, n)
    PROVE  Within(a, t, k)
BY DEF Within

LEMMA NowhereIsWithin ==
    ASSUME NEW t, NEW n PROVE Within(NoAddress, t, n) /\ Within(Stranger, t, n)
BY AddressAssumption DEF Within

(* Steps of a call that touch nothing but where it is, its loop in probeHop  *)
(* and its lock.                                                             *)
LEMMA NearFrame ==
    ASSUME TypeOK, NearInv, NEW m \in Calls,
           UNCHANGED <<target, ttl, hopIP, resultVars, netVars>>,
           \A o \in Calls : pc[o] = "returned" => pc'[o] = "returned"
    PROVE  NearInv'
BY DEF NearInv, NeverNearerThanItIs, Alone, resultVars, netVars

LEMMA ListenNear ==
    ASSUME TypeOK, CallInv, NearInv, NEW m \in Calls, Listen(m), m \notin open,
           pc[m] \in {"idle", "lookup"},
           UNCHANGED <<target, hopVars, resultVars>>,
           \A o \in Calls : pc[o] = "returned" => pc'[o] = "returned"
    PROVE  NearInv'
<1> USE DEF hopVars, resultVars
<1>1. CASE open # {} \/ network # {}
  <2>1. crowded' = crowded \cup open \cup {m} /\ open' = open \cup {m}
    BY <1>1 DEF Listen
  <2> QED
    BY <2>1 DEF NearInv, NeverNearerThanItIs
<1>2. CASE open = {} /\ network = {}
  <2>1. /\ crowded' = crowded /\ open' = {m} /\ inbox' = inbox /\ network' = {}
        /\ inbox[m] = <<>>
    BY <1>2 DEF Listen, CallInv
  <2>2. Alone(m)'
    BY <2>1 DEF Alone
  <2> QED
    BY <2>1, <2>2 DEF NearInv, NeverNearerThanItIs
<1> QED
  BY <1>1, <1>2

(* A call returns with the hops it has, or none. *)
LEMMA ReturnNear ==
    ASSUME TypeOK, CallInv, NearInv, NEW m \in Calls, Return(m),
           \A o \in Calls \ {m} : hops'[o] = hops[o] /\ completed'[o] = completed[o],
           m \notin crowded =>
              /\ \A h \in DOMAIN hops'[m] : Within(hops'[m][h].ip, target[m], h)
              /\ completed'[m] => Len(hops'[m]) >= Distance[target[m]]
    PROVE  NearInv'
<1>1. /\ UNCHANGED <<target, ttl, hopIP, network, crowded>>
      /\ open' = open \ {m} /\ inbox' = [inbox EXCEPT ![m] = <<>>]
      /\ pc'[m] = "returned" /\ \A o \in Calls \ {m} : pc'[o] = pc[o]
  BY DEF Return, hopVars, TypeOK
<1>2. NeverNearerThanItIs'
  BY <1>1 DEF NearInv, NeverNearerThanItIs
<1>3. ASSUME NEW o \in Calls \ crowded, o \in open' PROVE Alone(o)'
  <2>1. o # m /\ o \in open
    BY <1>1, <1>3
  <2>2. Alone(o)
    BY <2>1, <1>3 DEF NearInv
  <2>3. open' = {o} /\ inbox'[o] = inbox[o]
    BY <1>1, <2>1, <2>2 DEF Alone, TypeOK
  <2> QED
    BY <1>1, <2>2, <2>3 DEF Alone
<1>4. \A o \in Calls \ crowded : pc'[o] # "returned" => Within(hopIP[o], target[o], ttl[o])
  BY <1>1 DEF NearInv
<1> QED
  BY <1>1, <1>2, <1>3, <1>4 DEF NearInv

LEMMA NearNext ==
    ASSUME TypeOK, CallInv, NearInv, [Next]_vars PROVE NearInv'
<1>0. \A m \in Calls : ttl[m] \in Nat /\ Len(hops[m]) \in Nat
  BY DEF TypeOK
<1>1. CASE UNCHANGED vars
  BY <1>1 DEF vars, hopVars, resultVars, netVars, NearInv, NeverNearerThanItIs, Alone
<1>2. ASSUME NEW m \in Calls, CallStep(m) PROVE NearInv'
  <2>1. CASE ProbeListens(m)
    <3>1. m \notin open /\ pc[m] = "idle" /\ pc' = [pc EXCEPT ![m] = "send"]
      BY <2>1 DEF ProbeListens, CallInv
    <3>2. \A o \in Calls : pc[o] = "returned" => pc'[o] = "returned"
      BY <3>1 DEF TypeOK
    <3> QED
      BY <2>1, <3>1, <3>2, ListenNear DEF ProbeListens
  <2>2. CASE TraceListens(m)
    <3>1. m \notin open /\ pc[m] = "lookup" /\ pc' = [pc EXCEPT ![m] = "head"]
      BY <2>2 DEF TraceListens, CallInv
    <3>2. \A o \in Calls : pc[o] = "returned" => pc'[o] = "returned"
      BY <3>1 DEF TypeOK
    <3> QED
      BY <2>2, <3>1, <3>2, ListenNear DEF TraceListens
  <2>3. CASE ProbeListenFails(m) \/ TraceLookupFails(m)
    <3>1. Return(m) /\ hops' = hops /\ completed' = completed
      BY <2>3 DEF ProbeListenFails, TraceLookupFails, resultVars
    <3>2. m \notin crowded =>
             /\ \A h \in DOMAIN hops[m] : Within(hops[m][h].ip, target[m], h)
             /\ completed[m] => Len(hops[m]) >= Distance[target[m]]
      BY DEF NearInv, NeverNearerThanItIs
    <3> QED
      BY <3>1, <3>2, ReturnNear
  <2>4. CASE TraceListenFails(m)
    <3>1. /\ Return(m) /\ completed' = completed /\ pc[m] = "lookup"
          /\ hops' = [hops EXCEPT ![m] = <<[ip |-> NoAddress, received |-> 0]>>]
      BY <2>4 DEF TraceListenFails
    <3>2. ~completed'[m]
      BY <3>1 DEF CallInv
    <3>3. \A h \in DOMAIN hops'[m] : hops'[m][h].ip = NoAddress
      BY <3>1 DEF TypeOK
    <3>4. \A h \in DOMAIN hops'[m] : Within(hops'[m][h].ip, target[m], h)
      BY <3>3, NowhereIsWithin
    <3>5. \A o \in Calls \ {m} : hops'[o] = hops[o] /\ completed'[o] = completed[o]
      BY <3>1 DEF TypeOK
    <3> QED
      BY <3>1, <3>2, <3>4, <3>5, ReturnNear
  <2>5. CASE TraceCancelled(m)
    <3>1. /\ Return(m) /\ hops' = hops
          /\ completed' = [completed EXCEPT ![m] = FALSE]
      BY <2>5 DEF TraceCancelled
    <3>2. /\ ~completed'[m]
          /\ \A o \in Calls \ {m} : hops'[o] = hops[o] /\ completed'[o] = completed[o]
      BY <3>1 DEF TypeOK
    <3>3. m \notin crowded => \A h \in DOMAIN hops'[m] : Within(hops'[m][h].ip, target[m], h)
      BY <3>1 DEF NearInv, NeverNearerThanItIs
    <3> QED
      BY <3>1, <3>2, <3>3, ReturnNear
  <2>6. CASE LastHop(m) \/ NextHop(m)
    <3>1. HopEnds(m) /\ pc[m] = "send" /\ Len(hops[m]) + 1 = ttl[m]
      BY <1>0, <2>6 DEF LastHop, NextHop, HopEnds, CallInv
    <3>2. ASSUME m \notin crowded, NEW h \in DOMAIN hops'[m]
          PROVE  Within(hops'[m][h].ip, target[m], h)
      <4>1. CASE h \in DOMAIN hops[m]
        <5>1. hops'[m][h] = hops[m][h]
          BY <3>1, <4>1, HopLength
        <5> QED
          BY <3>2, <4>1, <5>1 DEF NearInv, NeverNearerThanItIs
      <4>2. CASE h \notin DOMAIN hops[m]
        <5>1. h \in 1..(Len(hops[m]) + 1) /\ DOMAIN hops[m] = 1..Len(hops[m])
          BY <3>1, HopLength
        <5>2. h = Len(hops[m]) + 1
          BY <1>0, <4>2, <5>1
        <5>3. hops'[m][h].ip = hopIP[m]
          BY <3>1, <5>2, HopLength
        <5> QED
          BY <3>1, <3>2, <5>2, <5>3 DEF NearInv
      <4> QED
        BY <4>1, <4>2
    <3>3. \A o \in Calls \ {m} : hops'[o] = hops[o]
      BY <3>1, HopLength
    <3>4. \A o \in Calls \ {m} : completed'[o] = completed[o]
      BY <2>6 DEF LastHop, NextHop, TypeOK
    <3>5. CASE LastHop(m)
      <4>1. Return(m) /\ completed'[m] = Reached(m)
        BY <3>5 DEF LastHop, TypeOK
      <4>2. ASSUME m \notin crowded, completed'[m]
            PROVE  Len(hops'[m]) >= Distance[target[m]]
        <5>1. hopIP[m] = <<target[m], Distance[target[m]]>> /\ Within(hopIP[m], target[m], ttl[m])
          BY <3>1, <4>1, <4>2 DEF Reached, TargetAddress, NearInv
        <5>2. Distance[target[m]] \in Nat /\ target[m] \in Targets
          BY DistanceAssumption DEF TypeOK
        <5>3. Distance[target[m]] <= ttl[m]
          BY <5>1, <5>2 DEF Within
        <5>4. Len(hops'[m]) = ttl[m]
          BY <3>1, HopLength
        <5> QED
          BY <1>0, <5>2, <5>3, <5>4
      <4> QED
        BY <3>2, <3>3, <3>4, <4>1, <4>2, ReturnNear
    <3>6. CASE NextHop(m)
      <4>1. /\ UNCHANGED <<target, netVars>> /\ completed' = completed
            /\ ttl'[m] = ttl[m] + 1 /\ hopIP'[m] = NoAddress
            /\ \A o \in Calls \ {m} : ttl'[o] = ttl[o] /\ hopIP'[o] = hopIP[o] /\ pc'[o] = pc[o]
        BY <3>6 DEF NextHop, TypeOK
      <4>2. ~completed'[m]
        BY <3>1, <4>1 DEF CallInv
      <4>3. NeverNearerThanItIs'
        BY <3>2, <3>3, <4>1, <4>2 DEF NearInv, NeverNearerThanItIs, netVars
      <4>4. \A o \in Calls \ crowded : pc'[o] # "returned" => Within(hopIP'[o], target[o], ttl'[o])
        <5>1. Within(hopIP'[m], target[m], ttl'[m])
          BY <4>1, NowhereIsWithin
        <5> QED
          BY <4>1, <5>1 DEF NearInv
      <4>5. ASSUME NEW o \in Calls \ crowded, o \in open PROVE Alone(o)'
        <5>1. Alone(o) /\ o = m
          <6>1. m \in open
            BY <3>1 DEF CallInv
          <6> QED
            BY <4>5, <6>1 DEF NearInv, Alone
        <5>2. \A echo \in network : echo.by = m /\ echo.ttl <= ttl'[m]
          <6>1. \A echo \in network : echo.ttl \in Nat
            BY DEF TypeOK, Echoes
          <6> QED
            BY <1>0, <4>1, <5>1, <6>1 DEF Alone
        <5>3. \A k \in DOMAIN inbox[m] : Within(inbox[m][k].from, target[m], ttl'[m])
          BY <1>0, <4>1, <5>1, WithinMonotone DEF Alone
        <5> QED
          BY <4>1, <5>1, <5>2, <5>3 DEF Alone, netVars
      <4> QED
        BY <4>1, <4>3, <4>4, <4>5 DEF NearInv, netVars
    <3> QED
      BY <2>6, <3>5, <3>6
  <2>7. CASE Send(m)
    <3>1. /\ UNCHANGED <<target, ttl, hopIP, hops, completed, open, inbox, crowded>>
          /\ network' = network \cup {[by |-> m, ttl |-> ttl[m], seq |-> seq[m]]}
          /\ m \in open
      BY <2>7 DEF Send, CallInv, hopVars, resultVars
    <3>2. pc' = [pc EXCEPT ![m] = "wait"] /\ pc[m] # "returned"
      BY <2>7 DEF Send
    <3>3. ASSUME NEW o \in Calls \ crowded, o \in open PROVE Alone(o)'
      <4>1. Alone(o) /\ o = m
        BY <3>1, <3>3 DEF NearInv, Alone
      <4> QED
        BY <1>0, <3>1, <4>1 DEF Alone
    <3> QED
      BY <3>1, <3>2, <3>3 DEF NearInv, NeverNearerThanItIs, TypeOK
  <2>8. CASE ReadAnswer(m) \/ ReadOther(m)
    <3>1. /\ UNCHANGED <<target, ttl, hops, completed, open, network, crowded>>
          /\ inbox[m] # <<>> /\ inbox' = [inbox EXCEPT ![m] = Tail(@)]
          /\ pc[m] = "wait" /\ pc' = [pc EXCEPT ![m] = "send"]
          /\ \/ hopIP' = hopIP
             \/ hopIP' = [hopIP EXCEPT ![m] = Head(inbox[m]).from]
      BY <2>8 DEF ReadAnswer, ReadOther, Lost, hopVars, resultVars, TypeOK
    <3>2. inbox[m] \in Seq(Messages) /\ m \in open
      BY <3>1 DEF TypeOK, CallInv
    <3>3. /\ 1 \in DOMAIN inbox[m] /\ Head(inbox[m]) = inbox[m][1]
          /\ \A k \in DOMAIN inbox'[m] : k + 1 \in DOMAIN inbox[m]
                                       /\ inbox'[m][k] = inbox[m][k + 1]
      <4>1. inbox'[m] = Tail(inbox[m])
        BY <3>1 DEF TypeOK
      <4>2. PICK s : s = inbox[m]
        OBVIOUS
      <4>3. s \in Seq(Messages) /\ s # <<>>
        BY <3>1, <3>2, <4>2
      <4>4. /\ 1 \in DOMAIN s /\ Head(s) = s[1]
            /\ \A k \in DOMAIN Tail(s) : k + 1 \in DOMAIN s /\ Tail(s)[k] = s[k + 1]
        BY <4>3
      <4> QED
        BY <4>1, <4>2, <4>4
    <3>4. ASSUME NEW o \in Calls \ crowded, o \in open PROVE Alone(o)'
      <4>1. Alone(o) /\ o = m
        BY <3>2, <3>4 DEF NearInv, Alone
      <4> QED
        BY <3>1, <3>3, <4>1 DEF Alone
    <3>5. ASSUME NEW o \in Calls \ crowded, pc'[o] # "returned"
          PROVE  Within(hopIP'[o], target[o], ttl[o])
      <4>1. CASE o # m \/ hopIP' = hopIP
        BY <3>1, <3>5, <4>1 DEF NearInv, TypeOK
      <4>2. CASE o = m /\ hopIP' = [hopIP EXCEPT ![m] = Head(inbox[m]).from]
        <5>1. hopIP'[m] = inbox[m][1].from
          BY <3>3, <4>2 DEF TypeOK
        <5>2. Alone(m)
          BY <3>2, <4>2 DEF NearInv
        <5> QED
          BY <3>3, <4>2, <5>1, <5>2 DEF Alone
      <4> QED
        BY <3>1, <4>1, <4>2
    <3> QED
      BY <3>1, <3>4, <3>5 DEF NearInv, NeverNearerThanItIs
  <2>9. CASE TraceLock(m) \/ TraceHop(m) \/ SendFails(m) \/ ReadTimesOut(m)
    <3>1. /\ UNCHANGED <<target, ttl, hopIP, resultVars, netVars>>
          /\ pc[m] # "returned" /\ \A o \in Calls \ {m} : pc'[o] = pc[o]
      BY <2>9 DEF TraceLock, TraceHop, SendFails, ReadTimesOut, Lost, hopVars, TypeOK
    <3> QED
      BY <3>1, NearFrame
  <2> QED
    BY <1>2, <2>1, <2>2, <2>3, <2>4, <2>5, <2>6, <2>7, <2>8, <2>9 DEF CallStep
<1>3. ASSUME NEW m \in Calls, TraceRequest(m) \/ ContextDone(m) PROVE NearInv'
  <2>1. /\ UNCHANGED <<target, ttl, hopIP, resultVars, netVars>>
        /\ \A o \in Calls : pc[o] = "returned" => pc'[o] = "returned"
    BY <1>3 DEF TraceRequest, ContextDone, hopVars, TypeOK
  <2> QED
    BY <2>1, NearFrame
<1>4. ASSUME NEW message \in Messages, Receive(message), network' \subseteq network,
             \A m \in Calls \ crowded :
                m \in open => Within(message.from, target[m], ttl[m])
      PROVE  NearInv'
  <2>1. /\ UNCHANGED <<pc, target, ttl, hopIP, hops, completed, open, crowded>>
        /\ inbox' = [m \in Calls |-> IF m \in open THEN Append(inbox[m], message) ELSE inbox[m]]
    BY <1>4 DEF Receive, hopVars, resultVars
  <2>2. ASSUME NEW m \in Calls \ crowded, m \in open PROVE Alone(m)'
    <3>1. Alone(m)
      BY <2>2 DEF NearInv
    <3>2. inbox'[m] = Append(inbox[m], message) /\ inbox[m] \in Seq(Messages)
      BY <2>1, <2>2 DEF TypeOK
    <3>3. \A k \in DOMAIN inbox'[m] :
             \/ k \in DOMAIN inbox[m] /\ inbox'[m][k] = inbox[m][k]
             \/ inbox'[m][k] = message
      BY <3>2
    <3>4. \A k \in DOMAIN inbox'[m] : Within(inbox'[m][k].from, target[m], ttl[m])
      BY <1>4, <2>2, <3>1, <3>3 DEF Alone
    <3> QED
      BY <1>4, <2>1, <3>1, <3>4 DEF Alone
  <2> QED
    BY <2>1, <2>2 DEF NearInv, NeverNearerThanItIs
<1>5. ASSUME NEW echo \in network, Answer(echo) PROVE NearInv'
  <2> DEFINE message == [from |-> Responder(target[echo.by], echo.ttl), answer |-> TRUE]
  <2>1. echo.by \in Calls /\ echo.ttl \in Nat /\ target[echo.by] \in Targets
    BY DEF TypeOK, Echoes
  <2>2. message \in Messages
    BY <2>1, ResponderType DEF Messages, Addresses
  <2>3. ASSUME NEW m \in Calls \ crowded, m \in open PROVE Within(message.from, target[m], ttl[m])
    <3>1. echo.by = m /\ echo.ttl <= ttl[m]
      BY <2>3 DEF NearInv, Alone
    <3>2. /\ Responder(target[m], echo.ttl)[1] = target[m]
          /\ Responder(target[m], echo.ttl)[2] <= echo.ttl
          /\ Responder(target[m], echo.ttl)[2] \in Nat
      BY <2>1, <3>1, ResponderType
    <3> QED
      BY <1>0, <2>1, <3>1, <3>2 DEF Within
  <2>4. Receive(message) /\ network' \subseteq network
    BY <1>5 DEF Answer
  <2> HIDE DEF message
  <2> QED
    BY <1>4, <2>2, <2>3, <2>4
<1>6. ASSUME StrangerArrives PROVE NearInv'
  <2>1. PICK b \in BOOLEAN : Receive([from |-> Stranger, answer |-> b])
    BY <1>6 DEF StrangerArrives
  <2>2. PICK message : message = [from |-> Stranger, answer |-> b]
    OBVIOUS
  <2>3. message \in Messages /\ message.from = Stranger
    BY <2>2 DEF Messages, Addresses
  <2>4. network' \subseteq network
    BY <1>6 DEF StrangerArrives
  <2> QED
    BY <1>4, <2>1, <2>2, <2>3, <2>4, NowhereIsWithin
<1> QED
  BY <1>1, <1>2, <1>3, <1>5, <1>6 DEF Next

-----------------------------------------------------------------------------
(* The inductive invariant *)

LEMMA IInvInit == Init => IInv
<1> SUFFICES ASSUME Init PROVE IInv
  OBVIOUS
<1>1. TypeOK
  BY TypeInit
<1>2. CallInv
  BY DEF Init, CallInv
<1>3. OvertimeInv
  BY SizeAssumption DEF Init, OvertimeInv
<1>4. PathEndsAtTarget
  BY DEF Init, PathEndsAtTarget
<1>5. NearInv
  BY NowhereIsWithin DEF Init, NearInv, NeverNearerThanItIs
<1> QED
  BY <1>1, <1>2, <1>3, <1>4, <1>5 DEF IInv

LEMMA IInvNext == IInv /\ [Next]_vars => IInv'
BY TypeNext, CallNext, OvertimeNext, PathNext, NearNext DEF IInv

LEMMA IInvAlways == Spec => []IInv
BY IInvInit, IInvNext, PTL DEF Spec

-----------------------------------------------------------------------------
(* The theorems *)

(* Every reachable state is well typed: a call shows hops of known senders,  *)
(* and counts for no hop more answers than it sent probes.                   *)
THEOREM TypeCorrect == Spec => []TypeOK
<1>1. IInv => TypeOK
  BY DEF IInv
<1> QED
  BY <1>1, IInvAlways, PTL

(* A call that has the host to itself shows no router nearer than it is and *)
(* does not reach the target too early, however late answers come.          *)
THEOREM NeverNearer == Spec => []NeverNearerThanItIs
<1>1. IInv => NeverNearerThanItIs
  BY DEF IInv, NearInv
<1> QED
  BY <1>1, IInvAlways, PTL

(* A trace whose time is over sends the probes of one hop more at most. *)
THEOREM OvertimeBounded == Spec => []OvertimeIsOneHop
<1>1. IInv => OvertimeIsOneHop
  BY DEF IInv, OvertimeInv, OvertimeIsOneHop, Calls
<1> QED
  BY <1>1, IInvAlways, PTL

(* No path goes beyond the target, and one that shows it says it got there. *)
THEOREM PathEnds == Spec => []PathEndsAtTarget
<1>1. IInv => PathEndsAtTarget
  BY DEF IInv
<1> QED
  BY <1>1, IInvAlways, PTL

-----------------------------------------------------------------------------
(* Traces take turns *)

(* What a trace does between Lock and the deferred Unlock of t.mu. *)
Inside == {"lookup", "head", "send", "wait"}

TurnInv == \A m \in Tracers : mu = m <=> pc[m] \in Inside

LEMMA TurnNext == ASSUME TypeOK, CallInv, TurnInv, [Next]_vars PROVE TurnInv'
<1> USE DEF TurnInv, Inside
<1>1. CASE UNCHANGED vars
  BY <1>1 DEF vars
<1>2. ASSUME NEW m \in Calls, CallStep(m) PROVE TurnInv'
  <2>1. CASE ProbeListens(m)
    BY <2>1, CallsAssumption DEF ProbeListens, TypeOK
  <2>2. ASSUME Return(m) PROVE TurnInv'
    <3>1. /\ pc' = [pc EXCEPT ![m] = "returned"]
          /\ mu' = IF mu = m THEN NoTracer ELSE mu
      BY <2>2 DEF Return
    <3> QED
      BY <3>1, CallsAssumption DEF TypeOK
  <2>3. CASE TraceLock(m)
    <3>1. m \in Tracers
      BY <2>3 DEF TraceLock, CallInv
    <3> QED
      BY <2>3, <3>1, CallsAssumption DEF TraceLock, TypeOK
  <2>4. ASSUME NEW s \in Inside, pc[m] \in Inside, pc' = [pc EXCEPT ![m] = s], mu' = mu
        PROVE  TurnInv'
    BY <2>4 DEF TypeOK
  <2>5. CASE TraceListens(m) \/ TraceHop(m)
    BY <2>4, <2>5 DEF TraceListens, TraceHop
  <2>6. CASE NextHop(m)
    <3>1. CASE m \in Tracers
      BY <2>4, <2>6, <3>1 DEF NextHop, HopEnds
    <3>2. CASE m \notin Tracers
      BY <2>4, <2>6, <3>2 DEF NextHop, HopEnds
    <3> QED
      BY <3>1, <3>2
  <2>7. CASE Send(m) \/ SendFails(m)
    BY <2>4, <2>7 DEF Send, SendFails, Lost
  <2>8. CASE ReadTimesOut(m) \/ ReadAnswer(m) \/ ReadOther(m)
    BY <2>4, <2>8 DEF ReadTimesOut, ReadAnswer, ReadOther, Lost
  <2> QED
    BY <1>2, <2>1, <2>2, <2>3, <2>5, <2>6, <2>7, <2>8
       DEF CallStep, ProbeListenFails, TraceLookupFails, TraceListenFails, TraceCancelled,
           LastHop
<1>3. ASSUME NEW m \in Calls, TraceRequest(m) PROVE TurnInv'
  BY <1>3 DEF TraceRequest, TypeOK
<1>4. ASSUME NEW m \in Calls, ContextDone(m) PROVE TurnInv'
  BY <1>4 DEF ContextDone
<1>5. ASSUME NEW echo \in network, Answer(echo) PROVE TurnInv'
  BY <1>5 DEF Answer, Receive
<1>6. CASE StrangerArrives
  BY <1>6 DEF StrangerArrives, Receive
<1> QED
  BY <1>1, <1>2, <1>3, <1>4, <1>5, <1>6 DEF Next

(* Trace holds t.mu exactly from its lookup to its return: one trace at most *)
(* has a socket, and none that has returned, whichever way, keeps the lock.  *)
THEOREM TracesTakeTurns ==
    Spec => [](/\ \A m \in Tracers : mu = m <=> pc[m] \in Inside
               /\ \A m, o \in Tracers \cap open : m = o)
<1> DEFINE Turns == /\ \A m \in Tracers : mu = m <=> pc[m] \in Inside
                    /\ \A m, o \in Tracers \cap open : m = o
<1>1. Init => TurnInv
  BY CallsAssumption DEF Init, TurnInv, Inside, Calls
<1>2. IInv /\ TurnInv /\ [Next]_vars => TurnInv'
  BY TurnNext DEF IInv
<1>3. IInv /\ TurnInv => Turns
  BY DEF IInv, CallInv, TurnInv, Inside, Calls
<1> QED
  BY <1>1, <1>2, <1>3, IInvAlways, PTL DEF Spec

-----------------------------------------------------------------------------
(* Calls run down *)

(* The steps of a hop that is left out: Send and its outcome for each probe, *)
(* and the two of the loop over the TTLs.                                    *)
PerHop == 2 * ProbesPerHop + 2

(* What a call has still to do in its two loops, *)
InLoops(m) == (MaxHops - ttl[m]) * PerHop + 2 * (ProbesPerHop - seq[m])

(* and in all: a bound on its steps, whatever comes in on its socket. *)
Work(m) ==
    CASE pc[m] = "returned" -> 0
      [] pc[m] = "wait" -> InLoops(m)
      [] pc[m] = "send" -> InLoops(m) + 1
      [] pc[m] = "head" -> InLoops(m) + 2
      [] pc[m] = "lookup" -> InLoops(m) + 3
      [] pc[m] = "lock" -> InLoops(m) + 4
      [] pc[m] = "idle" -> InLoops(m) + 5

LEMMA ProductIsNat == ASSUME NEW a \in Nat, NEW b \in Nat PROVE a * b \in Nat
OBVIOUS

LEMMA ProductGrows ==
    ASSUME NEW a \in Nat, NEW b \in Nat, NEW c \in Nat, a <= b PROVE a * c <= b * c
<1>1. b - a \in Nat
  OBVIOUS
<1>2. (b - a) * c \in Nat
  BY <1>1, ProductIsNat
<1>3. b * c = a * c + (b - a) * c
  OBVIOUS
<1> QED
  BY <1>2, <1>3, ProductIsNat

LEMMA ProductStep ==
    ASSUME NEW a \in Int, NEW b \in Int, NEW c \in Int
    PROVE  a * b \in Int /\ (a - (c + 1)) * b = (a - c) * b - b
OBVIOUS

LEMMA LoopsLeft ==
    ASSUME TypeOK, NEW m \in Calls
    PROVE  /\ InLoops(m) \in Nat
           /\ InLoops(m) <= (MaxHops - 1) * PerHop + 2 * ProbesPerHop
<1>1. MaxHops - ttl[m] \in Nat /\ MaxHops - 1 \in Nat /\ MaxHops - ttl[m] <= MaxHops - 1
  BY SizeAssumption DEF TypeOK
<1>2. PerHop \in Nat
  BY SizeAssumption DEF PerHop
<1>3. (MaxHops - ttl[m]) * PerHop \in Nat
  BY <1>1, <1>2, ProductIsNat
<1>4. (MaxHops - ttl[m]) * PerHop <= (MaxHops - 1) * PerHop
  BY <1>1, <1>2, ProductGrows
<1>5. (MaxHops - 1) * PerHop \in Nat
  BY <1>1, <1>2, ProductIsNat
<1>6. 2 * (ProbesPerHop - seq[m]) \in Nat /\ 2 * (ProbesPerHop - seq[m]) <= 2 * ProbesPerHop
  BY SizeAssumption DEF TypeOK
<1> HIDE DEF PerHop
<1> DEFINE a == (MaxHops - ttl[m]) * PerHop
           b == (MaxHops - 1) * PerHop
           c == 2 * (ProbesPerHop - seq[m])
<1>7. a \in Nat /\ b \in Nat /\ c \in Nat /\ a <= b /\ c <= 2 * ProbesPerHop /\ ProbesPerHop \in Nat
  BY <1>3, <1>4, <1>5, <1>6, SizeAssumption
<1> HIDE DEF a, b, c
<1>8. a + c \in Nat /\ a + c <= b + 2 * ProbesPerHop
  BY <1>7
<1> QED
  BY <1>8 DEF InLoops, a, b, c

LEMMA WorkBound ==
    ASSUME TypeOK, NEW m \in Calls
    PROVE  Work(m) \in 0..((MaxHops - 1) * PerHop + 2 * ProbesPerHop + 5)
<1> DEFINE b == (MaxHops - 1) * PerHop + 2 * ProbesPerHop
<1>1. InLoops(m) \in Nat /\ InLoops(m) <= b
  BY LoopsLeft
<1>2. b \in Nat
  <2>1. MaxHops - 1 \in Nat /\ PerHop \in Nat /\ 2 * ProbesPerHop \in Nat
    BY SizeAssumption DEF PerHop
  <2>2. (MaxHops - 1) * PerHop \in Nat
    BY <2>1, ProductIsNat
  <2> HIDE DEF PerHop
  <2> QED
    BY <2>1, <2>2
<1>3. pc[m] \in States
  BY DEF TypeOK
<1> HIDE DEF b
<1>4. Work(m) \in 0..(b + 5)
  BY <1>1, <1>2, <1>3 DEF Work, States
<1> QED
  BY <1>4 DEF b

LEMMA WorkShrinks ==
    ASSUME TypeOK, CallInv, NEW m \in Calls, CallStep(m) \/ TraceRequest(m)
    PROVE  Work(m)' < Work(m)
<1> DEFINE L == InLoops(m)
<1>0. L \in Nat /\ ProbesPerHop \in Nat /\ seq[m] \in 0..ProbesPerHop /\ pc[m] \in States
  BY LoopsLeft, SizeAssumption DEF TypeOK
<1>1. ASSUME Return(m), pc[m] # "returned" PROVE Work(m)' < Work(m)
  <2>1. Work(m)' = 0
    BY <1>1 DEF Return, Work, TypeOK
  <2>2. Work(m) \in Nat /\ (pc[m] # "wait" => Work(m) > 0)
    BY <1>0, <1>1 DEF Work, States
  <2>3. pc[m] = "wait" => L > 0
    <3>1. SUFFICES ASSUME pc[m] = "wait" PROVE L > 0
      OBVIOUS
    <3>2. seq[m] < ProbesPerHop
      BY <3>1 DEF CallInv
    <3>3. (MaxHops - ttl[m]) * PerHop \in Nat
      <4>1. MaxHops - ttl[m] \in Nat /\ PerHop \in Nat
        BY SizeAssumption DEF TypeOK, PerHop
      <4> QED
        BY <4>1, ProductIsNat
    <3> DEFINE a == (MaxHops - ttl[m]) * PerHop
    <3>4. a \in Nat /\ L = a + 2 * (ProbesPerHop - seq[m])
      BY <3>3 DEF InLoops
    <3> HIDE DEF a, L
    <3> QED
      BY <1>0, <3>2, <3>4
  <2> QED
    BY <1>0, <2>1, <2>2, <2>3 DEF Work
<1>2. ASSUME UNCHANGED <<ttl, seq>> PROVE L' = L
  BY <1>2 DEF InLoops, PerHop
<1>3. CASE ProbeListens(m) \/ TraceLock(m) \/ TraceListens(m) \/ TraceHop(m) \/ TraceRequest(m)
  <2>1. /\ UNCHANGED <<ttl, seq>>
        /\ \/ pc[m] = "idle" /\ pc'[m] \in {"send", "lock"}
           \/ pc[m] = "lock" /\ pc'[m] = "lookup"
           \/ pc[m] = "lookup" /\ pc'[m] = "head"
           \/ pc[m] = "head" /\ pc'[m] = "send"
    BY <1>3 DEF ProbeListens, TraceLock, TraceListens, TraceHop, TraceRequest, TypeOK, hopVars
  <2>2. L' = L
    BY <1>2, <2>1
  <2> HIDE DEF L
  <2> QED
    BY <1>0, <2>1, <2>2 DEF Work, L
<1>4. CASE Send(m)
  <2>1. UNCHANGED <<ttl, seq>> /\ pc[m] = "send" /\ pc'[m] = "wait"
    BY <1>4 DEF Send, TypeOK, hopVars
  <2>2. L' = L
    BY <1>2, <2>1
  <2> QED
    BY <1>0, <2>1, <2>2 DEF Work
<1>5. CASE SendFails(m) \/ ReadTimesOut(m) \/ ReadAnswer(m) \/ ReadOther(m)
  <2>1. /\ UNCHANGED ttl /\ seq'[m] = seq[m] + 1
        /\ pc[m] \in {"send", "wait"} /\ pc'[m] = "send"
    BY <1>5 DEF SendFails, ReadTimesOut, ReadAnswer, ReadOther, Lost, TypeOK
  <2>2. L' = L - 2
    <3> DEFINE a == (MaxHops - ttl[m]) * PerHop
    <3>1. a' = a
      BY <2>1 DEF PerHop
    <3>2. a \in Int /\ L = a + 2 * (ProbesPerHop - seq[m])
                   /\ L' = a' + 2 * (ProbesPerHop - seq'[m])
      BY SizeAssumption DEF InLoops, PerHop, TypeOK
    <3> HIDE DEF a, L
    <3> QED
      BY <1>0, <2>1, <3>1, <3>2
  <2> QED
    BY <1>0, <2>1, <2>2 DEF Work
<1>6. CASE NextHop(m)
  <2>1. /\ pc[m] = "send" /\ seq[m] = ProbesPerHop /\ ttl'[m] = ttl[m] + 1 /\ seq'[m] = 0
        /\ pc'[m] \in {"send", "head"}
    BY <1>6 DEF NextHop, HopEnds, TypeOK
  <2>2. L' = L - 2
    <3> DEFINE a == (MaxHops - ttl[m]) * PerHop
    <3>1. a \in Int /\ a' = a - PerHop
      <4>1. PerHop \in Int /\ MaxHops \in Int /\ ttl[m] \in Int /\ PerHop' = PerHop
        BY SizeAssumption DEF PerHop, TypeOK
      <4>2. a' = (MaxHops - (ttl[m] + 1)) * PerHop
        BY <2>1, <4>1
      <4> HIDE DEF PerHop
      <4>3. (MaxHops - (ttl[m] + 1)) * PerHop = a - PerHop
        BY <4>1, ProductStep
      <4>4. a \in Int
        BY <4>1, ProductStep
      <4> QED
        BY <4>2, <4>3, <4>4
    <3>2. L = a + 2 * (ProbesPerHop - seq[m]) /\ L' = a' + 2 * (ProbesPerHop - seq'[m])
      BY DEF InLoops
    <3> HIDE DEF a, L
    <3> QED
      BY <1>0, <2>1, <3>1, <3>2 DEF PerHop
  <2> QED
    BY <1>0, <2>1, <2>2 DEF Work
<1>7. CASE \/ ProbeListenFails(m) \/ TraceLookupFails(m) \/ TraceListenFails(m)
           \/ TraceCancelled(m) \/ LastHop(m)
  <2>1. Return(m) /\ pc[m] # "returned"
    BY <1>7 DEF ProbeListenFails, TraceLookupFails, TraceListenFails, TraceCancelled,
                LastHop, HopEnds
  <2> QED
    BY <1>1, <2>1
<1> QED
  BY <1>3, <1>4, <1>5, <1>6, <1>7 DEF CallStep

LEMMA WorkStays ==
    ASSUME TypeOK, NEW m \in Calls, Next, ~CallStep(m), ~TraceRequest(m)
    PROVE  Work(m)' = Work(m)
<1>1. UNCHANGED <<pc[m], ttl[m], seq[m]>>
  <2>1. ASSUME NEW o \in Calls \ {m}, CallStep(o) PROVE UNCHANGED <<pc[m], ttl[m], seq[m]>>
    <3>1. ASSUME Return(o) PROVE UNCHANGED <<pc[m], ttl[m], seq[m]>>
      BY <2>1, <3>1 DEF Return, TypeOK, hopVars
    <3>2. CASE ProbeListens(o) \/ TraceLock(o) \/ TraceListens(o) \/ TraceHop(o)
      BY <2>1, <3>2 DEF ProbeListens, TraceLock, TraceListens, TraceHop, TypeOK, hopVars
    <3>3. CASE NextHop(o) \/ Send(o) \/ SendFails(o)
      BY <2>1, <3>3 DEF NextHop, HopEnds, Send, SendFails, Lost, TypeOK, hopVars
    <3>4. CASE ReadTimesOut(o) \/ ReadAnswer(o) \/ ReadOther(o)
      BY <2>1, <3>4 DEF ReadTimesOut, ReadAnswer, ReadOther, Lost, TypeOK
    <3> QED
      BY <2>1, <3>1, <3>2, <3>3, <3>4
         DEF CallStep, ProbeListenFails, TraceLookupFails, TraceListenFails, TraceCancelled,
             LastHop
  <2>2. ASSUME NEW o \in Calls \ {m}, TraceRequest(o)
        PROVE  UNCHANGED <<pc[m], ttl[m], seq[m]>>
    BY <2>2 DEF TraceRequest, TypeOK, hopVars
  <2>3. ASSUME NEW o \in Calls, ContextDone(o) PROVE UNCHANGED <<pc[m], ttl[m], seq[m]>>
    BY <2>3 DEF ContextDone, hopVars
  <2>4. ASSUME NEW echo \in network, Answer(echo) PROVE UNCHANGED <<pc[m], ttl[m], seq[m]>>
    BY <2>4 DEF Answer, Receive, hopVars
  <2>5. CASE StrangerArrives
    BY <2>5 DEF StrangerArrives, Receive, hopVars
  <2> QED
    BY <2>1, <2>2, <2>3, <2>4, <2>5 DEF Next
<1> QED
  BY <1>1 DEF Work, InLoops, PerHop

(* A call runs down: each of its steps leaves less to do, and nothing that   *)
(* answers, strangers, other calls or its context do adds to it.             *)
RunsDown ==
    [][\A m \in Calls : IF CallStep(m) \/ TraceRequest(m) THEN Work(m)' < Work(m)
                                                          ELSE Work(m)' = Work(m)]_vars

(* However many messages come in on its socket, a round or a trace takes a   *)
(* bounded number of steps, those of its two loops.                          *)
THEOREM CallsRunDown ==
    Spec => /\ RunsDown
            /\ [](\A m \in Calls :
                     Work(m) \in 0..((MaxHops - 1) * PerHop + 2 * ProbesPerHop + 5))
<1> DEFINE A == \A m \in Calls : IF CallStep(m) \/ TraceRequest(m) THEN Work(m)' < Work(m)
                                                                   ELSE Work(m)' = Work(m)
           B == \A m \in Calls :
                   Work(m) \in 0..((MaxHops - 1) * PerHop + 2 * ProbesPerHop + 5)
<1>1. IInv /\ [Next]_vars => [A]_vars
  <2> SUFFICES ASSUME IInv, Next
               PROVE  \A m \in Calls : IF CallStep(m) \/ TraceRequest(m)
                                       THEN Work(m)' < Work(m) ELSE Work(m)' = Work(m)
    OBVIOUS
  <2> QED
    BY WorkShrinks, WorkStays DEF IInv
<1>2. IInv => B
  BY WorkBound DEF IInv
<1>3. Spec => [][A]_vars
  BY <1>1, IInvAlways, PTL DEF Spec
<1> QED
  BY <1>2, <1>3, IInvAlways, PTL DEF RunsDown
=============================================================================
