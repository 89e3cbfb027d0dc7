---------------------------- MODULE NetPath_proofs ----------------------------
(***************************************************************************)
(* Theorems about module NetPath, for every set of targets, every limit of *)
(* the map and every history size.                                         *)
(***************************************************************************)
EXTENDS NetPath, FiniteSetTheorems, TLAPS

-----------------------------------------------------------------------------
(* The inductive strengthening *)

(* The map holds, for a target, a probe of that target; its flag and its     *)
(* channel tell the same, although DeleteProbe does not clear the flag,      *)
(* because a deleted probe is no longer in the map.                          *)
MapInv ==
    /\ \A t \in Targets : probes[t] # 0 =>
          /\ probes[t] \in 1..made /\ target[probes[t]] = t
          /\ running[probes[t]] => open[probes[t]]
    /\ \A p \in Probes : p > made => /\ ~open[p] /\ ~running[p] /\ status[p] = "none"
    /\ OpenProbesAreRegistered
    /\ NoDoubleClose

(* A lookup in progress has room for its probe, and replaces no running one: *)
(* n.mu is held since the checks.                                            *)
LookupInv ==
    /\ lookup # NoTarget =>
          /\ lookup \in Targets /\ made < MaxStarts
          /\ ~(probes[lookup] # 0 /\ running[probes[lookup]])
          /\ Cardinality(Registered) < MaxProbes
    /\ IsFiniteSet(Registered) /\ ProbesBounded

(* Results a probe may still take in: the one the loop works on, those that  *)
(* were sent, and the initial one.                                           *)
InHand(p) == IF loop[p] \in {"probing", "update"} THEN 1 ELSE 0
ToCome(p) == Len(updateChan[p]) + (IF initial[p] = "returned" THEN 0 ELSE 1)

(* Of these only the tick of a running probe adds one. *)
PendingInv ==
    \A p \in Probes :
        /\ p > made => /\ loop[p] = "none" /\ initial[p] = "none"
                       /\ late[p] = 0 /\ Len(updateChan[p]) = 0
        /\ ToCome(p) <= 1
        /\ running[p] => status[p] # "stopped"
        /\ open[p] => late[p] = 0
        /\ status[p] = "stopped" => late[p] + InHand(p) + ToCome(p) <= 2

(* The rounds of the loop follow one another; only the initial probe goes on *)
(* beside them.                                                              *)
ClockInv ==
    \A p \in Probes :
        /\ lastProbe[p] <= rounds /\ result[p].at <= rounds /\ first[p].at <= rounds
        /\ loop[p] \in {"probing", "update"} /\ ~result[p].initial =>
              lastProbe[p] <= result[p].at
        /\ initial[p] \in {"probing", "send"} => first[p].initial
        /\ \A k \in DOMAIN updateChan[p] :
              updateChan[p][k].initial /\ updateChan[p][k].at <= rounds

-----------------------------------------------------------------------------
(* What the steps of the goroutines leave alone *)

LEMMA LoopFrame ==
    ASSUME NEW p \in Probes, LoopStep(p)
    PROVE  UNCHANGED <<lookup, probes, made, probeVars, initial, first, panicked>>
BY DEF LoopStep, LoopStop, LoopReceive, LoopTick, LoopProbed, UpdateProbeResult

LEMMA InitialFrame ==
    ASSUME NEW p \in Probes, InitialStep(p)
    PROVE  UNCHANGED <<lookup, probes, made, probeVars, resultVars, loop, result, panicked>>
BY DEF InitialStep, InitialBegin, InitialProbed, InitialSend

LEMMA RequestFrame ==
    ASSUME RequestStep
    PROVE  /\ UNCHANGED <<updateChan, resultVars, result, first, rounds>>
           /\ ~LookupReturns => UNCHANGED <<made, target, loop, initial>>
<1>1. CASE LookupReturns
  BY <1>1 DEF LookupReturns
<1>2. CASE LookupFails \/ ReadProbes
  BY <1>2 DEF LookupFails, ReadProbes, vars, probeVars, goVars
<1>3. ASSUME NEW t \in Targets, StartProbe(t) \/ StartProbeAnswers(t)
      PROVE  UNCHANGED <<updateChan, resultVars, goVars, made, target>>
  BY <1>3 DEF StartProbe, StartProbeAnswers, vars, probeVars
<1>4. ASSUME NEW t \in Targets, StopProbe(t) \/ DeleteProbe(t)
      PROVE  UNCHANGED <<updateChan, resultVars, goVars, made, target>>
  BY <1>4 DEF StopProbe, DeleteProbe
<1> QED
  BY <1>1, <1>2, <1>3, <1>4 DEF RequestStep, goVars

-----------------------------------------------------------------------------
(* Types *)

LEMMA TypeInit == Init => TypeOK
<1> SUFFICES ASSUME Init PROVE TypeOK
  OBVIOUS
<1>1. NoResult \in Results
  BY SMT DEF NoResult, Results
<1>2. result \in [Probes -> Results] /\ first \in [Probes -> Results]
  BY <1>1 DEF Init
<1>3. /\ updateChan \in [Probes -> Seq(Results)] /\ history \in [Probes -> Seq(Results)]
      /\ \A p \in Probes : Len(history[p]) = 0
  BY DEF Init
<1>4. target \in [Probes -> Targets]
  <2>1. (CHOOSE t \in Targets : TRUE) \in Targets
    BY TargetsAssumption
  <2> QED
    BY <2>1 DEF Init
<1>5. \A p \in Probes : Len(history[p]) <= HistorySize
  BY <1>3, SizeAssumption
<1>6. made \in 0..MaxStarts /\ probes \in [Targets -> 0..MaxStarts]
  BY SizeAssumption DEF Init
<1>7. /\ lookup \in Targets \cup {NoTarget} /\ rounds \in Nat /\ panicked \in BOOLEAN
      /\ running \in [Probes -> BOOLEAN] /\ open \in [Probes -> BOOLEAN]
      /\ status \in [Probes -> {"none", "running", "stopped"}]
  BY DEF Init
<1>8. /\ lastProbe \in [Probes -> Nat] /\ probeCount \in [Probes -> Nat]
      /\ late \in [Probes -> Nat]
      /\ loop \in [Probes -> LoopStates] /\ initial \in [Probes -> InitialStates]
  BY DEF Init, LoopStates, InitialStates
<1> QED
  BY <1>2, <1>3, <1>4, <1>5, <1>6, <1>7, <1>8 DEF TypeOK

LEMMA TypeNext == ASSUME TypeOK, LookupInv, [Next]_vars PROVE TypeOK'
<1>1. CASE UNCHANGED vars
  BY <1>1 DEF TypeOK, vars, probeVars, resultVars, goVars
<1>2. CASE RequestStep
  <2>0. UNCHANGED <<updateChan, resultVars, result, first, rounds>>
    BY <1>2, RequestFrame
  <2>1. CASE LookupReturns
    <3>1. made + 1 \in Probes /\ made + 1 \in 0..MaxStarts /\ lookup \in Targets
      BY <2>1, SizeAssumption DEF LookupReturns, LookupInv, TypeOK, Probes
    <3>2. /\ made' \in 0..MaxStarts /\ lookup' \in Targets \cup {NoTarget}
          /\ probes' \in [Targets -> 0..MaxStarts] /\ target' \in [Probes -> Targets]
          /\ running' \in [Probes -> BOOLEAN] /\ open' \in [Probes -> BOOLEAN]
          /\ status' \in [Probes -> {"none", "running", "stopped"}]
      BY <2>1, <3>1 DEF LookupReturns, TypeOK
    <3>3. loop' \in [Probes -> LoopStates] /\ initial' \in [Probes -> InitialStates]
      BY <2>1, <3>1 DEF LookupReturns, TypeOK, LoopStates, InitialStates
    <3>4. panicked' \in BOOLEAN
      BY <2>1 DEF LookupReturns, TypeOK
    <3> QED
      BY <2>0, <3>2, <3>3, <3>4 DEF TypeOK, resultVars
  <2>2. CASE ~LookupReturns
    <3>0. UNCHANGED <<made, target, loop, initial>>
      BY <1>2, <2>2, RequestFrame
    <3>1. /\ lookup' \in Targets \cup {NoTarget} /\ probes' \in [Targets -> 0..MaxStarts]
          /\ running' \in [Probes -> BOOLEAN] /\ open' \in [Probes -> BOOLEAN]
          /\ status' \in [Probes -> {"none", "running", "stopped"}] /\ panicked' \in BOOLEAN
      <4> USE DEF TypeOK
      <4>1. CASE LookupFails \/ ReadProbes
        BY <4>1 DEF LookupFails, ReadProbes, vars, probeVars
      <4>2. ASSUME NEW t \in Targets, StartProbe(t) PROVE <3>1
        <5>1. lookup' = t /\ UNCHANGED <<probes, running, open, status, panicked>>
          BY <4>2 DEF StartProbe, probeVars
        <5> QED
          BY <5>1
      <4>3. ASSUME NEW t \in Targets, StartProbeAnswers(t) PROVE <3>1
        BY <4>3 DEF StartProbeAnswers, vars, probeVars
      <4>4. ASSUME NEW t \in Targets, StopProbe(t) PROVE <3>1
        BY <4>4 DEF StopProbe
      <4>5. ASSUME NEW t \in Targets, DeleteProbe(t) PROVE <3>1
        <5>1. probes[t] \in Probes
          BY <4>5, SizeAssumption DEF DeleteProbe, Probes
        <5>2. open' \in [Probes -> BOOLEAN]
          BY <4>5, <5>1 DEF DeleteProbe
        <5> QED
          <6>1. /\ lookup' = lookup /\ running' = running /\ status' = status
                /\ probes' = [probes EXCEPT ![t] = 0]
                /\ panicked' = (panicked \/ (running[probes[t]] /\ ~open[probes[t]]))
            BY <4>5 DEF DeleteProbe
          <6>2. panicked' \in BOOLEAN
            BY <6>1
          <6>3. probes' \in [Targets -> 0..MaxStarts]
            BY <6>1, SizeAssumption
          <6> QED
            BY <5>2, <6>1, <6>2, <6>3
      <4> QED
        BY <1>2, <2>2, <4>1, <4>2, <4>3, <4>4, <4>5 DEF RequestStep
    <3> QED
      BY <2>0, <3>0, <3>1 DEF TypeOK, resultVars
  <2> QED
    BY <2>1, <2>2
<1>3. ASSUME NEW p \in Probes, LoopStep(p) PROVE TypeOK'
  <2>1. /\ updateChan' \in [Probes -> Seq(Results)] /\ lastProbe' \in [Probes -> Nat]
        /\ probeCount' \in [Probes -> Nat] /\ history' \in [Probes -> Seq(Results)]
        /\ \A q \in Probes : Len(history'[q]) <= HistorySize
        /\ loop' \in [Probes -> LoopStates] /\ result' \in [Probes -> Results]
        /\ rounds' \in Nat /\ late' \in [Probes -> Nat]
    <3> USE DEF TypeOK, LoopStates, resultVars
    <3>1. CASE LoopStop(p)
      BY <3>1 DEF LoopStop
    <3>2. CASE LoopReceive(p)
      <4>1. Head(updateChan[p]) \in Results /\ Tail(updateChan[p]) \in Seq(Results)
        BY <3>2 DEF LoopReceive
      <4> QED
        BY <3>2, <4>1 DEF LoopReceive
    <3>3. CASE LoopTick(p)
      <4>1. [at |-> rounds + 1, initial |-> FALSE] \in Results
        BY DEF Results
      <4> QED
        BY <3>3, <4>1 DEF LoopTick
    <3>4. CASE LoopProbed(p)
      BY <3>4 DEF LoopProbed
    <3>5. CASE UpdateProbeResult(p)
      <4>1. /\ history[p] \in Seq(Results) /\ Len(history[p]) <= HistorySize
            /\ result[p] \in Results /\ result[p].at \in Nat
        BY DEF Results
      <4> DEFINE longer == Append(history[p], result[p])
                 kept == IF Len(longer) > HistorySize THEN Tail(longer) ELSE longer
      <4>2. kept \in Seq(Results) /\ Len(kept) <= HistorySize
        <5>1. longer \in Seq(Results) /\ Len(longer) = Len(history[p]) + 1
              /\ Len(history[p]) \in Nat
          BY <4>1
        <5> HIDE DEF longer
        <5>2. CASE Len(longer) > HistorySize
          BY <4>1, <5>1, <5>2, SizeAssumption
        <5>3. CASE ~(Len(longer) > HistorySize)
          BY <5>1, <5>3, SizeAssumption
        <5> QED
          BY <5>2, <5>3
      <4>3. history' = [history EXCEPT ![p] = kept]
        BY <3>5 DEF UpdateProbeResult
      <4> HIDE DEF kept
      <4>4. history' \in [Probes -> Seq(Results)]
            /\ \A q \in Probes : Len(history'[q]) <= HistorySize
        BY <4>2, <4>3
      <4> QED
        <5>1. /\ updateChan' = updateChan /\ result' = result /\ rounds' = rounds
              /\ lastProbe' = [lastProbe EXCEPT ![p] = result[p].at]
              /\ probeCount' = [probeCount EXCEPT ![p] = @ + 1]
              /\ late' = [late EXCEPT ![p] = IF open[p] THEN @ ELSE @ + 1]
              /\ loop' = [loop EXCEPT ![p] = "select"]
          BY <3>5 DEF UpdateProbeResult
        <5>2. late[p] + 1 \in Nat /\ probeCount[p] + 1 \in Nat
          OBVIOUS
        <5>3. late' \in [Probes -> Nat] /\ probeCount' \in [Probes -> Nat]
          BY <5>1, <5>2
        <5> QED
          BY <4>1, <4>4, <5>1, <5>3
    <3> QED
      BY <1>3, <3>1, <3>2, <3>3, <3>4, <3>5 DEF LoopStep
  <2> QED
    BY <1>3, <2>1, LoopFrame DEF TypeOK, probeVars
<1>4. ASSUME NEW p \in Probes, InitialStep(p) PROVE TypeOK'
  <2>1. /\ updateChan' \in [Probes -> Seq(Results)] /\ rounds' \in Nat
        /\ initial' \in [Probes -> InitialStates] /\ first' \in [Probes -> Results]
    <3> USE DEF TypeOK, InitialStates
    <3>1. CASE InitialBegin(p)
      <4>1. [at |-> rounds + 1, initial |-> TRUE] \in Results
        BY DEF Results
      <4> QED
        BY <3>1, <4>1 DEF InitialBegin
    <3>2. CASE InitialProbed(p)
      BY <3>2 DEF InitialProbed
    <3>3. CASE InitialSend(p)
      <4>1. Append(updateChan[p], first[p]) \in Seq(Results)
        OBVIOUS
      <4> QED
        BY <3>3, <4>1 DEF InitialSend
    <3> QED
      BY <1>4, <3>1, <3>2, <3>3 DEF InitialStep
  <2> QED
    BY <1>4, <2>1, InitialFrame DEF TypeOK, probeVars, resultVars
<1> QED
  BY <1>1, <1>2, <1>3, <1>4 DEF Next

-----------------------------------------------------------------------------
(* The parts of the strengthening *)

LEMMA MapNext == ASSUME TypeOK, MapInv, LookupInv, [Next]_vars PROVE MapInv'
<1> USE DEF MapInv, OpenProbesAreRegistered, NoDoubleClose
<1>1. CASE UNCHANGED <<probes, made, probeVars, panicked>>
  BY <1>1 DEF probeVars
<1>2. CASE RequestStep
  <2>1. CASE LookupReturns
    <3> DEFINE p == made + 1
    <3>1. p \in Probes /\ made \in Nat /\ lookup \in Targets
      BY <2>1, SizeAssumption DEF LookupReturns, LookupInv, TypeOK, Probes
    <3>2. /\ made' = p /\ panicked' = panicked
          /\ target' = [target EXCEPT ![p] = lookup]
          /\ running' = [running EXCEPT ![p] = TRUE]
          /\ open' = [open EXCEPT ![p] = TRUE]
          /\ status' = [status EXCEPT ![p] = "running"]
          /\ probes' = [probes EXCEPT ![lookup] = p]
      BY <2>1 DEF LookupReturns
    <3>3. \A t \in Targets \ {lookup} : probes'[t] = probes[t] /\ (probes[t] # 0 => probes[t] # p)
      BY <3>1, <3>2 DEF TypeOK
    <3>4. probes'[lookup] = p
      BY <3>1, <3>2 DEF TypeOK
    <3>5. /\ target'[p] = lookup /\ running'[p] /\ open'[p] /\ status'[p] = "running"
          /\ \A q \in Probes \ {p} : /\ target'[q] = target[q] /\ running'[q] = running[q]
                                      /\ open'[q] = open[q] /\ status'[q] = status[q]
      BY <3>1, <3>2 DEF TypeOK
    <3>6. probes[lookup] # 0 => ~open[probes[lookup]]
      BY <2>1, <3>1, SizeAssumption DEF LookupReturns, LookupInv, TypeOK, Probes
    <3>7. ASSUME NEW t \in Targets, probes'[t] # 0
          PROVE  /\ probes'[t] \in 1..made' /\ target'[probes'[t]] = t
                 /\ running'[probes'[t]] => open'[probes'[t]]
      <4>1. CASE t = lookup
        BY <3>1, <3>2, <3>4, <3>5, <4>1
      <4>2. CASE t # lookup
        <5>1. probes[t] \in 1..made /\ probes'[t] = probes[t]
          BY <3>3, <3>7, <4>2
        <5>2. probes[t] \in Probes \ {p} /\ probes[t] \in 1..made'
          <6>1. made' = made + 1 /\ made <= MaxStarts /\ MaxStarts \in Nat
            BY <3>2, SizeAssumption DEF TypeOK
          <6> QED
            BY <3>1, <5>1, <6>1 DEF Probes
        <5> QED
          BY <3>5, <3>7, <5>1, <5>2
      <4> QED
        BY <4>1, <4>2
    <3>8. ASSUME NEW q \in Probes, q > made'
          PROVE  ~open'[q] /\ ~running'[q] /\ status'[q] = "none"
      <4>1. q \in Probes \ {p} /\ q > made
        BY <3>1, <3>2, <3>8 DEF Probes
      <4> QED
        BY <3>5, <4>1
    <3>9. ASSUME NEW q \in Probes, open'[q]
          PROVE  probes'[target'[q]] = q /\ running'[q] /\ status'[q] = "running"
      <4>1. CASE q = p
        BY <3>4, <3>5, <4>1
      <4>2. CASE q # p
        <5>1. open[q] /\ probes[target[q]] = q /\ running[q] /\ status[q] = "running"
          BY <3>5, <3>9, <4>2
        <5>2. target[q] # lookup
          BY <3>6, <5>1 DEF Probes
        <5> QED
          BY <3>3, <3>5, <4>2, <5>1, <5>2 DEF TypeOK
      <4> QED
        BY <4>1, <4>2
    <3> QED
      BY <3>2, <3>7, <3>8, <3>9
  <2>2. ASSUME NEW t \in Targets, StopProbe(t) PROVE MapInv'
    <3> DEFINE p == probes[t]
    <3>1. /\ p \in 1..made /\ p \in Probes /\ target[p] = t /\ running[p] /\ open[p]
          /\ made \in Nat
      BY <2>2, SizeAssumption DEF StopProbe, TypeOK, Probes
    <3>2. /\ UNCHANGED <<probes, made, target>> /\ ~panicked'
          /\ ~open'[p] /\ ~running'[p]
          /\ \A q \in Probes \ {p} :
                open'[q] = open[q] /\ running'[q] = running[q] /\ status'[q] = status[q]
      BY <2>2, <3>1 DEF StopProbe, TypeOK
    <3>3. \A u \in Targets \ {t} : probes[u] # 0 => probes[u] \in Probes \ {p}
      BY <3>1, SizeAssumption DEF TypeOK, Probes
    <3>4. \A u \in Targets : probes[u] # 0 => (running'[probes[u]] => open'[probes[u]])
      BY <3>2, <3>3
    <3>5. \A q \in Probes : q > made => q # p
      BY <3>1 DEF Probes
    <3> HIDE DEF p
    <3> QED
      BY <3>2, <3>4, <3>5
  <2>3. ASSUME NEW t \in Targets, DeleteProbe(t) PROVE MapInv'
    <3> DEFINE p == probes[t]
    <3>1. /\ p \in 1..made /\ p \in Probes /\ target[p] = t /\ (running[p] => open[p])
          /\ made \in Nat
      BY <2>3, SizeAssumption DEF DeleteProbe, TypeOK, Probes
    <3>2. /\ UNCHANGED <<made, target, running, status>> /\ ~panicked'
          /\ open' = [open EXCEPT ![p] = IF running[p] THEN FALSE ELSE @]
          /\ probes' = [probes EXCEPT ![t] = 0]
      BY <2>3, <3>1 DEF DeleteProbe
    <3>3. /\ ~open'[p] /\ \A q \in Probes \ {p} : open'[q] = open[q]
          /\ probes'[t] = 0 /\ \A u \in Targets \ {t} : probes'[u] = probes[u]
      BY <3>1, <3>2 DEF TypeOK
    <3>4. \A u \in Targets \ {t} : probes[u] # 0 => probes[u] \in Probes \ {p}
      BY <3>1, SizeAssumption DEF TypeOK, Probes
    <3> HIDE DEF p
    <3>5. \A u \in Targets : probes'[u] # 0 =>
             /\ probes'[u] \in 1..made /\ target[probes'[u]] = u
             /\ running[probes'[u]] => open'[probes'[u]]
      BY <3>3, <3>4
    <3>6. \A q \in Probes : open'[q] => /\ probes'[target[q]] = q
                                       /\ running[q] /\ status[q] = "running"
      <4> SUFFICES ASSUME NEW q \in Probes, open'[q]
                   PROVE  probes'[target[q]] = q /\ running[q] /\ status[q] = "running"
        OBVIOUS
      <4>1. q # p /\ open[q] /\ probes[target[q]] = q /\ target[q] \in Targets
        BY <3>3 DEF TypeOK
      <4>2. target[q] # t
        BY <4>1 DEF p
      <4> QED
        BY <3>3, <4>1, <4>2
    <3>7. \A q \in Probes : q > made => ~open'[q]
      BY <3>1, <3>3
    <3> QED
      BY <3>2, <3>5, <3>6, <3>7
  <2>4. CASE LookupFails \/ ReadProbes
    BY <1>1, <2>4 DEF LookupFails, ReadProbes, vars, probeVars
  <2>5. ASSUME NEW t \in Targets, StartProbe(t) \/ StartProbeAnswers(t) PROVE MapInv'
    BY <1>1, <2>5 DEF StartProbe, StartProbeAnswers, vars
  <2> QED
    BY <1>2, <2>1, <2>2, <2>3, <2>4, <2>5 DEF RequestStep
<1> QED
  BY <1>1, <1>2, LoopFrame, InitialFrame DEF Next, vars

LEMMA LookupNext ==
    ASSUME TypeOK, LookupInv, [Next]_vars PROVE LookupInv'
<1>1. CASE UNCHANGED <<lookup, probes, made, probeVars>>
  BY <1>1 DEF LookupInv, Registered, ProbesBounded, probeVars
<1>2. CASE RequestStep
  <2>1. CASE LookupReturns
    <3>1. /\ lookup \in Targets /\ Cardinality(Registered) < MaxProbes
          /\ IsFiniteSet(Registered) /\ lookup' = NoTarget
      BY <2>1 DEF LookupReturns, LookupInv
    <3>2. Registered' = Registered \cup {lookup}
      BY <2>1, <3>1, SizeAssumption DEF LookupReturns, LookupInv, Registered, TypeOK
    <3>3. /\ IsFiniteSet(Registered \cup {lookup}) /\ Cardinality(Registered) \in Nat
          /\ Cardinality(Registered \cup {lookup}) <= Cardinality(Registered) + 1
      <4>1. Cardinality(Registered) \in Nat
        BY <3>1, FS_CardinalityType
      <4>2. /\ IsFiniteSet(Registered \cup {lookup})
            /\ Cardinality(Registered \cup {lookup}) =
                  IF lookup \in Registered THEN Cardinality(Registered)
                  ELSE Cardinality(Registered) + 1
        BY <3>1, FS_AddElement
      <4> QED
        BY <4>1, <4>2
    <3>4. IsFiniteSet(Registered') /\ Cardinality(Registered') <= MaxProbes
      <4>1. Cardinality(Registered') = Cardinality(Registered \cup {lookup})
            /\ Cardinality(Registered') \in Nat
        BY <3>2, <3>3, FS_CardinalityType
      <4> QED
        BY <3>1, <3>2, <3>3, <4>1, SizeAssumption
    <3> QED
      BY <3>1, <3>4 DEF LookupInv, ProbesBounded
  <2>2. ASSUME NEW t \in Targets, StartProbe(t) PROVE LookupInv'
    BY <2>2 DEF StartProbe, LookupInv, Registered, ProbesBounded, probeVars
  <2>3. ASSUME NEW t \in Targets, StopProbe(t) PROVE LookupInv'
    BY <2>3 DEF StopProbe, MuIsFree, LookupInv, Registered, ProbesBounded
  <2>4. ASSUME NEW t \in Targets, DeleteProbe(t) PROVE LookupInv'
    <3>1. lookup' = NoTarget /\ probes' = [probes EXCEPT ![t] = 0]
      BY <2>4 DEF DeleteProbe, MuIsFree
    <3>2. Registered' \in SUBSET Registered
      BY <3>1 DEF Registered, TypeOK
    <3>3. IsFiniteSet(Registered') /\ Cardinality(Registered') <= Cardinality(Registered)
      BY <3>2, FS_Subset DEF LookupInv
    <3>4. Cardinality(Registered) \in Nat /\ Cardinality(Registered') \in Nat
      BY <3>3, FS_CardinalityType DEF LookupInv
    <3>5. Cardinality(Registered') <= MaxProbes
      BY <3>3, <3>4, SizeAssumption DEF LookupInv, ProbesBounded
    <3> QED
      BY <3>1, <3>3, <3>5 DEF LookupInv, ProbesBounded
  <2>5. CASE LookupFails
    BY <2>5 DEF LookupFails, LookupInv, Registered, ProbesBounded
  <2>6. ASSUME NEW t \in Targets, StartProbeAnswers(t) PROVE LookupInv'
    BY <1>1, <2>6 DEF StartProbeAnswers, vars
  <2>7. CASE ReadProbes
    BY <1>1, <2>7 DEF ReadProbes, vars
  <2> QED
    BY <1>2, <2>1, <2>2, <2>3, <2>4, <2>5, <2>6, <2>7 DEF RequestStep
<1> QED
  BY <1>1, <1>2, LoopFrame, InitialFrame DEF Next, vars

LEMMA PendingNext ==
    ASSUME TypeOK, MapInv, LookupInv, PendingInv, [Next]_vars PROVE PendingInv'
<1>0. \A p \in Probes : /\ Len(updateChan[p]) \in Nat /\ late[p] \in Nat
                        /\ InHand(p) \in {0, 1} /\ ToCome(p) \in Nat
  BY DEF TypeOK, InHand, ToCome
<1>1. CASE UNCHANGED vars
  BY <1>1 DEF PendingInv, InHand, ToCome, vars, probeVars, resultVars, goVars
<1>2. CASE RequestStep
  <2>1. UNCHANGED <<updateChan, late>>
    BY <1>2, RequestFrame DEF resultVars
  <2>2. CASE LookupReturns
    <3>0. PICK p \in Probes : p = made + 1
      BY <2>2, SizeAssumption DEF LookupReturns, LookupInv, TypeOK, Probes
    <3>1. p \in Probes /\ p > made
      BY <3>0 DEF TypeOK
    <3>2. /\ running' = [running EXCEPT ![p] = TRUE] /\ open' = [open EXCEPT ![p] = TRUE]
          /\ status' = [status EXCEPT ![p] = "running"]
          /\ loop' = [loop EXCEPT ![p] = "select"]
          /\ initial' = [initial EXCEPT ![p] = "spawned"]
      BY <2>2, <3>0 DEF LookupReturns
    <3>3. initial[p] = "none" /\ late[p] = 0 /\ Len(updateChan[p]) = 0
      BY <3>1 DEF PendingInv, MapInv
    <3>4. \A q \in Probes \ {p} : /\ running'[q] = running[q] /\ open'[q] = open[q]
                                  /\ status'[q] = status[q] /\ InHand(q)' = InHand(q)
                                  /\ ToCome(q)' = ToCome(q)
      BY <2>1, <3>1, <3>2 DEF TypeOK, InHand, ToCome
    <3>5. status'[p] = "running" /\ initial'[p] = "spawned"
      BY <3>1, <3>2 DEF TypeOK
    <3>6. ToCome(p)' = 1
      BY <2>1, <3>3, <3>5 DEF ToCome
    <3>7. made' = p
      BY <2>2, <3>0 DEF LookupReturns
    <3>8. \A q \in Probes : q > made' => q > made /\ q # p
      BY <3>1, <3>7, SizeAssumption DEF Probes, TypeOK
    <3>9. \A q \in Probes \ {p} : loop'[q] = loop[q] /\ initial'[q] = initial[q]
      BY <3>1, <3>2 DEF TypeOK
    <3> QED
      BY <2>1, <3>3, <3>4, <3>5, <3>6, <3>8, <3>9 DEF PendingInv
  <2>3. CASE ~LookupReturns
    <3>1. UNCHANGED <<loop, initial, made>>
      BY <1>2, <2>3, RequestFrame
    <3>2. \A p \in Probes : InHand(p)' = InHand(p) /\ ToCome(p)' = ToCome(p)
      BY <2>1, <3>1 DEF InHand, ToCome
    <3>3. CASE UNCHANGED <<running, open, status>>
      BY <2>1, <3>1, <3>2, <3>3 DEF PendingInv
    <3>4. ASSUME NEW t \in Targets, StopProbe(t) PROVE PendingInv'
      <4> DEFINE p == probes[t]
      <4>1. p \in Probes /\ open[p]
        BY <3>4, SizeAssumption DEF StopProbe, MapInv, TypeOK, Probes
      <4>2. /\ ~open'[p] /\ ~running'[p] /\ status'[p] = "stopped"
            /\ \A q \in Probes \ {p} :
                  running'[q] = running[q] /\ open'[q] = open[q] /\ status'[q] = status[q]
        BY <3>4, <4>1 DEF StopProbe, TypeOK
      <4>3. late[p] + InHand(p) + ToCome(p) <= 2
        <5>1. late[p] = 0 /\ ToCome(p) <= 1
          BY <4>1 DEF PendingInv
        <5> HIDE DEF p
        <5> QED
          BY <1>0, <4>1, <5>1
      <4> HIDE DEF p
      <4> QED
        BY <2>1, <3>1, <3>2, <4>1, <4>2, <4>3 DEF PendingInv
    <3>5. ASSUME NEW t \in Targets, DeleteProbe(t) PROVE PendingInv'
      <4>1. /\ UNCHANGED <<running, status>>
            /\ \A q \in Probes : open'[q] => open[q]
        <5>1. probes[t] \in Probes
          BY <3>5, SizeAssumption DEF DeleteProbe, TypeOK, Probes
        <5> QED
          BY <3>5, <5>1 DEF DeleteProbe, TypeOK
      <4> QED
        BY <2>1, <3>1, <3>2, <4>1 DEF PendingInv
    <3>6. ASSUME NEW t \in Targets, StartProbe(t) \/ StartProbeAnswers(t)
          PROVE  UNCHANGED <<running, open, status>>
      BY <3>6 DEF StartProbe, StartProbeAnswers, vars, probeVars
    <3>7. ASSUME LookupFails \/ ReadProbes PROVE UNCHANGED <<running, open, status>>
      BY <3>7 DEF LookupFails, ReadProbes, vars, probeVars
    <3> QED
      BY <1>2, <2>3, <3>3, <3>4, <3>5, <3>6, <3>7 DEF RequestStep
  <2> QED
    BY <2>2, <2>3
<1>3. ASSUME NEW p \in Probes, LoopStep(p) PROVE PendingInv'
  <2>1. UNCHANGED <<running, open, status, initial, made>>
    BY <1>3, LoopFrame DEF probeVars
  <2>2. \A q \in Probes \ {p} : /\ loop'[q] = loop[q] /\ late'[q] = late[q]
                                /\ updateChan'[q] = updateChan[q]
    BY <1>3
       DEF LoopStep, LoopStop, LoopReceive, LoopTick, LoopProbed, UpdateProbeResult,
           resultVars, TypeOK
  <2>3. /\ open[p] => late'[p] = 0
        /\ ToCome(p)' <= ToCome(p)
        /\ status[p] = "stopped" =>
              late'[p] + InHand(p)' + ToCome(p)' <= late[p] + InHand(p) + ToCome(p)
    <3>1. CASE LoopStop(p) \/ LoopProbed(p)
      <4>1. UNCHANGED <<updateChan, late>> /\ InHand(p)' = InHand(p)
        BY <3>1 DEF LoopStop, LoopProbed, resultVars, InHand, TypeOK
      <4>2. ToCome(p)' = ToCome(p)
        BY <2>1, <4>1 DEF ToCome
      <4> QED
        BY <1>0, <4>1, <4>2 DEF PendingInv
    <3>2. CASE LoopReceive(p)
      <4>1. /\ updateChan[p] \in Seq(Results) /\ updateChan[p] # <<>>
            /\ updateChan'[p] = Tail(updateChan[p]) /\ loop'[p] = "update"
            /\ loop[p] = "select" /\ late' = late
        BY <3>2 DEF LoopReceive, resultVars, TypeOK
      <4>2. Len(updateChan'[p]) = Len(updateChan[p]) - 1
        BY <4>1
      <4>3. ToCome(p)' = ToCome(p) - 1
        BY <1>0, <2>1, <4>2 DEF ToCome
      <4>4. InHand(p) = 0 /\ InHand(p)' = 1
        BY <4>1 DEF InHand
      <4> QED
        BY <1>0, <4>1, <4>3, <4>4 DEF PendingInv
    <3>3. CASE LoopTick(p)
      <4>1. running[p] /\ updateChan' = updateChan /\ late' = late
        BY <3>3 DEF LoopTick, resultVars
      <4>2. ToCome(p)' = ToCome(p) /\ status[p] # "stopped"
        BY <2>1, <4>1 DEF ToCome, PendingInv
      <4> QED
        BY <1>0, <4>1, <4>2 DEF PendingInv
    <3>4. CASE UpdateProbeResult(p)
      <4>1. /\ loop[p] = "update" /\ loop'[p] = "select" /\ updateChan' = updateChan
            /\ late'[p] = IF open[p] THEN late[p] ELSE late[p] + 1
        BY <3>4 DEF UpdateProbeResult, TypeOK
      <4>2. ToCome(p)' = ToCome(p) /\ InHand(p) = 1 /\ InHand(p)' = 0
        BY <2>1, <4>1 DEF ToCome, InHand
      <4> QED
        BY <1>0, <4>1, <4>2 DEF PendingInv
    <3> QED
      BY <1>3, <3>1, <3>2, <3>3, <3>4 DEF LoopStep
  <2>4. ASSUME NEW q \in Probes \ {p}
        PROVE  InHand(q)' = InHand(q) /\ ToCome(q)' = ToCome(q)
    BY <2>1, <2>2 DEF InHand, ToCome
  <2>5. p <= made
    BY <1>3 DEF PendingInv, LoopStep, LoopStop, LoopReceive, LoopTick, LoopProbed,
                UpdateProbeResult, Probes, TypeOK
  <2>6. InHand(p)' \in {0, 1} /\ ToCome(p)' \in Int /\ late'[p] \in Int
    <3>1. TypeOK'
      BY TypeNext
    <3> QED
      BY <3>1 DEF TypeOK, InHand, ToCome
  <2>7. ASSUME NEW q \in Probes, q > made' PROVE q # p /\ q > made
    <3>1. q \in Int /\ p \in Int /\ made \in Int
      BY DEF Probes, TypeOK
    <3> QED
      BY <2>1, <2>5, <2>7, <3>1
  <2>8. ToCome(p)' <= 1
    BY <1>0, <2>3, <2>6 DEF PendingInv
  <2>9. status'[p] = "stopped" => late'[p] + InHand(p)' + ToCome(p)' <= 2
    BY <1>0, <2>1, <2>3, <2>6 DEF PendingInv
  <2> QED
    BY <2>1, <2>2, <2>3, <2>4, <2>7, <2>8, <2>9 DEF PendingInv
<1>4. ASSUME NEW p \in Probes, InitialStep(p) PROVE PendingInv'
  <2>1. UNCHANGED <<running, open, status, loop, late, made>>
    BY <1>4, InitialFrame DEF probeVars, resultVars
  <2>2. \A q \in Probes \ {p} : initial'[q] = initial[q] /\ updateChan'[q] = updateChan[q]
    BY <1>4 DEF InitialStep, InitialBegin, InitialProbed, InitialSend, TypeOK
  <2>3. ToCome(p)' = ToCome(p) /\ initial[p] # "none"
    <3>1. CASE InitialBegin(p) \/ InitialProbed(p)
      BY <3>1 DEF InitialBegin, InitialProbed, ToCome, TypeOK
    <3>2. CASE InitialSend(p)
      <4>1. /\ updateChan[p] \in Seq(Results) /\ initial[p] = "send"
            /\ updateChan'[p] = Append(updateChan[p], first[p]) /\ initial'[p] = "returned"
        BY <3>2 DEF InitialSend, TypeOK
      <4>2. Len(updateChan'[p]) = Len(updateChan[p]) + 1 /\ Len(updateChan[p]) \in Nat
        BY <4>1
      <4> QED
        BY <4>1, <4>2 DEF ToCome
    <3> QED
      BY <1>4, <3>1, <3>2 DEF InitialStep
  <2>4. \A q \in Probes : InHand(q)' = InHand(q) /\ ToCome(q)' = ToCome(q)
    BY <2>1, <2>2, <2>3 DEF InHand, ToCome
  <2>5. p <= made
    BY <2>3 DEF PendingInv, Probes, TypeOK
  <2> QED
    BY <2>1, <2>2, <2>4, <2>5 DEF PendingInv, TypeOK, Probes
<1> QED
  BY <1>1, <1>2, <1>3, <1>4 DEF Next

LEMMA ClockNext == ASSUME TypeOK, ClockInv, [Next]_vars PROVE ClockInv'
<1>0. /\ rounds \in Nat
      /\ \A p \in Probes : /\ result[p].at \in Nat /\ first[p].at \in Nat
                            /\ lastProbe[p] \in Nat
                            /\ \A k \in DOMAIN updateChan[p] : updateChan[p][k].at \in Nat
  <2>1. \A p \in Probes : \A k \in DOMAIN updateChan[p] : updateChan[p][k] \in Results
    BY DEF TypeOK
  <2> QED
    BY <2>1 DEF TypeOK, Results
<1>1. CASE UNCHANGED vars
  BY <1>1 DEF ClockInv, vars, resultVars, goVars
<1>2. CASE RequestStep
  <2>1. UNCHANGED <<updateChan, lastProbe, result, first, rounds>>
    BY <1>2, RequestFrame DEF resultVars
  <2>2. /\ \A p \in Probes : loop'[p] \in {"probing", "update"} => loop'[p] = loop[p]
        /\ \A p \in Probes : initial'[p] \in {"probing", "send"} => initial'[p] = initial[p]
    <3>1. CASE LookupReturns
      BY <3>1 DEF LookupReturns, TypeOK
    <3>2. CASE ~LookupReturns
      BY <1>2, <3>2, RequestFrame
    <3> QED
      BY <3>1, <3>2
  <2> QED
    BY <2>1, <2>2 DEF ClockInv
<1>3. ASSUME NEW p \in Probes, LoopStep(p) PROVE ClockInv'
  <2>1. UNCHANGED <<initial, first>>
    BY <1>3, LoopFrame
  <2>2. \A q \in Probes \ {p} :
           /\ lastProbe'[q] = lastProbe[q] /\ result'[q] = result[q]
           /\ loop'[q] = loop[q] /\ updateChan'[q] = updateChan[q]
    BY <1>3
       DEF LoopStep, LoopStop, LoopReceive, LoopTick, LoopProbed, UpdateProbeResult,
           resultVars, TypeOK
  <2>3. /\ rounds' \in Nat /\ rounds <= rounds'
        /\ lastProbe'[p] <= rounds' /\ result'[p].at <= rounds'
        /\ loop'[p] \in {"probing", "update"} /\ ~result'[p].initial =>
              lastProbe'[p] <= result'[p].at
        /\ \A k \in DOMAIN updateChan'[p] :
              updateChan'[p][k].initial /\ updateChan'[p][k].at <= rounds'
    <3>1. CASE LoopStop(p)
      BY <1>0, <3>1 DEF LoopStop, resultVars, TypeOK, ClockInv
    <3>2. CASE LoopReceive(p)
      <4>1. /\ updateChan[p] \in Seq(Results) /\ updateChan[p] # <<>>
            /\ updateChan'[p] = Tail(updateChan[p]) /\ result'[p] = Head(updateChan[p])
            /\ UNCHANGED <<lastProbe, rounds>>
        BY <3>2 DEF LoopReceive, resultVars, TypeOK
      <4>2. /\ 1 \in DOMAIN updateChan[p] /\ result'[p] = updateChan[p][1]
            /\ \A k \in DOMAIN updateChan'[p] :
                  k + 1 \in DOMAIN updateChan[p] /\ updateChan'[p][k] = updateChan[p][k + 1]
        BY <4>1
      <4> QED
        BY <1>0, <4>1, <4>2 DEF ClockInv
    <3>3. CASE LoopTick(p)
      <4>1. /\ result'[p] = [at |-> rounds + 1, initial |-> FALSE] /\ rounds' = rounds + 1
            /\ UNCHANGED <<lastProbe, updateChan>>
        BY <3>3 DEF LoopTick, resultVars, TypeOK
      <4> QED
        BY <1>0, <4>1 DEF ClockInv
    <3>4. CASE LoopProbed(p)
      BY <1>0, <3>4 DEF LoopProbed, resultVars, TypeOK, ClockInv
    <3>5. CASE UpdateProbeResult(p)
      BY <1>0, <3>5 DEF UpdateProbeResult, TypeOK, ClockInv
    <3> QED
      BY <1>3, <3>1, <3>2, <3>3, <3>4, <3>5 DEF LoopStep
  <2> QED
    BY <1>0, <2>1, <2>2, <2>3 DEF ClockInv
<1>4. ASSUME NEW p \in Probes, InitialStep(p) PROVE ClockInv'
  <2>1. UNCHANGED <<lastProbe, loop, result>>
    BY <1>4, InitialFrame DEF resultVars
  <2>2. \A q \in Probes \ {p} : /\ first'[q] = first[q] /\ initial'[q] = initial[q]
                                /\ updateChan'[q] = updateChan[q]
    BY <1>4 DEF InitialStep, InitialBegin, InitialProbed, InitialSend, TypeOK
  <2>3. /\ rounds' \in Nat /\ rounds <= rounds' /\ first'[p].at <= rounds'
        /\ initial'[p] \in {"probing", "send"} => first'[p].initial
        /\ \A k \in DOMAIN updateChan'[p] :
              updateChan'[p][k].initial /\ updateChan'[p][k].at <= rounds'
    <3>1. CASE InitialBegin(p)
      <4>1. /\ first'[p] = [at |-> rounds + 1, initial |-> TRUE] /\ rounds' = rounds + 1
            /\ updateChan' = updateChan
        BY <3>1 DEF InitialBegin, TypeOK
      <4> QED
        BY <1>0, <4>1 DEF ClockInv
    <3>2. CASE InitialProbed(p)
      BY <1>0, <3>2 DEF InitialProbed, TypeOK, ClockInv
    <3>3. CASE InitialSend(p)
      <4>1. /\ updateChan[p] \in Seq(Results) /\ first[p] \in Results /\ first[p].initial
            /\ updateChan'[p] = Append(updateChan[p], first[p])
            /\ initial'[p] = "returned" /\ UNCHANGED <<first, rounds>>
        BY <3>3 DEF InitialSend, TypeOK, ClockInv
      <4>2. \A k \in DOMAIN updateChan'[p] :
               \/ k \in DOMAIN updateChan[p] /\ updateChan'[p][k] = updateChan[p][k]
               \/ updateChan'[p][k] = first[p]
        BY <4>1
      <4> QED
        BY <1>0, <4>1, <4>2 DEF ClockInv
    <3> QED
      BY <1>4, <3>1, <3>2, <3>3 DEF InitialStep
  <2> QED
    BY <1>0, <2>1, <2>2, <2>3 DEF ClockInv
<1> QED
  BY <1>1, <1>2, <1>3, <1>4 DEF Next

-----------------------------------------------------------------------------
(* The inductive invariant *)

IInv == TypeOK /\ MapInv /\ LookupInv /\ PendingInv /\ ClockInv

LEMMA IInvInit == Init => IInv
<1> SUFFICES ASSUME Init PROVE IInv
  OBVIOUS
<1>1. TypeOK
  BY TypeInit
<1>2. MapInv
  BY DEF Init, MapInv, OpenProbesAreRegistered, NoDoubleClose
<1>3. LookupInv
  <2>1. Registered = {}
    BY DEF Init, Registered
  <2>2. IsFiniteSet({}) /\ Cardinality({}) = 0
    BY FS_EmptySet
  <2> QED
    BY <2>1, <2>2, SizeAssumption DEF Init, LookupInv, ProbesBounded
<1>4. PendingInv
  <2>1. \A p \in Probes : Len(updateChan[p]) = 0
    BY DEF Init
  <2> QED
    BY <2>1 DEF Init, PendingInv, ToCome
<1>5. ClockInv
  BY DEF Init, ClockInv, NoResult
<1> QED
  BY <1>1, <1>2, <1>3, <1>4, <1>5 DEF IInv

LEMMA IInvNext == IInv /\ [Next]_vars => IInv'
BY TypeNext, MapNext, LookupNext, PendingNext, ClockNext DEF IInv

LEMMA IInvAlways == Spec => []IInv
BY IInvInit, IInvNext, PTL DEF Spec

-----------------------------------------------------------------------------
(* The table of probes implements module Registry *)

(* The flag and the status of a probe tell the same, deleted or not; a probe *)
(* not made yet has counted nothing.                                         *)
StatusInv ==
    \A p \in Probes : /\ running[p] <=> status[p] = "running"
                      /\ status[p] # "none" <=> p <= made
                      /\ p > made => probeCount[p] = 0

LEMMA StatusInit == Init => StatusInv
<1> SUFFICES ASSUME Init, NEW p \in Probes
             PROVE  /\ running[p] <=> status[p] = "running"
                    /\ status[p] # "none" <=> p <= made
                    /\ p > made => probeCount[p] = 0
  BY DEF StatusInv
<1>1. ~running[p] /\ status[p] = "none" /\ made = 0 /\ probeCount[p] = 0
  BY DEF Init
<1> QED
  BY <1>1 DEF Probes

LEMMA StatusNext ==
    ASSUME TypeOK, MapInv, LookupInv, PendingInv, StatusInv, [Next]_vars PROVE StatusInv'
<1>1. CASE UNCHANGED <<running, status, made, probeCount>>
  BY <1>1 DEF StatusInv
<1>2. CASE LookupReturns
  <2>1. PICK p : p = made + 1
    OBVIOUS
  <2>2. /\ made' = p /\ running' = [running EXCEPT ![p] = TRUE]
        /\ status' = [status EXCEPT ![p] = "running"] /\ probeCount' = probeCount
    BY <1>2, <2>1 DEF LookupReturns, resultVars
  <2>3. made \in Nat
    BY SizeAssumption DEF TypeOK
  <2> QED
    BY <2>1, <2>2, <2>3 DEF StatusInv, TypeOK, Probes
<1>3. ASSUME NEW t \in Targets, StopProbe(t) PROVE StatusInv'
  <2>1. PICK q : q = probes[t]
    OBVIOUS
  <2>2. q \in Probes /\ running[q] /\ made' = made /\ probeCount' = probeCount
    BY <1>3, <2>1, SizeAssumption DEF StopProbe, TypeOK, Probes, resultVars
  <2>3. /\ running' = [running EXCEPT ![q] = FALSE]
        /\ status' = [status EXCEPT ![q] = "stopped"]
    BY <1>3, <2>1 DEF StopProbe
  <2> QED
    BY <2>2, <2>3 DEF StatusInv, TypeOK
<1>4. ASSUME NEW p \in Probes, LoopStep(p) PROVE StatusInv'
  <2>1. UNCHANGED <<running, status, made>>
    BY <1>4, LoopFrame DEF probeVars
  <2>2. CASE UpdateProbeResult(p)
    <3>1. p <= made
      BY <2>2, SizeAssumption DEF UpdateProbeResult, PendingInv, TypeOK, Probes
    <3>2. probeCount' = [probeCount EXCEPT ![p] = @ + 1]
      BY <2>2 DEF UpdateProbeResult
    <3>3. \A q \in Probes : q > made => probeCount'[q] = probeCount[q]
      BY <3>1, <3>2, SizeAssumption DEF TypeOK, Probes
    <3> QED
      BY <2>1, <3>3 DEF StatusInv
  <2>3. CASE ~UpdateProbeResult(p)
    BY <1>1, <1>4, <2>1, <2>3
       DEF LoopStep, LoopStop, LoopReceive, LoopTick, LoopProbed, resultVars
  <2> QED
    BY <2>2, <2>3
<1>5. ASSUME NEW p \in Probes, InitialStep(p) PROVE StatusInv'
  BY <1>1, <1>5, InitialFrame DEF probeVars, resultVars
<1>6. CASE RequestStep /\ ~LookupReturns
  <2>1. UNCHANGED <<made, probeCount>>
    BY <1>6, RequestFrame DEF resultVars
  <2>2. CASE LookupFails \/ ReadProbes \/ \E t \in Targets : StartProbe(t) \/ StartProbeAnswers(t)
    BY <1>1, <2>1, <2>2 DEF LookupFails, ReadProbes, StartProbe, StartProbeAnswers, vars, probeVars
  <2>3. ASSUME NEW t \in Targets, DeleteProbe(t) PROVE StatusInv'
    BY <1>1, <2>1, <2>3 DEF DeleteProbe
  <2> QED
    BY <1>3, <1>6, <2>2, <2>3 DEF RequestStep
<1> QED
  BY <1>1, <1>2, <1>3, <1>4, <1>5, <1>6 DEF Next, vars, probeVars, resultVars

(* The table shows the probe of the map; a target without one shows nothing. *)
LEMMA ShownNow ==
    /\ OfProbe(status, "none") =
          [t \in Targets |-> IF probes[t] = 0 THEN "none" ELSE status[probes[t]]]
    /\ OfProbe(probeCount, 0) =
          [t \in Targets |-> IF probes[t] = 0 THEN 0 ELSE probeCount[probes[t]]]
    /\ OfProbe(late, 0) =
          [t \in Targets |-> IF probes[t] = 0 THEN 0 ELSE late[probes[t]]]
BY DEF OfProbe

LEMMA ShownThen ==
    /\ OfProbe(status, "none")' =
          [t \in Targets |-> IF probes'[t] = 0 THEN "none" ELSE status'[probes'[t]]]
    /\ OfProbe(probeCount, 0)' =
          [t \in Targets |-> IF probes'[t] = 0 THEN 0 ELSE probeCount'[probes'[t]]]
    /\ OfProbe(late, 0)' =
          [t \in Targets |-> IF probes'[t] = 0 THEN 0 ELSE late'[probes'[t]]]
BY DEF OfProbe

LEMMA EntryChanged ==
    ASSUME NEW F, NEW G, NEW u \in Targets, NEW v,
           F = [t \in Targets |-> F[t]], G = [t \in Targets |-> G[t]],
           G[u] = v, \A t \in Targets \ {u} : G[t] = F[t]
    PROVE  G = [F EXCEPT ![u] = v]
OBVIOUS

(* A step that changes what one target shows changes one entry. *)
LEMMA OneEntry ==
    ASSUME NEW u \in Targets, NEW e, NEW c, NEW x,
           e = IF probes'[u] = 0 THEN "none" ELSE status'[probes'[u]],
           c = IF probes'[u] = 0 THEN 0 ELSE probeCount'[probes'[u]],
           x = IF probes'[u] = 0 THEN 0 ELSE late'[probes'[u]],
           \A t \in Targets \ {u} :
              /\ probes'[t] = probes[t]
              /\ probes[t] # 0 => /\ status'[probes[t]] = status[probes[t]]
                                  /\ probeCount'[probes[t]] = probeCount[probes[t]]
                                  /\ late'[probes[t]] = late[probes[t]]
    PROVE  /\ OfProbe(status, "none")' = [OfProbe(status, "none") EXCEPT ![u] = e]
           /\ OfProbe(probeCount, 0)' = [OfProbe(probeCount, 0) EXCEPT ![u] = c]
           /\ OfProbe(late, 0)' = [OfProbe(late, 0) EXCEPT ![u] = x]
<1>1. PICK F, G, H : /\ F = OfProbe(status, "none") /\ G = OfProbe(probeCount, 0)
                     /\ H = OfProbe(late, 0)
  OBVIOUS
<1>2. PICK FF, GG, HH : /\ FF = OfProbe(status, "none")' /\ GG = OfProbe(probeCount, 0)'
                        /\ HH = OfProbe(late, 0)'
  OBVIOUS
<1>3. /\ F = [t \in Targets |-> F[t]] /\ FF = [t \in Targets |-> FF[t]]
      /\ FF[u] = e /\ \A t \in Targets \ {u} : FF[t] = F[t]
  BY <1>1, <1>2, ShownNow, ShownThen
<1>4. /\ G = [t \in Targets |-> G[t]] /\ GG = [t \in Targets |-> GG[t]]
      /\ GG[u] = c /\ \A t \in Targets \ {u} : GG[t] = G[t]
  BY <1>1, <1>2, ShownNow, ShownThen
<1>5. /\ H = [t \in Targets |-> H[t]] /\ HH = [t \in Targets |-> HH[t]]
      /\ HH[u] = x /\ \A t \in Targets \ {u} : HH[t] = H[t]
  BY <1>1, <1>2, ShownNow, ShownThen
<1>6. FF = [F EXCEPT ![u] = e]
  BY <1>3, EntryChanged
<1>7. GG = [G EXCEPT ![u] = c]
  BY <1>4, EntryChanged
<1>8. HH = [H EXCEPT ![u] = x]
  BY <1>5, EntryChanged
<1> QED
  BY <1>1, <1>2, <1>6, <1>7, <1>8

(* The known entries are the registered targets. *)
LEMMA KnownIsRegistered ==
    ASSUME TypeOK, MapInv, StatusInv PROVE Reg!Known = Registered
<1>1. ASSUME NEW t \in Targets
      PROVE  OfProbe(status, "none")[t] # "none" <=> probes[t] # 0
  <2>1. CASE probes[t] = 0
    BY <2>1, ShownNow
  <2>2. CASE probes[t] # 0
    <3>1. probes[t] \in 1..made /\ probes[t] \in Probes /\ made \in Nat
      BY <2>2, SizeAssumption DEF MapInv, TypeOK, Probes
    <3>2. status[probes[t]] # "none"
      BY <3>1 DEF StatusInv, Probes
    <3> QED
      BY <2>2, <3>2, ShownNow
  <2> QED
    BY <2>1, <2>2
<1> QED
  BY <1>1 DEF Reg!Known, Registered

LEMMA RegistryInit == Init => Reg!Init
<1> SUFFICES ASSUME Init PROVE Reg!Init
  OBVIOUS
<1>1. \A t \in Targets : probes[t] = 0
  BY DEF Init
<1> QED
  BY <1>1 DEF Reg!Init, OfProbe

(* A lookup that returns is the Start of the table. *)
LEMMA ReturnStarts ==
    ASSUME TypeOK, MapInv, LookupInv, PendingInv, StatusInv, LookupReturns
    PROVE  Reg!Start(lookup)
<1>1. PICK p : p = made + 1
  OBVIOUS
<1>2. /\ lookup \in Targets /\ lookup # NoTarget
      /\ made \in Nat /\ p \in Probes /\ p > made /\ p # 0
      /\ Cardinality(Registered) < MaxProbes
  BY <1>1, SizeAssumption DEF LookupReturns, LookupInv, TypeOK, Probes
<1>3. /\ probes' = [probes EXCEPT ![lookup] = p]
      /\ status' = [status EXCEPT ![p] = "running"]
      /\ probeCount' = probeCount /\ late' = late
  BY <1>1 DEF LookupReturns, resultVars
<1>4. probes'[lookup] = p /\ status'[p] = "running" /\ probeCount'[p] = 0 /\ late'[p] = 0
  BY <1>2, <1>3 DEF TypeOK, StatusInv, PendingInv
<1>5. \A t \in Targets \ {lookup} :
         /\ probes'[t] = probes[t]
         /\ probes[t] # 0 => /\ status'[probes[t]] = status[probes[t]]
                             /\ probeCount'[probes[t]] = probeCount[probes[t]]
                             /\ late'[probes[t]] = late[probes[t]]
  BY <1>2, <1>3 DEF TypeOK, MapInv, Probes
<1>6. OfProbe(status, "none")[lookup] # "running"
  <2>1. CASE probes[lookup] = 0
    BY <1>2, <2>1, ShownNow
  <2>2. CASE probes[lookup] # 0
    <3>1. ~running[probes[lookup]] /\ probes[lookup] \in Probes
      BY <1>2, <2>2, SizeAssumption DEF LookupInv, TypeOK, Probes
    <3> QED
      BY <1>2, <2>2, <3>1, ShownNow DEF StatusInv
  <2> QED
    BY <2>1, <2>2
<1>7. /\ OfProbe(status, "none")' = [OfProbe(status, "none") EXCEPT ![lookup] = "running"]
      /\ OfProbe(probeCount, 0)' = [OfProbe(probeCount, 0) EXCEPT ![lookup] = 0]
      /\ OfProbe(late, 0)' = [OfProbe(late, 0) EXCEPT ![lookup] = 0]
  BY <1>2, <1>4, <1>5, OneEntry
<1>8. Reg!Cardinality(Reg!Known) < MaxProbes
  BY <1>2, KnownIsRegistered DEF Cardinality, Reg!Cardinality
<1> QED
  BY <1>2, <1>6, <1>7, <1>8 DEF Reg!Start

(* The probes the map holds are different ones, each at its own target. *)
LEMMA OneTargetEach ==
    ASSUME TypeOK, MapInv, NEW t \in Targets, NEW u \in Targets,
           probes[t] # 0, probes[t] = probes[u]
    PROVE  t = u
BY DEF MapInv

LEMMA StopStops ==
    ASSUME TypeOK, MapInv, StatusInv, NEW t \in Targets, StopProbe(t)
    PROVE  Reg!Stop(t)
<1>1. PICK p : p = probes[t]
  OBVIOUS
<1>2. /\ p \in Probes /\ p # 0 /\ running[p] /\ status[p] = "running"
      /\ probes' = probes /\ probeCount' = probeCount /\ late' = late
      /\ status' = [status EXCEPT ![p] = "stopped"]
  <2>1. p \in Probes /\ p # 0
    BY <1>1, SizeAssumption DEF StopProbe, TypeOK, Probes
  <2>2. running[p] /\ probes' = probes /\ probeCount' = probeCount /\ late' = late
    BY <1>1 DEF StopProbe, resultVars
  <2>3. status' = [status EXCEPT ![p] = "stopped"]
    BY <1>1 DEF StopProbe
  <2> QED
    BY <2>1, <2>2, <2>3 DEF StatusInv
<1>3. status'[p] = "stopped" /\ \A q \in Probes \ {p} : status'[q] = status[q]
  BY <1>2 DEF TypeOK
<1>4. \A u \in Targets : probes[u] # 0 => probes[u] \in Probes
  BY SizeAssumption DEF TypeOK, Probes
<1>5. /\ OfProbe(status, "none")' = [OfProbe(status, "none") EXCEPT ![t] = "stopped"]
      /\ OfProbe(probeCount, 0)' = OfProbe(probeCount, 0)
      /\ OfProbe(late, 0)' = OfProbe(late, 0)
  <2>1. OfProbe(status, "none")' = [OfProbe(status, "none") EXCEPT ![t] = "stopped"]
    <3>1. \A u \in Targets \ {t} : probes[u] # 0 => status'[probes[u]] = status[probes[u]]
      <4> SUFFICES ASSUME NEW u \in Targets \ {t}, probes[u] # 0
                   PROVE  status'[probes[u]] = status[probes[u]]
        OBVIOUS
      <4>1. probes[u] # p /\ probes[u] \in Probes
        BY <1>1, <1>4, OneTargetEach
      <4> QED
        BY <1>3, <4>1
    <3>2. "stopped" = IF probes'[t] = 0 THEN "none" ELSE status'[probes'[t]]
      BY <1>1, <1>2, <1>3
    <3>3. PICK c, x : /\ c = IF probes'[t] = 0 THEN 0 ELSE probeCount'[probes'[t]]
                      /\ x = IF probes'[t] = 0 THEN 0 ELSE late'[probes'[t]]
      OBVIOUS
    <3>4. \A u \in Targets \ {t} :
             /\ probes'[u] = probes[u]
             /\ probes[u] # 0 => /\ status'[probes[u]] = status[probes[u]]
                                 /\ probeCount'[probes[u]] = probeCount[probes[u]]
                                 /\ late'[probes[u]] = late[probes[u]]
      BY <1>2, <3>1
    <3> QED
      BY <3>2, <3>3, <3>4, OneEntry
  <2>2. OfProbe(probeCount, 0)' = OfProbe(probeCount, 0) /\ OfProbe(late, 0)' = OfProbe(late, 0)
    BY <1>2, ShownNow, ShownThen
  <2> QED
    BY <2>1, <2>2
<1>6. OfProbe(status, "none")[t] = "running"
  BY <1>1, <1>2, ShownNow
<1> QED
  BY <1>5, <1>6 DEF Reg!Stop

LEMMA DeleteDeletes ==
    ASSUME TypeOK, MapInv, StatusInv, NEW t \in Targets, DeleteProbe(t)
    PROVE  Reg!Delete(t)
<1>1. /\ probes[t] # 0 /\ probes' = [probes EXCEPT ![t] = 0]
      /\ status' = status /\ probeCount' = probeCount /\ late' = late
  BY DEF DeleteProbe, resultVars
<1>2. probes'[t] = 0 /\ \A u \in Targets \ {t} : probes'[u] = probes[u]
  BY <1>1 DEF TypeOK
<1>3. /\ OfProbe(status, "none")' = [OfProbe(status, "none") EXCEPT ![t] = "none"]
      /\ OfProbe(probeCount, 0)' = [OfProbe(probeCount, 0) EXCEPT ![t] = 0]
      /\ OfProbe(late, 0)' = [OfProbe(late, 0) EXCEPT ![t] = 0]
  BY <1>1, <1>2, OneEntry
<1>4. OfProbe(status, "none")[t] # "none"
  <2>1. t \in Registered
    BY <1>1 DEF Registered
  <2> QED
    BY <2>1, KnownIsRegistered DEF Reg!Known
<1> QED
  BY <1>3, <1>4 DEF Reg!Delete

(* A result that is taken in is a result of the entry that shows the probe, *)
(* and concerns nobody if the map does not hold the probe any more.         *)
LEMMA UpdateCounts ==
    ASSUME IInv, StatusInv, NEW p \in Probes, UpdateProbeResult(p)
    PROVE  \/ UNCHANGED Reg!vars
           \/ \E t \in Targets : Reg!ResultOfRunning(t) \/ Reg!ResultOfStopped(t)
<1> USE DEF IInv
<1>1. /\ probes' = probes /\ status' = status /\ p # 0
      /\ probeCount' = [probeCount EXCEPT ![p] = @ + 1]
      /\ late' = [late EXCEPT ![p] = IF open[p] THEN @ ELSE @ + 1]
  BY DEF UpdateProbeResult, probeVars, Probes
<1>2. \A q \in Probes \ {p} : probeCount'[q] = probeCount[q] /\ late'[q] = late[q]
  BY <1>1 DEF TypeOK
<1>3. /\ probeCount'[p] = probeCount[p] + 1
      /\ late'[p] = IF open[p] THEN late[p] ELSE late[p] + 1
  BY <1>1 DEF TypeOK
<1>4. \A u \in Targets : probes[u] # 0 => probes[u] \in Probes
  <2>1. probes \in [Targets -> 0..MaxStarts]
    BY DEF TypeOK
  <2> QED
    BY <2>1, SizeAssumption DEF Probes
<1>5. ASSUME \A t \in Targets : probes[t] # p PROVE UNCHANGED Reg!vars
  <2>1. \A t \in Targets : probes[t] # 0 => /\ probeCount'[probes[t]] = probeCount[probes[t]]
                                            /\ late'[probes[t]] = late[probes[t]]
    BY <1>2, <1>4, <1>5
  <2>2. OfProbe(status, "none")' = OfProbe(status, "none")
    BY <1>1, ShownNow, ShownThen
  <2>3. OfProbe(probeCount, 0)' = OfProbe(probeCount, 0) /\ OfProbe(late, 0)' = OfProbe(late, 0)
    BY <1>1, <2>1, ShownNow, ShownThen
  <2> QED
    BY <2>2, <2>3 DEF Reg!vars
<1>6. ASSUME NEW t \in Targets, probes[t] = p
      PROVE  Reg!ResultOfRunning(t) \/ Reg!ResultOfStopped(t)
  <2>1. \A u \in Targets \ {t} : probes[u] # 0 =>
           /\ status'[probes[u]] = status[probes[u]]
           /\ probeCount'[probes[u]] = probeCount[probes[u]]
           /\ late'[probes[u]] = late[probes[u]]
    <3> SUFFICES ASSUME NEW u \in Targets \ {t}, probes[u] # 0
                 PROVE  probes[u] \in Probes \ {p}
      BY <1>1, <1>2
    <3> QED
      BY <1>1, <1>4, <1>6, OneTargetEach
  <2>2. PICK c, x, e : c = probeCount'[p] /\ x = late'[p] /\ e = status[p]
    OBVIOUS
  <2>3. /\ OfProbe(status, "none")' = [OfProbe(status, "none") EXCEPT ![t] = e]
        /\ OfProbe(probeCount, 0)' = [OfProbe(probeCount, 0) EXCEPT ![t] = c]
        /\ OfProbe(late, 0)' = [OfProbe(late, 0) EXCEPT ![t] = x]
    <3>1. /\ e = IF probes'[t] = 0 THEN "none" ELSE status'[probes'[t]]
          /\ c = IF probes'[t] = 0 THEN 0 ELSE probeCount'[probes'[t]]
          /\ x = IF probes'[t] = 0 THEN 0 ELSE late'[probes'[t]]
      BY <1>1, <1>6, <2>2
    <3>2. \A u \in Targets \ {t} :
             /\ probes'[u] = probes[u]
             /\ probes[u] # 0 => /\ status'[probes[u]] = status[probes[u]]
                                 /\ probeCount'[probes[u]] = probeCount[probes[u]]
                                 /\ late'[probes[u]] = late[probes[u]]
      BY <1>1, <2>1
    <3> HIDE DEF IInv
    <3> QED
      BY <3>1, <3>2, OneEntry
  <2>4. /\ OfProbe(status, "none")[t] = e /\ OfProbe(late, 0)[t] = late[p]
        /\ OfProbe(probeCount, 0)[t] = probeCount[p]
    BY <1>1, <1>6, <2>2, ShownNow
  <2>5. OfProbe(status, "none")' = OfProbe(status, "none")
    BY <1>1, ShownNow, ShownThen
  <2>6. OfProbe(probeCount, 0)' = [OfProbe(probeCount, 0) EXCEPT ![t] = @ + 1]
    BY <1>3, <2>2, <2>3, <2>4
  <2>7. status[p] \in {"running", "stopped"}
    <3>1. p \in 1..made
      BY <1>1, <1>6 DEF MapInv
    <3> QED
      BY <3>1, SizeAssumption DEF StatusInv, TypeOK
  <2>8. CASE status[p] = "running"
    <3>1. running[p] /\ open[p]
      BY <1>1, <1>6, <2>8 DEF StatusInv, MapInv
    <3>2. OfProbe(late, 0)' = [OfProbe(late, 0) EXCEPT ![t] = late[p]]
      BY <1>3, <2>2, <2>3, <3>1
    <3>3. OfProbe(late, 0)' = OfProbe(late, 0)
      BY <2>4, <3>2, ShownNow
    <3> QED
      BY <2>2, <2>4, <2>5, <2>6, <2>8, <3>3 DEF Reg!ResultOfRunning
  <2>9. CASE status[p] = "stopped"
    <3>1. ~open[p]
      BY <2>9 DEF MapInv, OpenProbesAreRegistered
    <3>2. OfProbe(late, 0)' = [OfProbe(late, 0) EXCEPT ![t] = @ + 1]
      BY <1>3, <2>2, <2>3, <2>4, <3>1
    <3>3. late[p] < 2
      <4>1. InHand(p) = 1
        BY DEF InHand, UpdateProbeResult
      <4>2. late[p] \in Nat /\ ToCome(p) \in Nat
        BY DEF TypeOK, ToCome
      <4>3. late[p] + InHand(p) + ToCome(p) <= 2
        BY <2>9 DEF PendingInv
      <4> QED
        BY <4>1, <4>2, <4>3
    <3> QED
      BY <2>2, <2>4, <2>5, <2>6, <2>9, <3>2, <3>3 DEF Reg!ResultOfStopped
  <2> QED
    BY <2>7, <2>8, <2>9
<1> QED
  BY <1>5, <1>6

LEMMA RegistryNext == IInv /\ StatusInv /\ [Next]_vars => [Reg!Next]_(Reg!vars)
<1> SUFFICES ASSUME IInv, StatusInv, [Next]_vars PROVE [Reg!Next]_(Reg!vars)
  OBVIOUS
<1> USE DEF IInv
<1>1. ASSUME UNCHANGED <<probes, status, probeCount, late>> PROVE UNCHANGED Reg!vars
  BY <1>1, ShownNow, ShownThen DEF Reg!vars
<1>2. CASE UNCHANGED vars
  BY <1>1, <1>2 DEF vars, probeVars, resultVars
<1>3. CASE LookupReturns
  <2>1. lookup \in Targets
    BY <1>3 DEF LookupReturns, LookupInv
  <2> QED
    BY <1>3, <2>1, ReturnStarts DEF Reg!Next
<1>4. ASSUME NEW t \in Targets, StopProbe(t) PROVE [Reg!Next]_(Reg!vars)
  BY <1>4, StopStops DEF Reg!Next
<1>5. ASSUME NEW t \in Targets, DeleteProbe(t) PROVE [Reg!Next]_(Reg!vars)
  BY <1>5, DeleteDeletes DEF Reg!Next
<1>6. ASSUME NEW t \in Targets, StartProbe(t) \/ StartProbeAnswers(t)
      PROVE  [Reg!Next]_(Reg!vars)
  <2>1. UNCHANGED <<probes, status, probeCount, late>>
    BY <1>6 DEF StartProbe, StartProbeAnswers, vars, probeVars, resultVars
  <2> QED
    BY <1>1, <2>1
<1>7. CASE LookupFails \/ ReadProbes
  <2>1. UNCHANGED <<probes, status, probeCount, late>>
    BY <1>7 DEF LookupFails, ReadProbes, vars, probeVars, resultVars
  <2> QED
    BY <1>1, <2>1
<1>8. ASSUME NEW p \in Probes, LoopStep(p) PROVE [Reg!Next]_(Reg!vars)
  <2>1. CASE UpdateProbeResult(p)
    BY <2>1, UpdateCounts DEF Reg!Next
  <2>2. CASE ~UpdateProbeResult(p)
    <3>1. UNCHANGED <<probes, status, probeCount, late>>
      BY <1>8, <2>2 DEF LoopStep, LoopStop, LoopReceive, LoopTick, LoopProbed,
                        probeVars, resultVars
    <3> QED
      BY <1>1, <3>1
  <2> QED
    BY <2>1, <2>2
<1>9. ASSUME NEW p \in Probes, InitialStep(p) PROVE [Reg!Next]_(Reg!vars)
  <2>1. UNCHANGED <<probes, status, probeCount, late>>
    BY <1>9, InitialFrame DEF probeVars, resultVars
  <2> QED
    BY <1>1, <2>1
<1> QED
  BY <1>2, <1>3, <1>4, <1>5, <1>6, <1>7, <1>8, <1>9 DEF Next, RequestStep

-----------------------------------------------------------------------------
(* How much a probe that was stopped has still to do *)

LoopWork(p) == CASE loop[p] = "probing" -> 3
                 [] loop[p] = "update" -> 2
                 [] loop[p] = "select" -> 1
                 [] OTHER -> 0

InitialWork(p) == CASE initial[p] = "spawned" -> 5
                    [] initial[p] = "probing" -> 4
                    [] initial[p] = "send" -> 3
                    [] OTHER -> 0

(* The steps its goroutines can still take; a result that waits stands for    *)
(* its receipt and its update.                                               *)
Work(p) == LoopWork(p) + InitialWork(p) + 2 * Len(updateChan[p])

LEMMA WorkType ==
    ASSUME TypeOK, NEW p \in Probes
    PROVE  /\ LoopWork(p) \in 0..3 /\ InitialWork(p) \in 0..5
           /\ Len(updateChan[p]) \in Nat /\ Work(p) \in Nat
<1>1. LoopWork(p) \in 0..3 /\ InitialWork(p) \in 0..5
  BY DEF LoopWork, InitialWork
<1>2. Len(updateChan[p]) \in Nat
  BY DEF TypeOK
<1> QED
  BY <1>1, <1>2 DEF Work

(* Every step of one of its goroutines is less work left, but for a tick. *)
LEMMA WorkShrinks ==
    ASSUME TypeOK, NEW p \in Probes, LoopStep(p) \/ InitialStep(p), ~LoopTick(p)
    PROVE  Work(p)' < Work(p)
<1>0. /\ LoopWork(p) \in 0..3 /\ InitialWork(p) \in 0..5 /\ Len(updateChan[p]) \in Nat
      /\ updateChan[p] \in Seq(Results)
  BY WorkType DEF TypeOK
<1>1. CASE LoopStop(p)
  <2>1. /\ LoopWork(p) = 1 /\ LoopWork(p)' = 0
        /\ UNCHANGED <<initial, updateChan>>
    BY <1>1 DEF LoopStop, TypeOK, LoopWork
  <2>3. InitialWork(p)' = InitialWork(p) /\ Len(updateChan[p])' = Len(updateChan[p])
    BY <2>1 DEF InitialWork
  <2> QED
    BY <1>0, <2>1, <2>3 DEF Work
<1>2. CASE LoopReceive(p)
  <2>1. /\ LoopWork(p) = 1 /\ LoopWork(p)' = 2 /\ updateChan[p] # <<>>
        /\ updateChan'[p] = Tail(updateChan[p]) /\ initial' = initial
    BY <1>2 DEF LoopReceive, TypeOK, LoopWork
  <2>2. Len(updateChan'[p]) = Len(updateChan[p]) - 1
    BY <1>0, <2>1
  <2>3. InitialWork(p)' = InitialWork(p)
    BY <2>1 DEF InitialWork
  <2> QED
    BY <1>0, <2>1, <2>2, <2>3 DEF Work
<1>3. CASE LoopProbed(p)
  <2>1. LoopWork(p) = 3 /\ LoopWork(p)' = 2 /\ UNCHANGED <<initial, updateChan>>
    BY <1>3 DEF LoopProbed, TypeOK, LoopWork
  <2>3. InitialWork(p)' = InitialWork(p) /\ Len(updateChan[p])' = Len(updateChan[p])
    BY <2>1 DEF InitialWork
  <2> QED
    BY <1>0, <2>1, <2>3 DEF Work
<1>4. CASE UpdateProbeResult(p)
  <2>1. LoopWork(p) = 2 /\ LoopWork(p)' = 1 /\ UNCHANGED <<initial, updateChan>>
    BY <1>4 DEF UpdateProbeResult, TypeOK, LoopWork
  <2>3. InitialWork(p)' = InitialWork(p) /\ Len(updateChan[p])' = Len(updateChan[p])
    BY <2>1 DEF InitialWork
  <2> QED
    BY <1>0, <2>1, <2>3 DEF Work
<1>5. CASE InitialBegin(p) \/ InitialProbed(p)
  <2>1. InitialWork(p)' = InitialWork(p) - 1 /\ UNCHANGED <<loop, updateChan>>
    BY <1>5 DEF InitialBegin, InitialProbed, TypeOK, InitialWork
  <2>3. LoopWork(p)' = LoopWork(p) /\ Len(updateChan[p])' = Len(updateChan[p])
    BY <2>1 DEF LoopWork
  <2> QED
    BY <1>0, <2>1, <2>3 DEF Work
<1>6. CASE InitialSend(p)
  <2>1. /\ InitialWork(p) = 3 /\ InitialWork(p)' = 0 /\ loop' = loop
        /\ updateChan'[p] = Append(updateChan[p], first[p])
    BY <1>6 DEF InitialSend, TypeOK, InitialWork
  <2>2. Len(updateChan'[p]) = Len(updateChan[p]) + 1
    BY <1>0, <2>1
  <2>3. LoopWork(p)' = LoopWork(p)
    BY <2>1 DEF LoopWork
  <2> QED
    BY <1>0, <2>1, <2>2, <2>3 DEF Work
<1> QED
  BY <1>1, <1>2, <1>3, <1>4, <1>5, <1>6 DEF LoopStep, InitialStep

(* Nobody else adds to it or takes from it. *)
LEMMA WorkStays ==
    ASSUME TypeOK, LookupInv, NEW p \in Probes, p <= made, Next,
           ~LoopStep(p), ~InitialStep(p)
    PROVE  Work(p)' = Work(p)
<1>1. UNCHANGED <<loop[p], initial[p], updateChan[p]>>
  <2>1. CASE RequestStep
    <3>1. updateChan' = updateChan
      BY <2>1, RequestFrame
    <3>2. CASE LookupReturns
      <4>1. p # made + 1
        BY DEF TypeOK, Probes
      <4> QED
        BY <3>1, <3>2, <4>1 DEF LookupReturns, TypeOK
    <3> QED
      BY <2>1, <3>1, <3>2, RequestFrame
  <2>2. ASSUME NEW q \in Probes \ {p}, LoopStep(q)
        PROVE  UNCHANGED <<loop[p], initial[p], updateChan[p]>>
    BY <2>2, LoopFrame
       DEF LoopStep, LoopStop, LoopReceive, LoopTick, LoopProbed, UpdateProbeResult, TypeOK
  <2>3. ASSUME NEW q \in Probes \ {p}, InitialStep(q)
        PROVE  UNCHANGED <<loop[p], initial[p], updateChan[p]>>
    BY <2>3, InitialFrame DEF InitialStep, InitialBegin, InitialProbed, InitialSend, TypeOK
  <2> QED
    BY <2>1, <2>2, <2>3 DEF Next
<1> QED
  BY <1>1 DEF Work, LoopWork, InitialWork

-----------------------------------------------------------------------------
(* The theorems *)

(* Every reachable state is well typed: no history outgrows its size. *)
THEOREM TypeCorrect == Spec => []TypeOK
<1>1. IInv => TypeOK
  BY DEF IInv
<1> QED
  BY <1>1, IInvAlways, PTL

(* No sequence of starts, stops and deletes closes a stop channel twice. *)
THEOREM ChannelsClosedOnce == Spec => []NoDoubleClose
<1>1. IInv => NoDoubleClose
  BY DEF IInv, MapInv
<1> QED
  BY <1>1, IInvAlways, PTL

(* A probe that has not been told to stop is in the map, where a stop or a   *)
(* delete finds it.                                                          *)
THEOREM NoProbeEscapes == Spec => []OpenProbesAreRegistered
<1>1. IInv => OpenProbesAreRegistered
  BY DEF IInv, MapInv
<1> QED
  BY <1>1, IInvAlways, PTL

(* The map stays within its limit, the lookup between check and entry        *)
(* included.                                                                 *)
THEOREM MapBounded == Spec => []ProbesBounded
<1>1. IInv => ProbesBounded
  BY DEF IInv, LookupInv
<1> QED
  BY <1>1, IInvAlways, PTL

(* After a stop a probe takes in at most two more results. *)
THEOREM FewLateResults == Spec => []LateResultsBounded
<1>1. IInv => LateResultsBounded
  <2> SUFFICES ASSUME IInv, NEW p \in Probes, status[p] = "stopped" PROVE late[p] <= 2
    BY DEF LateResultsBounded
  <2>1. late[p] + InHand(p) + ToCome(p) <= 2
    BY DEF IInv, PendingInv
  <2>2. late[p] \in Nat /\ InHand(p) \in Nat /\ ToCome(p) \in Nat
    BY DEF IInv, TypeOK, InHand, ToCome
  <2> QED
    BY <2>1, <2>2
<1> QED
  BY <1>1, IInvAlways, PTL

(* Only the initial probe's result may replace a newer one. *)
THEOREM PathsMoveOn == Spec => OlderOnlyFromInitial
<1> DEFINE A == \A p \in Probes : lastProbe'[p] < lastProbe[p] => result[p].initial
<1>1. IInv /\ [Next]_vars => [A]_vars
  <2> SUFFICES ASSUME IInv, Next, NEW p \in Probes, lastProbe'[p] < lastProbe[p]
               PROVE  result[p].initial
    BY DEF IInv
  <2>0. lastProbe[p] \in Nat /\ result[p].at \in Nat /\ result[p].initial \in BOOLEAN
    BY DEF IInv, TypeOK, Results
  <2>1. ASSUME NEW q \in Probes, LoopStep(q) PROVE result[p].initial
    <3>1. CASE UpdateProbeResult(q)
      <4>1. q = p /\ loop[p] = "update" /\ lastProbe'[p] = result[p].at
        BY <2>0, <3>1 DEF UpdateProbeResult, IInv, TypeOK
      <4> QED
        BY <2>0, <4>1 DEF IInv, ClockInv
    <3>2. CASE ~UpdateProbeResult(q)
      <4>1. lastProbe' = lastProbe
        BY <2>1, <3>2 DEF LoopStep, LoopStop, LoopReceive, LoopTick, LoopProbed, resultVars
      <4> QED
        BY <2>0, <4>1
    <3> QED
      BY <3>1, <3>2
  <2>2. CASE RequestStep
    BY <2>0, <2>2, RequestFrame DEF resultVars
  <2>3. ASSUME NEW q \in Probes, InitialStep(q) PROVE result[p].initial
    BY <2>0, <2>3, InitialFrame DEF resultVars
  <2> QED
    BY <2>1, <2>2, <2>3 DEF Next
<1> QED
  BY <1>1, IInvAlways, PTL DEF Spec, OlderOnlyFromInitial

(* The probe manager is a bounded table of probes: whatever the goroutines,  *)
(* the lookup and the lock do, its callers see starts where nothing runs and *)
(* there is room, stops, deletes, and results counted one by one, of which   *)
(* at most two after a stop and none for the probe that follows.             *)
THEOREM ImplementsRegistry == Spec => ProbesFormARegistry
<1>1. Init => StatusInv /\ Reg!Init
  BY StatusInit, RegistryInit
<1>2. IInv /\ StatusInv /\ [Next]_vars => StatusInv'
  BY StatusNext DEF IInv
<1> QED
  BY <1>1, <1>2, IInvAlways, RegistryNext, PTL DEF Spec, ProbesFormARegistry, Reg!Spec

(* The goroutine of the initial probe never waits to hand its result over:   *)
(* there is room in the channel, whether or not runProbe is still there to   *)
(* receive it.                                                               *)
SendHasRoom == \A p \in Probes : initial[p] = "send" => Len(updateChan[p]) < UpdateCap

THEOREM SendNeverWaits == Spec => []SendHasRoom
<1>1. IInv => SendHasRoom
  <2> SUFFICES ASSUME IInv, NEW p \in Probes, initial[p] = "send"
               PROVE  Len(updateChan[p]) < UpdateCap
    BY DEF SendHasRoom
  <2>1. Len(updateChan[p]) + 1 <= 1 /\ Len(updateChan[p]) \in Nat
    BY DEF IInv, PendingInv, ToCome, TypeOK
  <2> QED
    BY <2>1 DEF UpdateCap
<1> QED
  BY <1>1, IInvAlways, PTL

(* A stopped probe runs down: each step of its goroutines leaves less to do,  *)
(* nothing adds to it, no start revives it, and what there is to do is never  *)
(* more than eight steps.                                                     *)
StoppedRunsDown ==
    [][\A p \in 1..made : ~running[p] =>
          /\ ~running'[p]
          /\ IF LoopStep(p) \/ InitialStep(p) THEN Work(p)' < Work(p) ELSE Work(p)' = Work(p)]_vars

THEOREM StoppedProbesRunDown == Spec => StoppedRunsDown /\ [](\A p \in Probes : Work(p) \in 0..8)
<1> DEFINE A == \A p \in 1..made : ~running[p] =>
                    /\ ~running'[p]
                    /\ IF LoopStep(p) \/ InitialStep(p) THEN Work(p)' < Work(p)
                                                        ELSE Work(p)' = Work(p)
<1>1. IInv /\ [Next]_vars => [A]_vars
  <2> SUFFICES ASSUME IInv, Next, NEW p \in 1..made, ~running[p] PROVE
                      /\ ~running'[p]
                      /\ IF LoopStep(p) \/ InitialStep(p) THEN Work(p)' < Work(p)
                                                          ELSE Work(p)' = Work(p)
    OBVIOUS
  <2>a. TypeOK /\ LookupInv /\ made \in 0..MaxStarts
    BY DEF IInv, TypeOK
  <2>0. TypeOK /\ LookupInv /\ p \in Probes /\ p <= made /\ made \in Nat
    BY <2>a, SizeAssumption DEF Probes
  <2>1. ~LoopTick(p)
    BY DEF LoopTick
  <2>2. ~running'[p]
    <3>1. CASE LookupReturns
      <4>1. p # made + 1
        BY <2>0
      <4> QED
        BY <2>0, <3>1, <4>1 DEF LookupReturns, TypeOK
    <3>2. ASSUME NEW t \in Targets, StopProbe(t) PROVE ~running'[p]
      BY <2>0, <3>2 DEF StopProbe, TypeOK
    <3>3. ASSUME NEW t \in Targets, StartProbe(t) \/ StartProbeAnswers(t) \/ DeleteProbe(t)
          PROVE  running' = running
      BY <3>3 DEF StartProbe, StartProbeAnswers, DeleteProbe, vars, probeVars
    <3>4. CASE LookupFails \/ ReadProbes
      BY <3>4 DEF LookupFails, ReadProbes, vars, probeVars
    <3>5. ASSUME NEW q \in Probes, LoopStep(q) \/ InitialStep(q) PROVE running' = running
      BY <3>5, LoopFrame, InitialFrame DEF probeVars
    <3> QED
      BY <3>1, <3>2, <3>3, <3>4, <3>5 DEF Next, RequestStep
  <2> QED
    BY <2>0, <2>1, <2>2, WorkShrinks, WorkStays
<1>2. IInv => \A p \in Probes : Work(p) \in 0..8
  <2> SUFFICES ASSUME IInv, NEW p \in Probes PROVE Work(p) \in 0..8
    OBVIOUS
  <2>1. /\ LoopWork(p) \in 0..3 /\ InitialWork(p) \in 0..5 /\ Len(updateChan[p]) \in Nat
    BY WorkType DEF IInv
  <2>2. ToCome(p) <= 1
    BY DEF IInv, PendingInv
  <2>3. CASE initial[p] = "returned"
    BY <2>1, <2>2, <2>3 DEF Work, ToCome, InitialWork
  <2>4. CASE initial[p] # "returned"
    BY <2>1, <2>2, <2>4 DEF Work, ToCome
  <2> QED
    BY <2>3, <2>4
<1> QED
  BY <1>1, <1>2, IInvAlways, PTL DEF Spec, StoppedRunsDown
=============================================================================
