------------------------------- MODULE NetPath -------------------------------
(***************************************************************************)
(* The probe manager, NetPathCollector (src/internal/collectors/netpath.go)*)
(* and the HTTP handlers that call it: the map of probes under n.mu, and   *)
(* the two goroutines of each probe, the loop runProbe and the one that    *)
(* makes the initial probe.  What one probe measures is left out; a result *)
(* is the moment doProbe began (its Timestamp), as a number, and which of  *)
(* the two goroutines made it.                                             *)
(*                                                                         *)
(* A probe (an activeProbe and its NetPathProbe) is named by the number of *)
(* the start that made it; the map holds 0 for a target without one.       *)
(***************************************************************************)
EXTENDS Integers, Sequences, FiniteSets

CONSTANTS
    Targets,
    NoTarget,     \* no name is being looked up
    MaxProbes,    \* n.maxProbes
    HistorySize,  \* config.HistorySize
    MaxStarts,    \* bound: probes made
    MaxRounds     \* bound: the clock at which no tick begins a round any more

ASSUME TargetsAssumption == Targets # {} /\ NoTarget \notin Targets
ASSUME SizeAssumption == /\ MaxProbes \in Nat \ {0}
                         /\ HistorySize \in Nat \ {0}
                         /\ MaxStarts \in Nat
                         /\ MaxRounds \in Nat

VARIABLES
    lookup,      \* the target StartProbe is looking up, holding n.mu
    probes,      \* n.probes
    made,        \* probes made so far
    target,      \* the target of each probe
    running,     \* ap.running
    open,        \* ap.stopChan is open
    status,      \* probe.Status
    updateChan,  \* contents of ap.updateChan
    lastProbe, probeCount, history,
    loop,        \* where runProbe of each probe is
    initial,     \* where the goroutine of the initial probe is
    result,      \* the result the loop is working on
    first,       \* the result of the initial probe
    rounds,      \* the clock: probe rounds begun
    late,        \* history: results taken in after the probe was stopped
    panicked     \* a channel closed twice

probeVars == <<target, running, open, status>>
resultVars == <<lastProbe, probeCount, history, late>>
goVars == <<loop, initial, result, first, rounds>>
vars == <<lookup, probes, made, probeVars, updateChan, resultVars, goVars, panicked>>

Probes == 1..MaxStarts
Results == [at: Nat, initial: BOOLEAN]
NoResult == [at |-> 0, initial |-> FALSE]

UpdateCapNone == 0   \* mutated form: an unbuffered channel
UpdateCap == 10   \* make(chan *models.NetPathResult, 10)

LoopStates == {"none", "select", "probing", "update", "returned"}
InitialStates == {"none", "spawned", "probing", "send", "returned"}

Init ==
    /\ lookup = NoTarget
    /\ probes = [t \in Targets |-> 0]
    /\ made = 0
    /\ target = [p \in Probes |-> CHOOSE t \in Targets : TRUE]
    /\ running = [p \in Probes |-> FALSE]
    /\ open = [p \in Probes |-> FALSE]
    /\ status = [p \in Probes |-> "none"]
    /\ updateChan = [p \in Probes |-> <<>>]
    /\ lastProbe = [p \in Probes |-> 0]
    /\ probeCount = [p \in Probes |-> 0]
    /\ history = [p \in Probes |-> <<>>]
    /\ loop = [p \in Probes |-> "none"]
    /\ initial = [p \in Probes |-> "none"]
    /\ result = [p \in Probes |-> NoResult]
    /\ first = [p \in Probes |-> NoResult]
    /\ rounds = 0
    /\ late = [p \in Probes |-> 0]
    /\ panicked = FALSE

MuIsFree == lookup = NoTarget

Registered == {t \in Targets : probes[t] # 0}

-----------------------------------------------------------------------------
(* StartProbe, through handleNetPathStart *)

(* Mutated form: the limit is off by one. *)
StartProbeOneMore(t) ==
    /\ MuIsFree
    /\ ~(probes[t] # 0 /\ running[probes[t]])
    /\ Cardinality(Registered) <= MaxProbes
    /\ made < MaxStarts
    /\ lookup' = t
    /\ UNCHANGED <<probes, made, probeVars, updateChan, resultVars, goVars, panicked>>

(* Mutated form: an existing probe is replaced, running or not. *)
StartProbeReplaces(t) ==
    /\ MuIsFree
    /\ Cardinality(Registered) < MaxProbes
    /\ made < MaxStarts
    /\ lookup' = t
    /\ UNCHANGED <<probes, made, probeVars, updateChan, resultVars, goVars, panicked>>

(* The checks, under n.mu: the running probe of the target is the answer;  *)
(* a full map refuses, whether or not the target has a stopped probe in    *)
(* it; otherwise the name is looked up with the lock held.                 *)
StartProbe(t) ==
    /\ MuIsFree
    /\ ~(probes[t] # 0 /\ running[probes[t]])
    /\ Cardinality(Registered) < MaxProbes
    /\ made < MaxStarts
    /\ lookup' = t
    /\ UNCHANGED <<probes, made, probeVars, updateChan, resultVars, goVars, panicked>>

(* The running probe, or the refusal, is the answer: nothing changes. *)
StartProbeAnswers(t) ==
    /\ MuIsFree
    /\ \/ probes[t] # 0 /\ running[probes[t]]
       \/ Cardinality(Registered) >= MaxProbes
    /\ UNCHANGED vars

LookupFails ==
    /\ lookup # NoTarget
    /\ lookup' = NoTarget
    /\ UNCHANGED <<probes, made, probeVars, updateChan, resultVars, goVars, panicked>>

(* A new probe replaces the target's stopped one, and its goroutines start. *)
LookupReturns ==
    LET p == made + 1
    IN  /\ lookup # NoTarget
        /\ made' = p
        /\ target' = [target EXCEPT ![p] = lookup]
        /\ running' = [running EXCEPT ![p] = TRUE]
        /\ open' = [open EXCEPT ![p] = TRUE]
        /\ status' = [status EXCEPT ![p] = "running"]
        /\ probes' = [probes EXCEPT ![lookup] = p]
        /\ loop' = [loop EXCEPT ![p] = "select"]
        /\ initial' = [initial EXCEPT ![p] = "spawned"]
        /\ lookup' = NoTarget
        /\ UNCHANGED <<updateChan, resultVars, result, first, rounds, panicked>>

-----------------------------------------------------------------------------
(* Mutated form: the channel is closed, the flag is not cleared. *)
StopProbeStaysRunning(t) ==
    LET p == probes[t]
    IN  /\ MuIsFree
        /\ p # 0
        /\ running[p]
        /\ panicked' = (panicked \/ ~open[p])
        /\ open' = [open EXCEPT ![p] = FALSE]
        /\ status' = [status EXCEPT ![p] = "stopped"]
        /\ UNCHANGED <<lookup, probes, made, target, running, updateChan,
                       resultVars, goVars>>

(* Mutated form: the flag is cleared, the channel stays open. *)
StopProbeLeavesOpen(t) ==
    LET p == probes[t]
    IN  /\ MuIsFree
        /\ p # 0
        /\ running[p]
        /\ running' = [running EXCEPT ![p] = FALSE]
        /\ status' = [status EXCEPT ![p] = "stopped"]
        /\ UNCHANGED <<lookup, probes, made, target, open, updateChan,
                       resultVars, goVars, panicked>>

(* StopProbe, through handleNetPathStop; an unknown target is an error *)
StopProbe(t) ==
    LET p == probes[t]
    IN  /\ MuIsFree
        /\ p # 0
        /\ running[p]
        /\ panicked' = (panicked \/ ~open[p])
        /\ open' = [open EXCEPT ![p] = FALSE]
        /\ running' = [running EXCEPT ![p] = FALSE]
        /\ status' = [status EXCEPT ![p] = "stopped"]
        /\ UNCHANGED <<lookup, probes, made, target, updateChan, resultVars, goVars>>

(* Mutated form: the entry goes and the goroutines are left to themselves. *)
DeleteProbeForgetsStop(t) ==
    LET p == probes[t]
    IN  /\ MuIsFree
        /\ p # 0
        /\ probes' = [probes EXCEPT ![t] = 0]
        /\ UNCHANGED <<lookup, made, probeVars, updateChan, resultVars, goVars, panicked>>

(* DeleteProbe, through handleNetPathDelete: the map entry goes; the flag   *)
(* running stays as it was.                                                 *)
DeleteProbe(t) ==
    LET p == probes[t]
    IN  /\ MuIsFree
        /\ p # 0
        /\ panicked' = (panicked \/ (running[p] /\ ~open[p]))
        /\ open' = [open EXCEPT ![p] = IF running[p] THEN FALSE ELSE @]
        /\ probes' = [probes EXCEPT ![t] = 0]
        /\ UNCHANGED <<lookup, made, target, running, status, updateChan, resultVars, goVars>>

(* GetProbe, GetAllProbes, and the calls that find no probe of the target: *)
(* they read the map under the lock, and change nothing.                   *)
ReadProbes ==
    /\ MuIsFree
    /\ UNCHANGED vars

-----------------------------------------------------------------------------
(* runProbe: a select over the stop channel, the updates and the ticker *)

LoopStop(p) ==
    /\ loop[p] = "select"
    /\ ~open[p]
    /\ loop' = [loop EXCEPT ![p] = "returned"]
    /\ UNCHANGED <<lookup, probes, made, probeVars, updateChan, resultVars,
                   initial, result, first, rounds, panicked>>

LoopReceive(p) ==
    /\ loop[p] = "select"
    /\ updateChan[p] # <<>>
    /\ result' = [result EXCEPT ![p] = Head(updateChan[p])]
    /\ updateChan' = [updateChan EXCEPT ![p] = Tail(@)]
    /\ loop' = [loop EXCEPT ![p] = "update"]
    /\ UNCHANGED <<lookup, probes, made, probeVars, resultVars, initial, first,
                   rounds, panicked>>

(* Mutated form: the tick does not ask whether the probe runs. *)
LoopTickAlways(p) ==
    /\ loop[p] = "select"
    /\ rounds < MaxRounds
    /\ rounds' = rounds + 1
    /\ result' = [result EXCEPT ![p] = [at |-> rounds + 1, initial |-> FALSE]]
    /\ loop' = [loop EXCEPT ![p] = "probing"]
    /\ UNCHANGED <<lookup, probes, made, probeVars, updateChan, resultVars,
                   initial, first, panicked>>

(* Mutated form: a round takes the time of the probe's last result for its own. *)
LoopTickStale(p) ==
    /\ loop[p] = "select"
    /\ running[p]
    /\ rounds < MaxRounds
    /\ rounds' = rounds + 1
    /\ result' = [result EXCEPT ![p] = [at |-> 0, initial |-> FALSE]]
    /\ loop' = [loop EXCEPT ![p] = "probing"]
    /\ UNCHANGED <<lookup, probes, made, probeVars, updateChan, resultVars,
                   initial, first, panicked>>

(* The tick reads ap.running without the lock; doProbe begins. *)
LoopTick(p) ==
    /\ loop[p] = "select"
    /\ running[p]
    /\ rounds < MaxRounds
    /\ rounds' = rounds + 1
    /\ result' = [result EXCEPT ![p] = [at |-> rounds + 1, initial |-> FALSE]]
    /\ loop' = [loop EXCEPT ![p] = "probing"]
    /\ UNCHANGED <<lookup, probes, made, probeVars, updateChan, resultVars,
                   initial, first, panicked>>

LoopProbed(p) ==
    /\ loop[p] = "probing"
    /\ loop' = [loop EXCEPT ![p] = "update"]
    /\ UNCHANGED <<lookup, probes, made, probeVars, updateChan, resultVars,
                   initial, result, first, rounds, panicked>>

(* Mutated form: the history is never trimmed. *)
UpdateProbeResultKeepsAll(p) ==
    /\ loop[p] = "update"
    /\ MuIsFree
    /\ lastProbe' = [lastProbe EXCEPT ![p] = result[p].at]
    /\ probeCount' = [probeCount EXCEPT ![p] = @ + 1]
    /\ history' = [history EXCEPT ![p] = Append(@, result[p])]
    /\ late' = [late EXCEPT ![p] = IF open[p] THEN @ ELSE @ + 1]
    /\ loop' = [loop EXCEPT ![p] = "select"]
    /\ UNCHANGED <<lookup, probes, made, probeVars, updateChan, initial,
                   result, first, rounds, panicked>>

(* updateProbeResult, under n.mu; whether the probe still runs is not asked. *)
UpdateProbeResult(p) ==
    LET longer == Append(history[p], result[p])
    IN  /\ loop[p] = "update"
        /\ MuIsFree
        /\ lastProbe' = [lastProbe EXCEPT ![p] = result[p].at]
        /\ probeCount' = [probeCount EXCEPT ![p] = @ + 1]
        /\ history' = [history EXCEPT ![p] =
                         IF Len(longer) > HistorySize THEN Tail(longer) ELSE longer]
        /\ late' = [late EXCEPT ![p] = IF open[p] THEN @ ELSE @ + 1]
        /\ loop' = [loop EXCEPT ![p] = "select"]
        /\ UNCHANGED <<lookup, probes, made, probeVars, updateChan, initial,
                       result, first, rounds, panicked>>

-----------------------------------------------------------------------------
(* the goroutine of the initial probe *)

InitialBegin(p) ==
    /\ initial[p] = "spawned"
    /\ rounds' = rounds + 1
    /\ first' = [first EXCEPT ![p] = [at |-> rounds + 1, initial |-> TRUE]]
    /\ initial' = [initial EXCEPT ![p] = "probing"]
    /\ UNCHANGED <<lookup, probes, made, probeVars, updateChan, resultVars,
                   loop, result, panicked>>

InitialProbed(p) ==
    /\ initial[p] = "probing"
    /\ initial' = [initial EXCEPT ![p] = "send"]
    /\ UNCHANGED <<lookup, probes, made, probeVars, updateChan, resultVars,
                   loop, result, first, rounds, panicked>>

(* The send waits for room; the loop may have returned by then. *)
InitialSend(p) ==
    /\ initial[p] = "send"
    /\ Len(updateChan[p]) < UpdateCap
    /\ updateChan' = [updateChan EXCEPT ![p] = Append(@, first[p])]
    /\ initial' = [initial EXCEPT ![p] = "returned"]
    /\ UNCHANGED <<lookup, probes, made, probeVars, resultVars, loop, result,
                   first, rounds, panicked>>

-----------------------------------------------------------------------------
RequestStep ==
    \/ \E t \in Targets : \/ StartProbe(t) \/ StartProbeAnswers(t)
                          \/ StopProbe(t) \/ DeleteProbe(t)
    \/ LookupFails \/ LookupReturns \/ ReadProbes

LoopStep(p) == \/ LoopStop(p) \/ LoopReceive(p) \/ LoopTick(p)
               \/ LoopProbed(p) \/ UpdateProbeResult(p)

InitialStep(p) == InitialBegin(p) \/ InitialProbed(p) \/ InitialSend(p)

Next == \/ RequestStep
        \/ \E p \in Probes : LoopStep(p) \/ InitialStep(p)

Spec == Init /\ [][Next]_vars

(* The goroutines of a probe run, doProbe ends (each wait has a deadline)   *)
(* and so does the lookup.  Strong fairness: a goroutine that waits for     *)
(* n.mu gets it, and the select of runProbe takes a closed stop channel in  *)
(* the end, even when the ticker is ready each time.                        *)
FairSpec ==
    /\ Spec
    /\ WF_vars(LookupFails \/ LookupReturns)
    /\ \A p \in Probes :
          /\ WF_vars(LoopStep(p)) /\ WF_vars(InitialStep(p))
          /\ SF_vars(UpdateProbeResult(p)) /\ SF_vars(LoopStop(p))

-----------------------------------------------------------------------------
(* Properties *)

TypeOK ==
    /\ lookup \in Targets \cup {NoTarget}
    /\ probes \in [Targets -> 0..MaxStarts]
    /\ made \in 0..MaxStarts
    /\ target \in [Probes -> Targets]
    /\ running \in [Probes -> BOOLEAN]
    /\ open \in [Probes -> BOOLEAN]
    /\ status \in [Probes -> {"none", "running", "stopped"}]
    /\ updateChan \in [Probes -> Seq(Results)]
    /\ lastProbe \in [Probes -> Nat]
    /\ probeCount \in [Probes -> Nat]
    /\ history \in [Probes -> Seq(Results)]
    /\ \A p \in Probes : Len(history[p]) <= HistorySize
    /\ loop \in [Probes -> LoopStates]
    /\ initial \in [Probes -> InitialStates]
    /\ result \in [Probes -> Results]
    /\ first \in [Probes -> Results]
    /\ rounds \in Nat
    /\ late \in [Probes -> Nat]
    /\ panicked \in BOOLEAN

(* Stop, delete and start in any order close no stop channel twice. *)
NoDoubleClose == ~panicked

(* The map never holds more probes than its limit. *)
ProbesBounded == Cardinality(Registered) <= MaxProbes

(* A probe whose goroutines have not been told to stop is the one the map   *)
(* holds for its target: it can still be stopped, and no target has two.    *)
OpenProbesAreRegistered ==
    \A p \in Probes : open[p] => /\ probes[target[p]] = p
                                 /\ running[p] /\ status[p] = "running"

(* The table of probes as module Registry describes it: each entry is the   *)
(* probe the map holds.  The map keeps its limit; a start never replaces a   *)
(* running probe, even one that another start made while it waited for the   *)
(* lock; and a new probe is never shown the rounds of the one before it.     *)
OfProbe(f, none) == [t \in Targets |-> IF probes[t] = 0 THEN none ELSE f[probes[t]]]

Reg == INSTANCE Registry WITH entry <- OfProbe(status, "none"),
                              count <- OfProbe(probeCount, 0),
                              extra <- OfProbe(late, 0)

ProbesFormARegistry == Reg!Spec

(* Results still come in after a probe is stopped, but no more than two:    *)
(* the round in progress and the initial one.                               *)
LateResultsBounded == \A p \in Probes : status[p] = "stopped" => late[p] <= 2

(* The current path of a probe is replaced by an older one only by the      *)
(* initial probe, when it takes longer than the rounds that follow it.      *)
OlderOnlyFromInitial ==
    [][\A p \in Probes : lastProbe'[p] < lastProbe[p] => result[p].initial]_vars

(* A probe that is stopped or deleted leaves no goroutine behind. *)
GoroutinesEnd ==
    \A p \in Probes : loop[p] # "none" /\ ~open[p]
                      ~> loop[p] = "returned" /\ initial[p] = "returned"

(* DeleteProbe removes a probe completely: it begins no round after that.   *)
(* It does not hold: the flag running stays set, so a tick that is ready    *)
(* together with the closed channel begins another round.                   *)
DeletedProbesRest ==
    [][\A p \in Probes : loop[p] = "select" /\ loop'[p] = "probing"
                         => \E t \in Targets : probes[t] = p]_vars
=============================================================================
