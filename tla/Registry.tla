------------------------------- MODULE Registry -------------------------------
(***************************************************************************)
(* What the probe manager promises to the callers of its API: a bounded    *)
(* table with at most one probe per target, as GetProbe and GetAllProbes   *)
(* show it.  Nothing of locks, channels, name lookups and goroutines is    *)
(* left.  Module NetPath implements it.                                    *)
(***************************************************************************)
EXTENDS Integers, FiniteSets

CONSTANTS Targets, MaxProbes

VARIABLES
    entry,   \* the Status of the target's probe, or "none"
    count,   \* its ProbeCount
    extra    \* how many of these results came after it was stopped

vars == <<entry, count, extra>>

Init ==
    /\ entry = [t \in Targets |-> "none"]
    /\ count = [t \in Targets |-> 0]
    /\ extra = [t \in Targets |-> 0]

Known == {t \in Targets : entry[t] # "none"}

(* A probe is made only where none runs, and only while there is room; it  *)
(* starts from nothing, whatever the stopped probe before it had seen.     *)
Start(t) ==
    /\ entry[t] # "running"
    /\ Cardinality(Known) < MaxProbes
    /\ entry' = [entry EXCEPT ![t] = "running"]
    /\ count' = [count EXCEPT ![t] = 0]
    /\ extra' = [extra EXCEPT ![t] = 0]

Stop(t) ==
    /\ entry[t] = "running"
    /\ entry' = [entry EXCEPT ![t] = "stopped"]
    /\ UNCHANGED <<count, extra>>

Delete(t) ==
    /\ entry[t] # "none"
    /\ entry' = [entry EXCEPT ![t] = "none"]
    /\ count' = [count EXCEPT ![t] = 0]
    /\ extra' = [extra EXCEPT ![t] = 0]

ResultOfRunning(t) ==
    /\ entry[t] = "running"
    /\ count' = [count EXCEPT ![t] = @ + 1]
    /\ UNCHANGED <<entry, extra>>

(* A stopped probe still takes in the round in progress and the initial one. *)
ResultOfStopped(t) ==
    /\ entry[t] = "stopped"
    /\ extra[t] < 2
    /\ count' = [count EXCEPT ![t] = @ + 1]
    /\ extra' = [extra EXCEPT ![t] = @ + 1]
    /\ UNCHANGED entry

Next == \E t \in Targets : \/ Start(t) \/ Stop(t) \/ Delete(t)
                           \/ ResultOfRunning(t) \/ ResultOfStopped(t)

Spec == Init /\ [][Next]_vars
=============================================================================
