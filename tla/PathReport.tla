------------------------------ MODULE PathReport ------------------------------
(***************************************************************************)
(* What doProbe and probeHop (src/internal/collectors/netpath.go) make of  *)
(* the latencies of a round: the statistics of a hop, its status, the      *)
(* bottlenecks and the list of problem hops.  Which answers there are is   *)
(* in module Probing.                                                      *)
(*                                                                         *)
(* Latencies are whole milliseconds.  Averages, percentages and the        *)
(* standard deviation are compared as the fractions they are: both sides   *)
(* of a comparison are multiplied by the denominators; the rounding of     *)
(* floating point numbers is left out.                                     *)
(***************************************************************************)
EXTENDS Integers, Sequences, SequencesExt

CONSTANTS
    Latencies,      \* what a probe may measure
    MaxHops, ProbesPerHop

ASSUME SizeAssumption == /\ Latencies \subseteq Nat
                         /\ MaxHops \in Nat \ {0}
                         /\ ProbesPerHop \in Nat \ {0}

VARIABLES
    hops,         \* result.Hops: what each answered, IsBottleneck, Status
    previous,     \* the latencies behind previousAvgLatency
    problemHops, hasProblems,   \* result.ProblemHops, result.HasProblems
    sent, recv,   \* totalPacketsSent, totalPacketsRecv
    finished      \* doProbe has left its loop

vars == <<hops, previous, problemHops, hasProblems, sent, recv, finished>>

-----------------------------------------------------------------------------
(* The statistics of a hop; without an answer they stay zero. *)

Total(l) == FoldLeft(LAMBDA x, y : x + y, 0, l)
TotalOfSquares(l) == FoldLeft(LAMBDA x, y : x + y * y, 0, l)

AvgAbove(l, ms) == l # <<>> /\ Total(l) > ms * Len(l)

(* Jitter is the standard deviation, and 0 for a single latency. *)
JitterAbove(l, ms) ==
    Len(l) * TotalOfSquares(l) - Total(l) * Total(l) > ms * ms * Len(l) * Len(l)

LossAbove(l, percent) == (ProbesPerHop - Len(l)) * 100 > percent * ProbesPerHop

(* The average rises by more than 20 ms, from one that is positive. *)
Rises(before, l) ==
    /\ AvgAbove(before, 0) /\ AvgAbove(l, 0)
    /\ Total(l) * Len(before) - Total(before) * Len(l) > 20 * Len(before) * Len(l)

(* Mutated form: the loss is looked at before the timeout. *)
determineHopStatusLossFirst(l) ==
    IF LossAbove(l, 50) THEN "critical"
    ELSE IF l = <<>> THEN "timeout"
    ELSE IF LossAbove(l, 10) \/ AvgAbove(l, 150) \/ JitterAbove(l, 50) THEN "warning"
    ELSE IF AvgAbove(l, 50) \/ JitterAbove(l, 20) THEN "slow"
    ELSE "healthy"

determineHopStatus(l) ==
    IF l = <<>> THEN "timeout"
    ELSE IF LossAbove(l, 50) THEN "critical"
    ELSE IF LossAbove(l, 10) \/ AvgAbove(l, 150) \/ JitterAbove(l, 50) THEN "warning"
    ELSE IF AvgAbove(l, 50) \/ JitterAbove(l, 20) THEN "slow"
    ELSE "healthy"

IsBad(l) == determineHopStatus(l) \in {"critical", "warning"}

-----------------------------------------------------------------------------
Init ==
    /\ hops = <<>>
    /\ previous = <<>>
    /\ problemHops = <<>>
    /\ hasProblems = FALSE
    /\ sent = 0
    /\ recv = 0
    /\ finished = FALSE

contains(slice, val) == \E i \in DOMAIN slice : slice[i] = val

(* Mutated form: the list is not asked for the hop. *)
NotedTwice(bottleneck, l) ==
    problemHops \o (IF bottleneck THEN <<Len(hops) + 1>> ELSE <<>>)
                \o (IF IsBad(l) THEN <<Len(hops) + 1>> ELSE <<>>)

(* The list after this hop: once for the bottleneck, and for its status if *)
(* it is not there yet.                                                    *)
Noted(bottleneck, l) ==
    LET ttl == Len(hops) + 1
        list == IF bottleneck THEN Append(problemHops, ttl) ELSE problemHops
    IN  IF IsBad(l) /\ ~contains(list, ttl) THEN Append(list, ttl) ELSE list

(* Mutated form: a hop without an answer keeps the average before it. *)
PreviousAnswered(l) == IF l = <<>> THEN previous ELSE l

Previous(l) == l

(* probeHop has returned with the latencies l, from the target or not. *)
Hop(l, fromTarget) ==
    LET bottleneck == Rises(previous, l)
    IN  /\ ~finished
        /\ fromTarget => l # <<>>
        /\ hops' = Append(hops, [latencies |-> l, isBottleneck |-> bottleneck,
                                 status |-> determineHopStatus(l)])
        /\ problemHops' = Noted(bottleneck, l)
        /\ hasProblems' = (hasProblems \/ bottleneck \/ IsBad(l))
        /\ previous' = Previous(l)
        /\ sent' = sent + ProbesPerHop
        /\ recv' = recv + Len(l)
        /\ finished' = (fromTarget \/ Len(hops) + 1 = MaxHops)

Answers == BoundedSeq(Latencies, ProbesPerHop)

Next == \E l \in Answers, b \in BOOLEAN : Hop(l, b)

Spec == Init /\ [][Next]_vars

-----------------------------------------------------------------------------
(* Properties *)

Statuses == {"timeout", "critical", "warning", "slow", "healthy"}
HopRecords == [latencies: Answers, isBottleneck: BOOLEAN, status: Statuses]

(* Lost packets are those of the hops: the total loss is neither negative   *)
(* nor above 100 %, and total only when no hop answered.                    *)
TypeOK ==
    /\ hops \in Seq(HopRecords) /\ Len(hops) <= MaxHops
    /\ previous \in Answers
    /\ problemHops \in Seq(1..MaxHops)
    /\ hasProblems \in BOOLEAN
    /\ finished \in BOOLEAN
    /\ sent = ProbesPerHop * Len(hops)
    /\ recv \in 0..sent
    /\ recv = 0 <=> \A h \in DOMAIN hops : hops[h].status = "timeout"

(* the hops worth a look: a bad status, or slower by far than the hop before *)
Problems ==
    {h \in DOMAIN hops :
        \/ IsBad(hops[h].latencies)
        \/ h > 1 /\ Rises(hops[h - 1].latencies, hops[h].latencies)}

(* The list of a path is its problem hops in their order, each once, for    *)
(* whatever reasons; a path has problems exactly when the list is not empty.*)
ListIsTheProblems ==
    /\ ToSet(problemHops) = Problems
    /\ \A i, j \in DOMAIN problemHops : i < j => problemHops[i] < problemHops[j]
    /\ hasProblems <=> problemHops # <<>>

(* A bottleneck is known by two neighbours that both answered: silence is   *)
(* no slowness, and hides the rise behind it.                               *)
BottlenecksHaveNeighbours ==
    \A h \in DOMAIN hops : hops[h].isBottleneck =>
        h > 1 /\ hops[h].status # "timeout" /\ hops[h - 1].status # "timeout"
=============================================================================
