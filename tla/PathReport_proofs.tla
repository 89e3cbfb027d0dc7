-------------------------- MODULE PathReport_proofs --------------------------
(***************************************************************************)
(* Theorems about module PathReport, for any latencies, any number of hops *)
(* and of probes per hop.  What the statistics compute is left to the      *)
(* operators (their sums are folds); the theorems are about what the loop  *)
(* of doProbe makes of them.                                               *)
(***************************************************************************)
EXTENDS PathReport, SequenceTheorems, TLAPS

-----------------------------------------------------------------------------
(* The inductive strengthening *)

(* What a hop says of itself, and what is kept of the last one. *)
HopsInv ==
    /\ hops \in Seq([latencies: Answers, isBottleneck: BOOLEAN, status: Statuses])
    /\ previous = IF hops = <<>> THEN <<>> ELSE hops[Len(hops)].latencies
    /\ \A h \in DOMAIN hops :
          /\ hops[h].status = determineHopStatus(hops[h].latencies)
          /\ hops[h].isBottleneck <=>
                h > 1 /\ Rises(hops[h - 1].latencies, hops[h].latencies)

ListInv == problemHops \in Seq(Nat) /\ ListIsTheProblems

IInv == HopsInv /\ ListInv

-----------------------------------------------------------------------------
LEMMA StatusType == ASSUME NEW l PROVE determineHopStatus(l) \in Statuses
BY DEF determineHopStatus, Statuses

(* Nothing rises from a hop without an answer, nor to one. *)
LEMMA RiseNeedsAnswers ==
    ASSUME NEW before, NEW l, Rises(before, l) PROVE before # <<>> /\ l # <<>>
BY DEF Rises, AvgAbove

(* A hop more leaves the hops before it as they are. *)
LEMMA HopAppended ==
    ASSUME HopsInv, NEW l \in Answers, NEW b, Hop(l, b)
    PROVE  /\ hops' \in Seq([latencies: Answers, isBottleneck: BOOLEAN, status: Statuses])
           /\ Len(hops) \in Nat /\ Len(hops') = Len(hops) + 1
           /\ DOMAIN hops = 1..Len(hops) /\ DOMAIN hops' = 1..(Len(hops) + 1)
           /\ \A h \in DOMAIN hops : hops'[h] = hops[h]
           /\ hops'[Len(hops) + 1].latencies = l
           /\ hops'[Len(hops) + 1].isBottleneck = Rises(previous, l)
           /\ hops'[Len(hops) + 1].status = determineHopStatus(l)
<1> DEFINE hop == [latencies |-> l, isBottleneck |-> Rises(previous, l),
                   status |-> determineHopStatus(l)]
<1>1. Rises(previous, l) \in BOOLEAN
  BY DEF Rises
<1>2. hop \in [latencies: Answers, isBottleneck: BOOLEAN, status: Statuses]
  BY <1>1, StatusType
<1>3. hops' = Append(hops, hop)
  BY DEF Hop
<1>4. /\ hop.latencies = l /\ hop.isBottleneck = Rises(previous, l)
      /\ hop.status = determineHopStatus(l)
  OBVIOUS
<1> HIDE DEF hop
<1>5. /\ hops' \in Seq([latencies: Answers, isBottleneck: BOOLEAN, status: Statuses])
      /\ Len(hops) \in Nat /\ Len(hops') = Len(hops) + 1
      /\ DOMAIN hops = 1..Len(hops) /\ DOMAIN hops' = 1..(Len(hops) + 1)
      /\ \A h \in DOMAIN hops : hops'[h] = hops[h]
      /\ hops'[Len(hops) + 1] = hop
  BY <1>2, <1>3 DEF HopsInv
<1> QED
  BY <1>4, <1>5

LEMMA HopsNext == ASSUME HopsInv, NEW l \in Answers, NEW b, Hop(l, b) PROVE HopsInv'
<1> DEFINE n == Len(hops) + 1
<1>1. previous' = l /\ hops' # <<>>
  <2>1. Len(hops') # 0
    BY HopAppended
  <2> QED
    BY <2>1 DEF Hop, Previous
<1>2. previous' = IF hops' = <<>> THEN <<>> ELSE hops'[Len(hops')].latencies
  BY <1>1, HopAppended
<1>3. ASSUME NEW h \in DOMAIN hops'
      PROVE  /\ hops'[h].status = determineHopStatus(hops'[h].latencies)
             /\ hops'[h].isBottleneck <=>
                   h > 1 /\ Rises(hops'[h - 1].latencies, hops'[h].latencies)
  <2>1. CASE h \in DOMAIN hops
    <3>1. hops'[h] = hops[h] /\ (h > 1 => hops'[h - 1] = hops[h - 1])
      BY <2>1, HopAppended
    <3> QED
      BY <2>1, <3>1 DEF HopsInv
  <2>2. CASE h = Len(hops) + 1
    <3>1. /\ hops'[h].latencies = l /\ hops'[h].status = determineHopStatus(l)
          /\ hops'[h].isBottleneck = Rises(previous, l)
      BY <2>2, HopAppended
    <3>2. CASE hops = <<>>
      <4>1. previous = <<>> /\ h = 1
        BY <2>2, <3>2 DEF HopsInv
      <4> QED
        BY <3>1, <4>1, RiseNeedsAnswers
    <3>3. CASE hops # <<>>
      <4>1. Len(hops) \in DOMAIN hops /\ h > 1 /\ h - 1 = Len(hops)
        BY <2>2, <3>3 DEF HopsInv
      <4>2. hops'[h - 1] = hops[Len(hops)]
        BY <4>1, HopAppended
      <4>3. previous = hops[Len(hops)].latencies
        BY <3>3 DEF HopsInv
      <4> QED
        BY <3>1, <4>1, <4>2, <4>3
    <3> QED
      BY <3>2, <3>3
  <2> QED
    BY <2>1, <2>2, HopAppended
<1> QED
  BY <1>2, <1>3, HopAppended DEF HopsInv

(* What the list is after a hop: the hop is added at most once. *)
LEMMA NotedOnce ==
    ASSUME HopsInv, ListInv, NEW l \in Answers, NEW b \in BOOLEAN
    PROVE  Noted(b, l) = IF b \/ IsBad(l) THEN Append(problemHops, Len(hops) + 1)
                         ELSE problemHops
<1>1. problemHops \in Seq(Nat) /\ Len(hops) \in Nat /\ DOMAIN hops = 1..Len(hops)
  BY DEF ListInv, HopsInv
<1>2. ~contains(problemHops, Len(hops) + 1)
  <2>1. ToSet(problemHops) \subseteq 1..Len(hops)
    BY <1>1 DEF ListInv, ListIsTheProblems, Problems
  <2>2. \A i \in DOMAIN problemHops : problemHops[i] \in 1..Len(hops)
    BY <2>1 DEF ToSet
  <2> QED
    BY <1>1, <2>2 DEF contains
<1>3. contains(Append(problemHops, Len(hops) + 1), Len(hops) + 1)
  <2>1. PICK list : list = Append(problemHops, Len(hops) + 1)
    OBVIOUS
  <2>2. Len(list) \in DOMAIN list /\ list[Len(list)] = Len(hops) + 1
    BY <1>1, <2>1
  <2> QED
    BY <2>1, <2>2 DEF contains
<1>4. CASE b
  BY <1>3, <1>4 DEF Noted
<1>5. CASE ~b
  BY <1>2, <1>5 DEF Noted
<1> QED
  BY <1>4, <1>5

LEMMA ListNext ==
    ASSUME HopsInv, ListInv, HopsInv', NEW l \in Answers, NEW b, Hop(l, b) PROVE ListInv'
<1>1. PICK n : n = Len(hops) + 1
  OBVIOUS
<1>2. PICK bad \in BOOLEAN : bad = (Rises(previous, l) \/ IsBad(l))
  OBVIOUS
<1>3. /\ Len(hops) \in Nat /\ DOMAIN hops = 1..Len(hops) /\ DOMAIN hops' = 1..n
      /\ \A h \in DOMAIN hops : hops'[h] = hops[h]
      /\ hops'[n].latencies = l /\ hops'[n].isBottleneck = Rises(previous, l)
  BY <1>1, HopAppended
<1>4. problemHops' = IF bad THEN Append(problemHops, n) ELSE problemHops
  <2>1. PICK r \in BOOLEAN : r = Rises(previous, l)
    BY DEF Rises
  <2>2. problemHops' = Noted(r, l)
    BY <2>1 DEF Hop
  <2> QED
    BY <1>1, <1>2, <2>1, <2>2, NotedOnce
<1>5. Problems' = IF bad THEN Problems \cup {n} ELSE Problems
  <2>1. n \in Problems' <=> bad
    <3>1. n \in DOMAIN hops'
      BY <1>1, <1>3
    <3>2. Rises(previous, l) <=> n > 1 /\ Rises(hops'[n - 1].latencies, l)
      BY <1>3, <3>1 DEF HopsInv
    <3> QED
      BY <1>2, <1>3, <3>1, <3>2 DEF Problems
  <2>2. \A h \in DOMAIN hops : h \in Problems' <=> h \in Problems
    <3>1. ASSUME NEW h \in DOMAIN hops PROVE h \in Problems' <=> h \in Problems
      <4>1. h \in DOMAIN hops' /\ hops'[h] = hops[h] /\ (h > 1 => hops'[h - 1] = hops[h - 1])
        BY <1>1, <1>3
      <4> QED
        BY <4>1 DEF Problems
    <3> QED
      BY <3>1
  <2>3. \A h : h \in Problems' => h \in DOMAIN hops \/ h = n
    BY <1>1, <1>3 DEF Problems
  <2>4. \A h : h \in Problems => h \in DOMAIN hops
    BY DEF Problems
  <2> QED
    BY <2>1, <2>2, <2>3, <2>4
<1>6. /\ problemHops \in Seq(Nat) /\ n \in Nat
      /\ \A i \in DOMAIN problemHops : problemHops[i] < n
  <2>1. \A i \in DOMAIN problemHops : problemHops[i] \in 1..Len(hops)
    BY <1>3 DEF ListInv, ListIsTheProblems, Problems, ToSet
  <2> QED
    BY <1>1, <1>3, <2>1 DEF ListInv
<1>7. hasProblems' = (hasProblems \/ bad)
  BY <1>2 DEF Hop
<1>8. CASE ~bad
  BY <1>4, <1>5, <1>7, <1>8 DEF ListInv, ListIsTheProblems
<1>9. CASE bad
  <2>1. /\ problemHops' \in Seq(Nat) /\ problemHops' # <<>>
        /\ DOMAIN problemHops = 1..Len(problemHops) /\ Len(problemHops) \in Nat
        /\ DOMAIN problemHops' = 1..(Len(problemHops) + 1)
        /\ problemHops'[Len(problemHops) + 1] = n
        /\ \A i \in DOMAIN problemHops : problemHops'[i] = problemHops[i]
    <3>1. problemHops' = Append(problemHops, n)
      BY <1>4, <1>9
    <3>2. Len(problemHops') # 0
      BY <1>6, <3>1
    <3> QED
      BY <1>6, <3>1, <3>2
  <2>2. ToSet(problemHops') = ToSet(problemHops) \cup {n}
    BY <2>1 DEF ToSet
  <2>3. ASSUME NEW i \in DOMAIN problemHops', NEW j \in DOMAIN problemHops', i < j
        PROVE  problemHops'[i] < problemHops'[j]
    <3>1. i \in DOMAIN problemHops /\ problemHops'[i] = problemHops[i]
      BY <2>1, <2>3
    <3>2. CASE j = Len(problemHops) + 1
      BY <1>6, <2>1, <3>1, <3>2
    <3>3. CASE j \in DOMAIN problemHops
      BY <2>1, <2>3, <3>1, <3>3 DEF ListInv, ListIsTheProblems
    <3> QED
      BY <2>1, <3>2, <3>3
  <2>4. ToSet(problemHops) = Problems
    BY DEF ListInv, ListIsTheProblems
  <2>5. ToSet(problemHops') = Problems'
    BY <1>5, <1>9, <2>2, <2>4
  <2> QED
    BY <1>7, <1>9, <2>1, <2>3, <2>5 DEF ListInv, ListIsTheProblems
<1> QED
  BY <1>8, <1>9

-----------------------------------------------------------------------------
(* The inductive invariant *)

LEMMA IInvInit == Init => IInv
<1> SUFFICES ASSUME Init PROVE IInv
  OBVIOUS
<1>1. hops = <<>> /\ previous = <<>> /\ problemHops = <<>> /\ hasProblems = FALSE
  BY DEF Init
<1>2. HopsInv
  BY <1>1 DEF HopsInv
<1>3. ToSet(problemHops) = {} /\ Problems = {}
  BY <1>1 DEF ToSet, Problems
<1> QED
  BY <1>1, <1>2, <1>3 DEF IInv, ListInv, ListIsTheProblems

LEMMA IInvNext == IInv /\ [Next]_vars => IInv'
<1> SUFFICES ASSUME IInv, [Next]_vars PROVE IInv'
  OBVIOUS
<1>1. CASE UNCHANGED vars
  BY <1>1 DEF vars, IInv, HopsInv, ListInv, ListIsTheProblems, Problems
<1>2. ASSUME NEW l \in Answers, NEW b \in BOOLEAN, Hop(l, b) PROVE IInv'
  <2>1. HopsInv'
    BY <1>2, HopsNext DEF IInv
  <2> QED
    BY <1>2, <2>1, ListNext DEF IInv
<1> QED
  BY <1>1, <1>2 DEF Next

LEMMA IInvAlways == Spec => []IInv
BY IInvInit, IInvNext, PTL DEF Spec

-----------------------------------------------------------------------------
(* The packets of a path *)

(* A round has at most ProbesPerHop answers; without any its status is       *)
(* "timeout", and only then.                                                *)
LEMMA AnswersCounted ==
    ASSUME NEW l \in Answers
    PROVE  /\ Len(l) \in 0..ProbesPerHop
           /\ Len(l) = 0 <=> l = <<>>
           /\ determineHopStatus(l) = "timeout" <=> l = <<>>
<1>1. PICK m \in 0..ProbesPerHop : l \in [1..m -> Latencies]
  BY DEF Answers, BoundedSeq, SeqOf
<1>2. ProbesPerHop \in Nat
  BY SizeAssumption
<1>3. l \in Seq(Latencies) /\ Len(l) = m
  BY <1>1, <1>2
<1> QED
  BY <1>1, <1>2, <1>3 DEF determineHopStatus

(* The loop ends with hop MaxHops at the latest; the packets of a hop are   *)
(* ProbesPerHop sent and as many received as it has latencies.              *)
CountInv ==
    /\ finished \in BOOLEAN
    /\ Len(hops) <= MaxHops
    /\ ~finished => Len(hops) < MaxHops
    /\ sent = ProbesPerHop * Len(hops)
    /\ recv \in 0..sent
    /\ recv = 0 <=> \A h \in DOMAIN hops : hops[h].status = "timeout"

LEMMA CountInit == Init => CountInv
<1> SUFFICES ASSUME Init PROVE CountInv
  OBVIOUS
<1>1. hops = <<>> /\ sent = 0 /\ recv = 0 /\ finished = FALSE
  BY DEF Init
<1>2. Len(hops) = 0 /\ DOMAIN hops = {}
  BY <1>1
<1>3. MaxHops \in Nat /\ MaxHops > 0 /\ ProbesPerHop \in Nat
  BY SizeAssumption
<1>4. sent = ProbesPerHop * Len(hops)
  <2>1. ProbesPerHop * 0 = 0
    BY <1>3
  <2> QED
    BY <1>1, <1>2, <2>1
<1>5. recv \in 0..sent /\ (recv = 0 <=> \A h \in DOMAIN hops : hops[h].status = "timeout")
  BY <1>1, <1>2
<1>6. Len(hops) <= MaxHops /\ Len(hops) < MaxHops
  BY <1>2, <1>3
<1>7. finished \in BOOLEAN
  BY <1>1
<1> QED
  BY <1>4, <1>5, <1>6, <1>7 DEF CountInv

LEMMA CountNext ==
    ASSUME HopsInv, CountInv, NEW l \in Answers, NEW b \in BOOLEAN, Hop(l, b)
    PROVE  CountInv'
<1>1. PICK n : n = Len(hops)
  OBVIOUS
<1>2. PICK r : r = Len(l)
  OBVIOUS
<1>3. /\ n \in Nat /\ n < MaxHops /\ MaxHops \in Nat
      /\ ProbesPerHop \in Nat /\ r \in 0..ProbesPerHop
  BY <1>1, <1>2, SizeAssumption, AnswersCounted, HopAppended DEF Hop, CountInv
<1>4. /\ Len(hops') = n + 1 /\ DOMAIN hops = 1..n /\ DOMAIN hops' = 1..(n + 1)
      /\ \A h \in DOMAIN hops : hops'[h] = hops[h]
      /\ hops'[n + 1].status = determineHopStatus(l)
  BY <1>1, HopAppended
<1>5. /\ sent' = sent + ProbesPerHop /\ recv' = recv + r
      /\ finished' = (b \/ n + 1 = MaxHops)
  BY <1>1, <1>2 DEF Hop
<1>6. sent = ProbesPerHop * n /\ recv \in 0..sent
  BY <1>1 DEF CountInv
<1>7. sent' = ProbesPerHop * Len(hops')
  <2>1. ProbesPerHop * (n + 1) = ProbesPerHop * n + ProbesPerHop
    BY <1>3
  <2> QED
    BY <1>4, <1>5, <1>6, <2>1
<1>8. recv' \in 0..sent'
  <2>1. ProbesPerHop * n \in Nat
    BY <1>3
  <2>2. PICK s \in Nat : s = sent
    BY <1>6, <2>1
  <2>3. recv \in 0..s
    BY <1>6, <2>2
  <2> QED
    BY <1>3, <1>5, <2>2, <2>3
<1>9. recv' = 0 <=> \A h \in DOMAIN hops' : hops'[h].status = "timeout"
  <2>1. recv' = 0 <=> recv = 0 /\ r = 0
    <3>1. recv \in Nat
      BY <1>6
    <3> QED
      BY <1>3, <1>5, <3>1
  <2>2. r = 0 <=> hops'[n + 1].status = "timeout"
    BY <1>2, <1>4, AnswersCounted
  <2>3. recv = 0 <=> \A h \in DOMAIN hops : hops[h].status = "timeout"
    BY DEF CountInv
  <2>4. (\A h \in DOMAIN hops' : hops'[h].status = "timeout")
           <=> (\A h \in DOMAIN hops : hops[h].status = "timeout")
               /\ hops'[n + 1].status = "timeout"
    <3>1. DOMAIN hops' = DOMAIN hops \cup {n + 1}
      BY <1>3, <1>4
    <3> QED
      BY <1>4, <3>1
  <2> QED
    BY <2>1, <2>2, <2>3, <2>4
<1>10. finished' \in BOOLEAN /\ Len(hops') <= MaxHops
       /\ (~finished' => Len(hops') < MaxHops)
  <2>1. Len(hops') <= MaxHops /\ (n + 1 # MaxHops => Len(hops') < MaxHops)
    BY <1>3, <1>4
  <2>2. finished' \in BOOLEAN /\ (~finished' => n + 1 # MaxHops)
    BY <1>5
  <2> QED
    BY <2>1, <2>2
<1> QED
  BY <1>7, <1>8, <1>9, <1>10 DEF CountInv

(* Nothing of the list lies beyond the hops, and they are at most MaxHops.  *)
LEMMA TypeFromParts ==
    ASSUME IInv, CountInv, hasProblems \in BOOLEAN PROVE TypeOK
<1>1. previous \in Answers
  <2>1. CASE hops = <<>>
    <3>1. <<>> \in [1..0 -> Latencies] /\ 0 \in 0..ProbesPerHop
      BY SizeAssumption
    <3> QED
      BY <2>1, <3>1 DEF IInv, HopsInv, Answers, BoundedSeq, SeqOf
  <2>2. CASE hops # <<>>
    <3>1. hops \in Seq(HopRecords)
      BY DEF IInv, HopsInv, HopRecords
    <3>2. hops[Len(hops)].latencies \in Answers
      <4>1. Len(hops) \in 1..Len(hops) /\ hops \in [1..Len(hops) -> HopRecords]
        BY <2>2, <3>1
      <4>2. hops[Len(hops)] \in HopRecords
        BY <4>1
      <4> QED
        BY <4>2 DEF HopRecords
    <3>3. previous = hops[Len(hops)].latencies
      BY <2>2 DEF IInv, HopsInv
    <3> QED
      BY <3>2, <3>3
  <2> QED
    BY <2>1, <2>2
<1>2. problemHops \in Seq(1..MaxHops)
  <2>1. DOMAIN hops \subseteq 1..MaxHops
    BY SizeAssumption DEF IInv, HopsInv, CountInv
  <2>2. ToSet(problemHops) \subseteq 1..MaxHops
    BY <2>1 DEF IInv, ListInv, ListIsTheProblems, Problems
  <2>3. \A i \in 1..Len(problemHops) : problemHops[i] \in 1..MaxHops
    BY <2>2 DEF IInv, ListInv, ToSet
  <2>4. /\ Len(problemHops) \in Nat
        /\ problemHops \in [1..Len(problemHops) -> Nat]
    BY DEF IInv, ListInv
  <2>5. problemHops \in [1..Len(problemHops) -> 1..MaxHops]
    BY <2>3, <2>4
  <2> QED
    BY <2>4, <2>5, SeqDef
<1>3. hops \in Seq(HopRecords)
  BY DEF IInv, HopsInv, HopRecords
<1> QED
  BY <1>1, <1>2, <1>3 DEF TypeOK, CountInv

-----------------------------------------------------------------------------
(* The theorems *)

(* The packets of a path are those of its hops: the total loss doProbe divides *)
(* out is never negative nor above 100 %, and is total exactly when every hop  *)
(* timed out; no hop beyond MaxHops is probed or listed.                       *)
THEOREM PacketsAreAccounted == Spec => []TypeOK
<1> DEFINE J == IInv /\ CountInv /\ hasProblems \in BOOLEAN
<1>1. Init => J
  BY IInvInit, CountInit DEF Init
<1>2. J /\ [Next]_vars => J'
  <2> SUFFICES ASSUME J, [Next]_vars PROVE J'
    OBVIOUS
  <2>1. CASE UNCHANGED vars
    BY <2>1, IInvNext DEF vars, CountInv
  <2>2. ASSUME NEW l \in Answers, NEW b \in BOOLEAN, Hop(l, b) PROVE J'
    <3>1. CountInv'
      BY <2>2, CountNext DEF IInv
    <3>2. hasProblems' \in BOOLEAN
      BY <2>2 DEF Hop
    <3> QED
      BY <3>1, <3>2, IInvNext
  <2> QED
    BY <2>1, <2>2 DEF Next
<1>3. J => TypeOK
  BY TypeFromParts
<1> QED
  BY <1>1, <1>2, <1>3, PTL DEF Spec

(* The list of problem hops is complete, in order and without duplicates, and *)
(* the path has problems exactly when it names one.                           *)
THEOREM ListCorrect == Spec => []ListIsTheProblems
<1>1. IInv => ListIsTheProblems
  BY DEF IInv, ListInv
<1> QED
  BY <1>1, IInvAlways, PTL

(* No hop is a bottleneck beside a hop that did not answer, or if it did not. *)
THEOREM BottlenecksAnswer == Spec => []BottlenecksHaveNeighbours
<1>1. ASSUME IInv PROVE BottlenecksHaveNeighbours
  <2>1. ASSUME NEW h \in DOMAIN hops, hops[h].isBottleneck
        PROVE  h > 1 /\ hops[h].status # "timeout" /\ hops[h - 1].status # "timeout"
    <3>1. h > 1 /\ h - 1 \in DOMAIN hops /\ hops[h - 1].latencies # <<>>
          /\ hops[h].latencies # <<>>
      BY <1>1, <2>1, RiseNeedsAnswers DEF IInv, HopsInv
    <3>2. /\ hops[h].status = determineHopStatus(hops[h].latencies)
          /\ hops[h - 1].status = determineHopStatus(hops[h - 1].latencies)
      BY <1>1, <3>1 DEF IInv, HopsInv
    <3> QED
      BY <3>1, <3>2 DEF determineHopStatus
  <2> QED
    BY <2>1 DEF BottlenecksHaveNeighbours
<1> QED
  BY <1>1, IInvAlways, PTL
=============================================================================
