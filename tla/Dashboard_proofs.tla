-------------------------- MODULE Dashboard_proofs ---------------------------
(***************************************************************************)
(* Theorems about module Dashboard, for every number of requests, sockets  *)
(* and faults.                                                             *)
(***************************************************************************)
EXTENDS Dashboard, FiniteSetTheorems, TLAPS

-----------------------------------------------------------------------------
(* The inductive strengthening *)

Done == {k \in Calls : call[k].stage = "done"}

(* The type invariant with no bounds on the counters. *)
Shape ==
    /\ up \in BOOLEAN /\ monitoring \in BOOLEAN
    /\ faults \in 0..MaxFaults
    /\ call \in [Calls -> [kind: Kinds, stage: Stages, running: BOOLEAN]]
    /\ isRunning \in BOOLEAN
    /\ ws \in Sockets \cup {NoSocket}
    /\ socket \in [Sockets -> SocketStates]
    /\ timers \in Nat /\ opened \in Nat

(* An answer opens one socket, and a connection is a socket or a timer. *)
CountInv ==
    /\ Cardinality(Live) + timers <= opened
    /\ opened <= Cardinality(Done)

RunInv == isRunning => Live # {} \/ timers > 0

IInv == Shape /\ CountInv /\ RunInv

-----------------------------------------------------------------------------
(* Counting *)

LEMMA LiveFinite == IsFiniteSet(Live) /\ Cardinality(Live) \in Nat
  <1>1. Live \subseteq Sockets /\ IsFiniteSet(Sockets) BY DashboardAssumption DEF Live
  <1> QED BY <1>1, FS_Subset, FS_CardinalityType

LEMMA DoneFinite == IsFiniteSet(Done) /\ Cardinality(Done) \in Nat
                    /\ Cardinality(Done) <= Cardinality(Calls)
  <1>1. Done \subseteq Calls /\ IsFiniteSet(Calls) BY DashboardAssumption DEF Done
  <1> QED BY <1>1, FS_Subset, FS_CardinalityType

(* A request that is through is one more of those. *)
LEMMA DoneGrows ==
    ASSUME Shape, NEW k \in Calls, call[k].stage \in {"sent", "answered"},
           call' = [call EXCEPT ![k].stage = "done"]
    PROVE  /\ Cardinality(Done)' = Cardinality(Done) + 1
           /\ call' \in [Calls -> [kind: Kinds, stage: Stages, running: BOOLEAN]]
  <1>1. /\ call'[k].stage = "done"
        /\ \A j \in Calls \ {k} : call'[j] = call[j]
    BY DEF Shape
  <1>2. Done' = Done \cup {k} /\ k \notin Done BY <1>1 DEF Done
  <1>3. Cardinality(Done') = Cardinality(Done) + 1 BY <1>2, DoneFinite, FS_AddElement
  <1>4. [call[k] EXCEPT !.stage = "done"] \in [kind: Kinds, stage: Stages, running: BOOLEAN]
    BY DEF Shape, Stages
  <1>5. call' \in [Calls -> [kind: Kinds, stage: Stages, running: BOOLEAN]]
    BY <1>4 DEF Shape
  <1> QED BY <1>3, <1>5

(* A request that is not through leaves those that are alone. *)
LEMMA DoneStays ==
    ASSUME Shape, NEW k \in Calls, call[k].stage # "done",
           NEW r \in [kind: Kinds, stage: Stages, running: BOOLEAN], r.stage # "done",
           call' = [call EXCEPT ![k] = r]
    PROVE  /\ Done' = Done
           /\ call' \in [Calls -> [kind: Kinds, stage: Stages, running: BOOLEAN]]
  <1>1. call'[k] = r /\ \A j \in Calls \ {k} : call'[j] = call[j] BY DEF Shape
  <1>2. Done' = Done BY <1>1 DEF Done
  <1> QED BY <1>2 DEF Shape

LEMMA ConnectAdds ==
    ASSUME Shape, connectWebSocket
    PROVE  /\ Cardinality(Live)' = Cardinality(Live) + 1 /\ Live' # {}
           /\ socket' \in [Sockets -> SocketStates] /\ ws' \in Sockets
  <1>1. Live # Sockets /\ Live \subseteq Sockets BY DEF connectWebSocket, Live
  <1>2. \E s \in Sockets : s \notin Live BY <1>1
  <1>3. NewSocket \in Sockets /\ NewSocket \notin Live BY <1>2 DEF NewSocket
  <1>4. /\ socket'[NewSocket] = "connecting"
        /\ \A s \in Sockets \ {NewSocket} : socket'[s] = socket[s]
        /\ socket' \in [Sockets -> SocketStates]
    BY <1>3 DEF connectWebSocket, Shape, SocketStates
  <1>5. Live' = Live \cup {NewSocket} BY <1>3, <1>4 DEF Live
  <1>6. Cardinality(Live') = Cardinality(Live) + 1 BY <1>3, <1>5, LiveFinite, FS_AddElement
  <1> QED BY <1>3, <1>4, <1>5, <1>6 DEF connectWebSocket

(* A socket that stays one, in whatever state. *)
LEMMA LiveStays ==
    ASSUME Shape, socket' \in [Sockets -> SocketStates],
           \A s \in Sockets : socket'[s] = "none" <=> socket[s] = "none"
    PROVE  Live' = Live
  BY DEF Live

LEMMA OneStays ==
    ASSUME Shape, NEW s \in Sockets, socket[s] # "none",
           NEW t \in SocketStates \ {"none"}, socket' = [socket EXCEPT ![s] = t]
    PROVE  Live' = Live /\ socket' \in [Sockets -> SocketStates]
  BY DEF Live, Shape

-----------------------------------------------------------------------------
(* The steps *)

LEMMA Quiet ==
    ASSUME IInv, Shape', UNCHANGED <<timers, opened, isRunning>>, Live' = Live,
           Done' = Done \/ Cardinality(Done)' = Cardinality(Done) + 1
    PROVE  IInv'
  <1>1. Cardinality(Done)' >= Cardinality(Done) BY DoneFinite
  <1>2. Cardinality(Done)' \in Nat BY DoneFinite
  <1>3. CountInv' BY <1>1, <1>2, DoneFinite, LiveFinite DEF IInv, CountInv, Shape
  <1>4. RunInv' BY DEF IInv, RunInv
  <1> QED BY <1>3, <1>4 DEF IInv

LEMMA ServerNext ==
    ASSUME IInv,
           \/ OthersStartOrStop \/ ServerEnds \/ ServerStarts
           \/ \E s \in Sockets : ConnectionEnds(s)
    PROVE  IInv'
  <1>0. Shape BY DEF IInv
  <1>f. faults < MaxFaults => faults + 1 \in 0..MaxFaults
    BY <1>0, DashboardAssumption DEF Shape
  <1>1. CASE OthersStartOrStop \/ ServerStarts
    <2>1. UNCHANGED <<faults, call, pageVars>> /\ up' \in BOOLEAN /\ monitoring' \in BOOLEAN
      BY <1>0, <1>1 DEF OthersStartOrStop, ServerStarts, Shape
    <2>2. Shape' BY <1>0, <2>1 DEF Shape, pageVars
    <2>3. Live' = Live /\ Done' = Done BY <2>1 DEF Live, Done, pageVars
    <2> QED BY <2>1, <2>2, <2>3, Quiet DEF pageVars
  <1>2. CASE ServerEnds
    <2>1. /\ \A s \in Sockets : socket'[s] = "none" <=> socket[s] = "none"
          /\ socket' \in [Sockets -> SocketStates]
      BY <1>0, <1>2 DEF ServerEnds, Lose, Shape, SocketStates
    <2>2. Shape' BY <1>0, <1>2, <1>f, <2>1 DEF ServerEnds, Shape
    <2>3. Live' = Live BY <1>0, <2>1, LiveStays
    <2>4. Done' = Done BY <1>2 DEF ServerEnds, Done
    <2> QED BY <1>2, <2>2, <2>3, <2>4, Quiet DEF ServerEnds
  <1>3. ASSUME NEW s \in Sockets, ConnectionEnds(s) PROVE IInv'
    <2>1. Live' = Live /\ socket' \in [Sockets -> SocketStates]
      BY <1>0, <1>3, OneStays DEF ConnectionEnds, SocketStates
    <2>2. Shape' BY <1>0, <1>3, <1>f, <2>1 DEF ConnectionEnds, Shape
    <2>3. Done' = Done BY <1>3 DEF ConnectionEnds, Done
    <2> QED BY <1>3, <2>1, <2>2, <2>3, Quiet DEF ConnectionEnds
  <1> QED BY <1>1, <1>2, <1>3

LEMMA SocketNext ==
    ASSUME IInv, NEW s \in Sockets, SocketStep(s)
    PROVE  IInv'
  <1>0. Shape BY DEF IInv
  <1>1. CASE SocketOpens(s) \/ SocketIsRefused(s)
    <2>1. Live' = Live /\ socket' \in [Sockets -> SocketStates]
      BY <1>0, <1>1, OneStays DEF SocketOpens, SocketIsRefused, SocketStates
    <2>2. UNCHANGED <<up, monitoring, faults, call, isRunning, ws, timers, opened>>
      BY <1>1 DEF SocketOpens, SocketIsRefused, serverVars
    <2>3. Shape' /\ Done' = Done BY <1>0, <2>1, <2>2 DEF Shape, Done
    <2> QED BY <2>1, <2>2, <2>3, Quiet
  <1>2. CASE OnClose(s)
    <2>1. /\ socket' \in [Sockets -> SocketStates] /\ socket'[s] = "none" /\ s \in Live
          /\ \A t \in Sockets \ {s} : socket'[t] = socket[t]
      BY <1>0, <1>2 DEF OnClose, Shape, SocketStates, Live
    <2>2. Live' = Live \ {s} BY <2>1 DEF Live
    <2>3. Cardinality(Live') = Cardinality(Live) - 1
      BY <2>1, <2>2, LiveFinite, FS_RemoveElement
    <2>4. UNCHANGED <<up, monitoring, faults, call, isRunning, ws, opened>>
          /\ timers' = IF isRunning THEN timers + 1 ELSE timers
      BY <1>2 DEF OnClose, serverVars
    <2>5. Shape' /\ Done' = Done BY <1>0, <2>1, <2>4 DEF Shape, Done
    <2>6. CountInv' BY <1>0, <2>3, <2>4, <2>5, LiveFinite, DoneFinite DEF IInv, CountInv, Shape
    <2>7. RunInv' BY <1>0, <2>4 DEF RunInv, Shape
    <2> QED BY <2>5, <2>6, <2>7 DEF IInv
  <1> QED BY <1>1, <1>2 DEF SocketStep

LEMMA TimerNext == ASSUME IInv, TimerFires PROVE IInv'
  <1>0. Shape BY DEF IInv
  <1>1. /\ Cardinality(Live)' = Cardinality(Live) + 1 /\ Live' # {}
        /\ socket' \in [Sockets -> SocketStates] /\ ws' \in Sockets
    BY <1>0, ConnectAdds DEF TimerFires
  <1>2. timers' = timers - 1 /\ timers > 0
        /\ UNCHANGED <<up, monitoring, faults, call, isRunning, opened>>
    BY DEF TimerFires, serverVars
  <1>3. Shape' /\ Done' = Done BY <1>0, <1>1, <1>2 DEF Shape, Done
  <1>4. CountInv' BY <1>0, <1>1, <1>2, <1>3, LiveFinite, DoneFinite DEF IInv, CountInv, Shape
  <1>5. RunInv' BY <1>1 DEF RunInv
  <1> QED BY <1>3, <1>4, <1>5 DEF IInv

(* An answer that opens a socket. *)
LEMMA AnswerOpens ==
    ASSUME IInv, NEW k \in Calls, call[k].stage = "answered",
           call' = [call EXCEPT ![k].stage = "done"], isRunning' \in BOOLEAN,
           opened' = opened + 1, connectWebSocket, UNCHANGED <<serverVars, timers>>
    PROVE  IInv'
  <1>0. Shape BY DEF IInv
  <1>1. /\ Cardinality(Live)' = Cardinality(Live) + 1 /\ Live' # {}
        /\ socket' \in [Sockets -> SocketStates] /\ ws' \in Sockets
    BY <1>0, ConnectAdds
  <1>2. /\ Cardinality(Done)' = Cardinality(Done) + 1
        /\ call' \in [Calls -> [kind: Kinds, stage: Stages, running: BOOLEAN]]
    BY <1>0, DoneGrows
  <1>3. Shape' BY <1>0, <1>1, <1>2 DEF Shape, serverVars
  <1>4. CountInv' BY <1>0, <1>1, <1>2, LiveFinite, DoneFinite DEF IInv, CountInv, Shape
  <1>5. RunInv' BY <1>1 DEF RunInv
  <1> QED BY <1>3, <1>4, <1>5 DEF IInv

(* An answer that does not. *)
LEMMA AnswerStops ==
    ASSUME IInv, NEW k \in Calls, call[k].stage = "answered",
           call' = [call EXCEPT ![k].stage = "done"], isRunning' = FALSE,
           ws' \in Sockets \cup {NoSocket}, socket' \in [Sockets -> SocketStates],
           Live' = Live, UNCHANGED <<serverVars, timers, opened>>
    PROVE  IInv'
  <1>0. Shape BY DEF IInv
  <1>1. /\ Cardinality(Done)' = Cardinality(Done) + 1
        /\ call' \in [Calls -> [kind: Kinds, stage: Stages, running: BOOLEAN]]
    BY <1>0, DoneGrows
  <1>2. Shape' BY <1>0, <1>1 DEF Shape, serverVars
  <1>3. CountInv' BY <1>0, <1>1, LiveFinite, DoneFinite DEF IInv, CountInv, Shape
  <1> QED BY <1>2, <1>3 DEF IInv, RunInv

LEMMA CallNext == ASSUME IInv, NEW k \in Calls, CallStep(k) PROVE IInv'
  <1>0. Shape BY DEF IInv
  <1>c. call[k] \in [kind: Kinds, stage: Stages, running: BOOLEAN] BY <1>0 DEF Shape
  <1>1. CASE Handle(k)
    <2> DEFINE r == [call[k] EXCEPT !.stage = "answered", !.running = monitoring]
    <2>1. r \in [kind: Kinds, stage: Stages, running: BOOLEAN] /\ r.stage # "done"
      BY <1>0, <1>c DEF Shape, Stages
    <2>2. call' = [call EXCEPT ![k] = r] /\ call[k].stage # "done" BY <1>1 DEF Handle
    <2>3. Done' = Done /\ call' \in [Calls -> [kind: Kinds, stage: Stages, running: BOOLEAN]]
      BY <1>0, <2>1, <2>2, DoneStays
    <2>4. monitoring' \in BOOLEAN
      BY <1>0, <1>1, <1>c DEF Handle, Shape, Kinds
    <2>5. Shape' /\ Live' = Live BY <1>0, <1>1, <2>3, <2>4 DEF Handle, Shape, pageVars, Live
    <2> QED BY <1>1, <2>3, <2>5, Quiet DEF Handle, pageVars
  <1>2. CASE CallFails(k)
    <2>1. /\ Cardinality(Done)' = Cardinality(Done) + 1
          /\ call' \in [Calls -> [kind: Kinds, stage: Stages, running: BOOLEAN]]
      BY <1>0, <1>2, DoneGrows DEF CallFails
    <2>2. Shape' /\ Live' = Live
      BY <1>0, <1>2, <2>1 DEF CallFails, Shape, pageVars, serverVars, Live
    <2> QED BY <1>2, <2>1, <2>2, Quiet DEF CallFails, pageVars
  <1>3. ASSUME NEW kind \in Kinds, Click(k, kind) PROVE IInv'
    <2> DEFINE r == [call[k] EXCEPT !.kind = kind, !.stage = "sent"]
    <2>1. r \in [kind: Kinds, stage: Stages, running: BOOLEAN] /\ r.stage # "done"
      BY <1>c DEF Stages
    <2>2. call' = [call EXCEPT ![k] = r] /\ call[k].stage # "done" BY <1>3 DEF Click
    <2>3. Done' = Done /\ call' \in [Calls -> [kind: Kinds, stage: Stages, running: BOOLEAN]]
      BY <1>0, <2>1, <2>2, DoneStays
    <2>4. Shape' /\ Live' = Live
      BY <1>0, <1>3, <2>3 DEF Click, Shape, pageVars, serverVars, Live
    <2> QED BY <1>3, <2>3, <2>4, Quiet DEF Click, pageVars
  <1>4. CASE StatusAnswered(k)
    <2>1. /\ call[k].stage = "answered" /\ call' = [call EXCEPT ![k].stage = "done"]
          /\ isRunning' = call[k].running /\ UNCHANGED <<serverVars, timers>>
      BY <1>4 DEF StatusAnswered, Answered
    <2>2. CASE call[k].running /\ opened' = opened + 1 /\ connectWebSocket
      BY <1>c, <2>1, <2>2, AnswerOpens
    <2>3. CASE ~call[k].running /\ UNCHANGED <<ws, socket, opened>>
      <3>1. isRunning' = FALSE BY <1>c, <2>1, <2>3
      <3>2. Live' = Live BY <2>3 DEF Live
      <3> QED BY <1>0, <2>1, <2>3, <3>1, <3>2, AnswerStops DEF Shape
    <2> QED BY <1>4, <2>2, <2>3 DEF StatusAnswered
  <1>5. CASE StartAnswered(k)
    BY <1>5, AnswerOpens DEF StartAnswered, Answered
  <1>6. CASE StopAnswered(k)
    <2>1. /\ socket' \in [Sockets -> SocketStates]
          /\ \A s \in Sockets : socket'[s] = "none" <=> socket[s] = "none"
      BY <1>0, <1>6 DEF StopAnswered, Shape, SocketStates
    <2>2. Live' = Live BY <1>0, <2>1, LiveStays
    <2> QED BY <1>6, <2>1, <2>2, AnswerStops DEF StopAnswered, Answered
  <1> QED BY <1>1, <1>2, <1>3, <1>4, <1>5, <1>6 DEF CallStep

LEMMA IInvInit == Init => IInv
  <1> SUFFICES ASSUME Init PROVE IInv OBVIOUS
  <1>1. call \in [Calls -> [kind: Kinds, stage: Stages, running: BOOLEAN]]
    BY DEF Init, Kinds, Stages
  <1>a. socket \in [Sockets -> SocketStates] BY DEF Init, SocketStates
  <1>b. faults \in 0..MaxFaults BY DashboardAssumption DEF Init
  <1>c. timers \in Nat /\ opened \in Nat BY DEF Init
  <1>d. up \in BOOLEAN /\ monitoring \in BOOLEAN /\ isRunning \in BOOLEAN BY DEF Init
  <1>2. Shape BY <1>1, <1>a, <1>b, <1>c, <1>d DEF Init, Shape
  <1>3. Live = {} BY DEF Init, Live
  <1>4. Cardinality(Live) = 0 BY <1>3, FS_EmptySet
  <1>5. CountInv BY <1>4, DoneFinite DEF Init, CountInv
  <1> QED BY <1>2, <1>5 DEF Init, IInv, RunInv

LEMMA IInvNext == IInv /\ [Next]_vars => IInv'
  <1> SUFFICES ASSUME IInv, [Next]_vars PROVE IInv' OBVIOUS
  <1>1. CASE UNCHANGED vars
    <2>1. Shape' /\ Live' = Live /\ Done' = Done
      BY <1>1 DEF IInv, Shape, Live, Done, vars, serverVars, pageVars
    <2> QED BY <1>1, <2>1, Quiet DEF vars, pageVars
  <1>2. ASSUME NEW k \in Calls, CallStep(k) PROVE IInv' BY <1>2, CallNext
  <1>3. ASSUME NEW s \in Sockets, SocketStep(s) PROVE IInv' BY <1>3, SocketNext
  <1> QED BY <1>1, <1>2, <1>3, ServerNext, TimerNext DEF Next

-----------------------------------------------------------------------------
(* What a step does to sockets, timers and answers *)

Rests == Live' = Live /\ timers' = timers /\ opened' = opened
Connects == Cardinality(Live)' = Cardinality(Live) + 1 /\ timers' = timers /\ opened' = opened + 1
Reconnects == Cardinality(Live)' = Cardinality(Live) + 1 /\ timers' = timers - 1 /\ opened' = opened
Closes == /\ Cardinality(Live)' = Cardinality(Live) - 1 /\ opened' = opened
          /\ timers' = IF isRunning THEN timers + 1 ELSE timers

LEMMA StepKinds == ASSUME IInv, [Next]_vars PROVE Rests \/ Connects \/ Reconnects \/ Closes
  <1>0. Shape BY DEF IInv
  <1>1. CASE UNCHANGED vars BY <1>1 DEF Rests, Live, vars, pageVars
  <1>2. CASE OthersStartOrStop \/ ServerStarts
    BY <1>2 DEF OthersStartOrStop, ServerStarts, Rests, Live, pageVars
  <1>3. CASE ServerEnds
    <2>1. /\ \A s \in Sockets : socket'[s] = "none" <=> socket[s] = "none"
          /\ socket' \in [Sockets -> SocketStates]
      BY <1>0, <1>3 DEF ServerEnds, Lose, Shape, SocketStates
    <2> QED BY <1>0, <1>3, <2>1, LiveStays DEF ServerEnds, Rests
  <1>4. ASSUME NEW s \in Sockets, ConnectionEnds(s) PROVE Rests
    BY <1>0, <1>4, OneStays DEF ConnectionEnds, SocketStates, Rests
  <1>5. CASE TimerFires
    BY <1>0, <1>5, ConnectAdds DEF TimerFires, Reconnects
  <1>6. ASSUME NEW s \in Sockets, SocketStep(s) PROVE Rests \/ Closes
    <2>1. CASE SocketOpens(s) \/ SocketIsRefused(s)
      BY <1>0, <2>1, OneStays DEF SocketOpens, SocketIsRefused, SocketStates, Rests
    <2>2. CASE OnClose(s)
      <3>1. /\ socket'[s] = "none" /\ s \in Live
            /\ \A t \in Sockets \ {s} : socket'[t] = socket[t]
        BY <1>0, <2>2 DEF OnClose, Shape, Live
      <3>2. Live' = Live \ {s} BY <3>1 DEF Live
      <3>3. Cardinality(Live') = Cardinality(Live) - 1
        BY <3>1, <3>2, LiveFinite, FS_RemoveElement
      <3> QED BY <2>2, <3>3 DEF OnClose, Closes
    <2> QED BY <1>6, <2>1, <2>2 DEF SocketStep
  <1>7. ASSUME NEW k \in Calls, CallStep(k) PROVE Rests \/ Connects
    <2>1. CASE Handle(k) \/ CallFails(k) \/ \E kind \in Kinds : Click(k, kind)
      BY <2>1 DEF Handle, CallFails, Click, Rests, Live, pageVars
    <2>2. CASE StatusAnswered(k)
      BY <1>0, <2>2, ConnectAdds DEF StatusAnswered, Rests, Connects, Live
    <2>3. CASE StartAnswered(k)
      BY <1>0, <2>3, ConnectAdds DEF StartAnswered, Connects
    <2>4. CASE StopAnswered(k)
      <3>1. /\ socket' \in [Sockets -> SocketStates]
            /\ \A s \in Sockets : socket'[s] = "none" <=> socket[s] = "none"
        BY <1>0, <2>4 DEF StopAnswered, Shape, SocketStates
      <3> QED BY <1>0, <2>4, <3>1, LiveStays DEF StopAnswered, Rests
    <2> QED BY <1>7, <2>1, <2>2, <2>3, <2>4 DEF CallStep
  <1> QED BY <1>1, <1>2, <1>3, <1>4, <1>5, <1>6, <1>7 DEF Next

-----------------------------------------------------------------------------
(* Theorems *)

(* The strengthening holds in every reachable state. *)
THEOREM IInvAlways == Spec => []IInv
  BY IInvInit, IInvNext, PTL DEF Spec

(* Every variable of the page keeps its type: neither timers nor sockets     *)
(* opened by answers outnumber the requests.                                 *)
THEOREM Types == Spec => []TypeOK
  <1>1. IInv => TypeOK
    <2> SUFFICES ASSUME IInv PROVE TypeOK OBVIOUS
    <2>1. Cardinality(Calls) \in Nat BY DashboardAssumption, FS_CardinalityType
    <2>2. timers \in 0..Cardinality(Calls) /\ opened \in 0..Cardinality(Calls)
      BY <2>1, LiveFinite, DoneFinite DEF IInv, CountInv, Shape
    <2> QED BY <2>2 DEF IInv, Shape, TypeOK
  <1> QED BY <1>1, IInvAlways, PTL

(* onclose, the reconnect timer, answers and stops in any order: one         *)
(* connection per answer at most, and at least one while the page shows      *)
(* "Running".                                                                *)
THEOREM ReconnectingReplaces == Spec => []ReconnectReplaces
  <1>1. IInv => ReconnectReplaces
    <2> SUFFICES ASSUME IInv PROVE ReconnectReplaces OBVIOUS
    <2>1. Connections <= opened BY DEF IInv, CountInv, Connections
    <2>2. ASSUME isRunning PROVE Connections > 0
      <3>1. CASE timers > 0 BY <3>1, LiveFinite DEF IInv, Shape, Connections
      <3>2. CASE Live # {}
        <4>1. Cardinality(Live) # 0 BY <3>2, LiveFinite, FS_EmptySet
        <4> QED BY <4>1, LiveFinite DEF IInv, Shape, Connections
      <3> QED BY <2>2, <3>1, <3>2 DEF IInv, RunInv
    <2> QED BY <2>1, <2>2 DEF ReconnectReplaces
  <1> QED BY <1>1, IInvAlways, PTL

(* A free WebSocket object is there whenever an answer or a timer is about   *)
(* to call connectWebSocket: that sockets are a finite set keeps no step of  *)
(* the page from happening.                                                  *)
THEOREM SocketsSuffice ==
    Spec => []((\E k \in Calls : call[k].stage = "answered") \/ timers > 0 => Live # Sockets)
  <1>1. IInv => ((\E k \in Calls : call[k].stage = "answered") \/ timers > 0 => Live # Sockets)
    <2> SUFFICES ASSUME IInv, Live = Sockets,
                        (\E k \in Calls : call[k].stage = "answered") \/ timers > 0
                 PROVE  FALSE
      OBVIOUS
    <2>1. /\ Cardinality(Calls) \in Nat /\ Cardinality(Sockets) \in Nat
          /\ Cardinality(Done) \in Nat /\ Cardinality(Done) <= Cardinality(Calls)
      BY DashboardAssumption, DoneFinite, FS_CardinalityType
    <2>2. Cardinality(Sockets) + timers <= Cardinality(Done)
      BY <2>1 DEF IInv, CountInv, Shape
    <2>3. CASE timers > 0 BY <2>1, <2>2, <2>3, DashboardAssumption DEF IInv, Shape
    <2>4. ASSUME NEW k \in Calls, call[k].stage = "answered" PROVE FALSE
      <3>1. Done \in SUBSET Calls /\ Done # Calls BY <2>4 DEF Done
      <3>2. IsFiniteSet(Calls) BY DashboardAssumption
      <3>3. Cardinality(Done) # Cardinality(Calls) BY <3>1, <3>2, FS_Subset
      <3> QED BY <2>1, <2>2, <3>3, DashboardAssumption DEF IInv, Shape
    <2> QED BY <2>3, <2>4
  <1> QED BY <1>1, IInvAlways, PTL

(* Only an answer adds a connection; while the page shows "Running" none is  *)
(* lost, because a close leaves a timer behind; while it shows "Stopped" no  *)
(* timer is added, so what is left of earlier connections can only run out.  *)
THEOREM OnlyAnswersConnect ==
    Spec => [][/\ Connections' <= Connections + (opened' - opened)
               /\ isRunning => Connections' >= Connections
               /\ ~isRunning => timers' <= timers]_vars
  <1>1. IInv /\ [Next]_vars =>
           [/\ Connections' <= Connections + (opened' - opened)
            /\ isRunning => Connections' >= Connections
            /\ ~isRunning => timers' <= timers]_vars
    <2> SUFFICES ASSUME IInv, [Next]_vars
                 PROVE  /\ Connections' <= Connections + (opened' - opened)
                        /\ isRunning => Connections' >= Connections
                        /\ ~isRunning => timers' <= timers
      OBVIOUS
    <2>1. timers \in Nat /\ opened \in Nat /\ Cardinality(Live) \in Nat
      BY LiveFinite DEF IInv, Shape
    <2>2. Live' = Live => Cardinality(Live)' = Cardinality(Live) OBVIOUS
    <2> QED BY <2>1, <2>2, StepKinds DEF Connections, Rests, Connects, Reconnects, Closes
  <1> QED BY <1>1, IInvAlways, PTL DEF Spec
=============================================================================
