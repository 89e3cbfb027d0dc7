----------------------------- MODULE Dashboard ------------------------------
(***************************************************************************)
(* The monitoring side of one page of src/cmd/web/app.js: the status, start *)
(* and stop requests it sends, the sockets it opens, and the timers that    *)
(* reconnect after one second.  A page runs one event at a time; between    *)
(* two of them requests, sockets and timers of before are still under way,  *)
(* and nothing but isRunning and ws tells an event whether it is out of     *)
(* date.  The server is what the page sees of module Monitor: it monitors   *)
(* or not, for this page or another one, and it may end and come back.      *)
(***************************************************************************)
EXTENDS Integers, FiniteSets

CONSTANTS
    Calls,       \* bound: requests of the page, each used once
    Load,        \* the one of them that checkStatus sends
    Sockets,     \* WebSocket objects, used again when they are gone
    NoSocket,    \* null
    MaxFaults    \* bound: ends of the server and lost connections

ASSUME DashboardAssumption ==
    /\ IsFiniteSet(Calls) /\ Load \in Calls
    /\ IsFiniteSet(Sockets) /\ Cardinality(Sockets) >= Cardinality(Calls)
    /\ NoSocket \notin Sockets
    /\ MaxFaults \in Nat

VARIABLES
    up,          \* whether the server can be reached
    monitoring,  \* Server.isRunning
    faults,      \* faults so far
    call,        \* the requests
    isRunning,   \* isRunning of the page, and the state of its buttons
    ws,          \* ws of the page
    socket,      \* state of each WebSocket
    timers,      \* reconnect timers that run
    opened       \* history: answers that opened a socket

serverVars == <<up, monitoring, faults>>
pageVars == <<isRunning, ws, socket, timers, opened>>
vars == <<serverVars, call, pageVars>>

Kinds == {"status", "start", "stop"}
Stages == {"unsent", "sent", "answered", "done"}
SocketStates == {"none", "connecting", "open", "closing", "lost"}

Init ==
    /\ up = TRUE
    /\ monitoring \in BOOLEAN
    /\ faults = 0
    /\ call = [k \in Calls |-> [kind |-> "status", running |-> FALSE,
                                stage |-> IF k = Load THEN "sent" ELSE "unsent"]]
    /\ isRunning = FALSE
    /\ ws = NoSocket
    /\ socket = [s \in Sockets |-> "none"]
    /\ timers = 0
    /\ opened = 0

-----------------------------------------------------------------------------
(* The server and the network *)

(* A request reaches the server; the answer to a status request tells whether *)
(* monitoring runs.                                                           *)
Handle(k) ==
    /\ call[k].stage = "sent"
    /\ up
    /\ monitoring' = CASE call[k].kind = "start" -> TRUE
                       [] call[k].kind = "stop" -> FALSE
                       [] call[k].kind = "status" -> monitoring
    /\ call' = [call EXCEPT ![k].stage = "answered", ![k].running = monitoring]
    /\ UNCHANGED <<up, faults, pageVars>>

(* Another page, or another client of the API. *)
OthersStartOrStop ==
    /\ up
    /\ monitoring' = ~monitoring
    /\ UNCHANGED <<up, faults, call, pageVars>>

Lose(s) == IF s \in {"connecting", "open"} THEN "lost" ELSE s

ServerEnds ==
    /\ up
    /\ faults < MaxFaults
    /\ faults' = faults + 1
    /\ up' = FALSE
    /\ monitoring' = FALSE
    /\ socket' = [s \in Sockets |-> Lose(socket[s])]
    /\ UNCHANGED <<call, isRunning, ws, timers, opened>>

ServerStarts ==
    /\ ~up
    /\ up' = TRUE
    /\ UNCHANGED <<monitoring, faults, call, pageVars>>

ConnectionEnds(s) ==
    /\ socket[s] \in {"connecting", "open"}
    /\ faults < MaxFaults
    /\ faults' = faults + 1
    /\ socket' = [socket EXCEPT ![s] = "lost"]
    /\ UNCHANGED <<up, monitoring, call, isRunning, ws, timers, opened>>

SocketOpens(s) ==
    /\ socket[s] = "connecting"
    /\ up
    /\ socket' = [socket EXCEPT ![s] = "open"]
    /\ UNCHANGED <<serverVars, call, isRunning, ws, timers, opened>>

SocketIsRefused(s) ==
    /\ socket[s] = "connecting"
    /\ ~up
    /\ socket' = [socket EXCEPT ![s] = "lost"]
    /\ UNCHANGED <<serverVars, call, isRunning, ws, timers, opened>>

-----------------------------------------------------------------------------
(* The page: what its buttons and the answers do *)

(* The start button works while the page shows "Stopped", the stop button    *)
(* while it shows "Running"; nothing disables them while a request is out.   *)
Click(k, kind) ==
    /\ call[k].stage = "unsent"
    /\ kind = IF isRunning THEN "stop" ELSE "start"
    /\ call' = [call EXCEPT ![k].kind = kind, ![k].stage = "sent"]
    /\ UNCHANGED <<serverVars, pageVars>>

Live == {s \in Sockets : socket[s] # "none"}

NewSocket == CHOOSE s \in Sockets : s \notin Live

(* connectWebSocket: ws is overwritten, whatever it was. *)
connectWebSocket ==
    /\ Live # Sockets
    /\ socket' = [socket EXCEPT ![NewSocket] = "connecting"]
    /\ ws' = NewSocket

Answered(k, kind) ==
    /\ call[k].stage = "answered" /\ call[k].kind = kind
    /\ call' = [call EXCEPT ![k].stage = "done"]

(* The page believes every answer, of whatever age. *)
StatusAnswered(k) ==
    /\ Answered(k, "status")
    /\ isRunning' = call[k].running
    /\ \/ call[k].running /\ opened' = opened + 1 /\ connectWebSocket
       \/ ~call[k].running /\ UNCHANGED <<ws, socket, opened>>
    /\ UNCHANGED <<serverVars, timers>>

StartAnswered(k) ==
    /\ Answered(k, "start")
    /\ isRunning' = TRUE
    /\ opened' = opened + 1
    /\ connectWebSocket
    /\ UNCHANGED <<serverVars, timers>>

(* ws.close() does nothing to a socket that is closed or about to be. *)
StopAnswered(k) ==
    /\ Answered(k, "stop")
    /\ isRunning' = FALSE
    /\ ws' = NoSocket
    /\ socket' = [s \in Sockets |-> IF s = ws /\ socket[s] \in {"connecting", "open"}
                                    THEN "closing" ELSE socket[s]]
    /\ UNCHANGED <<serverVars, timers, opened>>

(* fetch or json() throws: the error is logged. *)
CallFails(k) ==
    /\ call[k].stage \in {"sent", "answered"}
    /\ call' = [call EXCEPT ![k].stage = "done"]
    /\ UNCHANGED <<serverVars, pageVars>>

-----------------------------------------------------------------------------
(* The page: sockets and timers *)

(* Mutated form: onerror schedules a reconnect as well. *)
OnCloseAndError(s) ==
    /\ socket[s] \in {"closing", "lost"}
    /\ socket' = [socket EXCEPT ![s] = "none"]
    /\ timers' = IF isRunning THEN timers + 2 ELSE timers
    /\ UNCHANGED <<serverVars, call, isRunning, ws, opened>>

(* Mutated form: a closed socket is replaced without asking isRunning. *)
OnCloseAlways(s) ==
    /\ socket[s] \in {"closing", "lost"}
    /\ socket' = [socket EXCEPT ![s] = "none"]
    /\ timers' = timers + 1
    /\ UNCHANGED <<serverVars, call, isRunning, ws, opened>>

(* onclose of any socket, latest or not: ws is not looked at. *)
OnClose(s) ==
    /\ socket[s] \in {"closing", "lost"}
    /\ socket' = [socket EXCEPT ![s] = "none"]
    /\ timers' = IF isRunning THEN timers + 1 ELSE timers
    /\ UNCHANGED <<serverVars, call, isRunning, ws, opened>>

(* Mutated form: setInterval instead of setTimeout. *)
TimerRepeats ==
    /\ timers > 0
    /\ connectWebSocket
    /\ UNCHANGED <<serverVars, call, isRunning, timers, opened>>

(* The timer connects, even if the page has been stopped since. *)
TimerFires ==
    /\ timers > 0
    /\ timers' = timers - 1
    /\ connectWebSocket
    /\ UNCHANGED <<serverVars, call, isRunning, opened>>

-----------------------------------------------------------------------------
CallStep(k) ==
    \/ Handle(k) \/ CallFails(k)
    \/ \E kind \in Kinds : Click(k, kind)
    \/ StatusAnswered(k) \/ StartAnswered(k) \/ StopAnswered(k)

SocketStep(s) == SocketOpens(s) \/ SocketIsRefused(s) \/ OnClose(s)

Next ==
    \/ OthersStartOrStop \/ ServerEnds \/ ServerStarts \/ TimerFires
    \/ \E k \in Calls : CallStep(k)
    \/ \E s \in Sockets : SocketStep(s) \/ ConnectionEnds(s)

(* Timers run out and sockets get an answer, or the news of their end. *)
Fairness == WF_vars(TimerFires) /\ \A s \in Sockets : WF_vars(SocketStep(s))

Spec == Init /\ [][Next]_vars
FairSpec == Spec /\ Fairness

-----------------------------------------------------------------------------
(* Properties *)

(* Sockets that are not gone, and sockets to come. *)
Connections == Cardinality(Live) + timers

TypeOK ==
    /\ up \in BOOLEAN /\ monitoring \in BOOLEAN
    /\ faults \in 0..MaxFaults
    /\ call \in [Calls -> [kind: Kinds, stage: Stages, running: BOOLEAN]]
    /\ isRunning \in BOOLEAN
    /\ ws \in Sockets \cup {NoSocket}
    /\ socket \in [Sockets -> SocketStates]
    /\ timers \in 0..Cardinality(Calls)
    /\ opened \in 0..Cardinality(Calls)

(* Reconnecting replaces a socket and never adds one: however closes, timers, *)
(* late answers and stops fall together, the page has no more connections     *)
(* than answers have opened; and one that shows "Running" has one at least,   *)
(* or a timer for it, even if a stop closed a socket and a start followed.    *)
ReconnectReplaces ==
    /\ Connections <= opened
    /\ isRunning => Connections > 0

(* A page that goes on showing "Running" ends up with an open socket once the *)
(* server stays up; one that stays stopped ends all reconnecting, whether or  *)
(* not the server is there.                                                   *)
PageSettles ==
    /\ <>[](isRunning /\ up) => <>[](\E s \in Sockets : socket[s] = "open")
    /\ <>[](~isRunning) =>
          <>[](timers = 0 /\ \A s \in Sockets : socket[s] \in {"none", "open"})
=============================================================================
