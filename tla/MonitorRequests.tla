---------------------------- MODULE MonitorRequests ----------------------------
(***************************************************************************)
(* The requests of module Monitor from the moment net/http calls their     *)
(* handler.  Monitor begins a request when it has s.mu; here requests come *)
(* in at any time and wait for s.mu beside each other and beside the       *)
(* collection loops.  Each step is one of Monitor or leaves its variables  *)
(* alone.                                                                  *)
(***************************************************************************)
EXTENDS Monitor, FiniteSets

Kinds == {"start", "stop", "status"}

CONSTANT Plans  \* bounds: which handlers get requests, which ones, how many starts

ASSUME PlansAssumption ==
    Plans \subseteq [handlers: SUBSET Handlers, kinds: SUBSET Kinds, starts: Channels]

VARIABLES
    waiting,  \* the request each handler has, and waits for s.mu with, or "none"
    plan      \* the bounds of this behaviour

requestVars == <<vars, waiting, plan>>

RequestsInit ==
    /\ Init
    /\ waiting = [h \in Handlers |-> "none"]
    /\ plan \in Plans

-----------------------------------------------------------------------------
(* A request comes in.  The server itself turns none away. *)
Arrive(h, kind) ==
    /\ h \in plan.handlers
    /\ handler[h] = "idle" /\ waiting[h] = "none"
    /\ kind = "start" => stopChan < plan.starts
    /\ waiting' = [waiting EXCEPT ![h] = kind]
    /\ UNCHANGED <<vars, plan>>

(* handleStart has s.mu: it finds monitoring running, or goes on to the body. *)
ServeStart(h) ==
    /\ waiting[h] = "start"
    /\ isRunning \/ stopChan < plan.starts
    /\ StartBegin(h)
    /\ waiting' = [waiting EXCEPT ![h] = "none"]
    /\ UNCHANGED plan

ServeStop(h) ==
    /\ waiting[h] = "stop"
    /\ StopBegin(h)
    /\ waiting' = [waiting EXCEPT ![h] = "none"]
    /\ UNCHANGED plan

(* handleStop finds that monitoring does not run. *)
ServeIdleStop(h) ==
    /\ waiting[h] = "stop"
    /\ mu = NoHandler
    /\ ~isRunning
    /\ waiting' = [waiting EXCEPT ![h] = "none"]
    /\ UNCHANGED <<vars, plan>>

ServeStatus(h) ==
    /\ waiting[h] = "status"
    /\ Status(h)
    /\ waiting' = [waiting EXCEPT ![h] = "none"]
    /\ UNCHANGED plan

Serve(h) == ServeStart(h) \/ ServeStop(h) \/ ServeIdleStop(h) \/ ServeStatus(h)

(* What a handler does once it has had s.mu. *)
GoOn(h) ==
    /\ StartCommit(h) \/ StopReply(h) \/ StatusReply(h)
    /\ UNCHANGED <<waiting, plan>>

LoopStep(i) == (CollectorStep(i) \/ BroadcasterStep(i)) /\ UNCHANGED <<waiting, plan>>

RequestsNext ==
    \/ \E h \in Handlers : Serve(h) \/ GoOn(h) \/ \E kind \in plan.kinds : Arrive(h, kind)
    \/ \E i \in Loops : LoopStep(i)

(* A goroutine that waits for s.mu gets it: sync.RWMutex lets no one that    *)
(* comes later pass a waiting writer for good, nor a writer the readers that *)
(* wait.  Requests themselves are not fair.  GoOn is fair because the client *)
(* of a start sends its body or goes away, an assumption on the environment  *)
(* (the http.Server has no read timeout).                                    *)
HandlerFairness(h) == SF_requestVars(Serve(h)) /\ WF_requestVars(GoOn(h))

FairSpec ==
    /\ RequestsInit /\ [][RequestsNext]_requestVars
    /\ \A h \in Handlers : HandlerFairness(h)
    /\ \A i \in Loops : LoopFairness(i)

-----------------------------------------------------------------------------
(* Properties *)

Pending(h) == waiting[h] # "none" \/ handler[h] # "idle"

(* A start that came in when there was a session left to make, and finds     *)
(* others have made and stopped it: the bound of the instance holds it.      *)
OutOfBounds(h) == waiting[h] = "start" /\ ~isRunning /\ stopChan = plan.starts

(* No request waits for ever, in s.mu.Lock or behind it, whatever other      *)
(* requests and collection loops take s.mu in the meantime: s.mu is held     *)
(* across no wait but that for the body of a start.                          *)
RequestsAreAnswered ==
    \A h \in Handlers : Pending(h) ~> (~Pending(h) \/ OutOfBounds(h))
=============================================================================
