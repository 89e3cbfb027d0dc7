-------------------------------- MODULE Server --------------------------------
(***************************************************************************)
(* Server (src/internal/handlers/server.go and websocket.go) as a whole:   *)
(* the sessions of module Monitor and the clients of module Hub, which     *)
(* meet in broadcastLoop.  The loop i of Monitor and the broadcast loop i  *)
(* of Hub are one goroutine: taking a sample from s.broadcast is one step  *)
(* of both, and so is the end of the fan-out; all their other steps        *)
(* interleave.                                                             *)
(***************************************************************************)
EXTENDS Monitor

CONSTANTS Clients, SendCap, MaxMessages

VARIABLES
    clients, send, sendClosed, conn, reader, writer, writing, written, joinedAt,
    fanout,   \* what Hub calls broadcaster
    data, todo, taken, panicked,
    handed    \* history: the samples taken from s.broadcast, in their order

H == INSTANCE Hub WITH Broadcasters <- Loops, broadcaster <- fanout

hubVars == <<clients, send, sendClosed, conn, reader, writer, writing, written,
             joinedAt, fanout, data, todo, taken, panicked>>
serverVars == <<vars, hubVars, handed>>

ServerInit ==
    /\ Init
    /\ H!Init
    /\ handed = <<>>

(* case message := <-s.broadcast *)
TakeSample(i) ==
    /\ BroadcasterReceive(i)
    /\ H!Receive(i)
    /\ handed' = Append(handed, Head(broadcast))

(* Back to the select: after RUnlock, or because json.Marshal failed. *)
HandedOn(i) ==
    /\ FanOut(i)
    /\ H!RUnlock(i) \/ H!MarshalFails(i)
    /\ UNCHANGED handed

SessionStep ==
    /\ \/ \E h \in Handlers : HandlerStep(h)
       \/ \E i \in Loops : CollectorStep(i) \/ BroadcasterSelect(i) \/ BroadcasterStop(i)
    /\ UNCHANGED <<hubVars, handed>>

ClientStep ==
    /\ \/ \E c \in Clients : H!ReaderStep(c) \/ H!WriterStep(c) \/ H!PeerGone(c)
       \/ \E i \in Loops : H!RLock(i) \/ \E c \in Clients : H!Offer(i, c)
    /\ UNCHANGED <<vars, handed>>

ServerNext == \/ SessionStep \/ ClientStep
              \/ \E i \in Loops : TakeSample(i) \/ HandedOn(i)

ServerSpec == ServerInit /\ [][ServerNext]_serverVars

-----------------------------------------------------------------------------
(* Properties *)

(* A loop is in its fan-out for both modules or for neither, and what it     *)
(* fans out is the sample it took: neither module holds up the other, and no *)
(* loop passes on the sample of another.                                     *)
LoopsAgree ==
    \A i \in Loops :
        /\ broadcaster[i] = "fanout" <=> fanout[i] \in {"marshal", "fanout"}
        /\ broadcaster[i] = "fanout" => /\ data[i].n \in DOMAIN handed
                                        /\ handed[data[i].n] = message[i]

(* From collection to socket, whatever sessions, leaked loops, full channels *)
(* and departing clients do: no client gets a sample twice, and the samples  *)
(* of one collection loop that came through one broadcast loop keep their    *)
(* order.                                                                    *)
SamplesOnceInOrder ==
    \A c \in Clients : \A p, q \in DOMAIN H!Pipe(c) : p < q =>
        LET m == H!Pipe(c)[p]
            n == H!Pipe(c)[q]
        IN  /\ handed[m.n] # handed[n.n]
            /\ m.by = n.by /\ handed[m.n].loop = handed[n.n].loop =>
                  handed[m.n].n < handed[n.n].n

(* Until monitoring has been stopped and started again, every client sees    *)
(* its samples in the order they were collected, stops or not.               *)
FirstSessionInOrder ==
    stopChan <= 1 =>
        \A c \in Clients : \A p, q \in DOMAIN H!Pipe(c) :
            p < q => handed[H!Pipe(c)[p].n].n < handed[H!Pipe(c)[q].n].n
=============================================================================
