--------------------------------- MODULE Hub ---------------------------------
(***************************************************************************)
(* The WebSocket clients of Server (src/internal/handlers/websocket.go and *)
(* the fan-out of broadcastLoop in server.go): registration under          *)
(* clientsMu, the buffered channel client.send, the read pump that notices *)
(* a disconnection and tears the client down, the write pump that drains   *)
(* the channel, and the broadcast loops that offer every message to every  *)
(* registered client without waiting.                                      *)
(*                                                                         *)
(* A critical section of clientsMu that is a single statement is one step, *)
(* taken when no broadcast loop holds the read lock.  A message is the     *)
(* broadcast loop that took it and its number in the order of taking.      *)
(***************************************************************************)
EXTENDS Integers, Sequences, FiniteSets

CONSTANTS
    Clients,       \* connections that may be made, each once
    Broadcasters,  \* broadcast loops (two when one survived its session)
    SendCap,       \* capacity of client.send
    MaxMessages    \* bound: messages taken from s.broadcast

ASSUME SizeAssumption == SendCap \in Nat \ {0} /\ MaxMessages \in Nat

VARIABLES
    clients,      \* s.clients
    send,         \* contents of each channel client.send
    sendClosed,   \* clients whose channel is closed
    conn,         \* state of the TCP connection
    reader,       \* where the handler goroutine of each client is
    writer,       \* where its write pump is
    writing,      \* the message the write pump holds: a sequence of at most one
    written,      \* history: messages written whole to the connection
    joinedAt,     \* history: messages taken when the client was registered
    broadcaster,  \* where each broadcast loop is
    data,         \* the message it marshalled
    todo,         \* clients its range over s.clients has still to visit
    taken,        \* messages taken from s.broadcast
    panicked      \* a send on a closed channel, which nothing recovers

clientVars == <<conn, reader, writer, writing, written, joinedAt>>
broadcastVars == <<broadcaster, data, todo, taken>>
vars == <<clients, send, sendClosed, panicked, clientVars, broadcastVars>>

Messages == [by: Broadcasters, n: 1..MaxMessages]
ReaderStates == {"none", "register", "read", "deregister", "closeConn", "closeSend", "returned"}
WriterStates == {"none", "range", "header", "payload", "returned"}

Init ==
    /\ clients = {}
    /\ send = [c \in Clients |-> <<>>]
    /\ sendClosed = {}
    /\ conn = [c \in Clients |-> "none"]
    /\ reader = [c \in Clients |-> "none"]
    /\ writer = [c \in Clients |-> "none"]
    /\ writing = [c \in Clients |-> <<>>]
    /\ written = [c \in Clients |-> <<>>]
    /\ joinedAt = [c \in Clients |-> 0]
    /\ broadcaster = [b \in Broadcasters |-> "receive"]
    /\ data = [b \in Broadcasters |-> [by |-> b, n |-> 0]]
    /\ todo = [b \in Broadcasters |-> {}]
    /\ taken = 0
    /\ panicked = FALSE

(* No broadcast loop holds clientsMu.RLock. *)
NoReadLock == \A b \in Broadcasters : broadcaster[b] # "fanout"

-----------------------------------------------------------------------------
(* handleWebSocket, then readPump, in the goroutine of the request *)

(* The upgrade went through; without it there is no client. *)
Upgrade(c) ==
    /\ reader[c] = "none"
    /\ conn' = [conn EXCEPT ![c] = "open"]
    /\ reader' = [reader EXCEPT ![c] = "register"]
    /\ UNCHANGED <<clients, send, sendClosed, panicked, writer, writing, written,
                   joinedAt, broadcastVars>>

(* The client goes into s.clients, its write pump starts, reading begins. *)
Register(c) ==
    /\ reader[c] = "register"
    /\ NoReadLock
    /\ clients' = clients \cup {c}
    /\ writer' = [writer EXCEPT ![c] = "range"]
    /\ reader' = [reader EXCEPT ![c] = "read"]
    /\ joinedAt' = [joinedAt EXCEPT ![c] = taken]
    /\ UNCHANGED <<send, sendClosed, panicked, conn, writing, written, broadcastVars>>

(* ReadMessage returns an error: a close frame, or the connection is gone. *)
(* (A message of the peer is read and dropped, which changes nothing.)     *)
ReadFails(c) ==
    /\ reader[c] = "read"
    /\ reader' = [reader EXCEPT ![c] = "deregister"]
    /\ UNCHANGED <<clients, send, sendClosed, panicked, conn, writer, writing, written,
                   joinedAt, broadcastVars>>

(* Mutated form: the map is changed without waiting for the read locks. *)
DeregisterUnlocked(c) ==
    /\ reader[c] = "deregister"
    /\ clients' = clients \ {c}
    /\ reader' = [reader EXCEPT ![c] = "closeConn"]
    /\ UNCHANGED <<send, sendClosed, panicked, conn, writer, writing, written,
                   joinedAt, broadcastVars>>

Deregister(c) ==
    /\ reader[c] = "deregister"
    /\ NoReadLock
    /\ clients' = clients \ {c}
    /\ reader' = [reader EXCEPT ![c] = "closeConn"]
    /\ UNCHANGED <<send, sendClosed, panicked, conn, writer, writing, written,
                   joinedAt, broadcastVars>>

(* Mutated form: the connection is left to the finalizer. *)
CloseConnForgotten(c) ==
    /\ reader[c] = "closeConn"
    /\ reader' = [reader EXCEPT ![c] = "closeSend"]
    /\ UNCHANGED <<clients, send, sendClosed, panicked, conn, writer, writing, written,
                   joinedAt, broadcastVars>>

CloseConn(c) ==
    /\ reader[c] = "closeConn"
    /\ conn' = [conn EXCEPT ![c] = "closed"]
    /\ reader' = [reader EXCEPT ![c] = "closeSend"]
    /\ UNCHANGED <<clients, send, sendClosed, panicked, writer, writing, written,
                   joinedAt, broadcastVars>>

(* Mutated form: the channel is never closed. *)
CloseSendForgotten(c) ==
    /\ reader[c] = "closeSend"
    /\ reader' = [reader EXCEPT ![c] = "returned"]
    /\ UNCHANGED <<clients, send, sendClosed, panicked, conn, writer, writing, written,
                   joinedAt, broadcastVars>>

CloseSend(c) ==
    /\ reader[c] = "closeSend"
    /\ sendClosed' = sendClosed \cup {c}
    /\ reader' = [reader EXCEPT ![c] = "returned"]
    /\ UNCHANGED <<clients, send, panicked, conn, writer, writing, written,
                   joinedAt, broadcastVars>>

(* The peer, or the network, ends the connection. *)
PeerGone(c) ==
    /\ conn[c] = "open"
    /\ conn' = [conn EXCEPT ![c] = "broken"]
    /\ UNCHANGED <<clients, send, sendClosed, panicked, reader, writer, writing, written,
                   joinedAt, broadcastVars>>

-----------------------------------------------------------------------------
(* writePump and WriteMessage *)

(* Mutated form: the message written stays in the channel. *)
WriterPeek(c) ==
    /\ writer[c] = "range"
    /\ send[c] # <<>>
    /\ writing' = [writing EXCEPT ![c] = <<Head(send[c])>>]
    /\ writer' = [writer EXCEPT ![c] = "header"]
    /\ UNCHANGED <<clients, send, sendClosed, panicked, conn, reader, written,
                   joinedAt, broadcastVars>>

WriterReceive(c) ==
    /\ writer[c] = "range"
    /\ send[c] # <<>>
    /\ writing' = [writing EXCEPT ![c] = <<Head(send[c])>>]
    /\ send' = [send EXCEPT ![c] = Tail(@)]
    /\ writer' = [writer EXCEPT ![c] = "header"]
    /\ UNCHANGED <<clients, sendClosed, panicked, conn, reader, written,
                   joinedAt, broadcastVars>>

(* range ends when the channel is closed and drained. *)
WriterDrained(c) ==
    /\ writer[c] = "range"
    /\ send[c] = <<>>
    /\ c \in sendClosed
    /\ writer' = [writer EXCEPT ![c] = "returned"]
    /\ UNCHANGED <<clients, send, sendClosed, panicked, conn, reader, writing, written,
                   joinedAt, broadcastVars>>

(* A write to a connection the peer has left may still succeed. *)
WriteHeader(c) ==
    /\ writer[c] = "header"
    /\ conn[c] # "closed"
    /\ writer' = [writer EXCEPT ![c] = "payload"]
    /\ UNCHANGED <<clients, send, sendClosed, panicked, conn, reader, writing, written,
                   joinedAt, broadcastVars>>

WritePayload(c) ==
    /\ writer[c] = "payload"
    /\ conn[c] # "closed"
    /\ written' = [written EXCEPT ![c] = @ \o writing[c]]
    /\ writing' = [writing EXCEPT ![c] = <<>>]
    /\ writer' = [writer EXCEPT ![c] = "range"]
    /\ UNCHANGED <<clients, send, sendClosed, panicked, conn, reader, joinedAt, broadcastVars>>

(* The write pump returns on a write error and leaves the client           *)
(* registered: only the read pump deregisters it.                          *)
WriteFails(c) ==
    /\ writer[c] \in {"header", "payload"}
    /\ conn[c] # "open"
    /\ writing' = [writing EXCEPT ![c] = <<>>]
    /\ writer' = [writer EXCEPT ![c] = "returned"]
    /\ UNCHANGED <<clients, send, sendClosed, panicked, conn, reader, written,
                   joinedAt, broadcastVars>>

-----------------------------------------------------------------------------
(* broadcastLoop *)

Receive(b) ==
    /\ broadcaster[b] = "receive"
    /\ taken < MaxMessages
    /\ taken' = taken + 1
    /\ data' = [data EXCEPT ![b].n = taken + 1]
    /\ broadcaster' = [broadcaster EXCEPT ![b] = "marshal"]
    /\ UNCHANGED <<clients, send, sendClosed, panicked, clientVars, todo>>

MarshalFails(b) ==
    /\ broadcaster[b] = "marshal"
    /\ broadcaster' = [broadcaster EXCEPT ![b] = "receive"]
    /\ UNCHANGED <<clients, send, sendClosed, panicked, clientVars, data, todo, taken>>

(* clientsMu.RLock; the registered clients are those of this moment until RUnlock. *)
RLock(b) ==
    /\ broadcaster[b] = "marshal"
    /\ todo' = [todo EXCEPT ![b] = clients]
    /\ broadcaster' = [broadcaster EXCEPT ![b] = "fanout"]
    /\ UNCHANGED <<clients, send, sendClosed, panicked, clientVars, data, taken>>

(* Mutated form: a send that ignores the capacity. *)
OfferUnbounded(b, c) ==
    /\ broadcaster[b] = "fanout"
    /\ c \in todo[b]
    /\ todo' = [todo EXCEPT ![b] = @ \ {c}]
    /\ send' = [send EXCEPT ![c] = Append(@, data[b])]
    /\ UNCHANGED <<clients, sendClosed, panicked, clientVars, broadcaster, data, taken>>

(* Mutated form: a send without the default waits for room. *)
OfferBlocks(b, c) ==
    /\ broadcaster[b] = "fanout"
    /\ c \in todo[b]
    /\ Len(send[c]) < SendCap
    /\ todo' = [todo EXCEPT ![b] = @ \ {c}]
    /\ send' = [send EXCEPT ![c] = Append(@, data[b])]
    /\ UNCHANGED <<clients, sendClosed, panicked, clientVars, broadcaster, data, taken>>

(* The select with a default: a full channel loses the message; a closed   *)
(* one panics, default or not.                                             *)
Offer(b, c) ==
    /\ broadcaster[b] = "fanout"
    /\ c \in todo[b]
    /\ todo' = [todo EXCEPT ![b] = @ \ {c}]
    /\ panicked' = (panicked \/ c \in sendClosed)
    /\ send' = IF Len(send[c]) < SendCap /\ c \notin sendClosed
               THEN [send EXCEPT ![c] = Append(@, data[b])] ELSE send
    /\ UNCHANGED <<clients, sendClosed, clientVars, broadcaster, data, taken>>

RUnlock(b) ==
    /\ broadcaster[b] = "fanout"
    /\ todo[b] = {}
    /\ broadcaster' = [broadcaster EXCEPT ![b] = "receive"]
    /\ UNCHANGED <<clients, send, sendClosed, panicked, clientVars, data, todo, taken>>

-----------------------------------------------------------------------------
ReaderStep(c) == \/ Upgrade(c) \/ Register(c) \/ ReadFails(c)
                 \/ Deregister(c) \/ CloseConn(c) \/ CloseSend(c)

WriterStep(c) == \/ WriterReceive(c) \/ WriterDrained(c)
                 \/ WriteHeader(c) \/ WritePayload(c) \/ WriteFails(c)

BroadcasterStep(b) == \/ Receive(b) \/ MarshalFails(b) \/ RLock(b) \/ RUnlock(b)
                      \/ \E c \in Clients : Offer(b, c)

Next == \/ \E c \in Clients : ReaderStep(c) \/ WriterStep(c) \/ PeerGone(c)
        \/ \E b \in Broadcasters : BroadcasterStep(b)

Spec == Init /\ [][Next]_vars

(* A peer that reads nothing blocks a write for as long as the connection  *)
(* is open: there is no write deadline, so writes are fair only once they  *)
(* can fail, and reads only once the connection is gone.  A goroutine that *)
(* waits for clientsMu.Lock gets it because a waiting writer of an RWMutex *)
(* keeps new readers out.                                                  *)
FairSpec ==
    /\ Spec
    /\ \A c \in Clients :
          /\ WF_vars(conn[c] # "open" /\ ReadFails(c))
          /\ SF_vars(Register(c)) /\ SF_vars(Deregister(c))
          /\ WF_vars(CloseConn(c) \/ CloseSend(c))
          /\ WF_vars(WriterReceive(c) \/ WriterDrained(c) \/ WriteFails(c))
    /\ \A b \in Broadcasters :
          WF_vars(MarshalFails(b) \/ RLock(b) \/ RUnlock(b) \/ \E c \in Clients : Offer(b, c))

-----------------------------------------------------------------------------
(* Properties *)

TypeOK ==
    /\ clients \subseteq Clients
    /\ send \in [Clients -> Seq(Messages)]
    /\ \A c \in Clients : Len(send[c]) <= SendCap
    /\ sendClosed \subseteq Clients
    /\ conn \in [Clients -> {"none", "open", "broken", "closed"}]
    /\ reader \in [Clients -> ReaderStates]
    /\ writer \in [Clients -> WriterStates]
    /\ writing \in [Clients -> {<<>>} \cup {<<m>> : m \in Messages}]
    /\ written \in [Clients -> Seq(Messages)]
    /\ joinedAt \in [Clients -> 0..MaxMessages]
    /\ broadcaster \in [Broadcasters -> {"receive", "marshal", "fanout"}]
    /\ data \in [Broadcasters -> [by: Broadcasters, n: 0..MaxMessages]]
    /\ todo \in [Broadcasters -> SUBSET Clients]
    /\ taken \in 0..MaxMessages
    /\ panicked \in BOOLEAN

(* A client is torn down while broadcast loops range over the clients: no   *)
(* loop ever sends on the channel the read pump has closed, which would end *)
(* the whole program (broadcastLoop has no recover).                        *)
NoSendOnClosedChannel == ~panicked

(* what a client got, is getting and has queued *)
Pipe(c) == written[c] \o writing[c] \o send[c]

(* A client gets no message twice, and those of one broadcast loop in their *)
(* order, whatever it loses to a full channel and however many loops send.  *)
EachOnceInOrder ==
    \A c \in Clients : \A p, q \in DOMAIN Pipe(c) : p < q =>
        /\ Pipe(c)[p].n # Pipe(c)[q].n
        /\ Pipe(c)[p].by = Pipe(c)[q].by => Pipe(c)[p].n < Pipe(c)[q].n

(* A peer that reads nothing, or is gone, holds up no broadcast loop. *)
FanOutEnds ==
    \A b \in Broadcasters : broadcaster[b] = "fanout" ~> broadcaster[b] = "receive"

(* A client whose connection breaks, or that says goodbye, is deregistered  *)
(* and both its goroutines end, a write pump stuck in a write included.     *)
GoneClientsAreReleased ==
    \A c \in Clients :
        conn[c] = "broken" \/ reader[c] = "deregister"
        ~> c \notin clients /\ reader[c] = "returned" /\ writer[c] = "returned"

(* The connection of a client as its feed has it: it is in use from the     *)
(* registration until readPump closes it.                                   *)
Stage(c) ==
    CASE reader[c] \in {"none", "register"} -> "away"
      [] reader[c] \in {"read", "deregister", "closeConn"} -> "here"
      [] OTHER -> "gone"

ClientFeed == INSTANCE Feed WITH stage <- [c \in Clients |-> Stage(c)],
                                 published <- taken, feed <- written

(* The registry, the channels and the pumps together keep what Feed promises *)
(* of each connection: what is written to it only grows, by messages in      *)
(* order and none twice, between registration and close, without a backlog.  *)
ClientsFollowTheFeed == ClientFeed!Spec
=============================================================================
