------------------------------ MODULE Hub_proofs ------------------------------
(***************************************************************************)
(* Theorems about module Hub, for every set of clients and broadcast loops *)
(* and every capacity of the send channels.                                *)
(***************************************************************************)
EXTENDS Hub, SequenceTheorems, TLAPS

-----------------------------------------------------------------------------
(* The inductive strengthening *)

(* A client is registered exactly between its two critical sections; its    *)
(* channel is closed only after the second; what a broadcast loop has still *)
(* to visit is registered, because deregistration waits for its read lock.  *)
RegistryInv ==
    /\ \A c \in Clients : c \in clients <=> reader[c] \in {"read", "deregister"}
    /\ \A c \in sendClosed : reader[c] = "returned"
    /\ \A b \in Broadcasters : broadcaster[b] = "fanout" => todo[b] \subseteq clients
    /\ ~panicked

(* A loop past its receive holds a message of its own, which no other holds. *)
DataInv ==
    /\ \A b \in Broadcasters : data[b].by = b /\ data[b].n <= taken
    /\ \A b \in Broadcasters : broadcaster[b] # "receive" => data[b].n > 0
    /\ \A a, b \in Broadcasters : a # b /\ data[a].n > 0 => data[a].n # data[b].n

(* Between two messages the write pump holds none; there is none before the  *)
(* registration.                                                             *)
WriterInv ==
    \A c \in Clients :
        /\ writer[c] \in {"none", "range", "returned"} => writing[c] = <<>>
        /\ reader[c] \in {"none", "register"} => writer[c] = "none"

(* The messages of s are distinct, and those of one loop in order. *)
Sorted(s) ==
    \A p, q \in DOMAIN s : p < q => /\ s[p].n # s[q].n
                                    /\ s[p].by = s[q].by => s[p].n < s[q].n

(* Nothing in s is the message of loop b, or a later one of b. *)
Fresh(b, s) ==
    \A p \in DOMAIN s : /\ s[p].n # data[b].n
                        /\ s[p].by = b => s[p].n < data[b].n

(* Loop b may still offer its message to client c. *)
MayOffer(b, c) ==
    broadcaster[b] = "marshal" \/ (broadcaster[b] = "fanout" /\ c \in todo[b])

(* What a client has of the messages is sorted, and fresh for every loop     *)
(* that may still add to it.                                                 *)
PipeInv ==
    \A c \in Clients :
        /\ Sorted(Pipe(c))
        /\ \A p \in DOMAIN Pipe(c) : Pipe(c)[p].n <= taken
        /\ \A b \in Broadcasters : MayOffer(b, c) => Fresh(b, Pipe(c))

(* What a client has of a loop is newer than its registration, except for    *)
(* one message: the one its loop held at that moment.                        *)
BacklogInv ==
    \A c \in Clients :
        /\ reader[c] \in {"none", "register"} => Pipe(c) = <<>>
        /\ \A p, q \in DOMAIN Pipe(c) : p # q /\ Pipe(c)[p].by = Pipe(c)[q].by =>
              Pipe(c)[p].n > joinedAt[c] \/ Pipe(c)[q].n > joinedAt[c]
        /\ joinedAt[c] <= taken
        /\ \A b \in Broadcasters : MayOffer(b, c) /\ data[b].n <= joinedAt[c] =>
              \A p \in DOMAIN Pipe(c) : Pipe(c)[p].by # b

(* While the write pump holds a message it is that one, and the connection   *)
(* is closed by the read pump alone.                                         *)
HoldInv ==
    \A c \in Clients :
        /\ writer[c] \in {"header", "payload"} => writing[c] # <<>>
        /\ reader[c] \in {"closeSend", "returned"} => conn[c] = "closed"

(* t is s without m entries after the k-th. *)
Thinned(t, s, k, m) ==
    \A p \in DOMAIN t : LET q == IF p <= k THEN p ELSE p + m
                        IN  p \in Int /\ q \in DOMAIN s /\ t[p] = s[q]

-----------------------------------------------------------------------------
(* What the steps of the goroutines leave alone *)

LEMMA ReaderFrame ==
    ASSUME NEW c \in Clients, ReaderStep(c) \/ PeerGone(c)
    PROVE  UNCHANGED <<send, panicked, writing, written, broadcastVars>>
BY DEF ReaderStep, Upgrade, Register, ReadFails, Deregister, CloseConn, CloseSend, PeerGone

LEMMA WriterFrame ==
    ASSUME NEW c \in Clients, WriterStep(c)
    PROVE  UNCHANGED <<clients, sendClosed, panicked, conn, reader, broadcastVars>>
BY DEF WriterStep, WriterReceive, WriterDrained, WriteHeader, WritePayload, WriteFails

LEMMA BroadcasterFrame ==
    ASSUME NEW b \in Broadcasters, BroadcasterStep(b)
    PROVE  UNCHANGED <<clients, sendClosed, clientVars>>
BY DEF BroadcasterStep, Receive, MarshalFails, RLock, Offer, RUnlock

-----------------------------------------------------------------------------
(* Types *)

LEMMA TypeInit == Init => TypeOK
<1> SUFFICES ASSUME Init PROVE TypeOK
  OBVIOUS
<1>1. \A b \in Broadcasters : [by |-> b, n |-> 0] \in [by: Broadcasters, n: 0..MaxMessages]
  BY SizeAssumption
<1>2. data \in [Broadcasters -> [by: Broadcasters, n: 0..MaxMessages]]
  BY <1>1 DEF Init
<1>3. /\ send \in [Clients -> Seq(Messages)] /\ written \in [Clients -> Seq(Messages)]
      /\ writing \in [Clients -> {<<>>} \cup {<<m>> : m \in Messages}]
  BY DEF Init
<1>4. \A c \in Clients : Len(send[c]) <= SendCap
  <2>1. \A c \in Clients : Len(send[c]) = 0
    BY DEF Init
  <2> QED
    BY <2>1, SizeAssumption
<1>5. /\ conn \in [Clients -> {"none", "open", "broken", "closed"}]
      /\ reader \in [Clients -> ReaderStates] /\ writer \in [Clients -> WriterStates]
      /\ broadcaster \in [Broadcasters -> {"receive", "marshal", "fanout"}]
      /\ todo \in [Broadcasters -> SUBSET Clients]
  BY DEF Init, ReaderStates, WriterStates
<1>6. taken \in 0..MaxMessages
  BY SizeAssumption DEF Init
<1> QED
  BY <1>2, <1>3, <1>4, <1>5, <1>6 DEF Init, TypeOK

LEMMA TypeNext == ASSUME TypeOK, DataInv, [Next]_vars PROVE TypeOK'
<1>1. CASE UNCHANGED vars
  BY <1>1 DEF TypeOK, vars, clientVars, broadcastVars
<1>2. ASSUME NEW c \in Clients, ReaderStep(c) \/ PeerGone(c) PROVE TypeOK'
  <2>1. UNCHANGED <<send, panicked, writing, written, broadcastVars>>
    BY <1>2, ReaderFrame
  <2>2. /\ clients' \subseteq Clients /\ sendClosed' \subseteq Clients
        /\ conn' \in [Clients -> {"none", "open", "broken", "closed"}]
        /\ reader' \in [Clients -> ReaderStates] /\ writer' \in [Clients -> WriterStates]
        /\ joinedAt' \in [Clients -> 0..MaxMessages]
    <3> USE DEF TypeOK, ReaderStates, WriterStates, broadcastVars
    <3>1. CASE Upgrade(c)
      BY <3>1 DEF Upgrade
    <3>2. CASE Register(c)
      BY <3>2 DEF Register
    <3>3. CASE ReadFails(c)
      BY <3>3 DEF ReadFails
    <3>4. CASE Deregister(c)
      BY <3>4 DEF Deregister
    <3>5. CASE CloseConn(c)
      BY <3>5 DEF CloseConn
    <3>6. CASE CloseSend(c)
      BY <3>6 DEF CloseSend
    <3>7. CASE PeerGone(c)
      BY <3>7 DEF PeerGone
    <3> QED
      BY <1>2, <3>1, <3>2, <3>3, <3>4, <3>5, <3>6, <3>7 DEF ReaderStep
  <2> QED
    BY <2>1, <2>2 DEF TypeOK, broadcastVars
<1>3. ASSUME NEW c \in Clients, WriterStep(c) PROVE TypeOK'
  <2> USE DEF WriterStates
  <2>1. CASE WriterReceive(c)
    <3>1. /\ send[c] \in Seq(Messages) /\ send[c] # <<>> /\ Len(send[c]) <= SendCap
      BY <2>1 DEF WriterReceive, TypeOK
    <3>2. /\ Head(send[c]) \in Messages /\ Tail(send[c]) \in Seq(Messages)
          /\ Len(Tail(send[c])) <= SendCap
      BY <3>1, SizeAssumption
    <3> QED
      BY <2>1, <3>2 DEF WriterReceive, TypeOK, broadcastVars
  <2>2. CASE WriterDrained(c) \/ WriteHeader(c)
    BY <2>2 DEF WriterDrained, WriteHeader, TypeOK, broadcastVars
  <2>3. CASE WritePayload(c)
    <3>1. written[c] \o writing[c] \in Seq(Messages)
      <4>1. written[c] \in Seq(Messages) /\ writing[c] \in Seq(Messages)
        <5>1. writing[c] = <<>> \/ \E m \in Messages : writing[c] = <<m>>
          BY DEF TypeOK
        <5>2. /\ \A m \in Messages : <<m>> \in Seq(Messages)
              /\ <<>> \in Seq(Messages)
          OBVIOUS
        <5>3. writing[c] \in Seq(Messages)
          BY <5>1, <5>2
        <5> QED
          BY <5>3 DEF TypeOK
      <4> QED
        BY <4>1
    <3> QED
      BY <2>3, <3>1 DEF WritePayload, TypeOK, broadcastVars
  <2>4. CASE WriteFails(c)
    BY <2>4 DEF WriteFails, TypeOK, broadcastVars
  <2> QED
    BY <1>3, <2>1, <2>2, <2>3, <2>4 DEF WriterStep
<1>4. ASSUME NEW b \in Broadcasters, BroadcasterStep(b) PROVE TypeOK'
  <2>1. CASE Receive(b)
    <3>1. taken + 1 \in 0..MaxMessages
      <4>1. taken \in 0..MaxMessages /\ taken < MaxMessages /\ MaxMessages \in Nat
        BY <2>1, SizeAssumption DEF Receive, TypeOK
      <4> QED
        BY <4>1
    <3>2. [data[b] EXCEPT !.n = taken + 1] \in [by: Broadcasters, n: 0..MaxMessages]
      <4>1. data[b] \in [by: Broadcasters, n: 0..MaxMessages]
        BY DEF TypeOK
      <4>2. [data[b] EXCEPT !.n = taken + 1] = [by |-> data[b].by, n |-> taken + 1]
        BY <4>1
      <4> QED
        BY <3>1, <4>1, <4>2
    <3> QED
      BY <2>1, <3>1, <3>2 DEF Receive, TypeOK, clientVars
  <2>2. CASE MarshalFails(b) \/ RLock(b) \/ RUnlock(b)
    <3>1. CASE MarshalFails(b)
      BY <3>1 DEF MarshalFails, TypeOK, clientVars
    <3>2. CASE RLock(b)
      BY <3>2 DEF RLock, TypeOK, clientVars
    <3>3. CASE RUnlock(b)
      BY <3>3 DEF RUnlock, TypeOK, clientVars
    <3> QED
      BY <2>2, <3>1, <3>2, <3>3
  <2>3. ASSUME NEW c \in Clients, Offer(b, c) PROVE TypeOK'
    <3>1. data[b] \in Messages
      <4>1. data[b].n > 0 /\ data[b] \in [by: Broadcasters, n: 0..MaxMessages]
        BY <2>3 DEF Offer, TypeOK, DataInv
      <4> QED
        BY <4>1, SizeAssumption DEF Messages
    <3>2. send' \in [Clients -> Seq(Messages)] /\ \A d \in Clients : Len(send'[d]) <= SendCap
      <4>1. CASE send' = send
        BY <4>1 DEF TypeOK
      <4>2. CASE /\ send' = [send EXCEPT ![c] = Append(@, data[b])]
                 /\ Len(send[c]) < SendCap
        <5>1. /\ Append(send[c], data[b]) \in Seq(Messages)
              /\ Len(Append(send[c], data[b])) <= SendCap
          BY <3>1, <4>2, SizeAssumption DEF TypeOK
        <5> QED
          BY <4>2, <5>1 DEF TypeOK
      <4> QED
        BY <2>3, <4>1, <4>2 DEF Offer
    <3> QED
      BY <2>3, <3>2 DEF Offer, TypeOK, clientVars
  <2> QED
    BY <1>4, <2>1, <2>2, <2>3 DEF BroadcasterStep
<1> QED
  BY <1>1, <1>2, <1>3, <1>4 DEF Next

-----------------------------------------------------------------------------
(* The parts of the strengthening *)

LEMMA RegistryNext == ASSUME TypeOK, RegistryInv, [Next]_vars PROVE RegistryInv'
<1> USE DEF RegistryInv
<1>1. CASE UNCHANGED vars
  BY <1>1 DEF vars, clientVars, broadcastVars
<1>2. ASSUME NEW c \in Clients, ReaderStep(c) \/ PeerGone(c) PROVE RegistryInv'
  <2>1. CASE Register(c)
    BY <2>1 DEF Register, NoReadLock, TypeOK, broadcastVars
  <2>2. CASE Deregister(c)
    BY <2>2 DEF Deregister, NoReadLock, TypeOK, broadcastVars
  <2>3. CASE CloseSend(c)
    BY <2>3 DEF CloseSend, TypeOK, broadcastVars
  <2>4. CASE Upgrade(c)
    BY <2>4 DEF Upgrade, TypeOK, broadcastVars
  <2>5. CASE ReadFails(c)
    BY <2>5 DEF ReadFails, TypeOK, broadcastVars
  <2>6. CASE CloseConn(c) \/ PeerGone(c)
    <3>1. /\ UNCHANGED <<clients, sendClosed, broadcaster, todo, panicked>>
          /\ \A d \in Clients : reader[d] \in {"read", "deregister", "returned"}
                                => reader'[d] = reader[d]
          /\ \A d \in Clients : reader'[d] \in {"read", "deregister"} => reader'[d] = reader[d]
      <4>1. CASE CloseConn(c)
        BY <4>1 DEF CloseConn, TypeOK, broadcastVars
      <4>2. CASE PeerGone(c)
        BY <4>2 DEF PeerGone, broadcastVars
      <4> QED
        BY <2>6, <4>1, <4>2
    <3>2. sendClosed \subseteq Clients
      BY DEF TypeOK
    <3> QED
      BY <3>1, <3>2
  <2> QED
    BY <1>2, <2>1, <2>2, <2>3, <2>4, <2>5, <2>6 DEF ReaderStep
<1>3. ASSUME NEW c \in Clients, WriterStep(c) PROVE RegistryInv'
  BY <1>3, WriterFrame DEF broadcastVars
<1>4. ASSUME NEW b \in Broadcasters, BroadcasterStep(b) PROVE RegistryInv'
  <2>0. UNCHANGED <<clients, sendClosed, reader>>
    BY <1>4, BroadcasterFrame DEF clientVars
  <2>1. CASE Receive(b) \/ MarshalFails(b) \/ RUnlock(b)
    <3>1. /\ UNCHANGED <<todo, panicked>>
          /\ \A a \in Broadcasters : broadcaster'[a] = "fanout" => broadcaster[a] = "fanout"
      BY <2>1 DEF Receive, MarshalFails, RUnlock, TypeOK
    <3> QED
      BY <2>0, <3>1
  <2>2. CASE RLock(b)
    BY <2>0, <2>2 DEF RLock, TypeOK
  <2>3. ASSUME NEW c \in Clients, Offer(b, c) PROVE RegistryInv'
    <3>1. c \in clients /\ c \notin sendClosed
      BY <2>3 DEF Offer
    <3> QED
      BY <2>0, <2>3, <3>1 DEF Offer, TypeOK
  <2> QED
    BY <1>4, <2>1, <2>2, <2>3 DEF BroadcasterStep
<1> QED
  BY <1>1, <1>2, <1>3, <1>4 DEF Next

LEMMA DataNext == ASSUME TypeOK, DataInv, [Next]_vars PROVE DataInv'
<1>1. CASE UNCHANGED broadcastVars
  BY <1>1 DEF DataInv, broadcastVars
<1>2. ASSUME NEW b \in Broadcasters, BroadcasterStep(b) PROVE DataInv'
  <2>1. CASE Receive(b)
    <3>1. /\ taken' = taken + 1 /\ taken \in Nat
          /\ \A a \in Broadcasters : data[a].n \in Nat /\ data[a].n <= taken /\ data[a].by = a
          /\ broadcaster' = [broadcaster EXCEPT ![b] = "marshal"]
      BY <2>1 DEF Receive, TypeOK, DataInv
    <3>2. /\ data'[b].n = taken + 1 /\ data'[b].by = b
          /\ \A a \in Broadcasters \ {b} : data'[a] = data[a]
      BY <2>1, <3>1 DEF Receive, TypeOK
    <3>3. \A a \in Broadcasters : data'[a].by = a /\ data'[a].n <= taken'
      BY <3>1, <3>2
    <3>4. \A a \in Broadcasters : broadcaster'[a] # "receive" => data'[a].n > 0
      BY <3>1, <3>2 DEF DataInv, TypeOK
    <3>5. \A a, d \in Broadcasters : a # d /\ data'[a].n > 0 => data'[a].n # data'[d].n
      BY <3>1, <3>2 DEF DataInv
    <3> QED
      BY <3>3, <3>4, <3>5 DEF DataInv
  <2>2. CASE ~Receive(b)
    BY <1>2, <2>2 DEF BroadcasterStep, MarshalFails, RLock, RUnlock, Offer, DataInv, TypeOK
  <2> QED
    BY <2>1, <2>2
<1> QED
  BY <1>1, <1>2, ReaderFrame, WriterFrame DEF Next, vars

LEMMA WriterNext == ASSUME TypeOK, WriterInv, [Next]_vars PROVE WriterInv'
<1> USE DEF WriterInv
<1>1. CASE UNCHANGED vars
  BY <1>1 DEF vars, clientVars
<1>2. ASSUME NEW c \in Clients, ReaderStep(c) \/ PeerGone(c) PROVE WriterInv'
  <2>1. CASE Register(c)
    BY <2>1 DEF Register, TypeOK
  <2>2. CASE ~Register(c)
    <3>1. /\ UNCHANGED <<writer, writing>>
          /\ \A d \in Clients : reader'[d] \in {"none", "register"} =>
                                  reader[d] \in {"none", "register"}
      BY <1>2, <2>2
         DEF ReaderStep, Upgrade, ReadFails, Deregister, CloseConn, CloseSend, PeerGone, TypeOK
    <3> QED
      BY <3>1
  <2> QED
    BY <2>1, <2>2
<1>3. ASSUME NEW c \in Clients, WriterStep(c) PROVE WriterInv'
  BY <1>3
     DEF WriterStep, WriterReceive, WriterDrained, WriteHeader, WritePayload, WriteFails, TypeOK
<1>4. ASSUME NEW b \in Broadcasters, BroadcasterStep(b) PROVE WriterInv'
  BY <1>4, BroadcasterFrame DEF clientVars
<1> QED
  BY <1>1, <1>2, <1>3, <1>4 DEF Next

-----------------------------------------------------------------------------
(* The messages a client gets *)

LEMMA PipeType ==
    ASSUME TypeOK, NEW c \in Clients
    PROVE  /\ written[c] \in Seq(Messages) /\ writing[c] \in Seq(Messages)
           /\ send[c] \in Seq(Messages) /\ Pipe(c) \in Seq(Messages)
<1>1. written[c] \in Seq(Messages) /\ send[c] \in Seq(Messages)
  BY DEF TypeOK
<1>2. writing[c] = <<>> \/ \E m \in Messages : writing[c] = <<m>>
  BY DEF TypeOK
<1>3. (\A m \in Messages : <<m>> \in Seq(Messages)) /\ <<>> \in Seq(Messages)
  OBVIOUS
<1>4. writing[c] \in Seq(Messages)
  BY <1>2, <1>3
<1>5. Pipe(c) \in Seq(Messages)
  BY <1>1, <1>4, ConcatProperties DEF Pipe
<1> QED
  BY <1>1, <1>4, <1>5

(* Leaving out a stretch keeps a sequence sorted. *)
LEMMA ThinnedSorted ==
    ASSUME NEW s, NEW t, NEW k \in Nat, NEW m \in Nat, Thinned(t, s, k, m), Sorted(s)
    PROVE  Sorted(t)
BY DEF Thinned, Sorted

(* What a write pump does to the pipe of its client. *)
LEMMA WriterThins ==
    ASSUME TypeOK, WriterInv, NEW c \in Clients, WriterStep(c)
    PROVE  \E k, m \in Nat : Thinned(Pipe(c)', Pipe(c), k, m)
<1> DEFINE w == written[c]
           x == writing[c]
           s == send[c]
<1>1. w \in Seq(Messages) /\ x \in Seq(Messages) /\ s \in Seq(Messages)
      /\ Pipe(c) \in Seq(Messages) /\ Pipe(c) = (w \o x) \o s
  BY PipeType DEF Pipe
<1>2. ASSUME Pipe(c)' = Pipe(c) PROVE \E k, m \in Nat : Thinned(Pipe(c)', Pipe(c), k, m)
  <2>1. Thinned(Pipe(c), Pipe(c), 0, 0)
    <3>1. \A p \in DOMAIN Pipe(c) : p \in Int /\ p + 0 = p
      BY <1>1
    <3> QED
      BY <3>1 DEF Thinned
  <2> QED
    BY <1>2, <2>1
<1>3. CASE WriterReceive(c)
  <2>1. /\ written'[c] = w /\ writing'[c] = <<Head(s)>> /\ send'[c] = Tail(s)
        /\ x = <<>> /\ s # <<>>
    BY <1>3 DEF WriterReceive, TypeOK, WriterInv
  <2> HIDE DEF w, x, s
  <2>2. Head(s) \in Messages /\ Tail(s) \in Seq(Messages) /\ <<Head(s)>> \in Seq(Messages)
    BY <1>1, <2>1
  <2>3. <<Head(s)>> \o Tail(s) = s
    <3>1. /\ <<Head(s)>> \o Tail(s) \in Seq(Messages)
          /\ Len(<<Head(s)>> \o Tail(s)) = Len(s)
          /\ \A j \in 1..Len(s) : (<<Head(s)>> \o Tail(s))[j] = s[j]
      BY <1>1, <2>1, <2>2
    <3> QED
      BY <1>1, <3>1, SeqEqual
  <2>4. (w \o <<Head(s)>>) \o Tail(s) = w \o s
    BY <1>1, <2>2, <2>3, ConcatAssociative
  <2>5. w \o x = w
    BY <1>1, <2>1, ConcatEmptySeq
  <2>6. Pipe(c)' = Pipe(c)
    BY <1>1, <2>1, <2>4, <2>5 DEF Pipe
  <2> QED
    BY <1>2, <2>6
<1>4. CASE WriterDrained(c) \/ WriteHeader(c)
  BY <1>2, <1>4 DEF WriterDrained, WriteHeader, Pipe
<1>5. CASE WritePayload(c)
  <2>1. written'[c] = w \o x /\ writing'[c] = <<>> /\ send'[c] = s
    BY <1>5 DEF WritePayload, TypeOK
  <2>2. (w \o x) \o <<>> = w \o x
    BY <1>1, ConcatProperties, ConcatEmptySeq
  <2> QED
    BY <1>1, <1>2, <2>1, <2>2 DEF Pipe
<1>6. CASE WriteFails(c)
  <2>1. written'[c] = w /\ writing'[c] = <<>> /\ send'[c] = s
    BY <1>6 DEF WriteFails, TypeOK
  <2> HIDE DEF w, x, s
  <2>2. Pipe(c)' = w \o s
    BY <1>1, <2>1, ConcatEmptySeq DEF Pipe
  <2>3. Thinned(w \o s, (w \o x) \o s, Len(w), Len(x))
    BY <1>1 DEF Thinned
  <2>4. Len(w) \in Nat /\ Len(x) \in Nat
    BY <1>1
  <2> QED
    BY <1>1, <2>2, <2>3, <2>4
<1> QED
  BY <1>3, <1>4, <1>5, <1>6 DEF WriterStep

(* A step that adds nothing to a pipe keeps the invariant, if no loop may    *)
(* offer what it could not before.                                           *)
LEMMA PipeFrame ==
    ASSUME TypeOK, PipeInv, UNCHANGED <<data, taken>>,
           \A c \in Clients : Pipe(c)' = Pipe(c),
           \A c \in Clients, b \in Broadcasters : MayOffer(b, c)' => MayOffer(b, c)
    PROVE  PipeInv'
BY DEF PipeInv, Fresh

(* An offer leaves every pipe as it is, or appends its message to one. *)
LEMMA OfferAppends ==
    ASSUME TypeOK, DataInv, NEW b \in Broadcasters, NEW c \in Clients, Offer(b, c),
           send' # send
    PROVE  /\ \A d \in Clients \ {c} : Pipe(d)' = Pipe(d)
           /\ \A p \in DOMAIN Pipe(c)' :
                 \/ p \in DOMAIN Pipe(c) /\ Pipe(c)'[p] = Pipe(c)[p]
                 \/ p = Len(Pipe(c)) + 1 /\ Pipe(c)'[p] = data[b]
           /\ DOMAIN Pipe(c) = 1..Len(Pipe(c)) /\ Len(Pipe(c)) \in Nat
<1>0. /\ UNCHANGED <<written, writing>> /\ broadcaster[b] = "fanout"
      /\ send' = [send EXCEPT ![c] = Append(@, data[b])]
  BY DEF Offer, clientVars
<1> DEFINE old == Pipe(c)
           new == Pipe(c)'
<1>1. data[b] \in Messages
  <2>1. data[b].n > 0 /\ data[b] \in [by: Broadcasters, n: 0..MaxMessages]
    BY <1>0 DEF TypeOK, DataInv
  <2> QED
    BY <2>1, SizeAssumption DEF Messages
<1>2. /\ new = (written[c] \o writing[c]) \o Append(send[c], data[b])
      /\ old = (written[c] \o writing[c]) \o send[c]
      /\ \A d \in Clients \ {c} : Pipe(d)' = Pipe(d)
  BY <1>0 DEF Pipe, TypeOK
<1>3. /\ old \in Seq(Messages) /\ send[c] \in Seq(Messages)
      /\ written[c] \o writing[c] \in Seq(Messages)
  BY PipeType, ConcatProperties
<1> HIDE DEF old, new
<1>4. /\ DOMAIN old = 1..Len(old) /\ Len(old) \in Nat
      /\ DOMAIN new = 1..(Len(old) + 1)
      /\ new[Len(old) + 1] = data[b]
      /\ \A p \in DOMAIN old : new[p] = old[p]
  <2> DEFINE front == written[c] \o writing[c]
  <2> HIDE DEF front
  <2>1. /\ front \in Seq(Messages) /\ new = front \o Append(send[c], data[b])
        /\ old = front \o send[c]
    BY <1>2, <1>3 DEF front
  <2>2. /\ Append(send[c], data[b]) \in Seq(Messages)
        /\ Len(Append(send[c], data[b])) = Len(send[c]) + 1
        /\ Append(send[c], data[b])[Len(send[c]) + 1] = data[b]
        /\ \A j \in 1..Len(send[c]) : Append(send[c], data[b])[j] = send[c][j]
    BY <1>1, <1>3
  <2>3. /\ Len(front) \in Nat /\ Len(send[c]) \in Nat
        /\ Len(old) = Len(front) + Len(send[c])
        /\ new \in Seq(Messages) /\ Len(new) = Len(front) + Len(send[c]) + 1
    BY <1>3, <2>1, <2>2, ConcatProperties
  <2>4. /\ \A j \in 1..Len(old) : old[j] =
              IF j <= Len(front) THEN front[j] ELSE send[c][j - Len(front)]
        /\ \A j \in 1..Len(new) : new[j] =
              IF j <= Len(front) THEN front[j]
              ELSE Append(send[c], data[b])[j - Len(front)]
    <3>1. \A j \in 1..(Len(front) + Len(send[c])) : (front \o send[c])[j] =
              IF j <= Len(front) THEN front[j] ELSE send[c][j - Len(front)]
      BY <1>3, <2>1, ConcatProperties
    <3> DEFINE longer == Append(send[c], data[b])
    <3> HIDE DEF longer
    <3>2. longer \in Seq(Messages) /\ Len(longer) = Len(send[c]) + 1
      BY <2>2 DEF longer
    <3>3. \A j \in 1..(Len(front) + Len(longer)) : (front \o longer)[j] =
              IF j <= Len(front) THEN front[j] ELSE longer[j - Len(front)]
      BY <2>1, <3>2, ConcatProperties
    <3>4. Len(new) = Len(front) + Len(longer) /\ new = front \o longer
      BY <2>1, <2>3, <3>2 DEF longer
    <3>5. \A j \in 1..Len(new) : new[j] =
              IF j <= Len(front) THEN front[j] ELSE longer[j - Len(front)]
      BY <3>3, <3>4
    <3> QED
      BY <2>1, <2>3, <3>1, <3>5 DEF longer
  <2>5. DOMAIN old = 1..Len(old) /\ DOMAIN new = 1..(Len(old) + 1)
    BY <1>3, <2>3
  <2>6. new[Len(old) + 1] = data[b]
    BY <2>2, <2>3, <2>4
  <2>7. \A j \in 1..Len(old) : new[j] = old[j]
    BY <2>2, <2>3, <2>4
  <2> QED
    BY <2>3, <2>5, <2>6, <2>7
<1>5. \A p \in DOMAIN new :
         \/ p \in DOMAIN old /\ new[p] = old[p]
         \/ p = Len(old) + 1 /\ new[p] = data[b]
  BY <1>4
<1> QED
  BY <1>2, <1>4, <1>5 DEF old, new

LEMMA PipeNext ==
    ASSUME TypeOK, DataInv, WriterInv, PipeInv, [Next]_vars PROVE PipeInv'
<1>1. CASE UNCHANGED vars
  BY <1>1, PipeFrame DEF vars, clientVars, broadcastVars, Pipe, MayOffer
<1>2. ASSUME NEW c \in Clients, ReaderStep(c) \/ PeerGone(c) PROVE PipeInv'
  BY <1>2, ReaderFrame, PipeFrame DEF broadcastVars, Pipe, MayOffer
<1>3. ASSUME NEW c \in Clients, WriterStep(c) PROVE PipeInv'
  <2>1. PICK k \in Nat, m \in Nat : Thinned(Pipe(c)', Pipe(c), k, m)
    BY <1>3, WriterThins
  <2>2. \A d \in Clients \ {c} : Pipe(d)' = Pipe(d)
    BY <1>3
       DEF WriterStep, WriterReceive, WriterDrained, WriteHeader, WritePayload, WriteFails,
           Pipe, TypeOK
  <2>3. UNCHANGED <<broadcaster, data, todo, taken>>
    BY <1>3, WriterFrame DEF broadcastVars
  <2>4. Sorted(Pipe(c)')
    BY <2>1, ThinnedSorted DEF PipeInv
  <2>5. \A p \in DOMAIN Pipe(c)' : \E q \in DOMAIN Pipe(c) : Pipe(c)'[p] = Pipe(c)[q]
    BY <2>1 DEF Thinned
  <2>6. \A p \in DOMAIN Pipe(c)' : Pipe(c)'[p].n <= taken
    BY <2>5 DEF PipeInv
  <2>7. \A b \in Broadcasters : MayOffer(b, c) => Fresh(b, Pipe(c)')
    BY <2>5 DEF PipeInv, Fresh
  <2> QED
    BY <2>2, <2>3, <2>4, <2>6, <2>7 DEF PipeInv, Fresh, MayOffer
<1>4. ASSUME NEW b \in Broadcasters, BroadcasterStep(b) PROVE PipeInv'
  <2>1. CASE Receive(b)
    <3>1. \A c \in Clients : Pipe(c)' = Pipe(c)
      BY <2>1 DEF Receive, clientVars, Pipe
    <3>2. /\ taken' = taken + 1 /\ taken \in Nat
          /\ broadcaster' = [broadcaster EXCEPT ![b] = "marshal"] /\ todo' = todo
          /\ data' = [data EXCEPT ![b].n = taken + 1]
      BY <2>1 DEF Receive, TypeOK
    <3>3. /\ data'[b].n = taken + 1
          /\ \A a \in Broadcasters \ {b} :
                data'[a] = data[a] /\ broadcaster'[a] = broadcaster[a]
      BY <3>2 DEF TypeOK
    <3>4. ASSUME NEW c \in Clients, NEW p \in DOMAIN Pipe(c)
          PROVE  Pipe(c)[p].n \in Int /\ Pipe(c)[p].n <= taken
      <4>1. Pipe(c)[p] \in Messages
        BY PipeType
      <4> QED
        BY <4>1 DEF PipeInv, Messages
    <3>5. ASSUME NEW c \in Clients, NEW a \in Broadcasters, MayOffer(a, c)',
                 NEW p \in DOMAIN Pipe(c)
          PROVE  /\ Pipe(c)[p].n # data'[a].n
                 /\ Pipe(c)[p].by = a => Pipe(c)[p].n < data'[a].n
      <4>1. CASE a = b
        BY <3>2, <3>3, <3>4, <4>1
      <4>2. CASE a # b
        <5>1. MayOffer(a, c) /\ data'[a] = data[a]
          BY <3>2, <3>3, <3>5, <4>2 DEF MayOffer
        <5> QED
          BY <5>1 DEF PipeInv, Fresh
      <4> QED
        BY <4>1, <4>2
    <3>6. \A c \in Clients : Sorted(Pipe(c))
      BY DEF PipeInv
    <3> QED
      BY <3>1, <3>2, <3>4, <3>5, <3>6 DEF PipeInv, Fresh
  <2>2. CASE MarshalFails(b) \/ RLock(b) \/ RUnlock(b)
    <3>1. UNCHANGED <<data, taken>> /\ \A c \in Clients : Pipe(c)' = Pipe(c)
      BY <2>2 DEF MarshalFails, RLock, RUnlock, clientVars, Pipe
    <3>2. \A c \in Clients, a \in Broadcasters : MayOffer(a, c)' => MayOffer(a, c)
      BY <2>2 DEF MarshalFails, RLock, RUnlock, MayOffer, TypeOK
    <3> QED
      BY <3>1, <3>2, PipeFrame
  <2>3. ASSUME NEW c \in Clients, Offer(b, c) PROVE PipeInv'
    <3>1. /\ UNCHANGED <<data, taken, broadcaster, written, writing>>
          /\ broadcaster[b] = "fanout" /\ c \in todo[b]
          /\ todo' = [todo EXCEPT ![b] = @ \ {c}]
      BY <2>3 DEF Offer, clientVars
    <3>2. /\ \A d \in Clients, a \in Broadcasters : MayOffer(a, d)' => MayOffer(a, d)
          /\ ~MayOffer(b, c)'
      BY <3>1 DEF MayOffer, TypeOK
    <3>3. CASE send' = send
      BY <3>1, <3>2, <3>3, PipeFrame DEF Pipe
    <3>4. CASE send' = [send EXCEPT ![c] = Append(@, data[b])]
      <4> DEFINE old == Pipe(c)
                 new == Pipe(c)'
      <4>1. send' # send
        <5>1. send[c] # Append(send[c], data[b])
          <6>1. Len(Append(send[c], data[b])) = Len(send[c]) + 1 /\ Len(send[c]) \in Nat
            BY DEF TypeOK
          <6> QED
            BY <6>1
        <5> QED
          BY <3>4, <5>1 DEF TypeOK
      <4>2. \A d \in Clients \ {c} : Pipe(d)' = Pipe(d)
        BY <2>3, <4>1, OfferAppends
      <4>3. DOMAIN old = 1..Len(old) /\ Len(old) \in Nat
        BY <2>3, <4>1, OfferAppends
      <4>4. old \in Seq(Messages)
        BY PipeType
      <4>5. \A p \in DOMAIN new :
               \/ p \in DOMAIN old /\ new[p] = old[p]
               \/ p = Len(old) + 1 /\ new[p] = data[b]
        BY <2>3, <4>1, OfferAppends
      <4> HIDE DEF old, new
      <4>6. Sorted(old) /\ Fresh(b, old) /\ \A p \in DOMAIN old : old[p].n <= taken
        BY <3>1 DEF PipeInv, MayOffer, old
      <4>7. data[b].by = b /\ data[b].n <= taken /\ data[b].n > 0
        BY <3>1 DEF DataInv
      <4>8. Sorted(new)
        <5> SUFFICES ASSUME NEW p \in DOMAIN new, NEW q \in DOMAIN new, p < q
                     PROVE  /\ new[p].n # new[q].n
                            /\ new[p].by = new[q].by => new[p].n < new[q].n
          BY DEF Sorted
        <5>1. p \in DOMAIN old /\ new[p] = old[p]
          <6>1. p \in Int /\ q \in Int
            BY <4>3, <4>5
          <6> QED
            BY <4>3, <4>5, <6>1
        <5>2. CASE q \in DOMAIN old /\ new[q] = old[q]
          BY <4>6, <5>1, <5>2 DEF Sorted
        <5>3. CASE new[q] = data[b]
          BY <4>6, <4>7, <5>1, <5>3 DEF Fresh
        <5> QED
          BY <4>5, <5>2, <5>3
      <4>9. \A p \in DOMAIN new : new[p].n <= taken
        BY <4>5, <4>6, <4>7
      <4>10. ASSUME NEW a \in Broadcasters, MayOffer(a, c)' PROVE Fresh(a, new)
        <5>1. a # b /\ Fresh(a, old)
          BY <3>2, <4>10 DEF PipeInv, old
        <5>2. data[a].n # data[b].n /\ data[b].by # a
          BY <4>7, <5>1 DEF DataInv
        <5> QED
          BY <4>5, <5>1, <5>2 DEF Fresh
      <4>11. ASSUME NEW d \in Clients
             PROVE  /\ Sorted(Pipe(d)')
                    /\ \A p \in DOMAIN Pipe(d)' : Pipe(d)'[p].n <= taken
                    /\ \A a \in Broadcasters : MayOffer(a, d)' => Fresh(a, Pipe(d)')
        <5>1. CASE d = c
          BY <4>8, <4>9, <4>10, <5>1 DEF new
        <5>2. CASE d # c
          BY <3>2, <4>2, <5>2 DEF PipeInv
        <5> QED
          BY <5>1, <5>2
      <4> QED
        BY <3>1, <4>11 DEF PipeInv, Fresh
    <3> QED
      BY <2>3, <3>3, <3>4 DEF Offer
  <2> QED
    BY <1>4, <2>1, <2>2, <2>3 DEF BroadcasterStep
<1> QED
  BY <1>1, <1>2, <1>3, <1>4 DEF Next

LEMMA HoldNext == ASSUME TypeOK, HoldInv, [Next]_vars PROVE HoldInv'
<1> USE DEF HoldInv
<1>1. CASE UNCHANGED vars
  BY <1>1 DEF vars, clientVars
<1>2. ASSUME NEW c \in Clients, ReaderStep(c) \/ PeerGone(c) PROVE HoldInv'
  <2>1. CASE CloseConn(c)
    BY <2>1 DEF CloseConn, TypeOK
  <2>2. CASE Upgrade(c) \/ PeerGone(c)
    BY <2>2 DEF Upgrade, PeerGone, TypeOK
  <2>3. CASE Register(c) \/ ReadFails(c)
    BY <2>3 DEF Register, ReadFails, TypeOK
  <2>4. CASE Deregister(c) \/ CloseSend(c)
    BY <2>4 DEF Deregister, CloseSend, TypeOK
  <2> QED
    BY <1>2, <2>1, <2>2, <2>3, <2>4 DEF ReaderStep
<1>3. ASSUME NEW c \in Clients, WriterStep(c) PROVE HoldInv'
  <2>1. UNCHANGED <<reader, conn>>
    BY <1>3, WriterFrame
  <2>2. \A d \in Clients : writer'[d] \in {"header", "payload"} => writing'[d] # <<>>
    <3>1. CASE WriterReceive(c)
      <4>1. <<Head(send[c])>> # <<>>
        OBVIOUS
      <4> HIDE DEF HoldInv
      <4>2. \A d \in Clients \ {c} : writer'[d] = writer[d] /\ writing'[d] = writing[d]
        BY <3>1 DEF WriterReceive, TypeOK
      <4>3. writing'[c] = <<Head(send[c])>>
        BY <3>1 DEF WriterReceive, TypeOK
      <4> QED
        BY <4>1, <4>2, <4>3 DEF HoldInv
    <3>2. CASE WriterDrained(c) \/ WriteHeader(c)
      BY <3>2 DEF WriterDrained, WriteHeader, TypeOK
    <3>3. CASE WritePayload(c) \/ WriteFails(c)
      BY <3>3 DEF WritePayload, WriteFails, TypeOK
    <3> QED
      BY <1>3, <3>1, <3>2, <3>3 DEF WriterStep
  <2> QED
    BY <2>1, <2>2
<1>4. ASSUME NEW b \in Broadcasters, BroadcasterStep(b) PROVE HoldInv'
  BY <1>4, BroadcasterFrame DEF clientVars
<1> QED
  BY <1>1, <1>2, <1>3, <1>4 DEF Next

(* A step that leaves out some of what clients have, and lets no loop offer   *)
(* what it could not before, keeps the backlog bound.                         *)
LEMMA BacklogFrame ==
    ASSUME TypeOK, BacklogInv, UNCHANGED <<data, taken, joinedAt>>,
           \A c \in Clients : reader'[c] \in {"none", "register"} =>
                               reader[c] \in {"none", "register"},
           \A c \in Clients : Pipe(c)' = Pipe(c),
           \A c \in Clients, b \in Broadcasters : MayOffer(b, c)' => MayOffer(b, c)
    PROVE  BacklogInv'
BY DEF BacklogInv

LEMMA BacklogNext ==
    ASSUME TypeOK, RegistryInv, DataInv, WriterInv, PipeInv, BacklogInv, [Next]_vars
    PROVE  BacklogInv'
<1>1. CASE UNCHANGED vars
  BY <1>1, BacklogFrame DEF vars, clientVars, broadcastVars, Pipe, MayOffer
<1>2. ASSUME NEW c \in Clients, ReaderStep(c) \/ PeerGone(c) PROVE BacklogInv'
  <2>1. /\ \A d \in Clients : Pipe(d)' = Pipe(d)
        /\ \A d \in Clients, b \in Broadcasters : MayOffer(b, d)' = MayOffer(b, d)
        /\ UNCHANGED <<data, taken>>
    BY <1>2, ReaderFrame DEF broadcastVars, Pipe, MayOffer
  <2>2. CASE Register(c)
    <3>1. /\ joinedAt' = [joinedAt EXCEPT ![c] = taken] /\ Pipe(c)' = <<>>
          /\ \A d \in Clients \ {c} : reader'[d] = reader[d]
          /\ reader'[c] = "read"
      BY <2>1, <2>2 DEF Register, TypeOK, BacklogInv
    <3>2. taken <= taken /\ joinedAt'[c] = taken
          /\ \A d \in Clients \ {c} : joinedAt'[d] = joinedAt[d]
      BY <3>1 DEF TypeOK
    <3>3. DOMAIN Pipe(c)' = {}
      BY <3>1
    <3> QED
      BY <2>1, <3>1, <3>2, <3>3 DEF BacklogInv
  <2>3. CASE ~Register(c)
    <3>1. /\ joinedAt' = joinedAt
          /\ \A d \in Clients : reader'[d] \in {"none", "register"} =>
                                  reader[d] \in {"none", "register"}
      BY <1>2, <2>3
         DEF ReaderStep, Upgrade, ReadFails, Deregister, CloseConn, CloseSend, PeerGone, TypeOK
    <3> QED
      BY <2>1, <3>1, BacklogFrame
  <2> QED
    BY <2>2, <2>3
<1>3. ASSUME NEW c \in Clients, WriterStep(c) PROVE BacklogInv'
  <2>1. PICK k \in Nat, m \in Nat : Thinned(Pipe(c)', Pipe(c), k, m)
    BY <1>3, WriterThins
  <2>2. \A d \in Clients \ {c} : Pipe(d)' = Pipe(d)
    BY <1>3
       DEF WriterStep, WriterReceive, WriterDrained, WriteHeader, WritePayload, WriteFails,
           Pipe, TypeOK
  <2>3. UNCHANGED <<broadcaster, data, todo, taken, reader, joinedAt>>
    <3>1. joinedAt' = joinedAt
      BY <1>3 DEF WriterStep, WriterReceive, WriterDrained, WriteHeader, WritePayload, WriteFails
    <3> QED
      BY <1>3, <3>1, WriterFrame DEF broadcastVars
  <2> DEFINE from(p) == IF p <= k THEN p ELSE p + m
  <2>4. \A p \in DOMAIN Pipe(c)' :
           p \in Int /\ from(p) \in DOMAIN Pipe(c) /\ Pipe(c)'[p] = Pipe(c)[from(p)]
    BY <2>1 DEF Thinned
  <2>5. \A p, q \in DOMAIN Pipe(c)' : p # q => from(p) # from(q)
    BY <2>4
  <2> HIDE DEF from
  <2>6. \A p, q \in DOMAIN Pipe(c)' : p # q /\ Pipe(c)'[p].by = Pipe(c)'[q].by =>
           Pipe(c)'[p].n > joinedAt[c] \/ Pipe(c)'[q].n > joinedAt[c]
    BY <2>4, <2>5 DEF BacklogInv
  <2>7. \A b \in Broadcasters : MayOffer(b, c) /\ data[b].n <= joinedAt[c] =>
           \A p \in DOMAIN Pipe(c)' : Pipe(c)'[p].by # b
    BY <2>4 DEF BacklogInv
  <2>8. reader[c] \notin {"none", "register"}
    BY <1>3
       DEF WriterInv, WriterStep, WriterReceive, WriterDrained, WriteHeader, WritePayload,
           WriteFails
  <2> QED
    BY <2>2, <2>3, <2>6, <2>7, <2>8 DEF BacklogInv, MayOffer
<1>4. ASSUME NEW b \in Broadcasters, BroadcasterStep(b) PROVE BacklogInv'
  <2>0. UNCHANGED <<reader, joinedAt, written, writing>>
    BY <1>4, BroadcasterFrame DEF clientVars
  <2>1. CASE Receive(b)
    <3>1. \A c \in Clients : Pipe(c)' = Pipe(c)
      BY <2>1 DEF Receive, clientVars, Pipe
    <3>2. /\ taken' = taken + 1 /\ taken \in Nat
          /\ broadcaster' = [broadcaster EXCEPT ![b] = "marshal"] /\ todo' = todo
          /\ data' = [data EXCEPT ![b].n = taken + 1]
      BY <2>1 DEF Receive, TypeOK
    <3>3. /\ data'[b].n = taken + 1
          /\ \A a \in Broadcasters \ {b} :
                data'[a] = data[a] /\ broadcaster'[a] = broadcaster[a]
      BY <3>2 DEF TypeOK
    <3>4. \A c \in Clients : joinedAt[c] \in Nat /\ joinedAt[c] <= taken
      BY DEF TypeOK, BacklogInv
    <3>5. ASSUME NEW c \in Clients, NEW a \in Broadcasters, MayOffer(a, c)',
                 data'[a].n <= joinedAt[c]
          PROVE  MayOffer(a, c) /\ data'[a] = data[a]
      <4>1. a # b
        BY <3>2, <3>3, <3>4, <3>5
      <4> QED
        BY <3>2, <3>3, <3>5, <4>1 DEF MayOffer
    <3>6. \A c \in Clients : joinedAt[c] <= taken'
      BY <3>2, <3>4
    <3> QED
      BY <2>0, <3>1, <3>5, <3>6 DEF BacklogInv
  <2>2. CASE MarshalFails(b) \/ RLock(b) \/ RUnlock(b)
    <3>1. UNCHANGED <<data, taken>> /\ \A c \in Clients : Pipe(c)' = Pipe(c)
      BY <2>2 DEF MarshalFails, RLock, RUnlock, clientVars, Pipe
    <3>2. \A c \in Clients, a \in Broadcasters : MayOffer(a, c)' => MayOffer(a, c)
      BY <2>2 DEF MarshalFails, RLock, RUnlock, MayOffer, TypeOK
    <3> QED
      BY <2>0, <3>1, <3>2, BacklogFrame
  <2>3. ASSUME NEW c \in Clients, Offer(b, c) PROVE BacklogInv'
    <3>1. /\ UNCHANGED <<data, taken, broadcaster>>
          /\ broadcaster[b] = "fanout" /\ c \in todo[b]
          /\ todo' = [todo EXCEPT ![b] = @ \ {c}]
      BY <2>3 DEF Offer
    <3>2. /\ \A d \in Clients, a \in Broadcasters : MayOffer(a, d)' => MayOffer(a, d)
          /\ ~MayOffer(b, c)' /\ MayOffer(b, c)
      BY <3>1 DEF MayOffer, TypeOK
    <3>3. CASE send' = send
      BY <2>0, <3>1, <3>2, <3>3, BacklogFrame DEF Pipe
    <3>4. CASE send' # send
      <4> DEFINE old == Pipe(c)
                 new == Pipe(c)'
                 since == joinedAt[c]
      <4>1. \A d \in Clients \ {c} : Pipe(d)' = Pipe(d)
        BY <2>3, <3>4, OfferAppends
      <4>2. \A p \in DOMAIN new :
               \/ p \in DOMAIN old /\ new[p] = old[p]
               \/ p = Len(old) + 1 /\ new[p] = data[b]
        BY <2>3, <3>4, OfferAppends
      <4>3. data[b].n <= since => \A p \in DOMAIN old : old[p].by # b
        BY <3>2 DEF BacklogInv
      <4>4. data[b].by = b /\ data[b].n \in Int /\ since \in Int
        BY DEF DataInv, TypeOK
      <4>5. \A p, q \in DOMAIN old : p # q /\ old[p].by = old[q].by =>
               old[p].n > since \/ old[q].n > since
        BY DEF BacklogInv
      <4> HIDE DEF old, new, since
      <4>6. \A p, q \in DOMAIN new : p # q /\ new[p].by = new[q].by =>
               new[p].n > since \/ new[q].n > since
        BY <4>2, <4>3, <4>4, <4>5
      <4>7. ASSUME NEW a \in Broadcasters, MayOffer(a, c)', data[a].n <= since
            PROVE  \A p \in DOMAIN new : new[p].by # a
        <5>1. a # b /\ \A p \in DOMAIN old : old[p].by # a
          BY <3>2, <4>7 DEF BacklogInv, old, since
        <5> QED
          BY <4>2, <4>4, <5>1
      <4>8. reader[c] \notin {"none", "register"}
        BY <3>1 DEF RegistryInv
      <4> QED
        BY <2>0, <3>1, <3>2, <4>1, <4>6, <4>7, <4>8 DEF BacklogInv, new, since
    <3> QED
      BY <3>3, <3>4
  <2> QED
    BY <1>4, <2>1, <2>2, <2>3 DEF BroadcasterStep
<1> QED
  BY <1>1, <1>2, <1>3, <1>4 DEF Next

-----------------------------------------------------------------------------
(* The inductive invariant *)

IInv == TypeOK /\ RegistryInv /\ DataInv /\ WriterInv /\ PipeInv /\ BacklogInv /\ HoldInv

LEMMA IInvInit == Init => IInv
<1> SUFFICES ASSUME Init PROVE IInv
  OBVIOUS
<1>1. TypeOK
  BY TypeInit
<1>2. RegistryInv /\ DataInv /\ WriterInv
  BY DEF Init, RegistryInv, DataInv, WriterInv
<1>3. PipeInv
  <2>1. \A c \in Clients : Pipe(c) = <<>>
    <3>1. <<>> \in Seq(Messages)
      OBVIOUS
    <3>2. (<<>> \o <<>>) \o <<>> = <<>>
      BY <3>1, ConcatEmptySeq
    <3> QED
      BY <3>2 DEF Init, Pipe
  <2> QED
    BY <2>1 DEF PipeInv, Sorted, Fresh
<1>4. BacklogInv /\ HoldInv
  <2>1. \A c \in Clients : Pipe(c) = <<>> /\ joinedAt[c] = 0 /\ taken = 0
    <3>1. <<>> \in Seq(Messages)
      OBVIOUS
    <3>2. (<<>> \o <<>>) \o <<>> = <<>>
      BY <3>1, ConcatEmptySeq
    <3> QED
      BY <3>2 DEF Init, Pipe
  <2> QED
    BY <2>1 DEF BacklogInv, HoldInv, Init
<1> QED
  BY <1>1, <1>2, <1>3, <1>4 DEF IInv

LEMMA IInvNext == IInv /\ [Next]_vars => IInv'
BY TypeNext, RegistryNext, DataNext, WriterNext, PipeNext, BacklogNext, HoldNext DEF IInv

LEMMA IInvAlways == Spec => []IInv
BY IInvInit, IInvNext, PTL DEF Spec

-----------------------------------------------------------------------------
(* Hub implements Feed *)

LEMMA FeedInit == Init => ClientFeed!Init
BY DEF Init, ClientFeed!Init, Stage

(* A step that moves no client's stage, takes no message and writes none is   *)
(* a stutter of the feeds.                                                    *)
LEMMA FeedStutter ==
    ASSUME UNCHANGED <<taken, joinedAt, written>>, \A c \in Clients : Stage(c)' = Stage(c)
    PROVE  UNCHANGED ClientFeed!vars
BY DEF ClientFeed!vars

(* The write pump delivers the message it holds while the connection is in    *)
(* use: that message is next in order, and no backlog.                        *)
LEMMA FeedDelivers ==
    ASSUME IInv, NEW c \in Clients, WritePayload(c)
    PROVE  \E b \in Broadcasters : ClientFeed!Deliver(c, b)
<1> DEFINE w == written[c]
<1>1. PICK m \in Messages : writing[c] = <<m>>
  BY DEF WritePayload, IInv, TypeOK, HoldInv
<1>2. m.by \in Broadcasters /\ m.n \in 1..MaxMessages /\ m = [by |-> m.by, n |-> m.n]
  BY DEF Messages
<1>3. w \in Seq(Messages) /\ send[c] \in Seq(Messages) /\ Pipe(c) = (w \o <<m>>) \o send[c]
  BY <1>1, PipeType DEF IInv, Pipe
<1> HIDE DEF w
<1>4. <<m>> \in Seq(Messages) /\ Len(<<m>>) = 1 /\ <<m>>[1] = m
  OBVIOUS
<1>5. /\ w \o <<m>> \in Seq(Messages) /\ Len(w \o <<m>>) = Len(w) + 1 /\ Len(w) \in Nat
      /\ \A j \in 1..Len(w) : (w \o <<m>>)[j] = w[j]
      /\ (w \o <<m>>)[Len(w) + 1] = m
  BY <1>3, <1>4, ConcatProperties
<1>6. w \o <<m>> = Append(w, m)
  BY <1>3, <1>4, AppendIsConcat
<1>7. /\ Pipe(c) \in Seq(Messages)
      /\ Len(Pipe(c)) = Len(w) + 1 + Len(send[c]) /\ Len(send[c]) \in Nat
      /\ \A j \in 1..(Len(w) + 1) : Pipe(c)[j] = (w \o <<m>>)[j]
  <2> DEFINE front == w \o <<m>>
  <2> HIDE DEF front
  <2>1. front \in Seq(Messages) /\ Len(front) = Len(w) + 1 /\ Pipe(c) = front \o send[c]
    BY <1>3, <1>5 DEF front
  <2>2. /\ Pipe(c) \in Seq(Messages) /\ Len(Pipe(c)) = Len(front) + Len(send[c])
        /\ \A j \in 1..(Len(front) + Len(send[c])) :
              Pipe(c)[j] = IF j <= Len(front) THEN front[j] ELSE send[c][j - Len(front)]
    <3>1. /\ front \o send[c] \in Seq(Messages)
          /\ Len(front \o send[c]) = Len(front) + Len(send[c])
          /\ \A j \in 1..(Len(front) + Len(send[c])) : (front \o send[c])[j] =
                IF j <= Len(front) THEN front[j] ELSE send[c][j - Len(front)]
      BY <1>3, <2>1, ConcatProperties
    <3> QED
      BY <2>1, <3>1
  <2>3. Len(front) \in Nat /\ Len(send[c]) \in Nat
    BY <1>3, <2>1
  <2> QED
    BY <1>5, <2>1, <2>2, <2>3 DEF front
<1> DEFINE last == Len(w) + 1
<1> HIDE DEF last
<1>0. DOMAIN Pipe(c) = 1..Len(Pipe(c)) /\ DOMAIN w = 1..Len(w)
  <2>1. DOMAIN Pipe(c) = 1..Len(Pipe(c))
    BY <1>7
  <2>2. DOMAIN w = 1..Len(w)
    BY <1>3
  <2> QED
    BY <2>1, <2>2
<1>a. last \in 1..Len(Pipe(c)) /\ last \in 1..last /\ last = Len(w) + 1
      /\ \A j \in 1..Len(w) : j \in Int /\ j < last /\ j \in 1..last /\ j \in 1..Len(Pipe(c))
  <2>1. Len(w) \in Nat /\ Len(send[c]) \in Nat /\ Len(Pipe(c)) = Len(w) + 1 + Len(send[c])
    BY <1>5, <1>7
  <2> DEFINE k == Len(w)
             all == Len(Pipe(c))
             rest == Len(send[c])
  <2>0. last = k + 1
    BY DEF last
  <2>2. last = k + 1 /\ k \in Nat /\ all \in Int /\ all >= k + 1
    <3>1. k \in Nat /\ rest \in Nat /\ all = k + 1 + rest
      BY <2>1
    <3> HIDE DEF k, all, rest
    <3> QED
      BY <2>0, <3>1
  <2> HIDE DEF k, all
  <2>3. last \in 1..all /\ last \in 1..last /\ last = k + 1
    BY <2>2
  <2>4. \A j \in 1..k : j \in Int /\ j < last /\ j \in 1..last /\ j \in 1..all
    BY <2>2
  <2> QED
    BY <2>3, <2>4 DEF k, all
<1>b. \A j \in 1..last : Pipe(c)[j] = (w \o <<m>>)[j]
  BY <1>7 DEF last
<1>8. last \in DOMAIN Pipe(c) /\ Pipe(c)[last] = m
  <2>1. (w \o <<m>>)[last] = m
    BY <1>5 DEF last
  <2> QED
    BY <1>0, <1>a, <1>b, <2>1
<1>9. \A j \in DOMAIN w : j \in Int /\ j \in DOMAIN Pipe(c) /\ j < last /\ Pipe(c)[j] = w[j]
  <2>1. \A j \in 1..Len(w) : (w \o <<m>>)[j] = w[j]
    BY <1>5
  <2> QED
    BY <1>0, <1>a, <1>b, <2>1
<1>10. ClientFeed!InOrder(w, m.by, m.n)
  <2>1. Sorted(Pipe(c))
    BY DEF IInv, PipeInv
  <2> QED
    BY <1>8, <1>9, <2>1 DEF Sorted, ClientFeed!InOrder
<1>11. ClientFeed!NoBacklog(w, m.by, m.n, joinedAt[c])
  <2> SUFFICES ASSUME NEW j \in DOMAIN w, w[j].by = m.by PROVE m.n > joinedAt[c]
    BY DEF ClientFeed!NoBacklog
  <2>1. m.n > joinedAt[c] \/ w[j].n > joinedAt[c]
    <3>1. j \in DOMAIN Pipe(c) /\ j # last /\ Pipe(c)[j] = w[j]
      BY <1>9
    <3> QED
      BY <1>8, <3>1 DEF IInv, BacklogInv
  <2>2. w[j].n < m.n
    BY <1>10 DEF ClientFeed!InOrder
  <2>3. w[j].n \in Int /\ m.n \in Int /\ joinedAt[c] \in Int
    <3>1. w[j] \in Messages
      BY <1>3
    <3> QED
      BY <1>2, <3>1 DEF Messages, IInv, TypeOK
  <2> QED
    BY <2>1, <2>2, <2>3
<1>12. m.n \in 1..taken
  <2>1. Pipe(c)[last].n <= taken /\ taken \in Nat
    BY <1>8 DEF IInv, PipeInv, TypeOK
  <2> QED
    BY <1>2, <1>8, <2>1
<1>13. Stage(c) = "here"
  <2>1. conn[c] # "closed" /\ writer[c] # "none" /\ reader[c] \in ReaderStates
    BY DEF WritePayload, IInv, TypeOK
  <2>2. reader[c] \in {"read", "deregister", "closeConn"}
    BY <2>1 DEF IInv, HoldInv, WriterInv, ReaderStates
  <2> QED
    BY <2>2 DEF Stage
<1>14. written' = [written EXCEPT ![c] = Append(@, [by |-> m.by, n |-> m.n])]
  BY <1>1, <1>2, <1>6 DEF WritePayload, w
<1>15. UNCHANGED <<taken, joinedAt, reader>>
  BY DEF WritePayload, broadcastVars
<1>16. [d \in Clients |-> Stage(d)]' = [d \in Clients |-> Stage(d)]
  BY <1>15 DEF Stage
<1>17. ClientFeed!Deliver(c, m.by)
  BY <1>10, <1>11, <1>12, <1>13, <1>14, <1>15, <1>16 DEF ClientFeed!Deliver, w
<1> QED
  BY <1>2, <1>17

LEMMA FeedNext == IInv /\ [Next]_vars => [ClientFeed!Next]_(ClientFeed!vars)
<1> SUFFICES ASSUME IInv, [Next]_vars PROVE [ClientFeed!Next]_(ClientFeed!vars)
  OBVIOUS
<1> DEFINE stages == [c \in Clients |-> Stage(c)]
<1>1. CASE UNCHANGED vars
  BY <1>1, FeedStutter DEF vars, clientVars, broadcastVars, Stage
<1>2. ASSUME NEW c \in Clients, ReaderStep(c) \/ PeerGone(c)
      PROVE  [ClientFeed!Next]_(ClientFeed!vars)
  <2>1. UNCHANGED <<written, taken>> /\ reader \in [Clients -> ReaderStates]
    BY <1>2, ReaderFrame DEF broadcastVars, IInv, TypeOK
  <2>2. CASE Register(c)
    <3>1. Stage(c) = "away" /\ stages' = [stages EXCEPT ![c] = "here"]
      BY <2>1, <2>2 DEF Register, Stage
    <3> QED
      BY <2>1, <2>2, <3>1 DEF Register, ClientFeed!Next, ClientFeed!Join
  <2>3. CASE CloseConn(c)
    <3>1. Stage(c) = "here" /\ stages' = [stages EXCEPT ![c] = "gone"]
      BY <2>1, <2>3 DEF CloseConn, Stage
    <3> QED
      BY <2>1, <2>3, <3>1 DEF CloseConn, ClientFeed!Next, ClientFeed!Leave
  <2>4. CASE Upgrade(c) \/ ReadFails(c)
    BY <2>1, <2>4, FeedStutter DEF Upgrade, ReadFails, Stage
  <2>5. CASE Deregister(c) \/ CloseSend(c)
    BY <2>1, <2>5, FeedStutter DEF Deregister, CloseSend, Stage
  <2>6. CASE PeerGone(c)
    BY <2>1, <2>6, FeedStutter DEF PeerGone, Stage
  <2> QED
    BY <1>2, <2>2, <2>3, <2>4, <2>5, <2>6 DEF ReaderStep
<1>3. ASSUME NEW c \in Clients, WriterStep(c) PROVE [ClientFeed!Next]_(ClientFeed!vars)
  <2>1. CASE WritePayload(c)
    BY <2>1, FeedDelivers DEF ClientFeed!Next
  <2>2. CASE ~WritePayload(c)
    <3>1. UNCHANGED <<taken, joinedAt, written, reader>>
      BY <1>3, <2>2
         DEF WriterStep, WriterReceive, WriterDrained, WriteHeader, WriteFails, broadcastVars
    <3> QED
      BY <3>1, FeedStutter DEF Stage
  <2> QED
    BY <2>1, <2>2
<1>4. ASSUME NEW b \in Broadcasters, BroadcasterStep(b)
      PROVE  [ClientFeed!Next]_(ClientFeed!vars)
  <2>1. UNCHANGED <<written, joinedAt, reader>>
    BY <1>4, BroadcasterFrame DEF clientVars
  <2>2. \A c \in Clients : Stage(c)' = Stage(c)
    BY <2>1 DEF Stage
  <2>3. CASE Receive(b)
    BY <2>1, <2>2, <2>3 DEF Receive, ClientFeed!Next, ClientFeed!Publish
  <2>4. CASE ~Receive(b)
    <3>1. UNCHANGED taken
      BY <1>4, <2>4 DEF BroadcasterStep, MarshalFails, RLock, Offer, RUnlock
    <3> QED
      BY <2>1, <2>2, <3>1, FeedStutter
  <2> QED
    BY <2>3, <2>4
<1> QED
  BY <1>1, <1>2, <1>3, <1>4 DEF Next

-----------------------------------------------------------------------------
(* How much a client that was deregistered has still to do *)

Left(c) == reader[c] \in {"closeConn", "closeSend", "returned"}

ReaderWork(c) == CASE reader[c] = "closeConn" -> 2
                   [] reader[c] = "closeSend" -> 1
                   [] OTHER -> 0

WriterWork(c) == CASE writer[c] = "header" -> 3
                   [] writer[c] = "payload" -> 2
                   [] writer[c] = "range" -> 1
                   [] OTHER -> 0

(* The steps its goroutines can still take; a message that is queued stands   *)
(* for its receipt and the two writes.                                       *)
Work(c) == ReaderWork(c) + WriterWork(c) + 3 * Len(send[c])

LEMMA WorkType ==
    ASSUME TypeOK, NEW c \in Clients
    PROVE  ReaderWork(c) \in 0..2 /\ WriterWork(c) \in 0..3 /\ Len(send[c]) \in 0..SendCap
<1>1. ReaderWork(c) \in 0..2 /\ WriterWork(c) \in 0..3
  BY DEF ReaderWork, WriterWork
<1>2. Len(send[c]) \in 0..SendCap
  <2>1. Len(send[c]) \in Nat /\ Len(send[c]) <= SendCap
    BY DEF TypeOK
  <2> QED
    BY <2>1, SizeAssumption
<1> QED
  BY <1>1, <1>2

LEMMA ReaderWorkShrinks ==
    ASSUME TypeOK, NEW c \in Clients, Left(c), ReaderStep(c)
    PROVE  Left(c)' /\ Work(c)' < Work(c)
<1>0. ReaderWork(c) \in 0..2 /\ WriterWork(c) \in 0..3 /\ Len(send[c]) \in Nat
  BY WorkType DEF TypeOK
<1>1. CloseConn(c) \/ CloseSend(c)
  BY DEF ReaderStep, Upgrade, Register, ReadFails, Deregister, Left
<1>2. Left(c)' /\ ReaderWork(c)' = ReaderWork(c) - 1 /\ UNCHANGED <<writer, send>>
  BY <1>1 DEF CloseConn, CloseSend, Left, ReaderWork, TypeOK
<1>3. WriterWork(c)' = WriterWork(c) /\ Len(send[c])' = Len(send[c])
  BY <1>2 DEF WriterWork
<1> QED
  BY <1>0, <1>2, <1>3 DEF Work

LEMMA WriterWorkShrinks ==
    ASSUME TypeOK, NEW c \in Clients, WriterStep(c)
    PROVE  Work(c)' < Work(c)
<1>0. /\ ReaderWork(c) \in 0..2 /\ WriterWork(c) \in 0..3 /\ Len(send[c]) \in Nat
      /\ send[c] \in Seq(Messages)
  BY WorkType DEF TypeOK
<1>1. ReaderWork(c)' = ReaderWork(c)
  <2>1. reader' = reader
    BY WriterFrame
  <2> QED
    BY <2>1 DEF ReaderWork
<1>2. CASE WriterReceive(c)
  <2>1. /\ WriterWork(c) = 1 /\ WriterWork(c)' = 3
        /\ send[c] # <<>> /\ send'[c] = Tail(send[c])
    BY <1>2 DEF WriterReceive, WriterWork, TypeOK
  <2>2. Len(send'[c]) = Len(send[c]) - 1
    BY <1>0, <2>1
  <2> QED
    BY <1>0, <1>1, <2>1, <2>2 DEF Work
<1>3. CASE ~WriterReceive(c)
  <2>1. send' = send /\ WriterWork(c)' < WriterWork(c) /\ WriterWork(c)' \in Int
    BY <1>3 DEF WriterStep, WriterDrained, WriteHeader, WritePayload, WriteFails,
                WriterWork, TypeOK
  <2>2. Len(send[c])' = Len(send[c])
    BY <2>1
  <2> QED
    BY <1>0, <1>1, <2>1, <2>2 DEF Work
<1> QED
  BY <1>2, <1>3

(* Nobody else adds to it: no broadcast loop has it in its range any more. *)
LEMMA WorkStays ==
    ASSUME TypeOK, RegistryInv, NEW c \in Clients, Left(c), Next,
           ~ReaderStep(c), ~WriterStep(c)
    PROVE  Left(c)' /\ Work(c)' = Work(c)
<1>1. UNCHANGED <<reader[c], writer[c], send[c]>>
  <2>1. ASSUME NEW d \in Clients \ {c}, ReaderStep(d)
        PROVE  UNCHANGED <<reader[c], writer[c], send[c]>>
    BY <2>1 DEF ReaderStep, Upgrade, Register, ReadFails, Deregister, CloseConn, CloseSend, TypeOK
  <2>2. ASSUME NEW d \in Clients \ {c}, WriterStep(d)
        PROVE  UNCHANGED <<reader[c], writer[c], send[c]>>
    BY <2>2 DEF WriterStep, WriterReceive, WriterDrained, WriteHeader, WritePayload,
                WriteFails, TypeOK
  <2>3. ASSUME NEW d \in Clients, PeerGone(d) PROVE UNCHANGED <<reader[c], writer[c], send[c]>>
    BY <2>3 DEF PeerGone
  <2>4. ASSUME NEW b \in Broadcasters, BroadcasterStep(b)
        PROVE  UNCHANGED <<reader[c], writer[c], send[c]>>
    <3>1. UNCHANGED <<reader, writer>>
      BY <2>4, BroadcasterFrame DEF clientVars
    <3>2. ASSUME NEW d \in Clients, Offer(b, d) PROVE send'[c] = send[c]
      <4>1. d # c
        BY <3>2 DEF Offer, RegistryInv, Left
      <4> QED
        BY <3>2, <4>1 DEF Offer, TypeOK
    <3> QED
      BY <2>4, <3>1, <3>2 DEF BroadcasterStep, Receive, MarshalFails, RLock, RUnlock
  <2> QED
    BY <2>1, <2>2, <2>3, <2>4 DEF Next
<1> QED
  BY <1>1 DEF Left, Work, ReaderWork, WriterWork

-----------------------------------------------------------------------------
(* The theorems *)

(* Every reachable state is well typed: no send channel outgrows its capacity. *)
THEOREM TypeCorrect == Spec => []TypeOK
<1>1. IInv => TypeOK
  BY DEF IInv
<1> QED
  BY <1>1, IInvAlways, PTL

(* Whatever clients come and go while any number of broadcast loops send, no *)
(* loop sends on a channel the read pump has closed.                         *)
THEOREM SendsAreSafe == Spec => []NoSendOnClosedChannel
<1>1. IInv => NoSendOnClosedChannel
  BY DEF IInv, RegistryInv, NoSendOnClosedChannel
<1> QED
  BY <1>1, IInvAlways, PTL

(* Each client gets every message at most once, and the messages of one      *)
(* broadcast loop in the order they were taken from s.broadcast.             *)
THEOREM DeliveryInOrder == Spec => []EachOnceInOrder
<1>1. IInv => EachOnceInOrder
  BY DEF IInv, PipeInv, Sorted, EachOnceInOrder
<1> QED
  BY <1>1, IInvAlways, PTL

(* The clients' side of the server implements Feed: registry, channels, locks *)
(* and pumps together deliver in order, none twice, only while the connection *)
(* is in use, and without a backlog from before the registration.             *)
THEOREM HubImplementsFeed == Spec => ClientsFollowTheFeed
BY FeedInit, FeedNext, IInvAlways, PTL DEF Spec, ClientsFollowTheFeed, ClientFeed!Spec

(* A client that was deregistered runs down: each step of its two goroutines  *)
(* leaves less to do, no broadcast loop adds to it, and there is never more   *)
(* to do than the full channel gives.                                         *)
LeftRunsDown ==
    [][\A c \in Clients : Left(c) =>
          /\ Left(c)'
          /\ IF ReaderStep(c) \/ WriterStep(c) THEN Work(c)' < Work(c)
                                               ELSE Work(c)' = Work(c)]_vars

THEOREM LeftClientsRunDown ==
    Spec => LeftRunsDown /\ [](\A c \in Clients : Work(c) \in 0..(3 * SendCap + 5))
<1> DEFINE A == \A c \in Clients : Left(c) =>
                    /\ Left(c)'
                    /\ IF ReaderStep(c) \/ WriterStep(c) THEN Work(c)' < Work(c)
                                                         ELSE Work(c)' = Work(c)
<1>1. IInv /\ [Next]_vars => [A]_vars
  <2> SUFFICES ASSUME IInv, Next, NEW c \in Clients, Left(c)
               PROVE  /\ Left(c)'
                      /\ IF ReaderStep(c) \/ WriterStep(c) THEN Work(c)' < Work(c)
                                                           ELSE Work(c)' = Work(c)
    OBVIOUS
  <2>0. TypeOK /\ RegistryInv
    BY DEF IInv
  <2>1. CASE ReaderStep(c)
    BY <2>0, <2>1, ReaderWorkShrinks
  <2>2. CASE WriterStep(c)
    <3>1. Left(c)'
      BY <2>2, WriterFrame DEF Left
    <3> QED
      BY <2>0, <2>2, <3>1, WriterWorkShrinks
  <2>3. CASE ~ReaderStep(c) /\ ~WriterStep(c)
    BY <2>0, <2>3, WorkStays
  <2> QED
    BY <2>1, <2>2, <2>3
<1>2. IInv => \A c \in Clients : Work(c) \in 0..(3 * SendCap + 5)
  <2> SUFFICES ASSUME IInv, NEW c \in Clients PROVE Work(c) \in 0..(3 * SendCap + 5)
    OBVIOUS
  <2>1. ReaderWork(c) \in 0..2 /\ WriterWork(c) \in 0..3 /\ Len(send[c]) \in 0..SendCap
    BY WorkType DEF IInv
  <2> QED
    BY <2>1, SizeAssumption DEF Work
<1> QED
  BY <1>1, <1>2, IInvAlways, PTL DEF Spec, LeftRunsDown
=============================================================================
