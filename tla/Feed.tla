-------------------------------- MODULE Feed --------------------------------
(***************************************************************************)
(* What a dashboard is promised of the samples: while it is connected, and *)
(* only then, its feed grows by samples that were published, none of them  *)
(* twice, and those that one broadcast loop hands on in their order.  Of   *)
(* the samples from before it joined it gets one of each loop at most, the *)
(* one that was being handed on; there is no backlog.  Samples may be      *)
(* missing.  Module Hub implements this with channels, locks, pumps and a  *)
(* teardown in four steps.                                                 *)
(***************************************************************************)
EXTENDS Integers, Sequences

CONSTANTS Clients, Broadcasters

VARIABLES
    stage,      \* of each client: "away", "here" or "gone"
    published,  \* how many samples there have been
    joinedAt,   \* of each client: how many when it joined
    feed        \* of each client: what it has got

vars == <<stage, published, joinedAt, feed>>

Init ==
    /\ stage = [c \in Clients |-> "away"]
    /\ published = 0
    /\ joinedAt = [c \in Clients |-> 0]
    /\ feed = [c \in Clients |-> <<>>]

Publish ==
    /\ published' = published + 1
    /\ UNCHANGED <<stage, joinedAt, feed>>

Join(c) ==
    /\ stage[c] = "away"
    /\ stage' = [stage EXCEPT ![c] = "here"]
    /\ joinedAt' = [joinedAt EXCEPT ![c] = published]
    /\ UNCHANGED <<published, feed>>

(* s has the sample of number n neither already nor overtaken by a later one *)
(* of the same loop.                                                         *)
InOrder(s, b, n) ==
    \A p \in DOMAIN s : s[p].n # n /\ (s[p].by = b => s[p].n < n)

(* The sample is newer than the client, or the first of its loop. *)
NoBacklog(s, b, n, since) ==
    n > since \/ \A p \in DOMAIN s : s[p].by # b

Deliver(c, b) ==
    /\ stage[c] = "here"
    /\ \E n \in 1..published :
          /\ InOrder(feed[c], b, n)
          /\ NoBacklog(feed[c], b, n, joinedAt[c])
          /\ feed' = [feed EXCEPT ![c] = Append(@, [by |-> b, n |-> n])]
    /\ UNCHANGED <<stage, published, joinedAt>>

Leave(c) ==
    /\ stage[c] = "here"
    /\ stage' = [stage EXCEPT ![c] = "gone"]
    /\ UNCHANGED <<published, joinedAt, feed>>

Next ==
    \/ Publish
    \/ \E c \in Clients : Join(c) \/ Leave(c) \/ \E b \in Broadcasters : Deliver(c, b)

Spec == Init /\ [][Next]_vars
=============================================================================
