---------------------------- MODULE DropOldestFifo ---------------------------
(***************************************************************************)
(* What the loopback link promises: for each socket a first-in first-out   *)
(* queue that keeps the newest Depth packets and loses the oldest ones.    *)
(* Only the other side's packets get into it.                              *)
(***************************************************************************)
EXTENDS Naturals, Sequences

CONSTANTS
    Socks,
    Inbound,  \* Inbound[s]: packets of the other side
    Depth

VARIABLES
    queue,    \* the packets waiting at each socket
    got       \* what the last receive at a socket returned: a packet, or nothing

vars == <<queue, got>>

Init ==
    /\ queue = [s \in Socks |-> <<>>]
    /\ got = [s \in Socks |-> <<>>]

\* The newest Depth elements of q.
Newest(q) ==
    IF Len(q) <= Depth THEN q ELSE SubSeq(q, Len(q) - Depth + 1, Len(q))

Send(s, p) ==
    /\ queue' = [queue EXCEPT ![s] = Newest(Append(@, p))]
    /\ UNCHANGED got

Receive(s) ==
    /\ queue[s] # <<>>
    /\ got' = [got EXCEPT ![s] = <<Head(queue[s])>>]
    /\ queue' = [queue EXCEPT ![s] = Tail(@)]

ReceiveNothing(s) ==
    /\ queue[s] = <<>>
    /\ got' = [got EXCEPT ![s] = <<>>]
    /\ UNCHANGED queue

Next ==
    \E s \in Socks :
        \/ \E p \in Inbound[s] : Send(s, p)
        \/ Receive(s)
        \/ ReceiveNothing(s)

Spec == Init /\ [][Next]_vars
=============================================================================
