---------------------------- MODULE LoopbackQueue ----------------------------
(***************************************************************************)
(* The loopback link of a local game (PatchT4MAM_Loopback.cpp): a ring of  *)
(* N_SLOTS packets for each direction, with counters that only grow.       *)
(* NET_SendLoopPacket writes the next slot whatever it still holds, and    *)
(* NET_GetLoopPacket first skips what has been overwritten.                *)
(***************************************************************************)
EXTENDS Integers, Sequences

CONSTANTS
    N_SLOTS,     \* slots of a ring, 128
    Data,        \* what a packet may carry
    TooLong,     \* data that does not fit a slot behind the header byte
    Nothing,     \* the data of a packet that carries only the header
    MaxPackets   \* bound on the packets of a direction; the counters are ints

ASSUME LoopbackAssumption ==
    /\ N_SLOTS \in Nat \ {0} /\ MaxPackets \in Nat
    /\ TooLong \subseteq Data /\ Nothing \notin Data

VARIABLES loop,   \* loopbacks[0] to the client, loopbacks[1] to the server
          got     \* net_message after the last NET_GetLoopPacket of a socket

vars == <<loop, got>>

Socks == {0, 1}
Packets == [netsrc : Socks, data : (Data \ TooLong) \cup {Nothing}]
NoPacket == [netsrc |-> 0, data |-> Nothing]

\* The buffer is zero-initialized.
Init ==
    /\ loop = [s \in Socks |-> [get |-> 0, send |-> 0,
                                slots |-> [i \in 0..(N_SLOTS - 1) |-> NoPacket]]]
    /\ got = [s \in Socks |-> <<>>]

\* The header byte, then the data, which is left out when it would not fit.
PacketOf(netsrc, d) ==
    [netsrc |-> netsrc, data |-> IF d \in TooLong THEN Nothing ELSE d]

\* The server (1) names the client's socket in the low word of the address, which is
\* 0; the client (0) sends to the server.
DestSock(netsrc) == IF netsrc < 1 THEN 1 ELSE 0

NET_SendLoopPacket(netsrc, d) ==
    LET s == DestSock(netsrc)
    IN  /\ loop[s].send < MaxPackets
        /\ loop' = [loop EXCEPT ![s].slots[loop[s].send % N_SLOTS] = PacketOf(netsrc, d),
                                ![s].send = @ + 1]
        /\ UNCHANGED got

\* A receiver that leaves one slot too many.
GetOneOff(l) == IF l.send - l.get > N_SLOTS + 1 THEN l.send - N_SLOTS ELSE l.get

\* The first packet that has not been overwritten.
FirstKept(l) == IF l.send - l.get > N_SLOTS THEN l.send - N_SLOTS ELSE l.get

NET_GetLoopPacket(s) ==
    LET get == FirstKept(loop[s])
    IN  IF get >= loop[s].send
        THEN /\ got' = [got EXCEPT ![s] = <<>>]
             /\ loop' = [loop EXCEPT ![s].get = get]
        ELSE /\ got' = [got EXCEPT ![s] = <<loop[s].slots[get % N_SLOTS]>>]
             /\ loop' = [loop EXCEPT ![s].get = get + 1]

Next ==
    \/ \E netsrc \in Socks, d \in Data : NET_SendLoopPacket(netsrc, d)
    \/ \E s \in Socks : NET_GetLoopPacket(s)

Spec == Init /\ [][Next]_vars

-----------------------------------------------------------------------------
TypeOK ==
    /\ loop \in [Socks -> [get : 0..MaxPackets, send : 0..MaxPackets,
                           slots : [0..(N_SLOTS - 1) -> Packets]]]
    /\ got \in [Socks -> Seq(Packets)]
    /\ \A s \in Socks : loop[s].get <= loop[s].send

\* The packets a receiver can still have, oldest first.
Waiting(l) ==
    LET first == IF l.send - l.get > N_SLOTS THEN l.send - N_SLOTS ELSE l.get
    IN  [i \in 1..(l.send - first) |-> l.slots[(first + i - 1) % N_SLOTS]]

\* The ring is a queue that loses its oldest packets: whatever is received is the
\* oldest of the newest N_SLOTS that the other side sent, in order and once.
Abstract == INSTANCE DropOldestFifo
                WITH Depth <- N_SLOTS,
                     Inbound <- [s \in Socks |-> {p \in Packets : p.netsrc # s}],
                     queue <- [s \in Socks |-> Waiting(loop[s])]

ImplementsFifo == Abstract!Spec

=============================================================================
