---------------------------- MODULE LoopbackProofs ----------------------------
(***************************************************************************)
(* The loopback link is a queue that loses its oldest packets, for rings   *)
(* of any size, any data and any number of packets.                        *)
(***************************************************************************)
EXTENDS LoopbackQueue, SequenceTheorems, TLAPS

USE LoopbackAssumption

\* What a ring looks like.
Ring == [get : Nat, send : Nat, slots : [0..(N_SLOTS - 1) -> Packets]]

RingInv ==
    /\ loop \in [Socks -> Ring]
    /\ got \in [Socks -> Seq(Packets)]
    /\ \A s \in Socks : loop[s].get <= loop[s].send /\ loop[s].send <= MaxPackets

-----------------------------------------------------------------------------
(* Slots *)

\* A counter names a slot of the ring.
LEMMA SlotInRing == ASSUME NEW i \in Nat PROVE i % N_SLOTS \in 0..(N_SLOTS - 1)
  OBVIOUS

\* Fewer than N_SLOTS apart, two counters name different slots.
LEMMA SlotsDiffer ==
    ASSUME NEW i \in Nat, NEW j \in Nat, i < j, j < i + N_SLOTS
    PROVE  i % N_SLOTS # j % N_SLOTS
<1> SUFFICES ASSUME i % N_SLOTS = j % N_SLOTS PROVE FALSE
  OBVIOUS
<1> DEFINE a == i \div N_SLOTS
           b == j \div N_SLOTS
<1>1. /\ a \in Int /\ b \in Int /\ i % N_SLOTS \in Int
      /\ i = N_SLOTS * a + (i % N_SLOTS) /\ j = N_SLOTS * b + (j % N_SLOTS)
  OBVIOUS
<1> HIDE DEF a, b
<1>2. j - i = N_SLOTS * (b - a)
  BY <1>1
<1>3. CASE b - a <= 0
  BY <1>1, <1>2, <1>3
<1>4. CASE b - a >= 1
  BY <1>1, <1>2, <1>4
<1> QED
  BY <1>1, <1>3, <1>4

-----------------------------------------------------------------------------
(* Rings as queues *)

\* The fields of a ring, and that it has no others.
LEMMA RingFields ==
    ASSUME NEW l \in Ring
    PROVE  /\ l.get \in Nat /\ l.send \in Nat
           /\ l.slots \in [0..(N_SLOTS - 1) -> Packets]
           /\ l = [get |-> l.get, send |-> l.send, slots |-> l.slots]
  BY DEF Ring

\* The packet counter i names.
At(l, i) == l.slots[i % N_SLOTS]

\* A counter names a packet.
LEMMA AtType == ASSUME NEW l \in Ring, NEW i \in Nat PROVE At(l, i) \in Packets
<1>1. i % N_SLOTS \in 0..(N_SLOTS - 1)
  BY SlotInRing
<1> QED
  BY <1>1, RingFields DEF At

\* A function on 1..n is a sequence.
LEMMA SequenceOf ==
    ASSUME NEW S, NEW n \in Nat, NEW F \in [1..n -> S]
    PROVE  F \in Seq(S) /\ Len(F) = n
  OBVIOUS

\* The first packet kept is at most N_SLOTS behind.
LEMMA FirstKeptType ==
    ASSUME NEW l \in Ring, l.get <= l.send
    PROVE  /\ FirstKept(l) \in Nat /\ FirstKept(l) <= l.send
           /\ l.send - FirstKept(l) \in Nat /\ l.send - FirstKept(l) <= N_SLOTS
  BY RingFields DEF FirstKept

\* What waits: the packets from the first kept to the last sent.
LEMMA WaitingType ==
    ASSUME NEW l \in Ring, l.get <= l.send
    PROVE  /\ Waiting(l) \in Seq(Packets)
           /\ Len(Waiting(l)) = l.send - FirstKept(l)
           /\ \A i \in 1..(l.send - FirstKept(l)) :
                 Waiting(l)[i] = At(l, FirstKept(l) + i - 1)
<1> DEFINE f == FirstKept(l)
           n == l.send - f
<1>1. f \in Nat /\ n \in Nat
  BY FirstKeptType
<1>2. Waiting(l) = [i \in 1..n |-> At(l, f + i - 1)]
  BY DEF Waiting, FirstKept, At
<1> HIDE DEF f, n
<1>3. ASSUME NEW i \in 1..n PROVE At(l, f + i - 1) \in Packets
  <2>1. f + i - 1 \in Nat
    BY <1>1
  <2> QED
    BY <2>1, AtType
<1>4. Waiting(l) \in [1..n -> Packets]
  BY <1>2, <1>3
<1>5. Waiting(l) \in Seq(Packets) /\ Len(Waiting(l)) = n
  BY <1>1, <1>4, SequenceOf
<1>6. \A i \in 1..n : Waiting(l)[i] = At(l, f + i - 1)
  BY <1>2
<1> QED
  BY <1>5, <1>6 DEF f, n

\* What NET_SendLoopPacket makes of a ring.
Sent(l, p) == [l EXCEPT !.slots[l.send % N_SLOTS] = p, !.send = @ + 1]

\* Sending changes the slot of the packet sent and no slot still waiting.
LEMMA SendWrites ==
    ASSUME NEW l \in Ring, NEW p \in Packets, NEW k, k = Sent(l, p)
    PROVE  /\ k \in Ring /\ k.get = l.get /\ k.send = l.send + 1
           /\ At(k, l.send) = p
           /\ \A i \in Nat : i < l.send /\ l.send < i + N_SLOTS => At(k, i) = At(l, i)
<1> DEFINE w == l.send % N_SLOTS
<1>1. l.send \in Nat /\ l.get \in Nat /\ w \in 0..(N_SLOTS - 1)
  BY RingFields, SlotInRing
<1>2. \A i \in Nat : i % N_SLOTS \in 0..(N_SLOTS - 1)
  BY SlotInRing
<1>3. \A i \in Nat : i < l.send /\ l.send < i + N_SLOTS => i % N_SLOTS # w
  BY <1>1, SlotsDiffer
<1>4. k = [get |-> l.get, send |-> l.send + 1, slots |-> [l.slots EXCEPT ![w] = p]]
  <2> HIDE DEF w
  <2>1. k = [l EXCEPT !.slots[w] = p, !.send = @ + 1]
    BY DEF w, Sent
  <2>2. DOMAIN l = {"get", "send", "slots"}
    BY DEF Ring
  <2> QED
    BY <2>1, <2>2, RingFields DEF Ring
<1> HIDE DEF w
<1>5. /\ k.get = l.get /\ k.send = l.send + 1 /\ k.slots = [l.slots EXCEPT ![w] = p]
      /\ k.slots \in [0..(N_SLOTS - 1) -> Packets]
      /\ k.slots[w] = p
      /\ \A j \in 0..(N_SLOTS - 1) : j # w => k.slots[j] = l.slots[j]
  BY <1>1, <1>4, RingFields
<1>6. k \in Ring
  <2>1. l.send + 1 \in Nat
    BY <1>1
  <2>2. [l.slots EXCEPT ![w] = p] \in [0..(N_SLOTS - 1) -> Packets]
    BY <1>5
  <2> QED
    BY <1>1, <1>4, <2>1, <2>2 DEF Ring
<1>7. At(k, l.send) = p
  BY <1>5 DEF At, w
<1>8. ASSUME NEW i \in Nat, i < l.send, l.send < i + N_SLOTS PROVE At(k, i) = At(l, i)
  <2>1. i % N_SLOTS \in 0..(N_SLOTS - 1) /\ i % N_SLOTS # w
    BY <1>2, <1>3, <1>8
  <2> QED
    BY <1>5, <2>1 DEF At
<1> QED
  BY <1>5, <1>6, <1>7, <1>8

\* A sequence with one more element.
LEMMA Appended ==
    ASSUME NEW S, NEW s \in Seq(S), NEW x \in S
    PROVE  /\ Append(s, x) \in Seq(S) /\ Len(Append(s, x)) = Len(s) + 1
           /\ \A i \in 1..Len(s) : Append(s, x)[i] = s[i]
           /\ Append(s, x)[Len(s) + 1] = x
  OBVIOUS

\* A packet written over the oldest slot joins the queue, and pushes the oldest packet
\* out when the queue is full.
LEMMA SendAppends ==
    ASSUME NEW l \in Ring, l.get <= l.send, NEW p \in Packets, NEW k, k = Sent(l, p)
    PROVE  /\ k \in Ring /\ k.get <= k.send
           /\ Waiting(k) = Abstract!Newest(Append(Waiting(l), p))
<1> DEFINE f == FirstKept(l)
           n == l.send - f
           q == Append(Waiting(l), p)
           m == k.send - FirstKept(k)
<1>1. /\ k \in Ring /\ k.get = l.get /\ k.send = l.send + 1
      /\ At(k, l.send) = p
      /\ \A i \in Nat : i < l.send /\ l.send < i + N_SLOTS => At(k, i) = At(l, i)
  BY SendWrites
<1>2. l.send \in Nat /\ l.get \in Nat /\ k.get <= k.send
  BY <1>1, RingFields
<1>3. f \in Nat /\ n \in Nat /\ n <= N_SLOTS /\ f + n = l.send
  BY <1>2, FirstKeptType
<1>4. /\ Waiting(l) \in Seq(Packets) /\ Len(Waiting(l)) = n
      /\ \A i \in 1..n : Waiting(l)[i] = At(l, f + i - 1)
  BY WaitingType
<1>5. /\ Waiting(k) \in Seq(Packets) /\ Len(Waiting(k)) = m
      /\ \A i \in 1..m : Waiting(k)[i] = At(k, FirstKept(k) + i - 1)
  BY <1>1, <1>2, WaitingType
<1>6. \/ n < N_SLOTS /\ FirstKept(k) = f /\ m = n + 1
      \/ n = N_SLOTS /\ FirstKept(k) = f + 1 /\ m = N_SLOTS
  <2>1. CASE l.send - l.get > N_SLOTS
    <3>1. f = l.send - N_SLOTS /\ FirstKept(k) = k.send - N_SLOTS
      BY <1>1, <1>2, <2>1 DEF FirstKept
    <3> QED
      BY <1>1, <1>2, <3>1
  <2>2. CASE l.send - l.get = N_SLOTS
    <3>1. f = l.get /\ FirstKept(k) = k.send - N_SLOTS
      BY <1>1, <1>2, <2>2 DEF FirstKept
    <3> QED
      BY <1>1, <1>2, <2>2, <3>1
  <2>3. CASE l.send - l.get < N_SLOTS
    <3>1. f = l.get /\ FirstKept(k) = l.get
      BY <1>1, <1>2, <2>3 DEF FirstKept
    <3> QED
      BY <1>1, <1>2, <2>3, <3>1
  <2> QED
    BY <1>2, <2>1, <2>2, <2>3
<1> HIDE DEF f, n, m
<1>7. q \in Seq(Packets) /\ Len(q) = n + 1 /\ q[n + 1] = p
      /\ \A i \in 1..n : q[i] = At(l, f + i - 1)
  BY <1>4, Appended
<1> HIDE DEF q
<1>8. CASE n < N_SLOTS
  <2>1. FirstKept(k) = f /\ m = n + 1
    BY <1>3, <1>6, <1>8
  <2>2. Abstract!Newest(q) = q
    BY <1>3, <1>7, <1>8 DEF Abstract!Newest
  <2>3. ASSUME NEW i \in 1..(n + 1) PROVE Waiting(k)[i] = q[i]
    <3>1. Waiting(k)[i] = At(k, f + i - 1)
      BY <1>5, <2>1
    <3>2. CASE i = n + 1
      <4>1. f + i - 1 = l.send
        BY <1>2, <1>3, <3>2
      <4> QED
        BY <1>1, <1>7, <3>1, <3>2, <4>1
    <3>3. CASE i # n + 1
      <4>1. /\ i \in 1..n /\ f + i - 1 \in Nat /\ f + i - 1 < l.send
            /\ l.send < (f + i - 1) + N_SLOTS
        BY <1>2, <1>3, <1>8, <3>3
      <4>2. At(k, f + i - 1) = At(l, f + i - 1)
        BY <1>1, <4>1
      <4> QED
        BY <1>7, <3>1, <4>1, <4>2
    <3> QED
      BY <3>2, <3>3
  <2>4. Waiting(k) = q
    BY <1>5, <1>7, <2>1, <2>3, SeqEqual
  <2> QED
    BY <1>1, <1>2, <2>2, <2>4 DEF q
<1>9. CASE n = N_SLOTS
  <2>1. FirstKept(k) = f + 1 /\ m = n
    BY <1>3, <1>6, <1>9
  <2>2. Abstract!Newest(q) = SubSeq(q, 2, n + 1)
    BY <1>3, <1>7, <1>9 DEF Abstract!Newest
  <2>3. /\ SubSeq(q, 2, n + 1) \in Seq(Packets) /\ Len(SubSeq(q, 2, n + 1)) = n
        /\ \A i \in 1..n : SubSeq(q, 2, n + 1)[i] = q[i + 1]
    BY <1>3, <1>7, <1>9
  <2>4. ASSUME NEW i \in 1..n PROVE Waiting(k)[i] = q[i + 1]
    <3>1. Waiting(k)[i] = At(k, f + i)
      <4>1. f + 1 + i - 1 = f + i
        BY <1>3
      <4> QED
        BY <1>5, <2>1, <4>1
    <3>2. CASE i = n
      <4>1. f + i = l.send
        BY <1>3, <3>2
      <4> QED
        BY <1>1, <1>7, <3>1, <3>2, <4>1
    <3>3. CASE i # n
      <4>1. /\ i + 1 \in 1..n /\ f + i \in Nat /\ f + i < l.send
            /\ l.send < (f + i) + N_SLOTS /\ f + (i + 1) - 1 = f + i
        BY <1>2, <1>3, <1>9, <3>3
      <4>2. At(k, f + i) = At(l, f + i)
        BY <1>1, <4>1
      <4>3. q[i + 1] = At(l, f + (i + 1) - 1)
        BY <1>7, <4>1
      <4> QED
        BY <3>1, <4>1, <4>2, <4>3
    <3> QED
      BY <3>2, <3>3
  <2>5. Waiting(k) = SubSeq(q, 2, n + 1)
    BY <1>5, <2>1, <2>3, <2>4, SeqEqual
  <2> QED
    BY <1>1, <1>2, <2>2, <2>5 DEF q
<1> QED
  BY <1>3, <1>8, <1>9

\* A sequence without its first element.
LEMMA HeadAndTail ==
    ASSUME NEW S, NEW s \in Seq(S), Len(s) > 0
    PROVE  /\ s # <<>> /\ Head(s) = s[1] /\ Head(s) \in S
           /\ Tail(s) \in Seq(S) /\ Len(Tail(s)) = Len(s) - 1
           /\ \A i \in 1..(Len(s) - 1) : Tail(s)[i] = s[i + 1]
  OBVIOUS

\* Taking the first packet kept takes the head off the queue.
LEMMA GetTakesHead ==
    ASSUME NEW l \in Ring, l.get <= l.send, FirstKept(l) < l.send,
           NEW k, k = [l EXCEPT !.get = FirstKept(l) + 1]
    PROVE  /\ k \in Ring /\ k.get <= k.send
           /\ Waiting(l) # <<>>
           /\ Head(Waiting(l)) = At(l, FirstKept(l))
           /\ Head(Waiting(l)) \in Packets
           /\ Waiting(k) = Tail(Waiting(l))
<1> DEFINE f == FirstKept(l)
           n == l.send - f
<1>1. /\ f \in Nat /\ n \in Nat /\ n > 0 /\ n <= N_SLOTS /\ f + n = l.send
      /\ l.send \in Nat
  BY FirstKeptType, RingFields
<1>2. /\ Waiting(l) \in Seq(Packets) /\ Len(Waiting(l)) = n
      /\ \A i \in 1..n : Waiting(l)[i] = At(l, f + i - 1)
  BY WaitingType
<1> HIDE DEF n
<1>3. /\ k \in Ring /\ k.get = f + 1 /\ k.send = l.send /\ k.slots = l.slots
  <2>1. k = [get |-> f + 1, send |-> l.send, slots |-> l.slots]
    BY RingFields
  <2> HIDE DEF f
  <2> QED
    BY <1>1, <2>1, RingFields DEF Ring
<1> HIDE DEF f
<1>4. k.get <= k.send /\ k.send - k.get = n - 1 /\ ~(k.send - k.get > N_SLOTS)
  BY <1>1, <1>3
<1>5. FirstKept(k) = f + 1
  BY <1>3, <1>4 DEF FirstKept
<1>6. /\ Waiting(k) \in Seq(Packets) /\ Len(Waiting(k)) = n - 1
      /\ \A i \in 1..(n - 1) : Waiting(k)[i] = At(l, f + 1 + i - 1)
  <2>1. \A i : At(k, i) = At(l, i)
    BY <1>3 DEF At
  <2> QED
    BY <1>3, <1>4, <1>5, <2>1, WaitingType
<1>7. /\ Waiting(l) # <<>> /\ Head(Waiting(l)) = Waiting(l)[1]
      /\ Head(Waiting(l)) \in Packets
      /\ Tail(Waiting(l)) \in Seq(Packets) /\ Len(Tail(Waiting(l))) = n - 1
      /\ \A i \in 1..(n - 1) : Tail(Waiting(l))[i] = Waiting(l)[i + 1]
  BY <1>1, <1>2, HeadAndTail
<1>8. Waiting(l)[1] = At(l, f)
  <2>1. 1 \in 1..n /\ f + 1 - 1 = f
    BY <1>1
  <2> QED
    BY <1>2, <2>1
<1>9. ASSUME NEW i \in 1..(n - 1) PROVE Waiting(k)[i] = Tail(Waiting(l))[i]
  <2>1. i + 1 \in 1..n /\ f + 1 + i - 1 = f + (i + 1) - 1
    BY <1>1
  <2>2. Waiting(l)[i + 1] = At(l, f + (i + 1) - 1)
    BY <1>2, <2>1
  <2> QED
    BY <1>6, <1>7, <2>1, <2>2
<1>10. Waiting(k) = Tail(Waiting(l))
  BY <1>6, <1>7, <1>9, SeqEqual
<1> QED
  BY <1>3, <1>4, <1>7, <1>8, <1>10 DEF f

\* With nothing kept the ring is empty, and so it stays.
LEMMA GetNothing ==
    ASSUME NEW l \in Ring, l.get <= l.send, ~(FirstKept(l) < l.send)
    PROVE  Waiting(l) = <<>> /\ [l EXCEPT !.get = FirstKept(l)] = l
<1>1. l.get \in Nat /\ l.send \in Nat
  BY RingFields
<1>2. FirstKept(l) = l.send /\ l.get = l.send
  BY <1>1 DEF FirstKept
<1>3. Waiting(l) \in Seq(Packets) /\ Len(Waiting(l)) = 0
  BY <1>1, <1>2, WaitingType
<1>4. Waiting(l) = <<>>
  BY <1>3
<1> QED
  BY <1>2, <1>4, RingFields

-----------------------------------------------------------------------------
(* The specification *)

\* A packet goes to the other socket and bears the name of its sender.
LEMMA PacketSent ==
    ASSUME NEW netsrc \in Socks, NEW d \in Data
    PROVE  /\ DestSock(netsrc) \in Socks /\ DestSock(netsrc) # netsrc
           /\ PacketOf(netsrc, d) \in Packets
           /\ PacketOf(netsrc, d).netsrc = netsrc
  BY DEF Socks, DestSock, PacketOf, Packets

\* Empty rings are rings.
LEMMA InitRing == Init => RingInv
<1> SUFFICES ASSUME Init PROVE RingInv
  OBVIOUS
<1>1. NoPacket \in Packets
  BY DEF NoPacket, Packets, Socks
<1>2. [get |-> 0, send |-> 0, slots |-> [i \in 0..(N_SLOTS - 1) |-> NoPacket]] \in Ring
  BY <1>1 DEF Ring
<1>3. got \in [Socks -> Seq(Packets)]
  BY DEF Init
<1> QED
  BY <1>2, <1>3 DEF Init, RingInv

\* One send, one receive: what it does to the rings, and to the queues.
LEMMA SendStep ==
    ASSUME RingInv, NEW netsrc \in Socks, NEW d \in Data, NET_SendLoopPacket(netsrc, d)
    PROVE  RingInv' /\ Abstract!Next
<1> DEFINE s == DestSock(netsrc)
           p == PacketOf(netsrc, d)
           k == Sent(loop[s], p)
<1>1. s \in Socks /\ s # netsrc /\ p \in Packets /\ p.netsrc = netsrc
  BY PacketSent
<1>2. loop[s] \in Ring /\ loop[s].get <= loop[s].send /\ loop[s].send < MaxPackets
  BY <1>1 DEF RingInv, NET_SendLoopPacket
<1>3. loop' = [loop EXCEPT ![s] = k] /\ got' = got
  BY DEF NET_SendLoopPacket, Sent
<1> HIDE DEF s, p, k
<1>4. k \in Ring /\ k.get <= k.send /\ k.send = loop[s].send + 1
      /\ Waiting(k) = Abstract!Newest(Append(Waiting(loop[s]), p))
  BY <1>1, <1>2, SendAppends, SendWrites DEF k
<1>5. loop'[s] = k /\ \A t \in Socks : t # s => loop'[t] = loop[t]
  BY <1>1, <1>3 DEF RingInv
<1>6. RingInv'
  <2>1. loop' \in [Socks -> Ring]
    BY <1>1, <1>3, <1>4 DEF RingInv
  <2>2. k.send <= MaxPackets
    BY <1>2, <1>4, RingFields
  <2> QED
    BY <1>3, <1>4, <1>5, <2>1, <2>2 DEF RingInv
<1>7. [t \in Socks |-> Waiting(loop'[t])]
        = [[t \in Socks |-> Waiting(loop[t])] EXCEPT ![s] = Abstract!Newest(Append(@, p))]
  BY <1>1, <1>4, <1>5
<1>8. Abstract!Send(s, p)
  BY <1>3, <1>7 DEF Abstract!Send
<1>9. p \in [t \in Socks |-> {x \in Packets : x.netsrc # t}][s]
  BY <1>1
<1> QED
  BY <1>1, <1>6, <1>8, <1>9 DEF Abstract!Next

\* One receive: it takes the head of the queue, or finds it empty.
LEMMA GetStep ==
    ASSUME RingInv, NEW s \in Socks, NET_GetLoopPacket(s)
    PROVE  RingInv' /\ Abstract!Next
<1> DEFINE l == loop[s]
           f == FirstKept(l)
           q == [t \in Socks |-> Waiting(loop[t])]
<1>1. l \in Ring /\ l.get <= l.send /\ l.send <= MaxPackets /\ l.send \in Nat /\ f \in Nat
  BY RingFields, FirstKeptType DEF RingInv
<1>2. CASE f < l.send
  <2> DEFINE k == [l EXCEPT !.get = f + 1]
  <2>1. /\ k \in Ring /\ k.get <= k.send /\ Waiting(l) # <<>>
        /\ Head(Waiting(l)) = At(l, f) /\ Head(Waiting(l)) \in Packets
        /\ Waiting(k) = Tail(Waiting(l))
    BY <1>1, <1>2, GetTakesHead
  <2>2. loop' = [loop EXCEPT ![s] = k] /\ got' = [got EXCEPT ![s] = <<At(l, f)>>]
    BY <1>1, <1>2 DEF NET_GetLoopPacket, At
  <2>3. k.send = l.send
    BY <1>1 DEF Ring
  <2> HIDE DEF k
  <2>4. loop'[s] = k /\ \A t \in Socks : t # s => loop'[t] = loop[t]
    BY <2>2 DEF RingInv
  <2>5. loop' \in [Socks -> Ring] /\ got' \in [Socks -> Seq(Packets)]
    BY <2>1, <2>2 DEF RingInv
  <2>6. RingInv'
    BY <1>1, <2>1, <2>3, <2>4, <2>5 DEF RingInv
  <2>7. q' = [q EXCEPT ![s] = Tail(@)] /\ q[s] = Waiting(l)
    BY <2>1, <2>4
  <2>8. Abstract!Receive(s)
    BY <2>1, <2>2, <2>7 DEF Abstract!Receive
  <2> QED
    BY <2>6, <2>8 DEF Abstract!Next
<1>3. CASE ~(f < l.send)
  <2>1. Waiting(l) = <<>> /\ [l EXCEPT !.get = f] = l
    BY <1>1, <1>3, GetNothing
  <2>2. loop' = [loop EXCEPT ![s].get = f] /\ got' = [got EXCEPT ![s] = <<>>]
    BY <1>1, <1>3 DEF NET_GetLoopPacket
  <2>3. loop' = loop
    BY <2>1, <2>2 DEF RingInv
  <2>4. RingInv'
    <3>1. got' \in [Socks -> Seq(Packets)]
      BY <2>2 DEF RingInv
    <3> QED
      BY <2>3, <3>1 DEF RingInv
  <2>5. q' = q /\ q[s] = <<>>
    BY <2>1, <2>3
  <2>6. Abstract!ReceiveNothing(s)
    BY <2>2, <2>5 DEF Abstract!ReceiveNothing
  <2> QED
    BY <2>4, <2>6 DEF Abstract!Next
<1> QED
  BY <1>2, <1>3

\* Every step keeps the rings and is a step of the queue, or none.
LEMMA RingStep == RingInv /\ [Next]_vars => RingInv' /\ [Abstract!Next]_Abstract!vars
<1> SUFFICES ASSUME RingInv, [Next]_vars
             PROVE  RingInv' /\ [Abstract!Next]_Abstract!vars
  OBVIOUS
<1>1. CASE Next
  <2>1. CASE \E netsrc \in Socks, d \in Data : NET_SendLoopPacket(netsrc, d)
    BY <2>1, SendStep
  <2>2. CASE \E s \in Socks : NET_GetLoopPacket(s)
    BY <2>2, GetStep
  <2> QED
    BY <1>1, <2>1, <2>2 DEF Next
<1>2. CASE UNCHANGED vars
  BY <1>2 DEF vars, RingInv, Abstract!vars
<1> QED
  BY <1>1, <1>2

\* The counters never pass each other and the slots hold packets: TypeOK.
THEOREM RingsCorrect == Spec => []TypeOK
<1>1. RingInv => TypeOK
  <2> SUFFICES ASSUME RingInv PROVE TypeOK
    OBVIOUS
  <2>1. ASSUME NEW s \in Socks
        PROVE  loop[s] \in [get : 0..MaxPackets, send : 0..MaxPackets,
                            slots : [0..(N_SLOTS - 1) -> Packets]]
    <3>1. loop[s] \in Ring /\ loop[s].get <= loop[s].send /\ loop[s].send <= MaxPackets
      BY DEF RingInv
    <3>2. loop[s].get \in 0..MaxPackets /\ loop[s].send \in 0..MaxPackets
      BY <3>1, RingFields
    <3> QED
      BY <3>1, <3>2, RingFields
  <2> QED
    BY <2>1 DEF RingInv, TypeOK
<1> QED
  BY <1>1, InitRing, RingStep, PTL DEF Spec

\* The link is a queue that loses its oldest packets, of any depth: no packet is
\* read twice, out of order, or by the side that sent it.
THEOREM Refinement == Spec => ImplementsFifo
<1>1. Init => Abstract!Init
  <2> SUFFICES ASSUME Init PROVE Abstract!Init
    OBVIOUS
  <2>1. ASSUME NEW s \in Socks PROVE Waiting(loop[s]) = <<>>
    <3>1. loop[s] \in Ring /\ loop[s].get = 0 /\ loop[s].send = 0
      BY InitRing DEF Init, RingInv
    <3>2. FirstKept(loop[s]) = 0
      BY <3>1 DEF FirstKept
    <3> QED
      BY <3>1, <3>2, GetNothing
  <2> QED
    BY <2>1 DEF Init, Abstract!Init
<1> QED
  BY <1>1, InitRing, RingStep, PTL DEF Spec, ImplementsFifo, Abstract!Spec
=============================================================================
