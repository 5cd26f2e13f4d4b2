------------------------------ MODULE PMemProofs ------------------------------
(***************************************************************************)
(* Physical memory is never handed out twice, and comes back: for a region *)
(* of any size, any zones, requests and alignments, freed in any order.    *)
(***************************************************************************)
EXTENDS PMem, SequenceTheorems, WellFoundedInduction, TLAPS

USE PMemAssumption

-----------------------------------------------------------------------------
(* Unsigned arithmetic *)

\* A value that has not wrapped is itself, one that went below zero comes in from
\* the top.
LEMMA ModWord ==
    ASSUME NEW x \in Int, NEW w \in Nat \ {0}
    PROVE  /\ 0 <= x /\ x < w => x % w = x
           /\ 0 - w <= x /\ x < 0 => x % w = x + w
<1> DEFINE d == x \div w
           r == x % w
<1>1. d \in Int /\ r \in Int /\ 0 <= r /\ r < w /\ x = w * d + r
  OBVIOUS
<1> HIDE DEF d, r
<1>2. CASE d >= 1
  BY <1>1, <1>2
<1>3. CASE d = 0
  BY <1>1, <1>3 DEF r
<1>4. CASE d = -1
  BY <1>1, <1>4 DEF r
<1>5. CASE d <= -2
  <2>1. w * d <= w * (-2)
    BY <1>5, <1>1
  <2> QED
    BY <1>1, <2>1
<1> QED
  BY <1>1, <1>2, <1>3, <1>4, <1>5

\* AlignDown goes down by less than the alignment.
LEMMA AlignDownNear ==
    ASSUME NEW x \in Nat, NEW a \in Nat \ {0}
    PROVE  /\ AlignDown(x, a) \in Nat
           /\ AlignDown(x, a) <= x /\ x < AlignDown(x, a) + a
<1> DEFINE d == x \div a
           r == x % a
<1>1. d \in Int /\ r \in Int /\ 0 <= r /\ r < a /\ x = a * d + r
  OBVIOUS
<1>2. AlignDown(x, a) = d * a
  BY DEF AlignDown
<1> HIDE DEF d, r
<1>3. d >= 0
  <2> SUFFICES ASSUME d <= -1 PROVE FALSE
    BY <1>1
  <2>1. a * d <= a * (-1)
    BY <1>1
  <2> QED
    BY <1>1, <2>1
<1>4. d * a = a * d /\ d * a \in Nat
  BY <1>1, <1>3
<1> QED
  BY <1>1, <1>2, <1>4

\* A set of numbers has a least one.
LEMMA LeastOf ==
    ASSUME NEW T \in SUBSET Nat, T # {}
    PROVE  \E m \in T : \A k \in T : m <= k
<1> DEFINE R == OpToRel(<, Nat)
<1>1. IsWellFoundedOn(R, Nat)
  BY NatLessThanWellFounded
<1>2. \A x, y \in Nat : x < y => <<x, y>> \in R
  BY DEF OpToRel
<1> HIDE DEF R
<1>3. PICK m \in T : \A k \in T : ~(<<k, m>> \in R)
  BY <1>1, WFMin
<1>4. ASSUME NEW k \in T PROVE m <= k
  <2>1. m \in Nat /\ k \in Nat /\ ~(k < m)
    BY <1>2, <1>3
  <2> QED
    BY <2>1
<1> QED
  BY <1>4

\* A set of indices has a last one.
LEMMA GreatestOf ==
    ASSUME NEW n \in Nat, NEW T \in SUBSET (1..n), T # {}
    PROVE  \E m \in T : \A k \in T : k <= m
<1> DEFINE U == {n - k : k \in T}
<1>1. U \in SUBSET Nat /\ U # {}
  <2>1. \A k \in T : n - k \in Nat
    OBVIOUS
  <2>2. PICK k \in T : TRUE
    OBVIOUS
  <2>3. n - k \in U
    OBVIOUS
  <2> QED
    BY <2>1, <2>3
<1>2. PICK u \in U : \A v \in U : u <= v
  <2> HIDE DEF U
  <2> QED
    BY <1>1, LeastOf
<1>3. PICK m \in T : u = n - m
  BY <1>2
<1>4. ASSUME NEW k \in T PROVE k <= m
  <2>1. n - k \in U /\ u <= n - k
    BY <1>2
  <2> QED
    BY <1>3, <2>1
<1> QED
  BY <1>4

-----------------------------------------------------------------------------
(* Blocks *)

\* (int) of a value less than half of the word away from 0, and of one further below.
LEMMA SignedSmall ==
    ASSUME NEW x \in Int, Word # 0
    PROVE  /\ 0 <= x /\ 2 * x < Word => Signed(x) = x
           /\ 0 - Word <= 2 * x /\ x < 0 => Signed(x) = x
           /\ 0 - Word <= x /\ 2 * x < 0 - Word => Signed(x) = x + Word
<1>1. Word \in Nat \ {0}
  OBVIOUS
<1>2. CASE 0 <= x /\ 2 * x < Word
  <2>1. x % Word = x
    BY <1>1, <1>2, ModWord
  <2> QED
    BY <1>1, <1>2, <2>1 DEF Signed
<1>3. CASE 0 - Word <= x /\ x < 0
  <2>1. x % Word = x + Word
    BY <1>1, <1>3, ModWord
  <2> QED
    BY <1>1, <1>3, <2>1 DEF Signed
<1> QED
  BY <1>1, <1>2, <1>3

\* A block that is not refused lies between the two cursors, however large the request:
\* no sum wraps, and a cursor that went below zero shows as memory that is missing.
LEMMA BlockFits ==
    ASSUME prim[Low].pos \in 0..Size, prim[High].pos \in 0..Size,
           prim[Low].pos <= prim[High].pos,
           NEW end \in Ends, NEW q \in Requests, ~OutOfMemory(end, q)
    PROVE  /\ Block(end, q).lo \in Nat /\ Block(end, q).hi \in Nat
           /\ prim[Low].pos <= Block(end, q).lo
           /\ Block(end, q).lo <= Block(end, q).hi
           /\ Block(end, q).hi <= prim[High].pos
           /\ Block(end, q).pos = IF end = Low THEN Block(end, q).hi ELSE Block(end, q).lo
<1> DEFINE low == prim[Low].pos
           high == prim[High].pos
           n == q.size
           a == q.alignment
           b == Block(end, q)
<1>1. /\ low \in Nat /\ high \in Nat /\ low <= high /\ high <= Size
      /\ n \in Nat /\ a \in Nat \ {0} /\ Size \in Nat /\ Word \in Nat
      /\ 2 * Size <= Word /\ 2 * (n + a) <= Word /\ Word # 0
  OBVIOUS
<1>2. b.over \in Int => b.over <= 0
  BY DEF OutOfMemory
<1>3. CASE end = Low
  <2> DEFINE x == low + a - 1
             lo == AlignDown(x, a)
             hi == lo + n
  <2>1. x \in Nat /\ x < Word
    BY <1>1
  <2>2. x % Word = x
    BY <1>1, <2>1, ModWord
  <2> HIDE DEF x
  <2>3. lo \in Nat /\ lo <= x /\ x < lo + a
    BY <1>1, <2>1, AlignDownNear
  <2> HIDE DEF lo
  <2>4. low <= lo /\ hi \in Nat /\ hi < Word /\ 2 * (hi - high) < Word
        /\ 0 - Word <= 2 * (hi - high)
    BY <1>1, <2>3 DEF x
  <2>5. hi % Word = hi
    BY <1>1, <2>4, ModWord
  <2>6. b = [lo |-> lo, hi |-> hi, pos |-> hi, over |-> Signed(hi - high)]
    BY <1>3, <2>2, <2>5 DEF Block, LowBlock, lo, x
  <2>7. Signed(hi - high) = hi - high
    BY <1>1, <2>4, SignedSmall
  <2>8. hi <= high
    BY <1>1, <1>2, <2>4, <2>6, <2>7
  <2> QED
    BY <1>3, <2>3, <2>4, <2>6, <2>8
<1>4. CASE end = High
  <2> DEFINE x == (high - n) % Word
             lo == AlignDown(x, a)
             hi == lo + n
  <2>1. b = [lo |-> lo, hi |-> hi % Word, pos |-> lo, over |-> Signed(low - lo)]
    BY <1>4 DEF Block, HighBlock, Low, High
  <2>2. CASE n <= high
    <3>1. x = high - n /\ x \in Nat
      <4>1. high - n \in Nat /\ high - n < Word
        BY <1>1, <2>2
      <4>2. (high - n) % Word = high - n
        BY <1>1, <4>1, ModWord
      <4> QED
        BY <4>1, <4>2
    <3> HIDE DEF x
    <3>2. lo \in Nat /\ lo <= x /\ x < lo + a
      BY <1>1, <3>1, AlignDownNear
    <3> HIDE DEF lo
    <3>3. hi \in Nat /\ hi <= high /\ hi < Word
      BY <1>1, <3>1, <3>2
    <3>4. hi % Word = hi
      BY <1>1, <3>3, ModWord
    <3>5. low <= lo
      <4> SUFFICES ASSUME low > lo PROVE FALSE
        BY <1>1, <3>2
      <4>1. low - lo \in Int /\ 0 <= low - lo /\ 2 * (low - lo) < Word
        BY <1>1, <3>1, <3>2
      <4>2. Signed(low - lo) = low - lo
        BY <1>1, <4>1, SignedSmall
      <4> QED
        BY <1>1, <1>2, <2>1, <3>2, <4>2
    <3> QED
      BY <1>4, <2>1, <3>2, <3>3, <3>4, <3>5 DEF Low, High
  <2>3. CASE n > high
    <3>1. x = high - n + Word /\ x \in Nat /\ x < Word
      <4>1. high - n \in Int /\ 0 - Word <= high - n /\ high - n < 0
        BY <1>1, <2>3
      <4>2. (high - n) % Word = high - n + Word
        BY <1>1, <4>1, ModWord
      <4> QED
        BY <1>1, <4>1, <4>2
    <3> HIDE DEF x
    <3>2. lo \in Nat /\ lo <= x /\ x < lo + a
      BY <1>1, <3>1, AlignDownNear
    <3> HIDE DEF lo
    <3>3. /\ low - lo \in Int /\ 0 - Word <= low - lo /\ 2 * (low - lo) < 0 - Word
          /\ low - lo + Word > 0
      BY <1>1, <3>1, <3>2
    <3>4. Signed(low - lo) = low - lo + Word
      BY <1>1, <3>3, SignedSmall
    <3> QED
      BY <1>2, <2>1, <3>3, <3>4
  <2> QED
    BY <1>1, <2>2, <2>3
<1> QED
  BY <1>3, <1>4 DEF Ends

-----------------------------------------------------------------------------
(***************************************************************************)
(* The inductive invariant.  Slot i of an end holds the memory between the *)
(* cursor it has kept and the one the next slot has kept, and every block  *)
(* lies in the slot of its zone.                                           *)
(***************************************************************************)
Base(e) == IF e = High THEN Size ELSE 0

\* x is no nearer to the middle than y.
Outer(e, x, y) == IF e = Low THEN x <= y ELSE y <= x

\* Where the memory of slot i ends.
Limit(p, i) == IF i < Len(p.slots) THEN p.slots[i + 1].pos ELSE p.pos

Holds(e, p, i, b) ==
    /\ p.slots[i].owner = b.owner
    /\ IF e = Low THEN p.slots[i].pos <= b.lo /\ b.hi <= Limit(p, i)
       ELSE Limit(p, i) <= b.lo /\ b.hi <= p.slots[i].pos

Stack(e, p) ==
    /\ p \in [pos : Positions, slots : Seq(Slot)]
    /\ \A i, j \in 1..Len(p.slots) : i < j => Outer(e, p.slots[i].pos, p.slots[j].pos)
    /\ \A i \in 1..Len(p.slots) : Outer(e, p.slots[i].pos, p.pos)
    /\ IF p.slots = <<>> THEN p.pos = Base(e)
       ELSE p.slots[1].pos = Base(e) /\ p.slots[Len(p.slots)].owner # NoOwner

ListsFit == \A e \in Ends : Len(prim[e].slots) <= Slots

OneSlotEach ==
    \A d, e \in Ends : \A i \in 1..Len(prim[d].slots), j \in 1..Len(prim[e].slots) :
        prim[d].slots[i].owner = prim[e].slots[j].owner /\ prim[d].slots[i].owner # NoOwner
            => d = e /\ i = j

OpenIsLast ==
    open # Closed =>
        /\ open \in [owner : Owners, end : Ends]
        /\ prim[open.end].slots # <<>>
        /\ prim[open.end].slots[Len(prim[open.end].slots)].owner = open.owner

BlocksInSlots ==
    \A b \in blocks :
        /\ b \in [owner : Owners, lo : Nat, hi : Nat] /\ b.lo <= b.hi
        /\ \E e \in Ends : \E i \in 1..Len(prim[e].slots) : Holds(e, prim[e], i, b)

PInv ==
    /\ prim \in [Ends -> [pos : Positions, slots : Seq(Slot)]]
    /\ \A e \in Ends : Stack(e, prim[e])
    /\ prim[Low].pos <= prim[High].pos
    /\ ListsFit /\ OneSlotEach /\ OpenIsLast /\ BlocksInSlots

\* The fields of a stack and of its slots.
LEMMA StackFields ==
    ASSUME NEW e, NEW p, Stack(e, p)
    PROVE  /\ p.slots \in Seq(Slot) /\ Len(p.slots) \in Nat
           /\ p.pos \in Nat /\ p.pos <= Size
           /\ \A i \in 1..Len(p.slots) :
                 /\ p.slots[i] \in Slot
                 /\ p.slots[i].owner \in Owners \cup {NoOwner}
                 /\ p.slots[i].pos \in Nat /\ p.slots[i].pos <= Size
<1>1. p.slots \in Seq(Slot) /\ p.pos \in 0..Size
  BY DEF Stack, Positions
<1>2. Len(p.slots) \in Nat /\ \A i \in 1..Len(p.slots) : p.slots[i] \in Slot
  BY <1>1
<1> QED
  BY <1>1, <1>2 DEF Slot, Positions

\* Later slots, and the cursor, are nearer to the middle.
LEMMA StackOrder ==
    ASSUME NEW e, NEW p, Stack(e, p)
    PROVE  /\ \A i, j \in 1..Len(p.slots) : i < j => Outer(e, p.slots[i].pos, p.slots[j].pos)
           /\ \A i \in 1..Len(p.slots) : Outer(e, p.slots[i].pos, p.pos)
  BY DEF Stack

\* What Holds means for two slots, and for the cursors.
LEMMA HeldInside ==
    ASSUME NEW e \in Ends, NEW p, Stack(e, p), NEW i \in 1..Len(p.slots),
           NEW b \in [owner : Owners, lo : Nat, hi : Nat], Holds(e, p, i, b)
    PROVE  IF e = Low THEN b.hi <= p.pos ELSE p.pos <= b.lo
<1>1. /\ p.slots \in Seq(Slot) /\ p.pos \in Int /\ Limit(p, i) \in Int
      /\ Outer(e, Limit(p, i), p.pos)
  <2>1. CASE i < Len(p.slots)
    <3>1. i + 1 \in 1..Len(p.slots) /\ Limit(p, i) = p.slots[i + 1].pos
      BY <2>1, StackFields DEF Limit
    <3>2. Outer(e, p.slots[i + 1].pos, p.pos)
      BY <3>1, StackOrder
    <3> QED
      BY <3>1, <3>2, StackFields
  <2>2. CASE ~(i < Len(p.slots))
    BY <2>2, StackFields DEF Limit, Outer
  <2> QED
    BY <2>1, <2>2
<1> QED
  BY <1>1 DEF Holds, Outer

\* Blocks of different slots do not overlap.
LEMMA HeldApart ==
    ASSUME NEW e \in Ends, NEW p, Stack(e, p),
           NEW i \in 1..Len(p.slots), NEW j \in 1..Len(p.slots), i < j,
           NEW b \in [owner : Owners, lo : Nat, hi : Nat], Holds(e, p, i, b),
           NEW c \in [owner : Owners, lo : Nat, hi : Nat], Holds(e, p, j, c)
    PROVE  ~Overlap(b, c) /\ ~Overlap(c, b)
<1>1. /\ p.slots \in Seq(Slot) /\ i + 1 \in 1..Len(p.slots) /\ Limit(p, i) = p.slots[i + 1].pos
      /\ i + 1 <= j
  BY StackFields DEF Limit
<1>2. /\ p.slots[i + 1].pos \in Int /\ p.slots[j].pos \in Int
      /\ Outer(e, p.slots[i + 1].pos, p.slots[j].pos)
  <2>1. CASE i + 1 = j
    BY <1>1, <2>1, StackFields DEF Outer
  <2>2. CASE i + 1 < j
    <3>1. Outer(e, p.slots[i + 1].pos, p.slots[j].pos)
      BY <1>1, <2>2, StackOrder
    <3> QED
      BY <1>1, <3>1, StackFields
  <2> QED
    BY <1>1, <2>1, <2>2
<1> QED
  BY SMTT(30), <1>1, <1>2 DEF Holds, Outer, Overlap

\* Blocks of different zones are in different slots, and every block is behind a cursor.
LEMMA InvOverlap == PInv => NoOverlap
<1> SUFFICES ASSUME PInv PROVE NoOverlap
  OBVIOUS
<1>1. /\ prim[Low].pos \in Int /\ prim[High].pos \in Int /\ prim[Low].pos <= prim[High].pos
      /\ Stack(Low, prim[Low]) /\ Stack(High, prim[High])
  BY DEF PInv, Ends, Positions
<1>2. ASSUME NEW b \in blocks
      PROVE  /\ b \in [owner : Owners, lo : Nat, hi : Nat] /\ b.lo <= b.hi
             /\ \E e \in Ends : \E i \in 1..Len(prim[e].slots) :
                   /\ Holds(e, prim[e], i, b) /\ b.owner = prim[e].slots[i].owner
                   /\ IF e = Low THEN b.hi <= prim[Low].pos ELSE prim[High].pos <= b.lo
  <2>1. /\ b \in [owner : Owners, lo : Nat, hi : Nat] /\ b.lo <= b.hi
        /\ \E e \in Ends : \E i \in 1..Len(prim[e].slots) : Holds(e, prim[e], i, b)
    BY DEF PInv, BlocksInSlots
  <2>2. PICK e \in Ends : \E i \in 1..Len(prim[e].slots) : Holds(e, prim[e], i, b)
    BY <2>1
  <2>4. PICK i \in 1..Len(prim[e].slots) : Holds(e, prim[e], i, b)
    BY <2>2
  <2>3. IF e = Low THEN b.hi <= prim[Low].pos ELSE prim[High].pos <= b.lo
    BY <2>1, <2>4, HeldInside DEF PInv, Ends
  <2> QED
    BY <2>1, <2>3, <2>4 DEF Holds
<1>3. InUseIsTaken
  BY <1>1, <1>2 DEF InUseIsTaken
<1>4. ASSUME NEW b \in blocks, NEW c \in blocks, b.owner # c.owner PROVE ~Overlap(b, c)
  <2>1. PICK d \in Ends : \E i \in 1..Len(prim[d].slots) :
            /\ Holds(d, prim[d], i, b) /\ b.owner = prim[d].slots[i].owner
            /\ IF d = Low THEN b.hi <= prim[Low].pos ELSE prim[High].pos <= b.lo
    BY <1>2
  <2>1a. PICK i \in 1..Len(prim[d].slots) :
            /\ Holds(d, prim[d], i, b) /\ b.owner = prim[d].slots[i].owner
            /\ IF d = Low THEN b.hi <= prim[Low].pos ELSE prim[High].pos <= b.lo
    BY <2>1
  <2>2. PICK e \in Ends : \E j \in 1..Len(prim[e].slots) :
            /\ Holds(e, prim[e], j, c) /\ c.owner = prim[e].slots[j].owner
            /\ IF e = Low THEN c.hi <= prim[Low].pos ELSE prim[High].pos <= c.lo
    BY <1>2
  <2>2a. PICK j \in 1..Len(prim[e].slots) :
            /\ Holds(e, prim[e], j, c) /\ c.owner = prim[e].slots[j].owner
            /\ IF e = Low THEN c.hi <= prim[Low].pos ELSE prim[High].pos <= c.lo
    BY <2>2
  <2>3. /\ b.lo \in Nat /\ b.hi \in Nat /\ c.lo \in Nat /\ c.hi \in Nat
        /\ b \in [owner : Owners, lo : Nat, hi : Nat]
        /\ c \in [owner : Owners, lo : Nat, hi : Nat]
    BY <1>2
  <2>4. CASE d # e
    BY SMTT(30), <1>1, <2>1a, <2>2a, <2>3, <2>4 DEF Overlap, Ends, Low, High
  <2>5. CASE d = e
    <3>1. i # j /\ i \in Nat /\ j \in Nat /\ Stack(d, prim[d])
      BY <1>4, <2>1a, <2>2a, <2>5 DEF PInv
    <3>2. CASE i < j
      BY <2>1a, <2>2a, <2>3, <2>5, <3>1, <3>2, HeldApart
    <3>3. CASE j < i
      BY <2>1a, <2>2a, <2>3, <2>5, <3>1, <3>3, HeldApart
    <3> QED
      BY <3>1, <3>2, <3>3
  <2> QED
    BY <2>4, <2>5
<1> QED
  BY <1>3, <1>4 DEF NoOverlap

\* A block lies in the region, as its slot does.
LEMMA InvTypeOK == PInv => TypeOK
<1> SUFFICES ASSUME PInv PROVE TypeOK
  OBVIOUS
<1>1. open \in [owner : Owners \cup {NoOwner}, end : Ends]
  BY DEF PInv, OpenIsLast, Closed, Ends, Low
<1>2. ASSUME NEW b \in blocks PROVE b \in [owner : Owners, lo : Positions, hi : Positions]
  <2>1. /\ b \in [owner : Owners, lo : Nat, hi : Nat] /\ b.lo <= b.hi
        /\ \E e \in Ends : \E i \in 1..Len(prim[e].slots) : Holds(e, prim[e], i, b)
    BY DEF PInv, BlocksInSlots
  <2>2. PICK e \in Ends : \E i \in 1..Len(prim[e].slots) : Holds(e, prim[e], i, b)
    BY <2>1
  <2>3. PICK i \in 1..Len(prim[e].slots) : Holds(e, prim[e], i, b)
    BY <2>2
  <2>4. Stack(e, prim[e])
    BY DEF PInv
  <2>5. b.hi <= Size
    <3>1. /\ prim[e].pos \in Nat /\ prim[e].pos <= Size
          /\ prim[e].slots[i].pos \in Nat /\ prim[e].slots[i].pos <= Size
      BY <2>4, StackFields
    <3>2. CASE e = Low
      <4>1. b.hi <= prim[e].pos
        BY <2>1, <2>3, <2>4, <3>2, HeldInside
      <4> QED
        BY <2>1, <3>1, <4>1
    <3>3. CASE e # Low
      BY <2>1, <2>3, <3>1, <3>3 DEF Holds
    <3> QED
      BY <3>2, <3>3
  <2>6. b.lo \in Positions /\ b.hi \in Positions
    BY <2>1, <2>5 DEF Positions
  <2> QED
    BY <2>1, <2>6
<1> QED
  BY <1>1, <1>2 DEF PInv, ListsFit, TypeOK

\* An empty list has its cursor at the end of the region.
LEMMA InvReclaimed == PInv => Reclaimed
  BY DEF PInv, Reclaimed, Stack, Base

\* Empty lists, the cursors at both ends.
LEMMA InitPInv == Init => PInv
<1> SUFFICES ASSUME Init PROVE PInv
  OBVIOUS
<1>1. \A e \in Ends : /\ prim[e].slots = <<>> /\ prim[e].pos = Base(e)
                      /\ prim[e] \in [pos : Positions, slots : Seq(Slot)]
  BY DEF Init, Base, Positions
<1>2. \A e \in Ends : Stack(e, prim[e])
  BY <1>1 DEF Stack
<1>3. prim[Low].pos <= prim[High].pos
  BY <1>1 DEF Base, Ends, Low, High
<1>4. OneSlotEach /\ ListsFit
  BY <1>1 DEF OneSlotEach, ListsFit
<1> QED
  BY <1>1, <1>2, <1>3, <1>4 DEF PInv, Init, OpenIsLast, BlocksInSlots

-----------------------------------------------------------------------------
(* The steps *)

\* A step that rebuilds the stack of one end leaves the other as it was.
LEMMA OneEnd ==
    ASSUME PInv, NEW e \in Ends, NEW p, Stack(e, p), prim' = [prim EXCEPT ![e] = p]
    PROVE  /\ prim' \in [Ends -> [pos : Positions, slots : Seq(Slot)]]
           /\ prim'[e] = p
           /\ \A d \in Ends : d # e => prim'[d] = prim[d]
           /\ \A d \in Ends : Stack(d, prim'[d])
<1>1. p \in [pos : Positions, slots : Seq(Slot)]
  BY DEF Stack
<1>2. prim \in [Ends -> [pos : Positions, slots : Seq(Slot)]]
  BY DEF PInv
<1>3. /\ prim' \in [Ends -> [pos : Positions, slots : Seq(Slot)]]
      /\ prim'[e] = p /\ \A d \in Ends : d # e => prim'[d] = prim[d]
  BY <1>1, <1>2
<1>4. ASSUME NEW d \in Ends PROVE Stack(d, prim'[d])
  <2>1. CASE d = e
    BY <1>3, <2>1
  <2>2. CASE d # e
    BY <1>3, <2>2 DEF PInv
  <2> QED
    BY <2>1, <2>2
<1> QED
  BY <1>3, <1>4

\* The list with one more slot.
LEMMA Pushed ==
    ASSUME NEW s \in Seq(Slot), NEW x \in Slot
    PROVE  /\ Append(s, x) \in Seq(Slot) /\ Append(s, x) # <<>>
           /\ Len(s) \in Nat /\ Len(Append(s, x)) = Len(s) + 1
           /\ \A i \in 1..Len(s) : Append(s, x)[i] = s[i]
           /\ Append(s, x)[Len(s) + 1] = x
  OBVIOUS

\* A stack with its list, or its cursor, replaced.
LEMMA Replaced ==
    ASSUME NEW p \in [pos : Positions, slots : Seq(Slot)], NEW s, NEW x
    PROVE  /\ [p EXCEPT !.slots = s] = [pos |-> p.pos, slots |-> s]
           /\ [p EXCEPT !.pos = x] = [pos |-> x, slots |-> p.slots]
  OBVIOUS

\* A stack with one more slot.
Grown(p, o) == [pos |-> p.pos, slots |-> Append(p.slots, [owner |-> o, pos |-> p.pos])]

\* A new slot keeps the cursor and takes nothing from the slots below it.
LEMMA PushKeeps ==
    ASSUME NEW e \in Ends, NEW p, Stack(e, p), NEW o \in Owners,
           NEW k, k = Grown(p, o)
    PROVE  /\ Stack(e, k) /\ k.pos = p.pos /\ k.slots # <<>>
           /\ Len(k.slots) = Len(p.slots) + 1
           /\ k.slots[Len(p.slots) + 1].owner = o
           /\ \A i \in 1..Len(p.slots) :
                 /\ k.slots[i] = p.slots[i]
                 /\ \A b : Holds(e, p, i, b) => Holds(e, k, i, b)
<1> DEFINE n == Len(p.slots)
           x == [owner |-> o, pos |-> p.pos]
<1>1. /\ p.slots \in Seq(Slot) /\ n \in Nat /\ p.pos \in Positions
      /\ x \in Slot /\ x.owner = o /\ x.pos = p.pos
  <2>1. p.slots \in Seq(Slot) /\ n \in Nat /\ p.pos \in Nat /\ p.pos <= Size
    BY StackFields
  <2>2. p.pos \in Positions
    BY <2>1 DEF Positions
  <2> QED
    BY <2>1, <2>2 DEF Slot
<1>2. /\ k.slots = Append(p.slots, x) /\ k.pos = p.pos
      /\ k = [pos |-> k.pos, slots |-> k.slots]
  BY DEF Grown
<1> HIDE DEF n, x
<1>3. /\ k.slots \in Seq(Slot) /\ k.slots # <<>> /\ Len(k.slots) = n + 1
      /\ \A i \in 1..n : k.slots[i] = p.slots[i]
      /\ k.slots[n + 1] = x
  <2> DEFINE s == p.slots
  <2>1. s \in Seq(Slot) /\ x \in Slot /\ n = Len(s) /\ k.slots = Append(s, x)
    BY <1>1, <1>2 DEF n
  <2> HIDE DEF s
  <2>2. /\ Append(s, x) \in Seq(Slot) /\ Append(s, x) # <<>> /\ Len(Append(s, x)) = n + 1
        /\ \A i \in 1..n : Append(s, x)[i] = s[i]
        /\ Append(s, x)[n + 1] = x
    BY <2>1, Pushed
  <2> QED
    BY <2>1, <2>2 DEF s
<1>4. ASSUME NEW i \in 1..(n + 1), NEW j \in 1..(n + 1), i < j
      PROVE  Outer(e, k.slots[i].pos, k.slots[j].pos)
  <2>1. i \in 1..n
    BY <1>1, <1>4
  <2>2. CASE j = n + 1
    <3>1. Outer(e, p.slots[i].pos, p.pos)
      BY <2>1, StackOrder DEF n
    <3> QED
      BY <1>1, <1>3, <2>1, <2>2, <3>1
  <2>3. CASE j # n + 1
    <3>1. j \in 1..n
      BY <1>1, <2>3
    <3>2. Outer(e, p.slots[i].pos, p.slots[j].pos)
      BY <1>4, <2>1, <3>1, StackOrder DEF n
    <3> QED
      BY <1>3, <2>1, <3>1, <3>2
  <2> QED
    BY <2>2, <2>3
<1>5. ASSUME NEW i \in 1..(n + 1) PROVE Outer(e, k.slots[i].pos, k.pos)
  <2>1. CASE i = n + 1
    BY <1>1, <1>2, <1>3, <2>1 DEF Outer, Positions
  <2>2. CASE i # n + 1
    <3>1. i \in 1..n
      BY <1>1, <2>2
    <3>2. Outer(e, p.slots[i].pos, p.pos)
      BY <3>1, StackOrder DEF n
    <3> QED
      BY <1>2, <1>3, <3>1, <3>2
  <2> QED
    BY <2>1, <2>2
<1>6. k.slots[1].pos = Base(e)
  <2>1. CASE p.slots = <<>>
    <3>1. n = 0 /\ p.pos = Base(e)
      BY <2>1 DEF n, Stack
    <3> QED
      BY <1>1, <1>3, <3>1
  <2>2. CASE p.slots # <<>>
    <3>1. 1 \in 1..n /\ p.slots[1].pos = Base(e)
      BY <1>1, <2>2 DEF n, Stack
    <3> QED
      BY <1>3, <3>1
  <2> QED
    BY <2>1, <2>2
<1>7. k.slots[Len(k.slots)].owner = o /\ o # NoOwner
  BY <1>1, <1>3
<1>8. Stack(e, k)
  <2>1. k \in [pos : Positions, slots : Seq(Slot)]
    BY <1>1, <1>2, <1>3
  <2> QED
    BY <1>3, <1>4, <1>5, <1>6, <1>7, <2>1 DEF Stack
<1>9. ASSUME NEW i \in 1..n PROVE Limit(k, i) = Limit(p, i)
  <2>1. CASE i = n
    BY <1>1, <1>3, <2>1 DEF Limit, n
  <2>2. CASE i # n
    <3>1. i + 1 \in 1..n /\ i < n /\ i < n + 1
      BY <1>1, <2>2
    <3> QED
      BY <1>3, <3>1 DEF Limit, n
  <2> QED
    BY <2>1, <2>2
<1>10. ASSUME NEW i \in 1..n, NEW b, Holds(e, p, i, b) PROVE Holds(e, k, i, b)
  BY <1>3, <1>9, <1>10 DEF Holds
<1> QED
  BY <1>1, <1>2, <1>3, <1>7, <1>8, <1>10 DEF n

\* PMem_BeginAlloc adds a slot that no zone had.
LEMMA BeginStep ==
    ASSUME PInv, NEW o \in Owners, NEW e \in Ends, BeginAlloc(o, e)
    PROVE  PInv'
<1> DEFINE p == prim[e]
           k == Grown(p, o)
<1>1. /\ prim \in [Ends -> [pos : Positions, slots : Seq(Slot)]]
      /\ \A d \in Ends : Stack(d, prim[d])
  BY DEF PInv
<1>2. prim' = [prim EXCEPT ![e] = k] /\ open' = [owner |-> o, end |-> e] /\ blocks' = blocks
  <2>1. p \in [pos : Positions, slots : Seq(Slot)]
    BY <1>1
  <2>2. [p EXCEPT !.slots = Append(p.slots, [owner |-> o, pos |-> p.pos])] = k
    BY <2>1, Replaced DEF Grown
  <2>3. prim' = [prim EXCEPT ![e] = [p EXCEPT !.slots = Append(p.slots, [owner |-> o, pos |-> p.pos])]]
    BY <1>1 DEF BeginAlloc, PushSlot
  <2> QED
    BY <2>2, <2>3 DEF BeginAlloc, PushSlot
<1>3. \A d \in Ends : \A i \in 1..Len(prim[d].slots) : prim[d].slots[i].owner # o
  <2>1. \A d \in Ends : Len(prim[d].slots) \in Nat /\ prim[d].slots \in Seq(Slot)
    BY <1>1, StackFields
  <2> QED
    BY <2>1 DEF BeginAlloc
<1>4. /\ Stack(e, k) /\ k.pos = p.pos /\ k.slots # <<>>
      /\ Len(p.slots) \in Nat /\ Len(k.slots) = Len(p.slots) + 1
      /\ k.slots[Len(p.slots) + 1].owner = o
      /\ \A i \in 1..Len(p.slots) :
            /\ k.slots[i] = p.slots[i]
            /\ \A b : Holds(e, p, i, b) => Holds(e, k, i, b)
  <2>1. Stack(e, p) /\ Len(p.slots) \in Nat
    BY <1>1, StackFields
  <2> HIDE DEF p
  <2> QED
    BY <2>1, PushKeeps
<1> HIDE DEF k
<1>5. /\ prim' \in [Ends -> [pos : Positions, slots : Seq(Slot)]]
      /\ prim'[e] = k
      /\ \A d \in Ends : d # e => prim'[d] = prim[d]
      /\ \A d \in Ends : Stack(d, prim'[d])
  BY <1>2, <1>4, OneEnd
<1>6. (prim[Low].pos <= prim[High].pos)'
  <2>1. \A d \in Ends : prim'[d].pos = prim[d].pos
    BY <1>4, <1>5
  <2> QED
    BY <2>1 DEF PInv, Ends
<1>6a. ListsFit'
  <2>1. Len(p.slots) < Slots
    BY DEF BeginAlloc, PushSlot
  <2>2. Len(k.slots) <= Slots
    <3> HIDE DEF p
    <3> QED
      BY <1>4, <2>1
  <2>3. ASSUME NEW d \in Ends PROVE Len(prim'[d].slots) <= Slots
    <3>1. CASE d = e
      BY <1>5, <2>2, <3>1
    <3>2. CASE d # e
      BY <1>5, <3>2 DEF PInv, ListsFit
    <3> QED
      BY <3>1, <3>2
  <2> QED
    BY <2>3 DEF ListsFit
<1>7. OneSlotEach'
  <2>1. ASSUME NEW d \in Ends, NEW i \in 1..Len(prim'[d].slots)
        PROVE  \/ d = e /\ i = Len(p.slots) + 1 /\ prim'[d].slots[i].owner = o
               \/ i \in 1..Len(prim[d].slots) /\ prim'[d].slots[i] = prim[d].slots[i]
                  /\ prim[d].slots[i].owner # o
    BY SMTT(30), <1>3, <1>4, <1>5
  <2> SUFFICES ASSUME NEW c \in Ends, NEW d \in Ends,
                      NEW i \in 1..Len(prim'[c].slots), NEW j \in 1..Len(prim'[d].slots),
                      prim'[c].slots[i].owner = prim'[d].slots[j].owner,
                      prim'[c].slots[i].owner # NoOwner
               PROVE  c = d /\ i = j
    BY DEF OneSlotEach
  <2>2. CASE prim'[c].slots[i].owner = o
    <3>1. c = e /\ i = Len(p.slots) + 1 /\ d = e /\ j = Len(p.slots) + 1
      <4>1. prim'[d].slots[j].owner = o
        BY <2>2
      <4> HIDE DEF p
      <4> QED
        BY <2>1, <2>2, <4>1
    <3> QED
      BY <3>1
  <2>3. CASE prim'[c].slots[i].owner # o
    <3>1. /\ i \in 1..Len(prim[c].slots) /\ prim'[c].slots[i] = prim[c].slots[i]
          /\ j \in 1..Len(prim[d].slots) /\ prim'[d].slots[j] = prim[d].slots[j]
      BY <2>1, <2>3
    <3> QED
      BY <3>1 DEF OneSlotEach, PInv
  <2> QED
    BY <2>2, <2>3
<1>8. OpenIsLast'
  <2>1. open'.end = e /\ open'.owner = o /\ open' \in [owner : Owners, end : Ends]
    BY <1>2
  <2> QED
    BY <1>4, <1>5, <2>1 DEF OpenIsLast
<1>9. BlocksInSlots'
  <2> SUFFICES ASSUME NEW b \in blocks
               PROVE  /\ b \in [owner : Owners, lo : Nat, hi : Nat] /\ b.lo <= b.hi
                      /\ \E d \in Ends : \E i \in 1..Len(prim'[d].slots) :
                            Holds(d, prim'[d], i, b)
    BY <1>2 DEF BlocksInSlots
  <2>1. /\ b \in [owner : Owners, lo : Nat, hi : Nat] /\ b.lo <= b.hi
        /\ \E d \in Ends : \E i \in 1..Len(prim[d].slots) : Holds(d, prim[d], i, b)
    BY DEF PInv, BlocksInSlots
  <2>2. PICK d \in Ends : \E i \in 1..Len(prim[d].slots) : Holds(d, prim[d], i, b)
    BY <2>1
  <2>3. PICK i \in 1..Len(prim[d].slots) : Holds(d, prim[d], i, b)
    BY <2>2
  <2>4. i \in 1..Len(prim'[d].slots) /\ Holds(d, prim'[d], i, b)
    <3>1. CASE d = e
      BY <1>4, <1>5, <2>3, <3>1
    <3>2. CASE d # e
      BY <1>5, <2>3, <3>2
    <3> QED
      BY <3>1, <3>2
  <2> QED
    BY <2>1, <2>4
<1> QED
  BY <1>5, <1>6, <1>6a, <1>7, <1>8, <1>9 DEF PInv

\* Moving the cursor inwards gives the room it passes to the last slot.
LEMMA MoveKeeps ==
    ASSUME NEW e \in Ends, NEW p, Stack(e, p), p.slots # <<>>,
           NEW x \in Positions, Outer(e, p.pos, x),
           NEW k, k = [pos |-> x, slots |-> p.slots]
    PROVE  /\ Stack(e, k)
           /\ \A i \in 1..Len(p.slots) :
                 \A b \in [owner : Owners, lo : Nat, hi : Nat] :
                    Holds(e, p, i, b) => Holds(e, k, i, b)
<1> DEFINE n == Len(p.slots)
<1>1. /\ k.slots = p.slots /\ k.pos = x /\ k \in [pos : Positions, slots : Seq(Slot)]
      /\ p.slots \in Seq(Slot) /\ n \in Nat /\ p.pos \in Nat /\ x \in Nat /\ x <= Size
  <2>1. p.slots \in Seq(Slot) /\ n \in Nat /\ p.pos \in Nat
    BY StackFields
  <2>2. x \in Nat /\ x <= Size
    BY DEF Positions
  <2> QED
    BY <2>1, <2>2
<1>2. ASSUME NEW i \in 1..n PROVE Outer(e, p.slots[i].pos, x)
  <2>1. Outer(e, p.slots[i].pos, p.pos)
    BY StackOrder
  <2>2. p.slots[i].pos \in Nat
    BY StackFields
  <2> QED
    BY <1>1, <2>1, <2>2 DEF Outer
<1>3. /\ \A i, j \in 1..n : i < j => Outer(e, p.slots[i].pos, p.slots[j].pos)
      /\ p.slots[1].pos = Base(e) /\ p.slots[n].owner # NoOwner
  BY DEF Stack
<1>4. Stack(e, k)
  BY <1>1, <1>2, <1>3 DEF Stack
<1>5. ASSUME NEW i \in 1..n, NEW b \in [owner : Owners, lo : Nat, hi : Nat],
             Holds(e, p, i, b)
      PROVE  Holds(e, k, i, b)
  <2>1. CASE i < n
    <3>1. Limit(k, i) = Limit(p, i)
      BY <1>1, <2>1 DEF Limit
    <3> QED
      BY <1>1, <1>5, <3>1 DEF Holds
  <2>2. CASE ~(i < n)
    <3>1. Limit(k, i) = x /\ Limit(p, i) = p.pos
      BY <1>1, <2>2 DEF Limit
    <3> QED
      BY <1>1, <1>5, <3>1 DEF Holds, Outer
  <2> QED
    BY <2>1, <2>2
<1> QED
  BY <1>4, <1>5

\* PMem_Alloc puts the block in the last slot.
LEMMA AllocStep ==
    ASSUME PInv, NEW q \in Requests, Alloc(q)
    PROVE  PInv'
<1> DEFINE e == open.end
           p == prim[e]
           n == Len(p.slots)
           k == [pos |-> Block(e, q).pos, slots |-> p.slots]
           new == [owner |-> open.owner, lo |-> Block(e, q).lo, hi |-> Block(e, q).hi]
<1>1. /\ prim \in [Ends -> [pos : Positions, slots : Seq(Slot)]]
      /\ \A d \in Ends : Stack(d, prim[d])
      /\ prim[Low].pos <= prim[High].pos
  BY DEF PInv
<1>2. /\ open \in [owner : Owners, end : Ends] /\ e \in Ends /\ open.owner \in Owners
      /\ p.slots # <<>> /\ p.slots[n].owner = open.owner
  BY DEF PInv, OpenIsLast, Alloc
<1>3. /\ Stack(e, p) /\ n \in Nat /\ n \in 1..n
  BY <1>1, <1>2, StackFields
<1>4. /\ prim[Low].pos \in 0..Size /\ prim[High].pos \in 0..Size
  BY <1>1 DEF Ends, Positions
<1>5. ~OutOfMemory(e, q)
  BY DEF Alloc
<1>6. /\ new.lo \in Nat /\ new.hi \in Nat /\ new.lo <= new.hi
      /\ prim[Low].pos <= new.lo /\ new.hi <= prim[High].pos
      /\ k.pos = IF e = Low THEN new.hi ELSE new.lo
  BY <1>1, <1>2, <1>4, <1>5, BlockFits
<1>7. /\ prim' = [prim EXCEPT ![e] = k] /\ open' = open /\ blocks' = blocks \cup {new}
  <2>1. p \in [pos : Positions, slots : Seq(Slot)]
    BY <1>1, <1>2
  <2>2. prim' = [prim EXCEPT ![e] = [p EXCEPT !.pos = Block(e, q).pos]]
    BY <1>1 DEF Alloc
  <2> QED
    BY <2>1, <2>2, Replaced DEF Alloc
<1>8. new \in [owner : Owners, lo : Nat, hi : Nat] /\ new.owner = open.owner
  BY <1>2, <1>6
<1>9. k.slots = p.slots /\ k = [pos |-> k.pos, slots |-> p.slots]
  OBVIOUS
<1> HIDE DEF k, new
<1>10. k.pos \in Positions /\ Outer(e, p.pos, k.pos)
  BY <1>1, <1>2, <1>4, <1>6 DEF Positions, Outer, Ends, Low, High
<1>11. /\ Stack(e, k)
       /\ \A i \in 1..n : \A b \in [owner : Owners, lo : Nat, hi : Nat] :
             Holds(e, p, i, b) => Holds(e, k, i, b)
  <2> HIDE DEF p, e
  <2> QED
    BY <1>2, <1>3, <1>9, <1>10, MoveKeeps
<1>12. Holds(e, k, n, new)
  <2>1. Limit(k, n) = k.pos
    BY <1>3, <1>9 DEF Limit
  <2>2. p.slots[n].pos \in Nat /\ Outer(e, p.slots[n].pos, p.pos)
    <3> HIDE DEF p, e
    <3> QED
      BY <1>3, StackFields, StackOrder
  <2>3. k.slots[n].pos = p.slots[n].pos /\ k.slots[n].owner = new.owner
    BY <1>2, <1>8, <1>9
  <2>4. CASE e = Low
    <3>1. /\ p.pos = prim[Low].pos /\ p.slots[n].pos <= p.pos /\ k.pos = new.hi
      BY <1>6, <2>2, <2>4 DEF Outer
    <3>2. k.slots[n].pos <= new.lo /\ new.hi <= Limit(k, n)
      <4> HIDE DEF p, e
      <4> QED
        BY SMTT(30), <1>4, <1>6, <2>1, <2>2, <2>3, <3>1
    <3> QED
      BY <2>3, <2>4, <3>2 DEF Holds
  <2>5. CASE e = High
    <3>1. /\ p.pos = prim[High].pos /\ p.pos <= p.slots[n].pos /\ k.pos = new.lo
      BY <1>6, <2>2, <2>5 DEF Outer, Low, High
    <3>2. Limit(k, n) <= new.lo /\ new.hi <= k.slots[n].pos
      <4> HIDE DEF p, e
      <4> QED
        BY <1>4, <1>6, <2>1, <2>2, <2>3, <3>1
    <3> QED
      BY <2>3, <2>5, <3>2 DEF Holds, Low, High
  <2> QED
    BY <1>2, <2>4, <2>5 DEF Ends
<1>13. /\ prim' \in [Ends -> [pos : Positions, slots : Seq(Slot)]]
       /\ prim'[e] = k
       /\ \A d \in Ends : d # e => prim'[d] = prim[d]
       /\ \A d \in Ends : Stack(d, prim'[d])
  BY <1>2, <1>7, <1>11, OneEnd
<1>14. (prim[Low].pos <= prim[High].pos)'
  BY <1>1, <1>2, <1>4, <1>6, <1>13 DEF Ends, Low, High
<1>15. \A d \in Ends : prim'[d].slots = prim[d].slots
  BY <1>9, <1>13
<1>16. OneSlotEach' /\ ListsFit'
  <2>1. ListsFit'
    BY <1>15 DEF ListsFit, PInv
  <2>2. ASSUME NEW c \in Ends, NEW d \in Ends,
               NEW i \in 1..Len(prim'[c].slots), NEW j \in 1..Len(prim'[d].slots)
        PROVE  /\ prim'[c].slots[i].owner = prim'[d].slots[j].owner
               /\ prim'[c].slots[i].owner # NoOwner
               => c = d /\ i = j
    <3>1. prim'[c].slots = prim[c].slots /\ prim'[d].slots = prim[d].slots
      BY <1>15
    <3> QED
      BY <3>1 DEF OneSlotEach, PInv
  <2>3. OneSlotEach'
    <3> HIDE DEF p, e
    <3> QED
      BY <2>2 DEF OneSlotEach
  <2> QED
    BY <2>1, <2>3
<1>17. OpenIsLast'
  BY <1>2, <1>7, <1>15 DEF OpenIsLast, PInv
<1>18. BlocksInSlots'
  <2> SUFFICES ASSUME NEW b \in blocks'
               PROVE  /\ b \in [owner : Owners, lo : Nat, hi : Nat] /\ b.lo <= b.hi
                      /\ \E d \in Ends : \E i \in 1..Len(prim'[d].slots) :
                            Holds(d, prim'[d], i, b)
    BY DEF BlocksInSlots
  <2>1. CASE b = new
    <3>1. n \in 1..Len(prim'[e].slots) /\ Holds(e, prim'[e], n, b)
      BY <1>3, <1>9, <1>12, <1>13, <2>1
    <3> QED
      BY <1>2, <1>6, <1>8, <2>1, <3>1
  <2>2. CASE b \in blocks
    <3>1. /\ b \in [owner : Owners, lo : Nat, hi : Nat] /\ b.lo <= b.hi
          /\ \E d \in Ends : \E i \in 1..Len(prim[d].slots) : Holds(d, prim[d], i, b)
      BY <2>2 DEF PInv, BlocksInSlots
    <3>2. PICK d \in Ends : \E i \in 1..Len(prim[d].slots) : Holds(d, prim[d], i, b)
      BY <3>1
    <3>3. PICK i \in 1..Len(prim[d].slots) : Holds(d, prim[d], i, b)
      BY <3>2
    <3>4. i \in 1..Len(prim'[d].slots) /\ Holds(d, prim'[d], i, b)
      <4>1. CASE d = e
        BY <1>9, <1>11, <1>13, <3>1, <3>3, <4>1
      <4>2. CASE d # e
        BY <1>13, <3>3, <4>2
      <4> QED
        BY <4>1, <4>2
    <3> QED
      BY <3>1, <3>4
  <2> QED
    BY <1>7, <2>1, <2>2
<1> QED
  BY <1>13, <1>14, <1>16, <1>17, <1>18 DEF PInv

\* A slot with its name cleared.
LEMMA SlotFreed ==
    ASSUME NEW x \in Slot
    PROVE  [x EXCEPT !.owner = NoOwner] = [owner |-> NoOwner, pos |-> x.pos]
  BY DEF Slot

\* k is the list s, with cursor x, cut after slot top: every slot above it was free,
\* or slot i0 of o, and the cursor is where the first slot popped was.
CutAt(k, s, x, o, i0, top) ==
    /\ k = [pos |-> IF top < Len(s) THEN s[top + 1].pos ELSE x, slots |-> k.slots]
    /\ k.slots \in Seq(Slot) /\ Len(k.slots) = top
    /\ \A i \in 1..top : /\ k.slots[i].pos = s[i].pos
                         /\ i = i0 => k.slots[i].owner = NoOwner
                         /\ i # i0 => k.slots[i].owner = s[i].owner
    /\ top > 0 => k.slots[top].owner # NoOwner
    /\ \A i \in 1..Len(s) : i > top => s[i].owner \in {o, NoOwner}

\* What DB_FreeXZoneMemory leaves of a list: the slots up to the last that is still
\* a zone's.
LEMMA FreedList ==
    ASSUME NEW s \in Seq(Slot), NEW x, NEW o \in Owners, NEW i0 \in 1..Len(s),
           s[i0].owner = o, \A i \in 1..Len(s) : s[i].owner = o => i = i0,
           NEW k, k = FreeName([pos |-> x, slots |-> s], o)
    PROVE  \E top \in 0..Len(s) : CutAt(k, s, x, o, i0, top)
<1> DEFINE p == [pos |-> x, slots |-> s]
           n == Len(s)
           mine == {i \in DOMAIN p.slots : p.slots[i].owner = o}
           found == CHOOSE i \in mine : \A j \in mine : i <= j
           z == [p.slots EXCEPT ![found].owner = NoOwner]
           taken == {i \in DOMAIN z : z[i].owner # NoOwner}
           top == IF taken = {} THEN 0 ELSE CHOOSE i \in taken : \A j \in taken : j <= i
<1>1. n \in Nat /\ DOMAIN s = 1..n /\ p.slots = s /\ p.pos = x
  OBVIOUS
<1>2. mine = {i0} /\ found = i0
  BY <1>1
<1>3. k = [pos |-> IF top < Len(z) THEN z[top + 1].pos ELSE x, slots |-> SubSeq(z, 1, top)]
  <2>1. mine # {}
    BY <1>2
  <2>2. k = IF mine = {} THEN p
            ELSE [pos |-> IF top < Len(z) THEN z[top + 1].pos ELSE p.pos,
                  slots |-> SubSeq(z, 1, top)]
    BY Zenon DEF FreeName
  <2> HIDE DEF mine, z, top, p
  <2> QED
    BY <1>1, <2>1, <2>2
<1>4. z = [s EXCEPT ![i0] = [s[i0] EXCEPT !.owner = NoOwner]]
  BY <1>1, <1>2
<1> HIDE DEF found, mine, p, z
<1>5. [s[i0] EXCEPT !.owner = NoOwner] = [owner |-> NoOwner, pos |-> s[i0].pos]
  <2>1. s[i0] \in Slot
    BY <1>1
  <2> QED
    BY <2>1, SlotFreed
<1>6. /\ z \in Seq(Slot) /\ Len(z) = n /\ DOMAIN z = 1..n
      /\ \A i \in 1..n : /\ z[i].pos = s[i].pos
                         /\ i = i0 => z[i].owner = NoOwner
                         /\ i # i0 => z[i].owner = s[i].owner
  <2>1. s[i0] \in Slot
    BY <1>1
  <2>2. [owner |-> NoOwner, pos |-> s[i0].pos] \in Slot
    BY <2>1 DEF Slot
  <2>3. z = [s EXCEPT ![i0] = [owner |-> NoOwner, pos |-> s[i0].pos]]
    BY <1>4, <1>5
  <2>4. z \in Seq(Slot) /\ Len(z) = n /\ DOMAIN z = 1..n
    BY <1>1, <2>2, <2>3
  <2>5. \A i \in 1..n : z[i] = IF i = i0 THEN [owner |-> NoOwner, pos |-> s[i0].pos] ELSE s[i]
    BY <1>1, <2>3
  <2> QED
    BY <2>4, <2>5
<1>7. /\ top \in 0..n
      /\ \A i \in 1..n : i > top => z[i].owner = NoOwner
      /\ top > 0 => top \in 1..n /\ z[top].owner # NoOwner
  <2>1. CASE taken = {}
    BY <1>1, <1>6, <2>1
  <2>2. CASE taken # {}
    <3>1. taken \in SUBSET (1..n)
      BY <1>6
    <3>2. \E m \in taken : \A j \in taken : j <= m
      <4> HIDE DEF taken
      <4> QED
        BY <1>1, <2>2, <3>1, GreatestOf
    <3>3. top \in taken /\ \A j \in taken : j <= top
      <4> HIDE DEF taken
      <4> QED
        BY <2>2, <3>2
    <3> HIDE DEF top
    <3> QED
      BY <1>1, <1>6, <3>1, <3>3
  <2> QED
    BY <2>1, <2>2
<1> HIDE DEF taken, top
<1>8. /\ SubSeq(z, 1, top) \in Seq(Slot) /\ Len(SubSeq(z, 1, top)) = top
      /\ \A i \in 1..top : SubSeq(z, 1, top)[i] = z[i]
  BY <1>1, <1>6, <1>7
<1>9. k.slots = SubSeq(z, 1, top) /\ k.pos = IF top < n THEN s[top + 1].pos ELSE x
  <2>1. top < n => top + 1 \in 1..n
    BY <1>1, <1>7
  <2>2. top < n => z[top + 1].pos = s[top + 1].pos
    BY <1>6, <2>1
  <2> QED
    BY <1>3, <1>6, <2>2
<1>10. k = [pos |-> IF top < n THEN s[top + 1].pos ELSE x, slots |-> k.slots]
  BY <1>3, <1>9
<1>11. \A i \in 1..n : i > top => s[i].owner \in {o, NoOwner}
  BY <1>6, <1>7
<1>12. top > 0 => SubSeq(z, 1, top)[top].owner # NoOwner
  BY <1>1, <1>7, <1>8
<1>13. ASSUME NEW i \in 1..top
       PROVE  /\ k.slots[i].pos = s[i].pos
              /\ i = i0 => k.slots[i].owner = NoOwner
              /\ i # i0 => k.slots[i].owner = s[i].owner
  <2>1. i \in 1..n
    BY <1>1, <1>7
  <2>2. k.slots[i] = z[i]
    BY <1>8, <1>9
  <2> QED
    BY <1>6, <2>1, <2>2
<1>14. CutAt(k, s, x, o, i0, top)
  BY <1>8, <1>9, <1>10, <1>11, <1>12, <1>13 DEF CutAt
<1> QED
  BY <1>7, <1>14

\* A free gives back the slots at the top that nobody has, and no slot below them
\* changes hands or size, but the one that is freed.
LEMMA FreeKeeps ==
    ASSUME NEW e \in Ends, NEW p, Stack(e, p), NEW o \in Owners, NEW i0 \in 1..Len(p.slots),
           p.slots[i0].owner = o, \A i \in 1..Len(p.slots) : p.slots[i].owner = o => i = i0,
           NEW k, k = FreeName(p, o)
    PROVE  /\ Stack(e, k) /\ Outer(e, k.pos, p.pos)
           /\ Len(k.slots) \in Nat /\ Len(k.slots) <= Len(p.slots)
           /\ \A i \in 1..Len(k.slots) :
                 k.slots[i].owner = NoOwner \/ k.slots[i].owner = p.slots[i].owner
           /\ \A i \in 1..Len(p.slots) :
                 \A b \in [owner : Owners, lo : Nat, hi : Nat] :
                    Holds(e, p, i, b) /\ b.owner # o
                        => i \in 1..Len(k.slots) /\ Holds(e, k, i, b)
<1> DEFINE s == p.slots
           n == Len(s)
<1>1. /\ s \in Seq(Slot) /\ n \in Nat /\ p.pos \in Positions
      /\ p = [pos |-> p.pos, slots |-> s]
      /\ \A i \in 1..n : s[i].pos \in Positions
  <2>1. p \in [pos : Positions, slots : Seq(Slot)]
    BY DEF Stack
  <2>2. n \in Nat /\ \A i \in 1..n : s[i] \in Slot
    BY StackFields
  <2> QED
    BY <2>1, <2>2 DEF Slot
<1>2. /\ \A i, j \in 1..n : i < j => Outer(e, s[i].pos, s[j].pos)
      /\ \A i \in 1..n : Outer(e, s[i].pos, p.pos)
  BY StackOrder
<1>3. n > 0 /\ s[1].pos = Base(e)
  <2>1. n > 0 /\ s # <<>>
    BY <1>1
  <2> QED
    BY <2>1 DEF Stack
<1>4a. PICK top \in 0..n : CutAt(k, s, p.pos, o, i0, top)
  <2>1. /\ s[i0].owner = o /\ \A i \in 1..n : s[i].owner = o => i = i0
        /\ k = FreeName([pos |-> p.pos, slots |-> s], o) /\ i0 \in 1..n
    BY <1>1
  <2> HIDE DEF s
  <2> QED
    BY <1>1, <2>1, FreedList
<1>4. /\ k = [pos |-> IF top < n THEN s[top + 1].pos ELSE p.pos, slots |-> k.slots]
      /\ k.slots \in Seq(Slot) /\ Len(k.slots) = top
      /\ \A i \in 1..top : /\ k.slots[i].pos = s[i].pos
                           /\ i = i0 => k.slots[i].owner = NoOwner
                           /\ i # i0 => k.slots[i].owner = s[i].owner
      /\ top > 0 => k.slots[top].owner # NoOwner
      /\ \A i \in 1..n : i > top => s[i].owner \in {o, NoOwner}
  BY <1>4a DEF CutAt
<1> HIDE DEF s, n
<1>5. k.pos = IF top < n THEN s[top + 1].pos ELSE p.pos
  BY <1>4
<1>6. k.pos \in Positions /\ Outer(e, k.pos, p.pos)
  <2>1. CASE top < n
    <3>1. top + 1 \in 1..n
      BY <1>1, <2>1
    <3> QED
      BY <1>1, <1>2, <1>5, <2>1, <3>1
  <2>2. CASE ~(top < n)
    BY <1>1, <1>5, <2>2 DEF Outer, Positions
  <2> QED
    BY <2>1, <2>2
<1>7. ASSUME NEW i \in 1..top PROVE i \in 1..n /\ Outer(e, s[i].pos, k.pos)
  <2>1. i \in 1..n
    BY <1>1
  <2>2. CASE top < n
    <3>1. top + 1 \in 1..n /\ i < top + 1
      BY <1>1, <2>2
    <3> QED
      BY <1>2, <1>5, <2>1, <2>2, <3>1
  <2>3. CASE ~(top < n)
    BY <1>2, <1>5, <2>1, <2>3
  <2> QED
    BY <2>1, <2>2, <2>3
<1>8. Stack(e, k)
  <2>1. k \in [pos : Positions, slots : Seq(Slot)]
    BY <1>4, <1>5, <1>6
  <2>2. \A i, j \in 1..top : i < j => Outer(e, k.slots[i].pos, k.slots[j].pos)
    BY SMTT(30), <1>2, <1>4, <1>7
  <2>3. \A i \in 1..top : Outer(e, k.slots[i].pos, k.pos)
    BY <1>4, <1>7
  <2>4. CASE k.slots = <<>>
    <3>1. top = 0
      BY <1>4, <2>4
    <3>2. k.pos = Base(e)
      BY <1>1, <1>3, <1>5, <3>1
    <3> QED
      BY <1>4, <2>1, <2>2, <2>3, <2>4, <3>2 DEF Stack
  <2>5. CASE k.slots # <<>>
    <3>1. top > 0 /\ 1 \in 1..top
      BY <1>1, <1>4, <2>5
    <3>2. k.slots[1].pos = Base(e) /\ k.slots[top].owner # NoOwner
      BY <1>3, <1>4, <3>1
    <3> QED
      BY <1>4, <2>1, <2>2, <2>3, <2>5, <3>2 DEF Stack
  <2> QED
    BY <2>4, <2>5
<1>9. ASSUME NEW i \in 1..n, NEW b \in [owner : Owners, lo : Nat, hi : Nat],
             Holds(e, p, i, b), b.owner # o
      PROVE  i \in 1..top /\ Holds(e, k, i, b)
  <2>1. s[i].owner = b.owner /\ b.owner \in Owners
    BY <1>9 DEF Holds, s
  <2>2. i \in 1..top /\ i # i0
    <3>1. ~(i > top)
      BY <1>4, <1>9, <2>1
    <3>2. i # i0
      BY <1>9, <2>1 DEF s
    <3> QED
      BY <1>1, <3>1, <3>2
  <2>3. k.slots[i].pos = s[i].pos /\ k.slots[i].owner = s[i].owner
    BY <1>4, <2>2
  <2>4. Limit(k, i) = Limit(p, i)
    <3>1. Limit(p, i) = IF i < n THEN s[i + 1].pos ELSE p.pos
      BY DEF Limit, s, n
    <3>2. Limit(k, i) = IF i < top THEN k.slots[i + 1].pos ELSE k.pos
      BY <1>4 DEF Limit
    <3>3. CASE i < top
      <4>1. i + 1 \in 1..top /\ i < n
        BY <1>1, <2>2, <3>3
      <4> QED
        BY <1>4, <3>1, <3>2, <3>3, <4>1
    <3>4. CASE i = top
      BY <1>1, <1>5, <3>1, <3>2, <3>4
    <3> QED
      BY <2>2, <3>3, <3>4
  <2> QED
    BY <1>9, <2>2, <2>3, <2>4 DEF Holds, s
<1>10. \A i \in 1..top : k.slots[i].owner = NoOwner \/ k.slots[i].owner = s[i].owner
  BY <1>4
<1> QED
  BY <1>1, <1>4, <1>6, <1>8, <1>9, <1>10 DEF s, n

\* DB_FreeXZoneMemory takes the zone's blocks and nobody else's.
LEMMA FreeStep ==
    ASSUME PInv, NEW o \in Owners, NEW e \in Ends, Free(o, e)
    PROVE  PInv'
<1> DEFINE p == prim[e]
           k == FreeName(p, o)
<1>1. /\ prim \in [Ends -> [pos : Positions, slots : Seq(Slot)]]
      /\ \A d \in Ends : Stack(d, prim[d])
      /\ prim[Low].pos <= prim[High].pos
  BY DEF PInv
<1>2. /\ prim' = [prim EXCEPT ![e] = k] /\ open' = open /\ open = Closed
      /\ blocks' = {b \in blocks : b.owner # o}
  BY <1>1 DEF Free, FreeXZoneMemory
<1>3. PICK i0 \in 1..Len(p.slots) : p.slots[i0].owner = o
  <2>1. p.slots \in Seq(Slot)
    BY <1>1
  <2> QED
    BY <2>1 DEF Free
<1>4. \A i \in 1..Len(p.slots) : p.slots[i].owner = o => i = i0
  BY <1>3 DEF PInv, OneSlotEach
<1>5. /\ Stack(e, k) /\ Outer(e, k.pos, p.pos)
      /\ Len(k.slots) \in Nat /\ Len(p.slots) \in Nat /\ Len(k.slots) <= Len(p.slots)
      /\ \A i \in 1..Len(k.slots) :
            k.slots[i].owner = NoOwner \/ k.slots[i].owner = p.slots[i].owner
      /\ \A i \in 1..Len(p.slots) :
            \A b \in [owner : Owners, lo : Nat, hi : Nat] :
               Holds(e, p, i, b) /\ b.owner # o
                   => i \in 1..Len(k.slots) /\ Holds(e, k, i, b)
  <2>1. Stack(e, p)
    BY <1>1
  <2> HIDE DEF p
  <2> QED
    BY <1>3, <1>4, <2>1, FreeKeeps, StackFields
<1> HIDE DEF k
<1>6. /\ prim' \in [Ends -> [pos : Positions, slots : Seq(Slot)]]
      /\ prim'[e] = k
      /\ \A d \in Ends : d # e => prim'[d] = prim[d]
      /\ \A d \in Ends : Stack(d, prim'[d])
  BY <1>2, <1>5, OneEnd
<1>7. (prim[Low].pos <= prim[High].pos)'
  <2>1. \A d \in Ends : prim[d].pos \in Int /\ prim'[d].pos \in Int
    BY <1>1, <1>6, StackFields
  <2>2. \A d \in Ends : Outer(d, prim'[d].pos, prim[d].pos)
    BY <1>5, <1>6, <2>1 DEF Outer
  <2> QED
    BY <1>1, <2>1, <2>2 DEF Outer, Ends, Low, High
<1>7a. ListsFit'
  <2>1. Len(p.slots) <= Slots
    BY DEF PInv, ListsFit
  <2>2. Len(k.slots) <= Slots
    <3> HIDE DEF p
    <3> QED
      BY <1>5, <2>1
  <2>3. ASSUME NEW d \in Ends PROVE Len(prim'[d].slots) <= Slots
    <3>1. CASE d = e
      BY <1>6, <2>2, <3>1
    <3>2. CASE d # e
      BY <1>6, <3>2 DEF PInv, ListsFit
    <3> QED
      BY <3>1, <3>2
  <2> QED
    BY <2>3 DEF ListsFit
<1>8. ASSUME NEW d \in Ends, NEW i \in 1..Len(prim'[d].slots)
      PROVE  \/ prim'[d].slots[i].owner = NoOwner
             \/ /\ i \in 1..Len(prim[d].slots)
                /\ prim'[d].slots[i].owner = prim[d].slots[i].owner
  <2>1. CASE d = e
    BY <1>5, <1>6, <2>1
  <2>2. CASE d # e
    BY <1>6, <2>2
  <2> QED
    BY <2>1, <2>2
<1>9. OneSlotEach'
  <2>1. ASSUME NEW c \in Ends, NEW d \in Ends,
               NEW i \in 1..Len(prim'[c].slots), NEW j \in 1..Len(prim'[d].slots)
        PROVE  /\ prim'[c].slots[i].owner = prim'[d].slots[j].owner
               /\ prim'[c].slots[i].owner # NoOwner
               => c = d /\ i = j
    <3> SUFFICES ASSUME prim'[c].slots[i].owner = prim'[d].slots[j].owner,
                        prim'[c].slots[i].owner # NoOwner
                 PROVE  c = d /\ i = j
      OBVIOUS
    <3>1. /\ i \in 1..Len(prim[c].slots) /\ j \in 1..Len(prim[d].slots)
          /\ prim[c].slots[i].owner = prim[d].slots[j].owner
          /\ prim[c].slots[i].owner # NoOwner
      BY <1>8
    <3> QED
      BY <3>1 DEF OneSlotEach, PInv
  <2> HIDE DEF p
  <2> QED
    BY <2>1 DEF OneSlotEach
<1>10. OpenIsLast'
  BY <1>2 DEF OpenIsLast
<1>11. BlocksInSlots'
  <2> SUFFICES ASSUME NEW b \in blocks'
               PROVE  /\ b \in [owner : Owners, lo : Nat, hi : Nat] /\ b.lo <= b.hi
                      /\ \E d \in Ends : \E i \in 1..Len(prim'[d].slots) :
                            Holds(d, prim'[d], i, b)
    BY DEF BlocksInSlots
  <2>1. b \in blocks /\ b.owner # o
    BY <1>2
  <2>2. /\ b \in [owner : Owners, lo : Nat, hi : Nat] /\ b.lo <= b.hi
        /\ \E d \in Ends : \E i \in 1..Len(prim[d].slots) : Holds(d, prim[d], i, b)
    BY <2>1 DEF PInv, BlocksInSlots
  <2>3. PICK d \in Ends : \E i \in 1..Len(prim[d].slots) : Holds(d, prim[d], i, b)
    BY <2>2
  <2>4. PICK i \in 1..Len(prim[d].slots) : Holds(d, prim[d], i, b)
    BY <2>3
  <2>5. i \in 1..Len(prim'[d].slots) /\ Holds(d, prim'[d], i, b)
    <3>1. CASE d = e
      BY <1>5, <1>6, <2>1, <2>2, <2>4, <3>1
    <3>2. CASE d # e
      BY <1>6, <2>4, <3>2
    <3> QED
      BY <3>1, <3>2
  <2> QED
    BY <2>2, <2>5
<1> QED
  BY <1>6, <1>7, <1>7a, <1>9, <1>10, <1>11 DEF PInv

\* The invariant is preserved by every step.
LEMMA StepPInv == PInv /\ [Next]_vars => PInv'
<1> SUFFICES ASSUME PInv, [Next]_vars PROVE PInv'
  OBVIOUS
<1>1. ASSUME NEW o \in Owners, NEW e \in Ends, BeginAlloc(o, e) PROVE PInv'
  BY <1>1, BeginStep
<1>2. ASSUME NEW o \in Owners, NEW e \in Ends, Free(o, e) PROVE PInv'
  BY <1>2, FreeStep
<1>3. ASSUME NEW q \in Requests, Alloc(q) PROVE PInv'
  BY <1>3, AllocStep
<1>4. CASE EndAlloc
  <2>1. prim' = prim /\ blocks' = blocks /\ open' = Closed
    BY <1>4 DEF EndAlloc
  <2>2. OpenIsLast'
    BY <2>1 DEF OpenIsLast, Closed
  <2>3. OneSlotEach' /\ ListsFit' /\ BlocksInSlots'
    BY <2>1 DEF PInv, OneSlotEach, ListsFit, BlocksInSlots
  <2> QED
    BY <2>1, <2>2, <2>3 DEF PInv
<1>5. CASE UNCHANGED vars
  BY <1>5 DEF vars, PInv, ListsFit, OneSlotEach, OpenIsLast, BlocksInSlots
<1> QED
  BY <1>1, <1>2, <1>3, <1>4, <1>5 DEF Next

-----------------------------------------------------------------------------
\* Cursors stay in the region and lists in their table: TypeOK.
THEOREM TypeCorrect == Spec => []TypeOK
  BY InitPInv, StepPInv, InvTypeOK, PTL DEF Spec

\* PMem_Alloc never gives out memory of a zone that is loaded: for a region of any
\* size, any zones, and any requests that are less than half of the address space.
THEOREM NeverHandedOutTwice == Spec => []NoOverlap
  BY InitPInv, StepPInv, InvOverlap, PTL DEF Spec

\* The holes of DB_FreeXZoneMemory do not last: with its last zone freed an end has
\* all of its memory back, whatever the order they were freed in.
THEOREM MemoryComesBack == Spec => []Reclaimed
  BY InitPInv, StepPInv, InvReclaimed, PTL DEF Spec
=============================================================================
