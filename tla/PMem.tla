-------------------------------- MODULE PMem ---------------------------------
(***************************************************************************)
(* The physical-memory stack that holds the data of the loaded zones:      *)
(* PMem_Init and PMem_Alloc (PatchT4Mem.cpp:173-222) and DB_FreeXZoneMemory*)
(* (PatchT4Load.cpp:22-61).  Two cursors, low going up and high going      *)
(* down, bound one region; each has the list of the zones that allocate    *)
(* from it, with the cursor as it was before their first block.  Zones are *)
(* freed in any order: the space below a zone that is still there waits.   *)
(*                                                                         *)
(* PMem_BeginAlloc and PMem_EndAlloc are the engine's; they are modelled   *)
(* from the slots DB_FreeXZoneMemory reads.                                *)
(***************************************************************************)
EXTENDS Integers, FiniteSets, Sequences, SequencesExt

CONSTANTS
    Owners,      \* zone names
    NoOwner,     \* NULL, the name of a slot that was freed
    Size,        \* kPMemSize, 2^30
    Word,        \* 2^32: cursors are unsigned int, the shortage an int
    Requests,    \* [size, alignment] asked of PMem_Alloc
    Slots        \* entries of a list, 32

ASSUME PMemAssumption ==
    /\ NoOwner \notin Owners
    /\ Size \in Nat /\ Word \in Nat /\ Slots \in Nat /\ 2 * Size <= Word
    /\ \A q \in Requests : /\ q.size \in Nat /\ q.alignment \in Nat \ {0}
                           /\ 2 * (q.size + q.alignment) <= Word

VARIABLES
    prim,     \* g_mem->prim[0..1]: the cursor and the list of slots
    open,     \* the zone being allocated for, and from which end
    blocks    \* history: the blocks handed out to zones not yet freed

vars == <<prim, open, blocks>>

Low == 0
High == 1
Ends == {Low, High}
Closed == [owner |-> NoOwner, end |-> Low]

\* PMem_Init
Init ==
    /\ prim = [e \in Ends |-> [pos |-> IF e = High THEN Size ELSE 0, slots |-> <<>>]]
    /\ open = Closed
    /\ blocks = {}

\* (int) of an unsigned value
Signed(x) == LET u == x % Word IN IF 2 * u < Word THEN u ELSE u - Word

\* x & ~(alignment - 1)
AlignDown(x, alignment) == (x \div alignment) * alignment

\* The block PMem_Alloc would give, with the bytes that are missing for it.
LowBlock(q) ==
    LET lo == AlignDown((prim[Low].pos + q.alignment - 1) % Word, q.alignment)
        hi == (lo + q.size) % Word
    IN  [lo |-> lo, hi |-> hi, pos |-> hi, over |-> Signed(hi - prim[High].pos)]

HighBlock(q) ==
    LET lo == AlignDown((prim[High].pos - q.size) % Word, q.alignment)
    IN  [lo |-> lo, hi |-> (lo + q.size) % Word, pos |-> lo,
         over |-> Signed(prim[Low].pos - lo)]

Block(end, q) == IF end = Low THEN LowBlock(q) ELSE HighBlock(q)

\* What Sys_OutOfMemError is raised for.
OutOfMemory(end, q) == Block(end, q).over > 0

PushSlot(o, end) ==
    /\ Len(prim[end].slots) < Slots
    /\ open' = [owner |-> o, end |-> end]
    /\ prim' = [prim EXCEPT ![end].slots = Append(@, [owner |-> o, pos |-> prim[end].pos])]
    /\ UNCHANGED blocks

\* The engine begins an allocation when none is under way, and once for a zone.
BeginAlloc(o, end) ==
    /\ open = Closed
    /\ \A e \in Ends : \A i \in DOMAIN prim[e].slots : prim[e].slots[i].owner # o
    /\ PushSlot(o, end)

\* PMem_Alloc; when there is no room for it the process ends.
Alloc(q) ==
    /\ open # Closed
    /\ ~OutOfMemory(open.end, q)
    /\ LET b == Block(open.end, q)
       IN  /\ prim' = [prim EXCEPT ![open.end].pos = b.pos]
           /\ blocks' = blocks \cup {[owner |-> open.owner, lo |-> b.lo, hi |-> b.hi]}
    /\ UNCHANGED open

EndAlloc ==
    /\ open # Closed
    /\ open' = Closed
    /\ UNCHANGED <<prim, blocks>>

\* A free that pops one slot at most, and leaves the holes below it.
FreeOne(p, o) ==
    LET n == Len(p.slots)
        slots == [i \in 1..n |-> IF p.slots[i].owner = o THEN [p.slots[i] EXCEPT !.owner = NoOwner]
                                 ELSE p.slots[i]]
    IN  IF n > 0 /\ slots[n].owner = NoOwner
        THEN [pos |-> slots[n].pos, slots |-> SubSeq(slots, 1, n - 1)]
        ELSE [p EXCEPT !.slots = slots]

\* A free that takes the cursor back to the slot it frees.
FreeDown(p, o) ==
    LET mine == {i \in DOMAIN p.slots : p.slots[i].owner = o}
        found == CHOOSE i \in mine : \A j \in mine : i <= j
    IN  IF mine = {} THEN p
        ELSE [pos |-> p.slots[found].pos, slots |-> SubSeq(p.slots, 1, found - 1)]

\* Name the slot free, and pop what is free at the top, holes included.
FreeName(p, o) ==
    LET mine == {i \in DOMAIN p.slots : p.slots[i].owner = o}
        found == CHOOSE i \in mine : \A j \in mine : i <= j
        slots == [p.slots EXCEPT ![found].owner = NoOwner]
        taken == {i \in DOMAIN slots : slots[i].owner # NoOwner}
        top == IF taken = {} THEN 0 ELSE CHOOSE i \in taken : \A j \in taken : j <= i
    IN  IF mine = {} THEN p
        ELSE [pos |-> IF top < Len(slots) THEN slots[top + 1].pos ELSE p.pos,
              slots |-> SubSeq(slots, 1, top)]

\* DB_FreeXZoneMemory(end, o), which looks at neither of the conditions of Free.
FreeXZoneMemory(o, end) ==
    /\ prim' = [prim EXCEPT ![end] = FreeName(@, o)]
    /\ blocks' = {b \in blocks : b.owner # o}
    /\ UNCHANGED open

\* The loader frees the memory of a zone that has some, between allocations.
Free(o, end) ==
    /\ open = Closed
    /\ \E i \in DOMAIN prim[end].slots : prim[end].slots[i].owner = o
    /\ FreeXZoneMemory(o, end)

Next ==
    \/ \E o \in Owners, end \in Ends : BeginAlloc(o, end) \/ Free(o, end)
    \/ \E q \in Requests : Alloc(q)
    \/ EndAlloc

Spec == Init /\ [][Next]_vars

-----------------------------------------------------------------------------
Positions == 0..Size
Slot == [owner : Owners \cup {NoOwner}, pos : Positions]

TypeOK ==
    /\ prim \in [Ends -> [pos : Positions, slots : Seq(Slot)]]
    /\ \A e \in Ends : Len(prim[e].slots) <= Slots
    /\ open \in [owner : Owners \cup {NoOwner}, end : Ends]
    /\ blocks \subseteq [owner : Owners, lo : Positions, hi : Positions]

Overlap(b, c) == b.lo < c.hi /\ c.lo < b.hi

\* Every block lies on its side of the cursor it came from.
InUseIsTaken ==
    /\ prim[Low].pos <= prim[High].pos
    /\ \A b \in blocks : b.lo <= b.hi /\ (b.hi <= prim[Low].pos \/ prim[High].pos <= b.lo)

\* No byte belongs to two zones, nor to a zone and what is still to be handed out,
\* however loads and frees were ordered and however large a request was: the memory
\* of a zone that is still loaded is never handed out again.
NoOverlap ==
    /\ InUseIsTaken
    /\ \A b, c \in blocks : b.owner # c.owner => ~Overlap(b, c)

\* A hole is only temporary: the last slot is never free, and when the last zone of an
\* end goes its cursor is back where PMem_Init put it.
Reclaimed ==
    \A e \in Ends : LET slots == prim[e].slots IN
        IF slots = <<>> THEN prim[e].pos = IF e = High THEN Size ELSE 0
        ELSE slots[Len(slots)].owner # NoOwner

=============================================================================
