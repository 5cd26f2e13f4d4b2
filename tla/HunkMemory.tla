------------------------------ MODULE HunkMemory ------------------------------
(***************************************************************************)
(* The hunk (PatchT4Mem.cpp:34-161, 227-261): temporary memory at both     *)
(* ends of one reserved region, above what is permanent there, and a       *)
(* HunkUser, a growing chain of reservations filled from the bottom.       *)
(* Either commits the pages it moves into, and temporary memory gives back *)
(* the pages it moves out of.                                              *)
(*                                                                         *)
(* The two ends know of each other only by the sum of their cursors, in    *)
(* bytes, while pages are committed and given back whole; and a request    *)
(* that fails has moved its cursor already.                                *)
(***************************************************************************)
EXTENDS Integers, Sequences, SequencesExt

CONSTANTS
    Page,          \* 0x1000
    Align,         \* 0x10: rounding of a block, and the size of hunkHeader_t
    Total,         \* s_hunkTotal
    LowMarks,      \* where permanent memory ends at the low side,
    HighMarks,     \* and at the high side, when the game has started
    Sizes,         \* requests
    UserSize,      \* maxSize of the HunkUser
    UserHeader,    \* sizeof(HunkUser)
    UserSizes,     \* requests, 0 among them
    UserAligns,    \* their alignments
    MaxReserved    \* bound on the chain of a HunkUser

AlignUp(x, a) == ((x + a - 1) \div a) * a

ASSUME HunkAssumption ==
    /\ {Page, Align, Total, UserSize} \subseteq Nat \ {0}
    /\ Page % Align = 0 /\ Total % Page = 0 /\ UserSize % Page = 0
    /\ UserAligns \subseteq {a \in 1..Page : Page % a = 0}
    /\ LowMarks \cup HighMarks \cup Sizes \cup UserSizes \subseteq Nat
    /\ \A l \in LowMarks, h \in HighMarks : l + h <= Total
    /\ UserHeader \in 1..(Page - 1) /\ MaxReserved \in Nat \ {0}
    \* A request that no reservation holds makes Hunk_UserAlloc reserve for ever.
    /\ \A s \in UserSizes, a \in UserAligns : AlignUp(UserHeader, a) + s <= UserSize

VARIABLES
    low,       \* hunk_low: permanent, temp
    high,      \* hunk_high: permanent, temp
    pages,     \* pages of the region that are committed
    lowBlocks, \* headers of the blocks at the low side, in the order of the stack
    highLive,  \* (history) bytes in use at the high side
    dropped,   \* an ERR_DROP is under way
    user,      \* the HunkUser: fixed, and its chain of reservations
    fatal      \* the error that ends the process, or "no"

vars == <<low, high, pages, lowBlocks, highLive, dropped, user, fatal>>
flat == <<low, high, pages, lowBlocks, highLive, dropped>>

PageDown(p) == (p \div Page) * Page
PageUp(p) == AlignUp(p, Page)

\* The pages of lo..hi-1, both on page boundaries.
PagesOf(lo, hi) == (lo \div Page)..((hi \div Page) - 1)

\* Hunk_UserCreate (external): a reservation with its first page committed.
NewReservation == [pos |-> UserHeader, locked |-> Page]

Init ==
    /\ \E l \in LowMarks, h \in HighMarks :
         /\ low = [permanent |-> l, temp |-> l]
         /\ high = [permanent |-> h, temp |-> h]
         /\ highLive = h
         /\ pages = PagesOf(0, PageUp(l)) \cup PagesOf(PageDown(Total - h), Total)
    /\ lowBlocks = <<>>
    /\ dropped = FALSE
    /\ user \in [fixed : BOOLEAN, chain : {<<NewReservation>>}]
    /\ fatal = "no"

Runs == fatal = "no" /\ ~dropped

-----------------------------------------------------------------------------
(* Temporary memory *)

\* VirtualFree(MEM_DECOMMIT) of bytes lo..hi-1: it fails, and does nothing, unless all
\* of them are in the region.  What lay on the pages is zero when they come back.
Decommit(lo, hi, blocks) ==
    IF lo < 0 \/ hi > Total
    THEN /\ lowBlocks' = blocks
         /\ UNCHANGED pages
    ELSE /\ pages' = pages \ PagesOf(lo, hi)
         /\ lowBlocks' = [i \in DOMAIN blocks |->
                [blocks[i] EXCEPT !.magic = @ /\ blocks[i].hdr \div Page \in pages']]

\* Hunk_AllocateTempMemoryHigh
AllocateTempMemoryHigh(size) ==
    LET hi == AlignUp(high.temp + size, Align)
    IN  /\ Runs
        /\ high' = [high EXCEPT !.temp = hi]
        /\ dropped' = (hi + low.temp > Total)
        /\ pages' = IF dropped' THEN pages
                    ELSE pages \cup PagesOf(PageDown(Total - hi), PageDown(Total - high.temp))
        /\ highLive' = IF dropped' THEN highLive ELSE hi
        /\ UNCHANGED <<low, lowBlocks, user, fatal>>

\* A slip: the cursor is rolled back before its page is computed.
NothingToDecommit == PageDown(Total - high.permanent)

\* Where the pages the high side gives back begin.
HighBegin == PageDown(Total - high.temp)

\* Hunk_ClearTempMemoryHigh
ClearHigh ==
    /\ Decommit(HighBegin, PageDown(Total - high.permanent), lowBlocks)
    /\ high' = [high EXCEPT !.temp = high.permanent]
    /\ highLive' = high.permanent

ClearTempMemoryHigh ==
    /\ Runs
    /\ ClearHigh
    /\ UNCHANGED <<low, dropped, user, fatal>>

\* A slip: the page the block ends in is not committed.
WholePagesOnly(prev, newTemp) == PagesOf(PageUp(prev), PageDown(newTemp))

\* The pages the low side moves into.
LowPages(prev, newTemp) == PagesOf(PageUp(prev), PageUp(newTemp))

\* What writing or reading a header comes to.
Fault(hdr, committed) ==
    IF hdr \div Page \in committed THEN "no" ELSE "access violation"

\* Hunk_AllocateTempMemory
AllocateTempMemory(size) ==
    LET aligned == AlignUp(low.temp, Align)
        newTemp == aligned + size + Align
    IN  /\ Runs
        /\ low' = [low EXCEPT !.temp = newTemp]
        /\ dropped' = (high.temp + newTemp > Total)
        /\ IF dropped' THEN UNCHANGED <<pages, lowBlocks, fatal>>
           ELSE /\ pages' = pages \cup LowPages(low.temp, newTemp)
                /\ lowBlocks' = Append(lowBlocks,
                     [hdr |-> aligned, size |-> newTemp - low.temp, magic |-> TRUE])
                /\ fatal' = Fault(aligned, pages')
        /\ UNCHANGED <<high, highLive, user>>

\* Hunk_FreeTempMemory, of the newest block, as its users (external) do.
FreeTempMemory ==
    /\ Runs /\ lowBlocks # <<>>
    /\ LET block == Last(lowBlocks)
           fault == Fault(block.hdr, pages)
           temp  == low.temp - block.size
       IN  \/ /\ fault = "no" /\ block.magic
              /\ low' = [low EXCEPT !.temp = temp]
              /\ Decommit(PageUp(temp), PageUp(low.temp), Front(lowBlocks))
              /\ UNCHANGED fatal
           \/ /\ fatal' = IF fault = "no" THEN "bad magic" ELSE fault
              /\ fault # "no" \/ ~block.magic
              /\ UNCHANGED <<low, pages, lowBlocks>>
    /\ UNCHANGED <<high, highLive, dropped, user>>

\* Hunk_ClearTempMemory (external): the mirror of ClearHigh.
ClearTempMemory ==
    /\ Runs
    /\ low' = [low EXCEPT !.temp = low.permanent]
    /\ Decommit(PageUp(low.permanent), PageUp(low.temp), <<>>)
    /\ UNCHANGED <<high, highLive, dropped, user, fatal>>

\* The engine's way back from ERR_DROP (external) clears the side that failed.
ErrorCleanup ==
    /\ fatal = "no" /\ dropped
    /\ dropped' = FALSE
    /\ \/ /\ high.temp # highLive
          /\ ClearHigh
          /\ UNCHANGED low
       \/ /\ high.temp = highLive
          /\ low' = [low EXCEPT !.temp = low.permanent]
          /\ Decommit(PageUp(low.permanent), PageUp(low.temp), <<>>)
          /\ UNCHANGED <<high, highLive>>
    /\ UNCHANGED <<user, fatal>>

-----------------------------------------------------------------------------
(* HunkUser *)

\* A slip: vanilla, which commits only when the position passes the committed end.
CommitOnPassing(cur, newPos) ==
    IF newPos > cur.locked THEN AlignUp(newPos, Page) - cur.locked ELSE 0

\* A slip: the test whether the reservation has room is left out.
CommitAlways(cur, newPos) ==
    IF newPos >= cur.locked THEN PageDown(newPos + Page) - cur.locked ELSE 0

\* Bytes to commit for a reservation to be filled up to newPos.
CommitSize(cur, newPos) ==
    IF newPos > cur.locked \/ (newPos = cur.locked /\ cur.locked < UserSize)
    THEN PageDown(newPos + Page) - cur.locked ELSE 0

Current == Last(user.chain)
Fits(r, size, a) == AlignUp(r.pos, a) + size <= UserSize

\* The rest of Hunk_UserAlloc, in the reservation that has room, the last of chain.
TakeFrom(chain, size, a) ==
    LET cur == Last(chain)
        newPos == AlignUp(cur.pos, a) + size
        locked == cur.locked + CommitSize(cur, newPos)
    IN  IF locked <= UserSize
        THEN /\ user' = [user EXCEPT !.chain =
                    Append(Front(chain), [pos |-> newPos, locked |-> locked])]
             /\ UNCHANGED fatal
        ELSE \* VirtualAlloc(MEM_COMMIT) past the reservation
             /\ user' = [user EXCEPT !.chain = Append(Front(chain), [cur EXCEPT !.pos = newPos])]
             /\ fatal' = "out of memory"

\* Hunk_UserAlloc
UserAlloc(size, a) ==
    /\ Runs
    /\ \/ /\ Fits(Current, size, a)
          /\ TakeFrom(user.chain, size, a)
       \/ /\ ~Fits(Current, size, a) /\ ~user.fixed
          /\ Len(user.chain) < MaxReserved
          /\ TakeFrom(Append(user.chain, NewReservation), size, a)
       \/ /\ ~Fits(Current, size, a) /\ user.fixed
          /\ fatal' = "user full"
          /\ UNCHANGED user
    /\ UNCHANGED flat

\* The user is destroyed and another one created (external).
UserCreate ==
    /\ Runs
    /\ \E fixed \in BOOLEAN : user' = [fixed |-> fixed, chain |-> <<NewReservation>>]
    /\ UNCHANGED <<flat, fatal>>

-----------------------------------------------------------------------------
Next ==
    \/ \E size \in Sizes : AllocateTempMemoryHigh(size) \/ AllocateTempMemory(size)
    \/ ClearTempMemoryHigh \/ FreeTempMemory \/ ClearTempMemory \/ ErrorCleanup
    \/ \E size \in UserSizes, a \in UserAligns : UserAlloc(size, a)
    \/ UserCreate

Spec == Init /\ [][Next]_vars

-----------------------------------------------------------------------------
(* Properties *)

Block == [hdr : 0..Total, size : 0..Total, magic : BOOLEAN]
Reservation == [pos : 0..UserSize, locked : 0..UserSize]

TypeOK ==
    /\ low \in [permanent : LowMarks, temp : Nat]
    /\ high \in [permanent : HighMarks, temp : Nat]
    /\ pages \subseteq PagesOf(0, Total)
    /\ lowBlocks \in Seq(Block)
    /\ highLive \in 0..Total
    /\ dropped \in BOOLEAN
    /\ user \in [fixed : BOOLEAN, chain : Seq(Reservation)]
    /\ fatal \in {"no", "access violation", "bad magic", "out of memory", "user full"}

\* Where blocks end that are stacked on base.
StackEnd(base, blocks) ==
    LET end[i \in 0..Len(blocks)] ==
          IF i = 0 THEN base ELSE end[i - 1] + blocks[i].size
    IN  end[Len(blocks)]

\* Pages with something on them.
LowEnd == StackEnd(low.permanent, lowBlocks)
LivePages == PagesOf(0, PageUp(LowEnd)) \cup PagesOf(PageDown(Total - highLive), Total)

\* The cursors are in one page, or have passed each other.
SidesMeet == PageUp(low.temp) > PageDown(Total - high.temp)

\* Data keeps its memory: no operation of one side, and no error on the way, leaves
\* data of either side on a page that is not committed, unless both sides had come
\* into one page (the page is given back whole) or a request had failed (its cursor
\* stayed across the other side) before it.
LiveStaysCommitted ==
    [][SidesMeet \/ LivePages' \ pages' \subseteq LivePages \ pages]_vars

\* Memory comes back: what is committed beyond the data on it was so before; only
\* after an error may a cursor outside the region leave its pages behind.
PagesReturned ==
    [][dropped \/ pages' \ LivePages' \subseteq pages \ LivePages]_vars

\* What Hunk_UserAlloc returns may be written to, one byte even if none was asked for,
\* wherever the blocks before it ended, but for an address at the end of the reservation.
UserAddressCommitted ==
    fatal = "no" => \A i \in DOMAIN user.chain :
        LET r == user.chain[i] IN r.pos < r.locked \/ (r.pos = UserSize /\ r.locked = UserSize)

\* Hunk_UserAlloc runs out of memory only by a block that ends where its reservation
\* does and is not committed to the end yet: one page more is asked for.
OutOfMemoryIsExactFit ==
    [][fatal' = "out of memory" /\ fatal = "no" =>
         LET r == Last(user'.chain) IN r.pos = UserSize /\ r.locked < UserSize]_vars

=============================================================================
