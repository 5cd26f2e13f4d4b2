------------------------------- MODULE DBLock -------------------------------
(***************************************************************************)
(* The reader/writer spin lock of the asset database, T4.cpp:634-692.      *)
(*                                                                         *)
(* Two interlocked counters and one plain word make the lock: readers is   *)
(* g_dbReaderCount, writers is g_dbWriterCount, owner is                   *)
(* s_dbWriterOwnerTid.  Every access of one of the three is a step of its  *)
(* own, so the model has every interleaving the threads can produce.       *)
(*                                                                         *)
(* A writer section may nest a reader section (the lock is meant to be     *)
(* reentrant that way), and the nested lookup of DB_FindXAssetHeader goes  *)
(* on to take the writer lock when the asset is missing.                   *)
(*                                                                         *)
(* WithoutWaiting, StoreOne, AcquireIgnoring... and RollBackByStore are no *)
(* part of the lock: they are the slips its properties are tried against.  *)
(***************************************************************************)
EXTENDS Integers, FiniteSets

CONSTANTS
    Threads,    \* every thread that touches the asset database
    Readers,    \* threads that run a reader section of their own
    Writers,    \* threads that run a writer section
    Nesters,    \* writers that look an asset up inside their writer section
    Missers,    \* nesters whose nested lookup may miss
    Finders,    \* writers that leave by DB_FindXAssetHeader's bare decrement
    NoThread    \* s_dbWriterOwnerTid = 0

ASSUME ThreadsAssumption ==
    /\ IsFiniteSet(Threads)
    /\ Readers \subseteq Threads /\ Writers \subseteq Threads
    /\ Nesters \subseteq Writers /\ Missers \subseteq Nesters
    /\ Finders \subseteq Writers
    /\ NoThread \notin Threads

VARIABLES
    readers,    \* g_dbReaderCount
    writers,    \* g_dbWriterCount
    owner,      \* s_dbWriterOwnerTid
    pc,         \* where each thread is in the lock's code
    first,      \* newCount == 1 in the thread's last DB_WriterAcquire attempt
    again       \* the attempt is made inside the thread's own writer section

vars == <<readers, writers, owner, pc, first, again>>

(***************************************************************************)
(* The program counter.  "wait", "inc", "check", "back" and "own" are the  *)
(* lines of DB_WriterAcquire; "hold" is the writer section; "clear" is the *)
(* second half of DB_WriterRelease.  "test" and "isown" are the two reads  *)
(* of DB_ReaderAcquire's loop condition and "read" the reader section;     *)
(* "ntest", "nisown" and "nread" are the same code nested in "hold".       *)
(***************************************************************************)
ReaderPC == {"test", "isown", "read"}
NestedPC == {"ntest", "nisown", "nread"}
SpinPC   == {"wait", "inc", "check", "back"}
HoldPC   == {"own", "hold"} \cup NestedPC
PC       == {"idle", "clear"} \cup ReaderPC \cup SpinPC \cup HoldPC

Init ==
    /\ readers = 0
    /\ writers = 0
    /\ owner = NoThread
    /\ pc = [t \in Threads |-> "idle"]
    /\ first = [t \in Threads |-> FALSE]
    /\ again = [t \in Threads |-> FALSE]

Goto(t, from, to) == pc[t] = from /\ pc' = [pc EXCEPT ![t] = to]

-----------------------------------------------------------------------------
(* DB_WriterAcquire *)

EnterWriter(t) ==
    /\ t \in Writers
    /\ Goto(t, "idle", "wait")
    /\ UNCHANGED <<readers, writers, owner, first, again>>

\* 1. Wait until no reader is active.
WithoutWaiting(t) ==
    /\ Goto(t, "wait", "inc")
    /\ UNCHANGED <<readers, writers, owner, first, again>>

NoReaderSeen(t) ==
    /\ readers = 0
    /\ Goto(t, "wait", "inc")
    /\ UNCHANGED <<readers, writers, owner, first, again>>

\* 2. newCount = InterlockedIncrement(&g_dbWriterCount).
StoreOne(t) ==
    /\ Goto(t, "inc", "check")
    /\ writers' = 1
    /\ first' = [first EXCEPT ![t] = (writers = 0)]
    /\ UNCHANGED <<readers, owner, again>>

IncrementWriters(t) ==
    /\ Goto(t, "inc", "check")
    /\ writers' = writers + 1
    /\ first' = [first EXCEPT ![t] = (writers = 0)]
    /\ UNCHANGED <<readers, owner, again>>

\* 3. First writer, and no reader raced in.
AcquireIgnoringReaders(t) == first[t]

AcquireIgnoringWriters(t) == readers = 0

AcquireSucceeds(t) == first[t] /\ readers = 0

CheckAcquired(t) ==
    /\ Goto(t, "check", IF AcquireSucceeds(t) THEN "own" ELSE "back")
    /\ UNCHANGED <<readers, writers, owner, first, again>>

\* 4. Roll back and retry.
RollBackByStore(t) ==
    /\ Goto(t, "back", "wait")
    /\ writers' = 0
    /\ UNCHANGED <<readers, owner, first, again>>

RollBack(t) ==
    /\ Goto(t, "back", "wait")
    /\ writers' = writers - 1
    /\ UNCHANGED <<readers, owner, first, again>>

RecordOwner(t) ==
    /\ Goto(t, "own", "hold")
    /\ owner' = t
    /\ UNCHANGED <<readers, writers, first, again>>

-----------------------------------------------------------------------------
(* DB_WriterRelease, and the bare decrement of DB_FindXAssetHeader *)

ReleaseWriter(t) ==
    /\ Goto(t, "hold", IF writers = 1 THEN "clear" ELSE "idle")
    /\ writers' = writers - 1
    /\ UNCHANGED <<readers, owner, first, again>>

ClearOwner(t) ==
    /\ Goto(t, "clear", "idle")
    /\ owner' = NoThread
    /\ UNCHANGED <<readers, writers, first, again>>

BareRelease(t) ==
    /\ t \in Finders
    /\ Goto(t, "hold", "idle")
    /\ writers' = writers - 1
    /\ UNCHANGED <<readers, owner, first, again>>

-----------------------------------------------------------------------------
(* DB_ReaderAcquire and DB_ReaderRelease, at top level and nested *)

EnterReader(t) ==
    /\ \/ t \in Readers /\ Goto(t, "idle", "test")
       \/ t \in Nesters /\ Goto(t, "hold", "ntest")
    /\ readers' = readers + 1
    /\ UNCHANGED <<writers, owner, first, again>>

\* while (g_dbWriterCount != 0 && ...
TestWriters(t) ==
    /\ \/ Goto(t, "test", IF writers = 0 THEN "read" ELSE "isown")
       \/ Goto(t, "ntest", IF writers = 0 THEN "nread" ELSE "nisown")
    /\ UNCHANGED <<readers, writers, owner, first, again>>

\*                                   ... s_dbWriterOwnerTid != self)
TestOwner(t) ==
    /\ \/ Goto(t, "isown", IF owner = t THEN "read" ELSE "test")
       \/ Goto(t, "nisown", IF owner = t THEN "nread" ELSE "ntest")
    /\ UNCHANGED <<readers, writers, owner, first, again>>

LeaveReader(t) ==
    /\ \/ Goto(t, "read", "idle")
       \/ Goto(t, "nread", "hold")
    /\ readers' = readers - 1
    /\ UNCHANGED <<writers, owner, first, again>>

\* The nested lookup found nothing: DB_FindXAssetHeader calls DB_WriterAcquire
\* (T4.cpp:1274) although its caller already holds the lock.
MissNested(t) ==
    /\ t \in Missers
    /\ Goto(t, "nread", "wait")
    /\ readers' = readers - 1
    /\ again' = [again EXCEPT ![t] = TRUE]
    /\ UNCHANGED <<writers, owner, first>>

-----------------------------------------------------------------------------
Acquire(t) ==
    \/ NoReaderSeen(t) \/ IncrementWriters(t) \/ CheckAcquired(t)
    \/ RollBack(t) \/ RecordOwner(t)

Read(t) == TestWriters(t) \/ TestOwner(t) \/ LeaveReader(t)

Release(t) == ReleaseWriter(t) \/ ClearOwner(t)

Next == \E t \in Threads :
    \/ EnterWriter(t) \/ EnterReader(t) \/ MissNested(t) \/ BareRelease(t)
    \/ Acquire(t) \/ Read(t) \/ Release(t)

Spec == Init /\ [][Next]_vars

(***************************************************************************)
(* The scheduler runs every thread that is inside the lock's code; a       *)
(* writer section ends, whatever number of lookups its body nests (it is   *)
(* finite).  Nothing makes a thread enter.                                 *)
(***************************************************************************)
Fairness == \A t \in Threads :
    WF_vars(Acquire(t)) /\ WF_vars(Read(t)) /\ SF_vars(Release(t))

FairSpec == Spec /\ Fairness

-----------------------------------------------------------------------------
(* Properties *)

Raised   == {t \in Threads : pc[t] \in {"check", "back"} \cup HoldPC}
Reentered == {t \in Threads : again[t]}
Counted  == {t \in Threads : pc[t] \in ReaderPC \cup NestedPC}

\* t is inside the section its own DB_WriterAcquire opened.
Inside(t) == pc[t] \in HoldPC \/ again[t]

TypeOK ==
    /\ readers \in Nat
    /\ writers \in Nat
    /\ owner \in Writers \cup {NoThread}
    /\ pc \in [Threads -> PC]
    /\ first \in [Threads -> BOOLEAN]
    /\ again \in [Threads -> BOOLEAN]

\* Both counters count what is outstanding and nothing else, through every
\* failed attempt, bare release and nested section: no path of the lock loses
\* or repeats an interlocked update.
CountsExact ==
    /\ readers = Cardinality(Counted)
    /\ writers = Cardinality(Raised) + Cardinality(Reentered)

\* Two threads are never in writer sections at once, although the counter is
\* raised by losers too and the owner word may be stale.
WriterMutex ==
    \A s, t \in Threads : Inside(s) /\ Inside(t) => s = t

\* A thread that never takes the writer lock (the renderer's threads) never
\* reads while another thread is in its writer section: raising readers before
\* looking at writers, and writers before looking at readers, is enough.
PureReaderExclusion ==
    \A r \in Readers \ Writers, t \in Writers : ~(pc[r] = "read" /\ Inside(t))

\* t's increment is the one that took the counter from 0, and still stands.
Leads(t) == (pc[t] \in {"check", "back"} \cup HoldPC /\ first[t]) \/ again[t]

\* What makes the three invariants above inductive: at most one standing
\* increment came first, holders come first, and a thread that acquires again
\* inside its own section never does.
IInv ==
    /\ TypeOK /\ CountsExact /\ PureReaderExclusion
    /\ \A s, t \in Threads : Leads(s) /\ Leads(t) => s = t
    /\ \A t \in Threads :
         /\ pc[t] \in HoldPC => first[t]
         /\ again[t] => pc[t] \in SpinPC
         /\ again[t] /\ pc[t] \in {"check", "back"} => ~first[t]
         /\ pc[t] \in SpinPC \cup HoldPC \cup {"clear"} => t \in Writers

\* "exclusive lock" (T4.cpp:645), "reading inside your own exclusive section is
\* safe" (T4.cpp:639): whoever reads while a thread is in its writer section is
\* that thread.  The code does not give this: the owner word outlives a section
\* left by a bare decrement, or released while a loser held the counter up, and
\* lets its old owner read in the section of the next writer.
Exclusive ==
    \A r \in Readers, t \in Writers : ~(pc[r] = "read" /\ pc[t] = "hold")

\* "lets a nested reader on that thread pass through" (T4.cpp:638): the holder's
\* nested reader gets in.  The code does not give this: the previous writer
\* clears the owner word after its decrement, on top of the id the next writer
\* has stored, and that writer's nested reader then waits for itself.
NestedReaderPasses ==
    \A t \in Nesters : pc[t] = "ntest" ~> pc[t] = "nread"

\* To the threads that only read, the lock is RWLock: the counters, the owner word,
\* the retries and the nested sections are invisible.
PureReaders == Readers \ Writers
Abstract == INSTANCE RWLock WITH
    Readers <- PureReaders,
    reading <- {r \in PureReaders : pc[r] = "read"},
    writing <- {t \in Writers : Inside(t)}

ImplementsRWLock == Abstract!Spec

\* t waits for its own count: in a second DB_WriterAcquire inside its section, or in
\* a nested reader section whose pass, the owner word, was erased.
LockedOut(t) == again[t] \/ (pc[t] \in {"ntest", "nisown"} /\ owner # t)

\* Unless a thread locks itself out for good, a reader is not starved: it keeps new
\* writers out while it waits, and those already past the wait fail their check and
\* back off.
ReaderProgress ==
    [](\A t \in Threads : ~LockedOut(t)) =>
        \A r \in Readers : pc[r] = "test" ~> pc[r] = "read"

=============================================================================
