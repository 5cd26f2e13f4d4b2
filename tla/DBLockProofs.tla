---------------------------- MODULE DBLockProofs ----------------------------
(***************************************************************************)
(* The invariants of the database lock, proved for any number of threads   *)
(* in any roles.                                                           *)
(***************************************************************************)
EXTENDS DBLock, FiniteSetTheorems, TLAPS

USE ThreadsAssumption

\* Raising a counter for t adds t to the set it counts, lowering it removes t.
LEMMA CountUp ==
    ASSUME NEW S \in SUBSET Threads, NEW t \in Threads
    PROVE  /\ Cardinality(S) \in Nat
           /\ t \notin S => Cardinality(S \cup {t}) = Cardinality(S) + 1
           /\ t \in S => Cardinality(S \ {t}) = Cardinality(S) - 1
           /\ t \in S => Cardinality(S) > 0
           /\ Cardinality(S) = 0 => S = {}
           /\ Cardinality({}) = 0
<1>1. IsFiniteSet(S)
  BY FS_Subset
<1>2. Cardinality(S) \in Nat
  BY <1>1, FS_CardinalityType
<1>3. Cardinality(S) = 0 <=> S = {}
  BY <1>1, FS_EmptySet
<1>4. t \notin S => Cardinality(S \cup {t}) = Cardinality(S) + 1
  BY <1>1, FS_AddElement
<1>5. t \in S => Cardinality(S \ {t}) = Cardinality(S) - 1
  BY <1>1, FS_RemoveElement
<1> QED
  BY <1>2, <1>3, <1>4, <1>5, FS_EmptySet

\* Every thread outside, both counters at zero.
LEMMA InitInv == Init => IInv
<1> SUFFICES ASSUME Init PROVE IInv
  OBVIOUS
<1>1. TypeOK
  BY DEF Init, TypeOK, PC
<1>2. Raised = {} /\ Reentered = {} /\ Counted = {}
  BY DEF Init, Raised, Reentered, Counted, HoldPC, ReaderPC, NestedPC
<1>3. CountsExact
  BY <1>2, FS_EmptySet DEF Init, CountsExact
<1> QED
  BY <1>1, <1>3 DEF Init, IInv, PureReaderExclusion, Leads, Inside, HoldPC, NestedPC, SpinPC

\* A writer section is entered with the only leading increment.
LEMMA MutexFromLead == IInv => WriterMutex
  BY DEF IInv, WriterMutex, Inside, Leads

-----------------------------------------------------------------------------
(***************************************************************************)
(* What the three counted sets do in each action.                          *)
(***************************************************************************)

\* Most steps move the program counter between states that are counted alike.
LEMMA SetsUnchanged ==
    ASSUME NEW t \in Threads, IInv,
           \/ EnterWriter(t) \/ NoReaderSeen(t) \/ CheckAcquired(t)
           \/ RecordOwner(t) \/ ClearOwner(t) \/ TestWriters(t) \/ TestOwner(t)
    PROVE  Raised' = Raised /\ Reentered' = Reentered /\ Counted' = Counted
<1> USE DEF IInv, TypeOK, Goto, Raised, Reentered, Counted, HoldPC, NestedPC, ReaderPC
<1>1. CASE EnterWriter(t) BY <1>1 DEF EnterWriter
<1>2. CASE NoReaderSeen(t) BY <1>2 DEF NoReaderSeen
<1>3. CASE CheckAcquired(t) BY <1>3 DEF CheckAcquired
<1>4. CASE RecordOwner(t) BY <1>4 DEF RecordOwner
<1>5. CASE ClearOwner(t) BY <1>5 DEF ClearOwner
<1>6. CASE TestWriters(t) BY <1>6 DEF TestWriters
<1>7. CASE TestOwner(t) BY <1>7 DEF TestOwner
<1> QED
  BY <1>1, <1>2, <1>3, <1>4, <1>5, <1>6, <1>7

\* The others move exactly the thread that steps.
LEMMA SetsMoveOne ==
    ASSUME NEW t \in Threads, IInv
    PROVE  /\ IncrementWriters(t) =>
                 /\ t \notin Raised /\ Raised' = Raised \cup {t}
                 /\ Reentered' = Reentered /\ Counted' = Counted
           /\ RollBack(t) \/ ReleaseWriter(t) \/ BareRelease(t) =>
                 /\ t \in Raised /\ Raised' = Raised \ {t}
                 /\ Reentered' = Reentered /\ Counted' = Counted
           /\ EnterReader(t) =>
                 /\ t \notin Counted /\ Counted' = Counted \cup {t}
                 /\ Raised' = Raised /\ Reentered' = Reentered
           /\ LeaveReader(t) =>
                 /\ t \in Counted /\ Counted' = Counted \ {t}
                 /\ Raised' = Raised /\ Reentered' = Reentered
           /\ MissNested(t) =>
                 /\ t \in Raised /\ Raised' = Raised \ {t}
                 /\ t \notin Reentered /\ Reentered' = Reentered \cup {t}
                 /\ t \in Counted /\ Counted' = Counted \ {t}
<1> USE DEF IInv, TypeOK, Goto, Raised, Reentered, Counted, HoldPC, NestedPC, ReaderPC, SpinPC
<1>1. ASSUME IncrementWriters(t)
      PROVE  /\ t \notin Raised /\ Raised' = Raised \cup {t}
             /\ Reentered' = Reentered /\ Counted' = Counted
  BY <1>1 DEF IncrementWriters
<1>2. ASSUME RollBack(t) \/ ReleaseWriter(t) \/ BareRelease(t)
      PROVE  /\ t \in Raised /\ Raised' = Raised \ {t}
             /\ Reentered' = Reentered /\ Counted' = Counted
  BY <1>2 DEF RollBack, ReleaseWriter, BareRelease
<1>3. ASSUME EnterReader(t)
      PROVE  /\ t \notin Counted /\ Counted' = Counted \cup {t}
             /\ Raised' = Raised /\ Reentered' = Reentered
  BY <1>3 DEF EnterReader
<1>4. ASSUME LeaveReader(t)
      PROVE  /\ t \in Counted /\ Counted' = Counted \ {t}
             /\ Raised' = Raised /\ Reentered' = Reentered
  BY <1>4 DEF LeaveReader
<1>5. ASSUME MissNested(t)
      PROVE  /\ t \in Raised /\ Raised' = Raised \ {t}
             /\ t \notin Reentered /\ Reentered' = Reentered \cup {t}
             /\ t \in Counted /\ Counted' = Counted \ {t}
  BY <1>5 DEF MissNested
<1> QED
  BY <1>1, <1>2, <1>3, <1>4, <1>5

Step(t) ==
    \/ EnterWriter(t) \/ EnterReader(t) \/ MissNested(t) \/ BareRelease(t)
    \/ Acquire(t) \/ Read(t) \/ Release(t)

\* The counters follow their sets.
LEMMA CountsPreserved ==
    ASSUME NEW t \in Threads, IInv, Step(t)
    PROVE  CountsExact' /\ readers' \in Nat /\ writers' \in Nat
<1> DEFINE W == Cardinality(Raised)  N == Cardinality(Reentered)  R == Cardinality(Counted)
<1>0. /\ Raised \in SUBSET Threads /\ Reentered \in SUBSET Threads /\ Counted \in SUBSET Threads
      /\ readers = R /\ writers = W + N
  BY DEF Raised, Reentered, Counted, IInv, CountsExact
<1>1. W \in Nat /\ N \in Nat /\ R \in Nat
  BY <1>0, CountUp
<1>2. CASE \/ EnterWriter(t) \/ NoReaderSeen(t) \/ CheckAcquired(t)
           \/ RecordOwner(t) \/ ClearOwner(t) \/ TestWriters(t) \/ TestOwner(t)
  <2>1. Raised' = Raised /\ Reentered' = Reentered /\ Counted' = Counted
    BY <1>2, SetsUnchanged
  <2>2. readers' = readers /\ writers' = writers
    BY <1>2 DEF EnterWriter, NoReaderSeen, CheckAcquired, RecordOwner, ClearOwner, TestWriters, TestOwner
  <2> QED
    BY <1>0, <1>1, <2>1, <2>2 DEF CountsExact
<1>3. CASE IncrementWriters(t)
  <2>1. W' = W + 1 /\ N' = N /\ R' = R
    BY <1>0, <1>3, SetsMoveOne, CountUp
  <2>2. writers' = writers + 1 /\ readers' = readers
    BY <1>3 DEF IncrementWriters
  <2> QED
    BY <1>0, <1>1, <2>1, <2>2 DEF CountsExact
<1>4. CASE RollBack(t) \/ ReleaseWriter(t) \/ BareRelease(t)
  <2>1. W' = W - 1 /\ W > 0 /\ N' = N /\ R' = R
    BY <1>0, <1>4, SetsMoveOne, CountUp
  <2>2. writers' = writers - 1 /\ readers' = readers
    BY <1>4 DEF RollBack, ReleaseWriter, BareRelease
  <2> QED
    BY <1>0, <1>1, <2>1, <2>2 DEF CountsExact
<1>5. CASE EnterReader(t)
  <2>1. R' = R + 1 /\ N' = N /\ W' = W
    BY <1>0, <1>5, SetsMoveOne, CountUp
  <2>2. readers' = readers + 1 /\ writers' = writers
    BY <1>5 DEF EnterReader
  <2> QED
    BY <1>0, <1>1, <2>1, <2>2 DEF CountsExact
<1>6. CASE LeaveReader(t)
  <2>1. R' = R - 1 /\ R > 0 /\ N' = N /\ W' = W
    BY <1>0, <1>6, SetsMoveOne, CountUp
  <2>2. readers' = readers - 1 /\ writers' = writers
    BY <1>6 DEF LeaveReader
  <2> QED
    BY <1>0, <1>1, <2>1, <2>2 DEF CountsExact
<1>7. CASE MissNested(t)
  <2>1. W' = W - 1 /\ W > 0 /\ N' = N + 1 /\ R' = R - 1 /\ R > 0
    BY <1>0, <1>7, SetsMoveOne, CountUp
  <2>2. readers' = readers - 1 /\ writers' = writers
    BY <1>7 DEF MissNested
  <2> QED
    BY <1>0, <1>1, <2>1, <2>2 DEF CountsExact
<1> QED
  BY <1>2, <1>3, <1>4, <1>5, <1>6, <1>7 DEF Step, Acquire, Read, Release

\* A counter seen at 0 means that nobody is counted.
LEMMA SeenZero ==
    ASSUME IInv
    PROVE  /\ readers = 0 => Counted = {}
           /\ writers = 0 => Raised = {} /\ Reentered = {}
<1>1. /\ Raised \in SUBSET Threads /\ Reentered \in SUBSET Threads /\ Counted \in SUBSET Threads
      /\ readers = Cardinality(Counted)
      /\ writers = Cardinality(Raised) + Cardinality(Reentered)
  BY DEF Raised, Reentered, Counted, IInv, CountsExact
<1>2. ASSUME NEW S \in SUBSET Threads
      PROVE  Cardinality(S) \in Nat /\ (Cardinality(S) = 0 => S = {})
  <2>1. IsFiniteSet(S)
    BY FS_Subset
  <2> QED
    BY <2>1, FS_CardinalityType, FS_EmptySet
<1>3. /\ Cardinality(Raised) \in Nat /\ Cardinality(Reentered) \in Nat
      /\ Cardinality(Counted) \in Nat
  BY <1>1, <1>2
<1>4. writers = 0 => Cardinality(Raised) = 0 /\ Cardinality(Reentered) = 0
  BY <1>1, <1>3
<1> QED
  BY <1>1, <1>2, <1>4

\* The types are preserved by every step.
LEMMA TypePreserved ==
    ASSUME NEW t \in Threads, IInv, Step(t)
    PROVE  TypeOK'
<1> USE DEF IInv, TypeOK, Goto, PC, ReaderPC, NestedPC, SpinPC, HoldPC
<1>1. readers' \in Nat /\ writers' \in Nat
  BY CountsPreserved
<1>2. CASE EnterWriter(t) BY <1>1, <1>2 DEF EnterWriter
<1>3. CASE NoReaderSeen(t) BY <1>1, <1>3 DEF NoReaderSeen
<1>4. CASE IncrementWriters(t) BY <1>1, <1>4 DEF IncrementWriters
<1>5. CASE CheckAcquired(t) BY <1>1, <1>5 DEF CheckAcquired
<1>6. CASE RollBack(t) BY <1>1, <1>6 DEF RollBack
<1>7. CASE RecordOwner(t) BY <1>1, <1>7 DEF RecordOwner
<1>8. CASE ReleaseWriter(t) BY <1>1, <1>8 DEF ReleaseWriter
<1>9. CASE ClearOwner(t) BY <1>1, <1>9 DEF ClearOwner
<1>10. CASE BareRelease(t) BY <1>1, <1>10 DEF BareRelease
<1>11. CASE EnterReader(t) BY <1>1, <1>11 DEF EnterReader
<1>12. CASE TestWriters(t) BY <1>1, <1>12 DEF TestWriters
<1>13. CASE TestOwner(t) BY <1>1, <1>13 DEF TestOwner
<1>14. CASE LeaveReader(t) BY <1>1, <1>14 DEF LeaveReader
<1>15. CASE MissNested(t) BY <1>1, <1>15 DEF MissNested
<1> QED
  BY <1>2, <1>3, <1>4, <1>5, <1>6, <1>7, <1>8, <1>9, <1>10, <1>11, <1>12, <1>13,
     <1>14, <1>15 DEF Step, Acquire, Read, Release

\* The last two parts of IInv, named for the proofs.
OneLeads == \A s, t \in Threads : Leads(s) /\ Leads(t) => s = t

Roles == \A t \in Threads :
    /\ pc[t] \in HoldPC => first[t]
    /\ again[t] => pc[t] \in SpinPC
    /\ again[t] /\ pc[t] \in {"check", "back"} => ~first[t]
    /\ pc[t] \in SpinPC \cup HoldPC \cup {"clear"} => t \in Writers

\* Only an increment that finds the counter at 0 leads, and then no other does.
LEMMA LeadPreserved ==
    ASSUME NEW t \in Threads, IInv, Step(t)
    PROVE  OneLeads' /\ Roles'
<1> USE DEF IInv, TypeOK, Goto, ReaderPC, NestedPC, SpinPC, HoldPC, OneLeads, Roles, Leads
<1>1. CASE IncrementWriters(t)
  <2>1. CASE writers = 0
    <3>1. \A s \in Threads : ~Leads(s) /\ ~again[s]
      BY <2>1, SeenZero DEF Raised, Reentered
    <3> QED
      BY <1>1, <2>1, <3>1 DEF IncrementWriters
  <2>2. CASE writers # 0
    BY <1>1, <2>2 DEF IncrementWriters
  <2> QED
    BY <2>1, <2>2
<1>2. CASE EnterWriter(t) BY <1>2 DEF EnterWriter
<1>3. CASE NoReaderSeen(t) BY <1>3 DEF NoReaderSeen
<1>4. CASE CheckAcquired(t) BY <1>4 DEF CheckAcquired, AcquireSucceeds
<1>5. CASE RollBack(t) BY <1>5 DEF RollBack
<1>6. CASE RecordOwner(t) BY <1>6 DEF RecordOwner
<1>7. CASE ReleaseWriter(t) BY <1>7 DEF ReleaseWriter
<1>8. CASE ClearOwner(t) BY <1>8 DEF ClearOwner
<1>9. CASE BareRelease(t) BY <1>9 DEF BareRelease
<1>10. CASE EnterReader(t) BY <1>10 DEF EnterReader
<1>11. CASE TestWriters(t) BY <1>11 DEF TestWriters
<1>12. CASE TestOwner(t) BY <1>12 DEF TestOwner
<1>13. CASE LeaveReader(t) BY <1>13 DEF LeaveReader
<1>14. CASE MissNested(t) BY <1>14 DEF MissNested
<1> QED
  BY <1>1, <1>2, <1>3, <1>4, <1>5, <1>6, <1>7, <1>8, <1>9, <1>10, <1>11, <1>12,
     <1>13, <1>14 DEF Step, Acquire, Read, Release

\* A pure reader gets in only when it sees no writer, and a writer only when it
\* sees no reader.
LEMMA PurePreserved ==
    ASSUME NEW t \in Threads, IInv, Step(t)
    PROVE  PureReaderExclusion'
<1> USE DEF IInv, TypeOK, Goto, ReaderPC, NestedPC, SpinPC, HoldPC, PureReaderExclusion, Inside
<1>1. CASE CheckAcquired(t)
  <2>1. readers = 0 => \A r \in Threads : pc[r] # "read"
    BY SeenZero DEF Counted
  <2> QED
    BY <1>1, <2>1 DEF CheckAcquired, AcquireSucceeds
<1>2. CASE TestWriters(t)
  <2>1. writers = 0 => \A s \in Threads : pc[s] \notin HoldPC /\ ~again[s]
    BY SeenZero DEF Raised, Reentered
  <2> QED
    BY <1>2, <2>1 DEF TestWriters
<1>3. CASE EnterWriter(t) BY <1>3 DEF EnterWriter
<1>4. CASE NoReaderSeen(t) BY <1>4 DEF NoReaderSeen
<1>5. CASE IncrementWriters(t) BY <1>5 DEF IncrementWriters
<1>6. CASE RollBack(t) BY <1>6 DEF RollBack
<1>7. CASE RecordOwner(t) BY <1>7 DEF RecordOwner
<1>8. CASE ReleaseWriter(t) BY <1>8 DEF ReleaseWriter
<1>9. CASE ClearOwner(t) BY <1>9 DEF ClearOwner
<1>10. CASE BareRelease(t) BY <1>10 DEF BareRelease
<1>11. CASE EnterReader(t) BY <1>11 DEF EnterReader
<1>12. CASE TestOwner(t) BY <1>12 DEF TestOwner
<1>13. CASE LeaveReader(t) BY <1>13 DEF LeaveReader
<1>14. CASE MissNested(t) BY <1>14 DEF MissNested
<1> QED
  BY <1>1, <1>2, <1>3, <1>4, <1>5, <1>6, <1>7, <1>8, <1>9, <1>10, <1>11, <1>12,
     <1>13, <1>14 DEF Step, Acquire, Read, Release

-----------------------------------------------------------------------------

\* The invariant is preserved by every step.
LEMMA StepInv == IInv /\ [Next]_vars => IInv'
<1> SUFFICES ASSUME IInv, [Next]_vars PROVE IInv'
  OBVIOUS
<1>1. ASSUME NEW t \in Threads, Step(t) PROVE IInv'
  <2>1. TypeOK' /\ CountsExact' /\ PureReaderExclusion' /\ OneLeads' /\ Roles'
    BY <1>1, TypePreserved, CountsPreserved, PurePreserved, LeadPreserved
  <2> QED
    BY <2>1 DEF IInv, OneLeads, Roles
<1>2. CASE UNCHANGED vars
  BY <1>2 DEF vars, IInv, TypeOK, CountsExact, PureReaderExclusion, Leads, Inside,
     Raised, Reentered, Counted
<1> QED
  BY <1>1, <1>2 DEF Next, Step

\* The strengthened invariant holds in every reachable state.
THEOREM Inductive == Spec => []IInv
  BY InitInv, StepInv, PTL DEF Spec

\* Both counters stay non-negative and every word keeps its range: in
\* particular only a writer's id is ever in s_dbWriterOwnerTid.
THEOREM TypeCorrect == Spec => []TypeOK
<1>1. IInv => TypeOK
  BY DEF IInv
<1> QED
  BY <1>1, Inductive, PTL

\* No path through the lock loses or repeats an update of a counter.
THEOREM CountersCorrect == Spec => []CountsExact
<1>1. IInv => CountsExact
  BY DEF IInv
<1> QED
  BY <1>1, Inductive, PTL

\* Writer sections exclude each other, for any number of threads in any roles.
THEOREM WritersExclude == Spec => []WriterMutex
  BY MutexFromLead, Inductive, PTL

\* Threads that only read never overlap a writer section.
THEOREM PureReadersExcluded == Spec => []PureReaderExclusion
<1>1. IInv => PureReaderExclusion
  BY DEF IInv
<1> QED
  BY <1>1, Inductive, PTL

-----------------------------------------------------------------------------

\* Each step of the lock's code is a step of RWLock, for the threads that only
\* read, or leaves its two sets alone.
LEMMA StepRefines ==
    ASSUME IInv, [Next]_vars
    PROVE  [Abstract!Next]_<<{r \in PureReaders : pc[r] = "read"}, {t \in Writers : Inside(t)}>>
<1> DEFINE rd == {r \in PureReaders : pc[r] = "read"}
           wr == {t \in Writers : Inside(t)}
           Same == rd' = rd /\ wr' = wr
<1> USE DEF IInv, TypeOK, Goto, ReaderPC, NestedPC, SpinPC, HoldPC, Inside, PureReaders
<1>1. ASSUME NEW t \in Threads, Step(t)
      PROVE  Abstract!Next \/ Same
  <2>1. CASE CheckAcquired(t)
    <3>1. CASE AcquireSucceeds(t)
      <4>1. rd = {}
        BY <3>1, SeenZero, ThreadsAssumption DEF AcquireSucceeds, Counted
      <4>2. wr = {}
        BY <2>1, <3>1 DEF CheckAcquired, AcquireSucceeds, Leads
      <4>3. t \in Writers /\ rd' = rd /\ wr' = {t}
        BY <2>1, <3>1, <4>2 DEF CheckAcquired
      <4> QED
        BY <4>1, <4>2, <4>3 DEF Abstract!Next, Abstract!BeginWrite
    <3>2. CASE ~AcquireSucceeds(t)
      BY <2>1, <3>2 DEF CheckAcquired
    <3> QED
      BY <3>1, <3>2
  <2>2. CASE ReleaseWriter(t) \/ BareRelease(t)
    <3>1. t \in wr /\ rd' = rd
      BY <2>2 DEF ReleaseWriter, BareRelease
    <3>2. wr' = {}
      BY <2>2 DEF ReleaseWriter, BareRelease, Leads
    <3> QED
      BY <3>1, <3>2 DEF Abstract!Next, Abstract!EndWrite
  <2>3. CASE TestWriters(t)
    <3>1. CASE writers = 0 /\ pc[t] = "test" /\ t \in PureReaders
      <4>1. wr = {}
        BY <3>1, SeenZero DEF Raised, Reentered
      <4>2. rd' = rd \cup {t} /\ wr' = wr
        BY <2>3, <3>1 DEF TestWriters
      <4> QED
        BY <3>1, <4>1, <4>2 DEF Abstract!Next, Abstract!BeginRead
    <3>2. CASE ~(writers = 0 /\ pc[t] = "test" /\ t \in PureReaders)
      BY <2>3, <3>2 DEF TestWriters
    <3> QED
      BY <3>1, <3>2
  <2>4. CASE LeaveReader(t)
    <3>1. CASE pc[t] = "read" /\ t \in PureReaders
      <4>1. t \in rd /\ rd' = rd \ {t} /\ wr' = wr
        BY <2>4, <3>1 DEF LeaveReader
      <4> QED
        BY <3>1, <4>1 DEF Abstract!Next, Abstract!EndRead
    <3>2. CASE ~(pc[t] = "read" /\ t \in PureReaders)
      BY <2>4, <3>2 DEF LeaveReader
    <3> QED
      BY <3>1, <3>2
  <2>5. CASE EnterWriter(t) BY <2>5 DEF EnterWriter
  <2>6. CASE NoReaderSeen(t) BY <2>6 DEF NoReaderSeen
  <2>7. CASE IncrementWriters(t) BY <2>7 DEF IncrementWriters
  <2>8. CASE RollBack(t) BY <2>8 DEF RollBack
  <2>9. CASE RecordOwner(t) BY <2>9 DEF RecordOwner
  <2>10. CASE ClearOwner(t) BY <2>10 DEF ClearOwner
  <2>11. CASE EnterReader(t) BY <2>11 DEF EnterReader
  <2>12. CASE TestOwner(t) BY <2>12 DEF TestOwner
  <2>13. CASE MissNested(t) BY <2>13 DEF MissNested
  <2> QED
    BY <1>1, <2>1, <2>2, <2>3, <2>4, <2>5, <2>6, <2>7, <2>8, <2>9, <2>10, <2>11,
       <2>12, <2>13 DEF Step, Acquire, Read, Release
<1>2. CASE UNCHANGED vars
  BY <1>2 DEF vars
<1> QED
  BY <1>1, <1>2 DEF Next, Step

\* To the threads that only read, the counters and the owner word implement RWLock,
\* and so everything RWLock promises.
THEOREM Refinement == Spec => ImplementsRWLock
<1>1. Init => Abstract!Init
  BY DEF Init, Abstract!Init, PureReaders, Inside, HoldPC, NestedPC
<1>2. IInv /\ [Next]_vars =>
        [Abstract!Next]_<<{r \in PureReaders : pc[r] = "read"}, {t \in Writers : Inside(t)}>>
  BY StepRefines
<1> QED
  BY <1>1, <1>2, Inductive, PTL DEF Spec, ImplementsRWLock, Abstract!Spec

=============================================================================
