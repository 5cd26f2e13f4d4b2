--------------------------- MODULE SentientProofs ---------------------------
(***************************************************************************)
(* What actors know is true and never gets older, attackers are counted    *)
(* exactly and whoever goes after an enemy has one: for any sentients,     *)
(* actors and enemies, any times and any number of lives.                  *)
(*                                                                         *)
(* A step works on the record ai through several calls, one after the      *)
(* other, while the slots, lives and the clock stand still.  So the        *)
(* invariant is stated for a record (Kept), each operator on records is    *)
(* shown to keep it, and a step combines them.                             *)
(***************************************************************************)
EXTENDS SentientInfo, FiniteSetTheorems, WellFoundedInduction, TLAPS

-----------------------------------------------------------------------------
(* The inductive invariant *)

\* The row i of a about s is true, at a time n, with the lives l and the slots u.
IsTrue(i, a, s, n, l, u) ==
    /\ i.pos.time > 0 => s \in u /\ i.by = l[a] /\ i.pos.life = l[s] /\ i.pos.time <= n
    /\ i.time > 0 => i.pos = [life |-> l[s], time |-> i.time]

\* KnowledgeWasTrue, of a record r.
Known(r, n, l, u) ==
    \A a \in Actors \cap u, s \in Sentients : IsTrue(r.info[a][s], a, s, n, l, u)

\* AttackersExact, of free slots too: one that is taken again starts at 0.
Counted(r) ==
    \A s \in Sentients : r.attackers[s] = Cardinality({a \in Actors : r.target[a] = s})

\* No one has a sentient for a target that is gone: else the count of whoever takes
\* its slot would be wrong from the start.
Handles(r, u) == \A a \in Actors :
    /\ r.target[a] \in u \cup {Thing, NoTarget}
    /\ r.scriptTarget[a] \in u \cup {Thing, NoTarget}

\* EnemyGoalHasEnemy, of all actors.
Engaged(r, u) == \A a \in Actors :
    r.notify[a] \/ r.useEnemyGoal[a] => r.target[a] \in u

\* Free slots fight no one.
Vacant(r, u) == \A a \in Actors : a \notin u =>
    r.target[a] = NoTarget /\ r.scriptTarget[a] = NoTarget

\* The invariant of the record: what every operator on records keeps.
Kept(r, n, l, u) ==
    /\ r \in AI
    /\ Known(r, n, l, u) /\ Counted(r) /\ Handles(r, u) /\ Engaged(r, u) /\ Vacant(r, u)

\* What the operators need of the rest of the state.
Clock ==
    /\ now \in 1..MaxTime
    /\ life \in [Sentients -> Nat]
    /\ inuse \subseteq Sentients

\* The inductive invariant.
Inv == TypeOK /\ Kept(ai, now, life, inuse)

-----------------------------------------------------------------------------
(* Sets of slots *)

\* There are finitely many actors.
LEMMA ActorsFinite ==
    ASSUME SentientsAssumption
    PROVE  /\ IsFiniteSet(Actors)
           /\ \A S : IsFiniteSet({a \in Actors : a \in S})
<1>1. Actors \subseteq Sentients /\ IsFiniteSet(Sentients)
  BY DEF SentientsAssumption
<1>2. IsFiniteSet(Actors)
  BY <1>1, FS_Subset
<1>3. ASSUME NEW S PROVE IsFiniteSet({a \in Actors : a \in S})
  <2>1. {a \in Actors : a \in S} \in SUBSET Actors
    OBVIOUS
  <2> QED
    BY <1>2, <2>1, FS_Subset
<1> QED
  BY <1>2, <1>3

\* Those that have s for a target, of targets f.
Fighting(f, s) == {a \in Actors : f[a] = s}

\* Targets f when a has turned to t.
Aimed(f, a, t) == [f EXCEPT ![a] = t]

\* An actor that turns to another target is counted there and no longer where it was.
LEMMA Recount ==
    ASSUME SentientsAssumption, NEW f \in [Actors -> Sentients \cup {Thing, NoTarget}],
           NEW a \in Actors, NEW t, t # f[a], NEW s
    PROVE  /\ Cardinality(Fighting(f, s)) \in Nat
           /\ Cardinality(Fighting(Aimed(f, a, t), s)) =
                 IF s = t THEN Cardinality(Fighting(f, s)) + 1
                 ELSE IF s = f[a] THEN Cardinality(Fighting(f, s)) - 1
                 ELSE Cardinality(Fighting(f, s))
<1>1. IsFiniteSet(Actors)
  BY ActorsFinite
<1>2. IsFiniteSet(Fighting(f, s))
  <2>1. Fighting(f, s) \in SUBSET Actors
    BY DEF Fighting
  <2> QED
    BY <1>1, <2>1, FS_Subset
<1>3. Cardinality(Fighting(f, s)) \in Nat
  BY <1>2, FS_CardinalityType
<1>4. CASE s = t
  <2>1. Fighting(Aimed(f, a, t), s) = Fighting(f, s) \cup {a} /\ a \notin Fighting(f, s)
    BY <1>4 DEF Fighting, Aimed
  <2>2. Cardinality(Fighting(Aimed(f, a, t), s)) = Cardinality(Fighting(f, s)) + 1
    BY <1>2, <2>1, FS_AddElement
  <2> QED
    BY <1>3, <1>4, <2>2
<1>5. CASE s # t /\ s = f[a]
  <2>1. Fighting(Aimed(f, a, t), s) = Fighting(f, s) \ {a} /\ a \in Fighting(f, s)
    BY <1>5 DEF Fighting, Aimed
  <2>2. Cardinality(Fighting(f, s) \ {a}) = Cardinality(Fighting(f, s)) - 1
    <3> DEFINE F == Fighting(f, s)
    <3>1. IsFiniteSet(F) /\ a \in F
      BY <1>2, <2>1
    <3> HIDE DEF F
    <3>2. Cardinality(F \ {a}) = Cardinality(F) - 1
      BY <3>1, FS_RemoveElement
    <3> QED
      BY <3>2 DEF F
  <2> QED
    BY <1>3, <1>5, <2>1, <2>2
<1>6. CASE s # t /\ s # f[a]
  <2>1. Fighting(Aimed(f, a, t), s) = Fighting(f, s)
    BY <1>6 DEF Fighting, Aimed
  <2> QED
    BY <1>3, <1>6, <2>1
<1> QED
  BY <1>4, <1>5, <1>6

-----------------------------------------------------------------------------
(* Records *)

\* q differs from r in the rows only.
OnlyRows(r, q) ==
    /\ q.target = r.target /\ q.scriptTarget = r.scriptTarget
    /\ q.attackers = r.attackers /\ q.notify = r.notify
    /\ q.useEnemyGoal = r.useEnemyGoal

\* Each row of q is that of r, or newer and from an actor that is there.
Spread(r, q) == \A b \in Actors, s \in Sentients :
    \/ q.info[b][s] = r.info[b][s]
    \/ /\ b \in inuse
       /\ \E c \in Actors \cap inuse :
            /\ r.info[b][s].time < r.info[c][s].time
            /\ q.info[b][s] = [r.info[c][s] EXCEPT !.by = life[b]]

\* A row of a record.
LEMMA RowTyped ==
    ASSUME NEW r \in AI, NEW a \in Actors, NEW s \in Sentients
    PROVE  /\ r.info \in [Actors -> [Sentients -> Info]]
           /\ r.info[a][s] \in Info /\ r.info[a][s].time \in 0..MaxTime
           /\ r.info[a][s].pos.time \in 0..MaxTime
BY DEF AI, Info, Positions

\* The row that holds nothing.
LEMMA BlankTyped ==
    ASSUME SentientsAssumption
    PROVE  Blank \in Info /\ Blank.time = 0 /\ Blank.pos.time = 0
BY DEF Blank, Info, Positions, SentientsAssumption

\* A row that holds nothing is true of anyone.
LEMMA BlankIsTrue ==
    ASSUME SentientsAssumption, NEW i, i = Blank, NEW a, NEW s, NEW n, NEW l, NEW u
    PROVE  IsTrue(i, a, s, n, l, u)
BY BlankTyped DEF IsTrue

\* A row whose time is taken out stays true.
LEMMA UntimedIsTrue ==
    ASSUME SentientsAssumption, NEW i \in Info, NEW a, NEW s, NEW n, NEW l, NEW u,
           IsTrue(i, a, s, n, l, u), NEW j, j = [i EXCEPT !.time = 0]
    PROVE  IsTrue(j, a, s, n, l, u) /\ j \in Info /\ j.time = 0
<1>1. j \in Info /\ j.time = 0 /\ j.pos = i.pos /\ j.by = i.by
  BY DEF Info, SentientsAssumption
<1> QED
  BY <1>1 DEF IsTrue

\* What a copy leaves behind.
LEMMA CopyOfRow ==
    ASSUME SentientsAssumption, Clock, NEW r \in AI, NEW b \in Actors, NEW a \in Actors,
           NEW s \in Sentients
    PROVE  /\ InfoCopy(r, b, a, s) \in Info
           /\ \/ InfoCopy(r, b, a, s) = r.info[b][s]
              \/ /\ r.info[b][s].time < r.info[a][s].time
                 /\ InfoCopy(r, b, a, s) = [r.info[a][s] EXCEPT !.by = life[b]]
           /\ r.info[a][s].time = 0 => InfoCopy(r, b, a, s) = r.info[b][s]
<1>1. /\ r.info[b][s] \in Info /\ r.info[b][s].time \in 0..MaxTime
      /\ r.info[a][s] \in Info /\ r.info[a][s].time \in 0..MaxTime
  BY RowTyped
<1>2. life[b] \in Nat
  BY DEF Clock, SentientsAssumption
<1>3. [r.info[a][s] EXCEPT !.by = life[b]] \in Info
  BY <1>1, <1>2 DEF Info
<1> QED
  BY <1>1, <1>3 DEF InfoCopy, SentientsAssumption

\* A record with other rows.
LEMMA RowsReplaced ==
    ASSUME NEW r \in AI, NEW rows \in [Actors -> [Sentients -> Info]], NEW q,
           q = [r EXCEPT !.info = rows]
    PROVE  q \in AI /\ OnlyRows(r, q) /\ q.info = rows
BY DEF AI, OnlyRows

\* What Actor_BroadcastTeamEvent does to the table.
LEMMA BroadcastSpreads ==
    ASSUME SentientsAssumption, Clock, NEW r \in AI, NEW a \in Actors \cap inuse, NEW hearing,
           r.target[a] \in Sentients, NEW q, q = BroadcastTeamEvent(r, a, hearing)
    PROVE  /\ q \in AI /\ OnlyRows(r, q) /\ Spread(r, q)
           /\ r.info[a][r.target[a]].time = 0 => q.info = r.info
<1> DEFINE t == r.target[a]
           H == (hearing \cap inuse) \ {a}
           rows == [b \in Actors |->
                      IF b \in H THEN [r.info[b] EXCEPT ![t] = InfoCopy(r, b, a, t)]
                      ELSE r.info[b]]
<1>1. r.info \in [Actors -> [Sentients -> Info]]
  BY DEF AI
<1>2. \A b \in Actors : InfoCopy(r, b, a, t) \in Info
  BY CopyOfRow
<1>3. rows \in [Actors -> [Sentients -> Info]]
  BY <1>1, <1>2
<1>4. q = [r EXCEPT !.info = rows]
  BY Zenon DEF BroadcastTeamEvent
<1>5. \A b \in Actors, s \in Sentients :
        rows[b][s] = IF b \in H /\ s = t THEN InfoCopy(r, b, a, t) ELSE r.info[b][s]
  BY <1>1
<1> HIDE DEF rows
<1>6. q \in AI /\ OnlyRows(r, q) /\ q.info = rows
  BY <1>3, <1>4, RowsReplaced
<1>7. ASSUME NEW b \in Actors, NEW s \in Sentients
      PROVE  \/ q.info[b][s] = r.info[b][s]
             \/ /\ b \in inuse
                /\ r.info[b][s].time < r.info[a][s].time
                /\ q.info[b][s] = [r.info[a][s] EXCEPT !.by = life[b]]
  <2>1. CASE b \in H /\ s = t
    <3>1. q.info[b][s] = InfoCopy(r, b, a, s)
      BY <1>5, <1>6, <2>1
    <3>2. b \in inuse
      BY <2>1
    <3> QED
      BY <3>1, <3>2, CopyOfRow
  <2>2. CASE ~(b \in H /\ s = t)
    BY <1>5, <1>6, <2>2
  <2> QED
    BY <2>1, <2>2
<1>8. Spread(r, q)
  BY <1>7 DEF Spread
<1>9. ASSUME r.info[a][t].time = 0 PROVE q.info = r.info
  <2>1. \A b \in Actors, s \in Sentients : rows[b][s] = r.info[b][s]
    BY <1>5, <1>9, CopyOfRow
  <2>2. rows = r.info
    <3>1. \A b \in Actors : rows[b] = r.info[b]
      BY <1>1, <1>3, <2>1
    <3> QED
      BY <1>1, <1>3, <3>1
  <2> QED
    BY <1>6, <2>2
<1> QED
  BY <1>6, <1>8, <1>9

\* What Sentient_SetEnemy does to the table before it turns to the target.
LEMMA NotifiedSpreads ==
    ASSUME SentientsAssumption, Clock, NEW r \in AI, NEW a \in Actors \cap inuse, NEW hearing,
           r.target[a] \in Sentients, NEW q, q = Notified(r, a, hearing)
    PROVE  /\ q \in AI /\ OnlyRows(r, q) /\ Spread(r, q)
           /\ r.info[a][r.target[a]].time = 0 => q.info = r.info
<1>1. CASE r.notify[a]
  <2>1. q = BroadcastTeamEvent(r, a, hearing)
    BY <1>1 DEF Notified
  <2> QED
    BY <2>1, BroadcastSpreads
<1>2. CASE ~r.notify[a]
  <2>1. q = r
    BY <1>2 DEF Notified
  <2> QED
    BY <2>1 DEF OnlyRows, Spread
<1> QED
  BY <1>1, <1>2

-----------------------------------------------------------------------------
(* Changing targets *)

\* q is r after actor a has turned from its target to t.
Turned(r, q, a, t) ==
    /\ q \in AI /\ Spread(r, q)
    /\ q.target = [r.target EXCEPT ![a] = t] /\ q.scriptTarget = r.scriptTarget
    /\ \A b \in Actors \ {a} : q.notify[b] = r.notify[b] /\ q.useEnemyGoal[b] = r.useEnemyGoal[b]
    /\ q.notify[a] \/ q.useEnemyGoal[a] => t \in inuse
    /\ \A s \in Sentients : q.attackers[s] =
         IF s = t THEN r.attackers[s] + 1
         ELSE IF s = r.target[a] THEN r.attackers[s] - 1
         ELSE r.attackers[s]

\* News spread from what was true is true: SentientInfo_Copy keeps place and time.
LEMMA SpreadKnown ==
    ASSUME NEW r, NEW q, Spread(r, q), r \in AI, q \in AI,
           life \in [Sentients -> Nat], Actors \subseteq Sentients,
           Known(r, now, life, inuse)
    PROVE  Known(q, now, life, inuse)
<1> SUFFICES ASSUME NEW b \in Actors \cap inuse, NEW s \in Sentients
             PROVE  IsTrue(q.info[b][s], b, s, now, life, inuse)
  BY DEF Known
<1>1. CASE q.info[b][s] = r.info[b][s]
  BY <1>1 DEF Known
<1>2. ASSUME NEW c \in Actors \cap inuse,
             q.info[b][s] = [r.info[c][s] EXCEPT !.by = life[b]]
      PROVE  IsTrue(q.info[b][s], b, s, now, life, inuse)
  <2>1. r.info[c][s] \in Info
    BY RowTyped
  <2>2. /\ q.info[b][s].time = r.info[c][s].time /\ q.info[b][s].pos = r.info[c][s].pos
        /\ q.info[b][s].by = life[b]
    BY <1>2, <2>1 DEF Info
  <2>3. IsTrue(r.info[c][s], c, s, now, life, inuse)
    BY DEF Known
  <2> QED
    BY <2>2, <2>3 DEF IsTrue
<1> QED
  BY <1>1, <1>2 DEF Spread

\* An actor that turns to someone who is there keeps the invariant.
LEMMA TurnedKept ==
    ASSUME SentientsAssumption, Clock, NEW r, Kept(r, now, life, inuse),
           NEW a \in Actors \cap inuse, NEW t \in inuse \cup {Thing, NoTarget},
           t # r.target[a], NEW q, Turned(r, q, a, t)
    PROVE  Kept(q, now, life, inuse)
<1>1. r \in AI /\ q \in AI
  BY DEF Kept, Turned
<1>2. Known(q, now, life, inuse)
  BY <1>1, SpreadKnown DEF Kept, Turned, Clock, SentientsAssumption
<1>3. r.target \in [Actors -> Sentients \cup {Thing, NoTarget}]
  BY <1>1 DEF AI
<1>4. Counted(q)
  <2>1. q.target = [r.target EXCEPT ![a] = t]
    BY DEF Turned
  <2>2. ASSUME NEW s \in Sentients
        PROVE  q.attackers[s] = Cardinality(Fighting(q.target, s))
    <3>1. r.attackers[s] = Cardinality(Fighting(r.target, s))
      BY DEF Kept, Counted, Fighting
    <3>2. q.attackers[s] =
            IF s = t THEN r.attackers[s] + 1
            ELSE IF s = r.target[a] THEN r.attackers[s] - 1
            ELSE r.attackers[s]
      BY DEF Turned
    <3>3. Cardinality(Fighting(q.target, s)) =
            IF s = t THEN Cardinality(Fighting(r.target, s)) + 1
            ELSE IF s = r.target[a] THEN Cardinality(Fighting(r.target, s)) - 1
            ELSE Cardinality(Fighting(r.target, s))
      <4> DEFINE f == r.target
      <4>1. f \in [Actors -> Sentients \cup {Thing, NoTarget}]
            /\ t # f[a] /\ a \in Actors
        BY <1>3, <2>1
      <4>2. q.target = Aimed(f, a, t)
        BY <2>1 DEF Aimed
      <4> HIDE DEF f
      <4>3. Cardinality(Fighting(Aimed(f, a, t), s)) =
              IF s = t THEN Cardinality(Fighting(f, s)) + 1
              ELSE IF s = f[a] THEN Cardinality(Fighting(f, s)) - 1
              ELSE Cardinality(Fighting(f, s))
        BY <4>1, Recount
      <4> QED
        BY <4>2, <4>3 DEF f
    <3> QED
      BY <3>1, <3>2, <3>3
  <2> QED
    BY <2>2 DEF Counted, Fighting
<1>5. Handles(q, inuse)
  BY <1>3 DEF Kept, Handles, Turned
<1>6. Engaged(q, inuse)
  BY <1>3 DEF Kept, Engaged, Turned
<1>7. Vacant(q, inuse)
  BY <1>3 DEF Kept, Vacant, Turned
<1> QED
  BY <1>1, <1>2, <1>4, <1>5, <1>6, <1>7 DEF Kept

\* A record when its target t has lost the attacker a.
Uncounted(n, a, t) == [n EXCEPT !.notify[a] = FALSE, !.attackers[t] = @ - 1]

\* Its fields.
LEMMA EnemyLeft ==
    ASSUME NEW n \in AI, NEW a \in Actors, NEW t \in Sentients, NEW q, q = Uncounted(n, a, t)
    PROVE  /\ q \in AI /\ q.info = n.info /\ q.target = n.target
           /\ q.scriptTarget = n.scriptTarget /\ q.useEnemyGoal = n.useEnemyGoal
           /\ q.notify = [n.notify EXCEPT ![a] = FALSE]
           /\ q.attackers = [n.attackers EXCEPT ![t] = @ - 1]
<1>1. /\ n.attackers \in [Sentients -> Int] /\ n.notify \in [Actors -> BOOLEAN]
  BY DEF AI, Uncounted
<1>2. [n.attackers EXCEPT ![t] = @ - 1] \in [Sentients -> Int]
  BY <1>1
<1>3. [n.notify EXCEPT ![a] = FALSE] \in [Actors -> BOOLEAN]
  BY <1>1
<1>4. q.info = n.info /\ q.target = n.target
  BY DEF AI, Uncounted
<1>5. q.scriptTarget = n.scriptTarget /\ q.useEnemyGoal = n.useEnemyGoal
  BY DEF AI, Uncounted
<1>6. q.notify = [n.notify EXCEPT ![a] = FALSE]
  BY DEF AI, Uncounted
<1>7. q.attackers = [n.attackers EXCEPT ![t] = @ - 1]
  BY DEF AI, Uncounted
<1>8. q \in AI
  <2> DEFINE x == [n.notify EXCEPT ![a] = FALSE]
             y == [n.attackers EXCEPT ![t] = @ - 1]
  <2>1. q = [n EXCEPT !.notify = x, !.attackers = y]
    BY DEF AI, Uncounted
  <2>2. x \in [Actors -> BOOLEAN] /\ y \in [Sentients -> Int]
    BY <1>2, <1>3
  <2> HIDE DEF x, y
  <2> QED
    BY <2>1, <2>2 DEF AI
<1> QED
  BY <1>4, <1>5, <1>6, <1>7, <1>8

\* LeaveEnemy, in terms of the record it works on.
LEMMA Left ==
    ASSUME SentientsAssumption, Clock, NEW r, Kept(r, now, life, inuse),
           NEW a \in Actors \cap inuse, NEW hearing, NEW q, q = LeaveEnemy(r, a, hearing)
    PROVE  /\ q \in AI /\ Spread(r, q)
           /\ q.target = r.target /\ q.scriptTarget = r.scriptTarget
           /\ q.useEnemyGoal = r.useEnemyGoal
           /\ q.notify = [r.notify EXCEPT ![a] = FALSE]
           /\ \A s \in Sentients : q.attackers[s] =
                IF s = r.target[a] THEN r.attackers[s] - 1 ELSE r.attackers[s]
           /\ r.target[a] \in Sentients /\ r.info[a][r.target[a]].time = 0 => q.info = r.info
<1>1. r \in AI
  BY DEF Kept
<1>2. CASE r.target[a] \in Sentients
  <2> DEFINE n == Notified(r, a, hearing)
             t == r.target[a]
  <2>1. /\ n \in AI /\ OnlyRows(r, n) /\ Spread(r, n)
        /\ r.info[a][t].time = 0 => n.info = r.info
    BY <1>1, <1>2, NotifiedSpreads
  <2>2. q = Uncounted(n, a, t)
    BY <1>2 DEF LeaveEnemy, Uncounted
  <2>0. t \in Sentients /\ a \in Actors /\ n \in AI
    BY <1>2, <2>1
  <2> HIDE DEF n, t
  <2>3. /\ q \in AI /\ q.info = n.info /\ q.target = n.target /\ q.scriptTarget = n.scriptTarget
        /\ q.useEnemyGoal = n.useEnemyGoal
        /\ q.notify = [n.notify EXCEPT ![a] = FALSE]
        /\ q.attackers = [n.attackers EXCEPT ![t] = @ - 1]
    BY ONLY <2>0, <2>2, EnemyLeft
  <2> USE DEF t
  <2>4. r.attackers \in [Sentients -> Int]
    BY <1>1 DEF AI
  <2>5. Spread(r, q)
    BY <2>1, <2>3 DEF Spread
  <2>6. \A s \in Sentients : q.attackers[s] =
            IF s = t THEN r.attackers[s] - 1 ELSE r.attackers[s]
    BY <2>1, <2>3, <2>4 DEF OnlyRows
  <2> QED
    BY <2>1, <2>3, <2>5, <2>6 DEF OnlyRows
<1>3. CASE r.target[a] \notin Sentients
  <2>1. q = r
    BY <1>3 DEF LeaveEnemy
  <2>2. r.notify[a] = FALSE
    BY <1>1, <1>3 DEF Kept, Engaged, Clock, AI
  <2>3. r.notify = [r.notify EXCEPT ![a] = FALSE]
    BY <1>1, <2>2 DEF AI
  <2> QED
    BY <1>1, <1>3, <2>1, <2>3 DEF Spread
<1> QED
  BY <1>2, <1>3

\* A record when a has let its target go.
Lost(n, a) == [n EXCEPT !.notify[a] = FALSE, !.target[a] = NoTarget, !.useEnemyGoal[a] = FALSE]

\* Its fields.
LEMMA LostFields ==
    ASSUME NEW n \in AI, NEW a \in Actors, NEW q, q = Lost(n, a)
    PROVE  /\ q \in AI /\ q.info = n.info /\ q.scriptTarget = n.scriptTarget
           /\ q.attackers = n.attackers
           /\ q.target = [n.target EXCEPT ![a] = NoTarget]
           /\ q.notify = [n.notify EXCEPT ![a] = FALSE]
           /\ q.useEnemyGoal = [n.useEnemyGoal EXCEPT ![a] = FALSE]
<1>1. /\ n.target \in [Actors -> Sentients \cup {Thing, NoTarget}]
      /\ n.notify \in [Actors -> BOOLEAN] /\ n.useEnemyGoal \in [Actors -> BOOLEAN]
  BY DEF AI
<1>2. [n.target EXCEPT ![a] = NoTarget] \in [Actors -> Sentients \cup {Thing, NoTarget}]
  BY <1>1
<1>3. /\ [n.notify EXCEPT ![a] = FALSE] \in [Actors -> BOOLEAN]
      /\ [n.useEnemyGoal EXCEPT ![a] = FALSE] \in [Actors -> BOOLEAN]
  BY <1>1
<1>4. q.info = n.info /\ q.scriptTarget = n.scriptTarget
  BY DEF AI, Lost
<1>5. q.attackers = n.attackers
  BY DEF AI, Lost
<1>6. q.target = [n.target EXCEPT ![a] = NoTarget]
  BY DEF AI, Lost
<1>7. q.notify = [n.notify EXCEPT ![a] = FALSE]
  BY DEF AI, Lost
<1>8. q.useEnemyGoal = [n.useEnemyGoal EXCEPT ![a] = FALSE]
  BY DEF AI, Lost
<1>9. q \in AI
  <2> DEFINE x == [n.target EXCEPT ![a] = NoTarget]
             y == [n.notify EXCEPT ![a] = FALSE]
             z == [n.useEnemyGoal EXCEPT ![a] = FALSE]
  <2>1. q = [n EXCEPT !.notify = y, !.target = x, !.useEnemyGoal = z]
    BY DEF AI, Lost
  <2>2. /\ x \in [Actors -> Sentients \cup {Thing, NoTarget}]
        /\ y \in [Actors -> BOOLEAN] /\ z \in [Actors -> BOOLEAN]
    BY <1>2, <1>3
  <2> HIDE DEF x, y, z
  <2> QED
    BY <2>1, <2>2 DEF AI
<1> QED
  BY <1>4, <1>5, <1>6, <1>7, <1>8, <1>9

\* Sentient_SetEnemy(self, NULL, 1): a turns to no target.
LEMMA LoseEnemyTurns ==
    ASSUME SentientsAssumption, Clock, NEW r, Kept(r, now, life, inuse),
           NEW a \in Actors \cap inuse, NEW hearing, NEW q, q = LoseEnemy(r, a, hearing)
    PROVE  /\ r.target[a] # NoTarget => Turned(r, q, a, NoTarget)
           /\ r.target[a] = NoTarget => q = r
           /\ q.target = [r.target EXCEPT ![a] = NoTarget]
           /\ r.target[a] \in Sentients /\ r.info[a][r.target[a]].time = 0 => q.info = r.info
<1>1. r \in AI /\ r.target \in [Actors -> Sentients \cup {Thing, NoTarget}]
  BY DEF Kept, AI
<1>2. CASE r.target[a] = NoTarget
  <2>1. q = r
    BY <1>2 DEF LoseEnemy
  <2> QED
    BY <1>1, <1>2, <2>1 DEF SentientsAssumption
<1>3. CASE r.target[a] # NoTarget
  <2> DEFINE n == LeaveEnemy(r, a, hearing)
  <2>1. q = Lost(n, a)
    BY <1>3 DEF LoseEnemy, Lost
  <2>2. /\ n \in AI /\ Spread(r, n)
        /\ n.target = r.target /\ n.scriptTarget = r.scriptTarget
        /\ n.useEnemyGoal = r.useEnemyGoal
        /\ n.notify = [r.notify EXCEPT ![a] = FALSE]
        /\ \A s \in Sentients : n.attackers[s] =
             IF s = r.target[a] THEN r.attackers[s] - 1 ELSE r.attackers[s]
        /\ r.target[a] \in Sentients /\ r.info[a][r.target[a]].time = 0 => n.info = r.info
    BY Left
  <2> HIDE DEF n
  <2>3. /\ q \in AI /\ q.info = n.info /\ q.scriptTarget = n.scriptTarget
        /\ q.attackers = n.attackers
        /\ q.target = [n.target EXCEPT ![a] = NoTarget]
        /\ q.notify = [n.notify EXCEPT ![a] = FALSE]
        /\ q.useEnemyGoal = [n.useEnemyGoal EXCEPT ![a] = FALSE]
    <3>1. n \in AI /\ a \in Actors
      BY <2>2
    <3> QED
      BY <2>1, <3>1, LostFields
  <2>4. Spread(r, q)
    BY <2>2, <2>3 DEF Spread
  <2>5. /\ \A b \in Actors \ {a} : q.notify[b] = r.notify[b] /\ q.useEnemyGoal[b] = r.useEnemyGoal[b]
        /\ ~q.notify[a] /\ ~q.useEnemyGoal[a]
    <3>1. r.notify \in [Actors -> BOOLEAN] /\ r.useEnemyGoal \in [Actors -> BOOLEAN]
      BY <1>1 DEF AI
    <3> QED
      BY <2>2, <2>3, <3>1
  <2>6. \A s \in Sentients : q.attackers[s] =
          IF s = NoTarget THEN r.attackers[s] + 1
          ELSE IF s = r.target[a] THEN r.attackers[s] - 1
          ELSE r.attackers[s]
    BY <2>2, <2>3 DEF SentientsAssumption
  <2>7. Turned(r, q, a, NoTarget)
    BY <2>2, <2>3, <2>4, <2>5, <2>6 DEF Turned
  <2> QED
    BY <1>3, <2>2, <2>3, <2>7
<1> QED
  BY <1>2, <1>3

\* Sentient_SetEnemy(self, NULL, 1) keeps the invariant.
LEMMA LoseEnemyKept ==
    ASSUME SentientsAssumption, Clock, NEW r, Kept(r, now, life, inuse),
           NEW a \in Actors \cap inuse, NEW hearing, NEW q, q = LoseEnemy(r, a, hearing)
    PROVE  /\ Kept(q, now, life, inuse) /\ Spread(r, q)
           /\ q.target = Aimed(r.target, a, NoTarget)
           /\ r.target[a] \in Sentients /\ r.info[a][r.target[a]].time = 0 => q.info = r.info
<1>1. CASE r.target[a] = NoTarget
  BY <1>1, LoseEnemyTurns DEF Spread, Aimed
<1>2. CASE r.target[a] # NoTarget
  <2>1. Turned(r, q, a, NoTarget)
    BY <1>2, LoseEnemyTurns
  <2>2. Kept(q, now, life, inuse)
    BY <1>2, <2>1, TurnedKept
  <2> QED
    BY SMTT(30), <2>1, <2>2, LoseEnemyTurns DEF Turned, Aimed
<1> QED
  BY <1>1, <1>2

\* A record when a has turned to the entity that is no sentient.
AtThing(n, a) == [n EXCEPT !.target[a] = Thing]

\* A record when a has turned to t.
AtEnemy(n, a, t) == [n EXCEPT !.target[a] = t, !.notify[a] = TRUE, !.attackers[t] = @ + 1]

\* Its fields.
LEMMA AtThingFields ==
    ASSUME NEW n \in AI, NEW a \in Actors, NEW q, q = AtThing(n, a)
    PROVE  /\ q \in AI /\ q.info = n.info /\ q.scriptTarget = n.scriptTarget
           /\ q.attackers = n.attackers /\ q.notify = n.notify
           /\ q.useEnemyGoal = n.useEnemyGoal
           /\ q.target = [n.target EXCEPT ![a] = Thing]
<1>1. n.target \in [Actors -> Sentients \cup {Thing, NoTarget}]
  BY DEF AI
<1>2. [n.target EXCEPT ![a] = Thing] \in [Actors -> Sentients \cup {Thing, NoTarget}]
  BY <1>1
<1> DEFINE x == [n.target EXCEPT ![a] = Thing]
<1>3. q = [n EXCEPT !.target = x]
  BY DEF AI, AtThing
<1> HIDE DEF x
<1>4. /\ q \in AI /\ q.info = n.info /\ q.scriptTarget = n.scriptTarget
      /\ q.attackers = n.attackers /\ q.notify = n.notify
      /\ q.useEnemyGoal = n.useEnemyGoal /\ q.target = x
  <2>1. x \in [Actors -> Sentients \cup {Thing, NoTarget}]
    BY <1>2 DEF x
  <2> QED
    BY <1>3, <2>1 DEF AI
<1> QED
  BY <1>4 DEF x

\* The same, field by field.
TookAim(n, q, a, t) ==
    /\ q \in AI /\ q.info = n.info /\ q.scriptTarget = n.scriptTarget
    /\ q.useEnemyGoal = n.useEnemyGoal
    /\ q.target = [n.target EXCEPT ![a] = t]
    /\ q.notify = [n.notify EXCEPT ![a] = TRUE]
    /\ q.attackers = [n.attackers EXCEPT ![t] = @ + 1]

\* The fields of a record when a has turned to t.
LEMMA AtEnemyFields ==
    ASSUME NEW n \in AI, NEW a \in Actors, NEW t \in Sentients, NEW q, q = AtEnemy(n, a, t)
    PROVE  TookAim(n, q, a, t)
<1> DEFINE x == [n.target EXCEPT ![a] = t]
           y == [n.notify EXCEPT ![a] = TRUE]
           z == [n.attackers EXCEPT ![t] = @ + 1]
<1>1. x \in [Actors -> Sentients \cup {Thing, NoTarget}]
  <2>1. n.target \in [Actors -> Sentients \cup {Thing, NoTarget}]
    BY DEF AI
  <2> QED
    BY <2>1
<1>2. y \in [Actors -> BOOLEAN]
  <2>1. n.notify \in [Actors -> BOOLEAN]
    BY DEF AI
  <2> QED
    BY <2>1
<1>3. z \in [Sentients -> Int]
  <2>1. n.attackers \in [Sentients -> Int]
    BY DEF AI
  <2> QED
    BY <2>1
<1>4. q = [n EXCEPT !.target = x, !.notify = y, !.attackers = z]
  BY DEF AI, AtEnemy
<1> HIDE DEF x, y, z
<1>5. /\ q \in AI /\ q.info = n.info /\ q.scriptTarget = n.scriptTarget
      /\ q.useEnemyGoal = n.useEnemyGoal
      /\ q.target = x /\ q.notify = y /\ q.attackers = z
  BY <1>1, <1>2, <1>3, <1>4 DEF AI
<1> QED
  BY <1>5 DEF TookAim, x, y, z

\* Sentient_SetEnemy
LEMMA SetEnemyKept ==
    ASSUME SentientsAssumption, Clock, NEW r, Kept(r, now, life, inuse),
           NEW a \in Actors \cap inuse, NEW t \in inuse \cup {Thing, NoTarget},
           NEW hearing, NEW q, q = SetEnemy(r, a, t, hearing)
    PROVE  Kept(q, now, life, inuse) /\ Spread(r, q)
<1>1. CASE t = NoTarget
  <2>1. q = LoseEnemy(r, a, hearing)
    BY <1>1 DEF SetEnemy
  <2> QED
    BY <2>1, LoseEnemyKept
<1>2. CASE t = r.target[a] /\ t # NoTarget
  <2>1. q = r
    BY <1>2 DEF SetEnemy
  <2> QED
    BY <2>1 DEF Spread
<1>3. CASE t = Thing /\ t # r.target[a]
  <2> DEFINE n == LoseEnemy(r, a, hearing)
  <2>1. q = AtThing(n, a)
    BY <1>3 DEF SetEnemy, AtThing, SentientsAssumption
  <2>2. /\ Kept(n, now, life, inuse) /\ Spread(r, n)
        /\ n.target = Aimed(r.target, a, NoTarget)
    BY LoseEnemyKept
  <2> HIDE DEF n
  <2>3. n \in AI /\ r.target \in [Actors -> Sentients \cup {Thing, NoTarget}]
    BY <2>2 DEF Kept, AI
  <2>4. n.target[a] = NoTarget /\ Thing # NoTarget
    BY <2>2, <2>3 DEF SentientsAssumption, Aimed
  <2>5. /\ q \in AI /\ q.info = n.info /\ q.scriptTarget = n.scriptTarget
        /\ q.attackers = n.attackers /\ q.notify = n.notify
        /\ q.useEnemyGoal = n.useEnemyGoal
        /\ q.target = [n.target EXCEPT ![a] = Thing]
    BY <2>1, <2>3, AtThingFields
  <2>6. ~n.notify[a] /\ ~n.useEnemyGoal[a]
    BY <2>2, <2>4 DEF Kept, Engaged, Clock, SentientsAssumption
  <2>7. Spread(n, q) /\ Spread(r, q)
    BY <2>2, <2>5 DEF Spread
  <2>8. \A s \in Sentients : s # Thing /\ s # NoTarget
    BY DEF SentientsAssumption
  <2>9. \A s \in Sentients : q.attackers[s] =
          IF s = Thing THEN n.attackers[s] + 1
          ELSE IF s = n.target[a] THEN n.attackers[s] - 1
          ELSE n.attackers[s]
    BY <2>4, <2>5, <2>8
  <2>10. Turned(n, q, a, Thing)
    BY <2>5, <2>6, <2>7, <2>9 DEF Turned
  <2>11. Kept(q, now, life, inuse)
    BY <2>2, <2>4, <2>10, TurnedKept
  <2> QED
    BY <2>7, <2>11
<1>4. CASE t \notin {Thing, NoTarget} /\ t # r.target[a]
  <2> DEFINE n == LeaveEnemy(r, a, hearing)
  <2>1. q = AtEnemy(n, a, t)
    BY <1>4 DEF SetEnemy, AtEnemy
  <2>2. /\ n \in AI /\ Spread(r, n)
        /\ n.target = r.target /\ n.scriptTarget = r.scriptTarget
        /\ n.useEnemyGoal = r.useEnemyGoal
        /\ n.notify = [r.notify EXCEPT ![a] = FALSE]
        /\ \A s \in Sentients : n.attackers[s] =
             IF s = r.target[a] THEN r.attackers[s] - 1 ELSE r.attackers[s]
    BY Left
  <2> HIDE DEF n
  <2>3. t \in inuse /\ t \in Sentients
    BY <1>4 DEF Clock
  <2>4. /\ q \in AI /\ q.info = n.info /\ q.scriptTarget = n.scriptTarget
        /\ q.useEnemyGoal = n.useEnemyGoal
        /\ q.target = [n.target EXCEPT ![a] = t]
        /\ q.notify = [n.notify EXCEPT ![a] = TRUE]
        /\ q.attackers = [n.attackers EXCEPT ![t] = @ + 1]
    <3>1. n \in AI /\ a \in Actors /\ t \in Sentients
      BY <2>2, <2>3
    <3>2. TookAim(n, q, a, t)
      BY <2>1, <3>1, AtEnemyFields
    <3> QED
      BY <3>2 DEF TookAim
  <2>5. r \in AI
    BY DEF Kept
  <2>6. \A b \in Actors \ {a} : q.notify[b] = r.notify[b] /\ q.useEnemyGoal[b] = r.useEnemyGoal[b]
    <3>1. r.notify \in [Actors -> BOOLEAN] /\ r.useEnemyGoal \in [Actors -> BOOLEAN]
      BY <2>5 DEF AI
    <3> QED
      BY <2>2, <2>4, <3>1
  <2>7. \A s \in Sentients : q.attackers[s] =
          IF s = t THEN r.attackers[s] + 1
          ELSE IF s = r.target[a] THEN r.attackers[s] - 1
          ELSE r.attackers[s]
    <3>1. n.attackers \in [Sentients -> Int] /\ r.attackers \in [Sentients -> Int]
      BY <2>2, <2>5 DEF AI
    <3> QED
      BY <1>4, <2>2, <2>4, <3>1
  <2>8. Spread(r, q)
    BY <2>2, <2>4 DEF Spread
  <2>9. Turned(r, q, a, t)
    BY <2>2, <2>3, <2>4, <2>6, <2>7, <2>8 DEF Turned
  <2>10. Kept(q, now, life, inuse)
    BY <1>4, <2>9, TurnedKept
  <2> QED
    BY <2>8, <2>10
<1> QED
  BY <1>1, <1>2, <1>3, <1>4

-----------------------------------------------------------------------------
(* Writing a row *)

\* q is r with i in the row of a about s.
WroteRow(r, q, a, s, i) ==
    /\ q \in AI /\ OnlyRows(r, q)
    /\ \A b \in Actors, t \in Sentients :
         q.info[b][t] = IF b = a /\ t = s THEN i ELSE r.info[b][t]

\* The record when the row has been written.
Written(r, a, s, i) == [r EXCEPT !.info[a][s] = i]

\* Its fields.
LEMMA RowWritten ==
    ASSUME NEW r \in AI, NEW a \in Actors, NEW s \in Sentients, NEW i \in Info,
           NEW q, q = Written(r, a, s, i)
    PROVE  WroteRow(r, q, a, s, i)
<1> DEFINE rows == [r.info EXCEPT ![a] = [@ EXCEPT ![s] = i]]
<1>1. r.info \in [Actors -> [Sentients -> Info]]
  BY DEF AI
<1>2. rows \in [Actors -> [Sentients -> Info]]
  BY <1>1
<1>3. \A b \in Actors, t \in Sentients :
        rows[b][t] = IF b = a /\ t = s THEN i ELSE r.info[b][t]
  BY <1>1
<1>4. q = [r EXCEPT !.info = rows]
  BY DEF Written, AI
<1> HIDE DEF rows
<1>5. q \in AI /\ OnlyRows(r, q) /\ q.info = rows
  BY <1>2, <1>4, RowsReplaced
<1> QED
  BY <1>3, <1>5 DEF WroteRow

\* What of the invariant is not about the rows.
LEMMA OnlyRowsKept ==
    ASSUME NEW r, NEW q, NEW n, NEW l, NEW u, Kept(r, n, l, u), q \in AI, OnlyRows(r, q),
           Known(q, n, l, u)
    PROVE  Kept(q, n, l, u)
BY DEF Kept, OnlyRows, Counted, Handles, Engaged, Vacant

\* A row may be written with what is true.
LEMMA WriteKept ==
    ASSUME SentientsAssumption, NEW n, NEW l, NEW u, NEW r, Kept(r, n, l, u),
           NEW a \in Actors, NEW s \in Sentients, NEW i \in Info,
           a \in u => IsTrue(i, a, s, n, l, u), NEW q, q = Written(r, a, s, i)
    PROVE  /\ Kept(q, n, l, u)
           /\ WroteRow(r, q, a, s, i)
<1>1. r \in AI
  BY DEF Kept
<1>2. WroteRow(r, q, a, s, i)
  BY <1>1, RowWritten
<1>3. Known(q, n, l, u)
  <2> SUFFICES ASSUME NEW b \in Actors \cap u, NEW t \in Sentients
               PROVE  IsTrue(q.info[b][t], b, t, n, l, u)
    BY DEF Known
  <2>1. CASE b = a /\ t = s
    BY <1>2, <2>1 DEF WroteRow
  <2>2. CASE ~(b = a /\ t = s)
    <3>1. q.info[b][t] = r.info[b][t]
      BY <1>2, <2>2 DEF WroteRow
    <3> QED
      BY <3>1 DEF Kept, Known
  <2> QED
    BY <2>1, <2>2
<1> QED
  BY <1>2, <1>3, OnlyRowsKept DEF WroteRow

\* A row may always be cleared.
LEMMA BlankKept ==
    ASSUME SentientsAssumption, NEW n, NEW l, NEW u, NEW r, Kept(r, n, l, u),
           NEW a \in Actors, NEW s \in Sentients, NEW q, q = Written(r, a, s, Blank)
    PROVE  /\ Kept(q, n, l, u)
           /\ WroteRow(r, q, a, s, Blank)
<1> DEFINE i == Blank
<1>1. i \in Info /\ IsTrue(i, a, s, n, l, u)
  BY BlankTyped, BlankIsTrue
<1>2. q = Written(r, a, s, i)
  OBVIOUS
<1> HIDE DEF i
<1>3. Kept(q, n, l, u) /\ WroteRow(r, q, a, s, i)
  BY <1>1, <1>2, WriteKept
<1> QED
  BY <1>3 DEF i

\* The row of a about s without its time.
Untimed(r, a, s) == [r.info[a][s] EXCEPT !.time = 0]

\* Forget writes that row.
LEMMA ForgetWrites ==
    ASSUME NEW r \in AI, NEW a \in Actors, NEW s \in Sentients
    PROVE  Forget(r, a, s) = Written(r, a, s, Untimed(r, a, s))
BY DEF Forget, Written, Untimed, AI

\* A time may always be forgotten, and then there is nothing to tell.
LEMMA ForgetKept ==
    ASSUME SentientsAssumption, NEW n, NEW l, NEW u, NEW r, Kept(r, n, l, u),
           NEW a \in Actors \cap u, NEW s \in Sentients, NEW q, q = Forget(r, a, s)
    PROVE  /\ Kept(q, n, l, u)
           /\ WroteRow(r, q, a, s, Untimed(r, a, s))
           /\ Untimed(r, a, s).time = 0
<1> DEFINE i == Untimed(r, a, s)
<1>1. r \in AI /\ r.info[a][s] \in Info
  BY RowTyped DEF Kept
<1>2. IsTrue(r.info[a][s], a, s, n, l, u)
  BY DEF Kept, Known
<1>3. i \in Info /\ i.time = 0 /\ IsTrue(i, a, s, n, l, u)
  BY <1>1, <1>2, UntimedIsTrue DEF Untimed
<1>4. q = Written(r, a, s, i)
  BY <1>1, ForgetWrites
<1> HIDE DEF i
<1>5. Kept(q, n, l, u) /\ WroteRow(r, q, a, s, i)
  BY <1>3, <1>4, WriteKept
<1> QED
  BY <1>3, <1>5 DEF i

-----------------------------------------------------------------------------
(* Actor_DissociateSentient *)

\* q is r when a has nothing of s any more.
Parted(r, q, a, s) ==
    /\ Kept(q, now, life, inuse)
    /\ \A b \in Actors, t \in Sentients :
         q.info[b][t] = IF b = a /\ t = s THEN Blank ELSE r.info[b][t]
    /\ \A b \in Actors :
         q.target[b] = IF b = a /\ r.target[b] = s THEN NoTarget ELSE r.target[b]

\* Actor_DissociateSentient leaves nothing of s with a, and tells no one of it: what
\* it broadcasts is the row it has just cleared.
LEMMA DissociateParts ==
    ASSUME SentientsAssumption, Clock, NEW r, Kept(r, now, life, inuse),
           NEW a \in Actors \cap inuse, NEW s \in Sentients, NEW hearing,
           NEW q, q = DissociateSentient(r, a, s, hearing)
    PROVE  Parted(r, q, a, s)
<1> DEFINE c == Written(r, a, s, Blank)
<1>1. Kept(c, now, life, inuse) /\ WroteRow(r, c, a, s, Blank)
  BY BlankKept
<1>2. q = IF r.target[a] = s THEN LoseEnemy(c, a, hearing) ELSE c
  BY DEF DissociateSentient, Written
<1> HIDE DEF c
<1>3. r.target \in [Actors -> Sentients \cup {Thing, NoTarget}]
  BY DEF Kept, AI
<1>4. CASE r.target[a] = s
  <2>1. q = LoseEnemy(c, a, hearing)
    BY <1>2, <1>4
  <2>2. c.target = r.target
    BY <1>1 DEF WroteRow, OnlyRows
  <2>3. c.target[a] \in Sentients /\ c.info[a][c.target[a]].time = 0
    BY <1>1, <1>4, <2>2, BlankTyped DEF WroteRow
  <2>4. /\ Kept(q, now, life, inuse) /\ q.info = c.info
        /\ q.target = Aimed(c.target, a, NoTarget)
    BY <1>1, <2>1, <2>3, LoseEnemyKept
  <2>5. \A b \in Actors :
          q.target[b] = IF b = a /\ r.target[b] = s THEN NoTarget ELSE r.target[b]
    BY <1>3, <1>4, <2>2, <2>4 DEF Aimed
  <2> QED
    BY <1>1, <2>4, <2>5 DEF Parted, WroteRow
<1>5. CASE r.target[a] # s
  <2>1. q = c
    BY <1>2, <1>5
  <2> QED
    BY <1>1, <1>3, <1>5, <2>1 DEF Parted, WroteRow, OnlyRows
<1> QED
  BY <1>4, <1>5

\* A set of numbers has a least one.
LEMMA LeastOf ==
    ASSUME NEW T \in SUBSET Nat, T # {}
    PROVE  \E m \in T : \A k \in T : m <= k
<1> DEFINE R == OpToRel(<, Nat)
<1>1. IsWellFoundedOn(R, Nat)
  BY NatLessThanWellFounded
<1>2. \A x, y \in Nat : x < y => <<x, y>> \in R
  BY DEF OpToRel
<1> HIDE DEF R
<1>3. PICK m \in T : \A k \in T : ~(<<k, m>> \in R)
  BY <1>1, WFMin
<1>4. ASSUME NEW k \in T PROVE m <= k
  <2>1. m \in Nat /\ k \in Nat /\ ~(k < m)
    BY <1>2, <1>3
  <2> QED
    BY <2>1
<1> QED
  BY <1>4

\* f takes the actors of order one after the other, up to the n-th.
Steps(f, n, r, s, hearing, order) ==
    f = [i \in 0..n |->
           IF i = 0 THEN r ELSE DissociateSentient(f[i - 1], order[i], s, hearing)]

\* There is such an f.
LEMMA StepsExist ==
    ASSUME NEW r, NEW s, NEW hearing, NEW order, NEW n \in Nat
    PROVE  \E f : Steps(f, n, r, s, hearing, order)
<1> DEFINE T == {m \in 0..n : ~ \E f : Steps(f, m, r, s, hearing, order)}
<1> SUFFICES ASSUME T # {} PROVE FALSE
  OBVIOUS
<1>1. PICK m \in T : \A k \in T : m <= k
  <2>1. T \in SUBSET Nat
    OBVIOUS
  <2> HIDE DEF T
  <2> QED
    BY <2>1, LeastOf
<1>2. CASE m = 0
  <2>1. Steps([i \in 0..0 |-> r], 0, r, s, hearing, order)
    BY DEF Steps
  <2> QED
    BY <1>1, <1>2, <2>1
<1>3. CASE m # 0
  <2>1. m - 1 \in 0..n /\ m \in Nat /\ m - 1 \notin T
    BY <1>1, <1>3
  <2>2. PICK f : Steps(f, m - 1, r, s, hearing, order)
    BY <2>1
  <2> DEFINE last == DissociateSentient(f[m - 1], order[m], s, hearing)
             g == [i \in 0..m |-> IF i < m THEN f[i] ELSE last]
  <2>3. \A i \in 0..m : i < m => g[i] = f[i]
    BY <2>1
  <2>4. g[m] = last
    BY <2>1
  <2>5. ASSUME NEW i \in 0..m
        PROVE  g[i] = IF i = 0 THEN r ELSE DissociateSentient(g[i - 1], order[i], s, hearing)
    <3>1. CASE i < m
      <4>1. i \in 0..(m - 1) /\ (i # 0 => i - 1 \in 0..m /\ i - 1 < m)
        BY <2>1, <3>1
      <4>2. f[i] = IF i = 0 THEN r ELSE DissociateSentient(f[i - 1], order[i], s, hearing)
        BY <2>2, <4>1 DEF Steps
      <4> HIDE DEF g
      <4> QED
        BY <2>3, <3>1, <4>1, <4>2
    <3>2. CASE i = m
      <4>1. m - 1 \in 0..m /\ m - 1 < m
        BY <2>1
      <4>2. g[m - 1] = f[m - 1]
        BY <2>3, <4>1
      <4> HIDE DEF g
      <4> QED
        BY <1>3, <2>4, <3>2, <4>2
    <3> QED
      BY <2>1, <3>1, <3>2
  <2>6. Steps(g, m, r, s, hearing, order)
    <3>1. g = [i \in 0..m |-> g[i]]
      OBVIOUS
    <3> HIDE DEF g
    <3> QED
      BY <2>5, <3>1 DEF Steps
  <2> QED
    BY <1>1, <2>6
<1> QED
  BY <1>2, <1>3

\* What Dissociated computes is the last of such steps.
LEMMA DissociatedSteps ==
    ASSUME NEW r, NEW s, NEW hearing, NEW order, Len(order) \in Nat
    PROVE  \E f : /\ Steps(f, Len(order), r, s, hearing, order)
                  /\ Dissociated(r, s, hearing, order) = f[Len(order)]
<1> DEFINE f == CHOOSE g : g = [n \in 0..Len(order) |->
                  IF n = 0 THEN r ELSE DissociateSentient(g[n - 1], order[n], s, hearing)]
<1>1. Dissociated(r, s, hearing, order) = f[Len(order)]
  BY DEF Dissociated
<1>2. \E g : Steps(g, Len(order), r, s, hearing, order)
  BY StepsExist
<1>3. Steps(f, Len(order), r, s, hearing, order)
  BY <1>2 DEF Steps
<1> QED
  BY <1>1, <1>3

\* f after n of the actors of order, one after the other from base, parted from s.
Parting(q, n, base, s, order) ==
    /\ Kept(q, now, life, inuse)
    /\ \A b \in Actors, t \in Sentients :
         \/ q.info[b][t] = base.info[b][t]
         \/ t = s /\ q.info[b][t] = Blank
    /\ \A b \in Actors : q.target[b] = base.target[b] \/ q.target[b] = NoTarget
    /\ \A i \in 1..n : q.info[order[i]][s] = Blank /\ q.target[order[i]] # s

\* One more actor.
LEMMA OneMoreParts ==
    ASSUME SentientsAssumption, Clock, NEW base, NEW s \in Sentients, NEW hearing,
           NEW order, NEW n \in Nat, n > 0, NEW p, Parting(p, n - 1, base, s, order),
           \A i \in 1..n : order[i] \in Actors \cap inuse,
           NEW q, q = DissociateSentient(p, order[n], s, hearing)
    PROVE  Parting(q, n, base, s, order)
<1> DEFINE a == order[n]
<1>1. a \in Actors \cap inuse
  OBVIOUS
<1>2. Kept(p, now, life, inuse)
  BY DEF Parting
<1>3. Parted(p, q, a, s)
  BY <1>1, <1>2, DissociateParts
<1>4. s # NoTarget
  BY DEF SentientsAssumption
<1>5. ASSUME NEW i \in 1..n PROVE q.info[order[i]][s] = Blank /\ q.target[order[i]] # s
  <2>1. order[i] \in Actors
    OBVIOUS
  <2>2. CASE i = n
    BY <1>3, <1>4, <2>1, <2>2 DEF Parted
  <2>3. CASE i # n
    <3>1. i \in 1..(n - 1)
      BY <2>3
    <3>2. p.info[order[i]][s] = Blank /\ p.target[order[i]] # s
      BY <3>1 DEF Parting
    <3> QED
      BY <1>3, <1>4, <2>1, <3>2 DEF Parted
  <2> QED
    BY <2>2, <2>3
<1>6. \A b \in Actors, t \in Sentients :
        \/ q.info[b][t] = base.info[b][t]
        \/ t = s /\ q.info[b][t] = Blank
  BY <1>3 DEF Parted, Parting
<1>7. \A b \in Actors : q.target[b] = base.target[b] \/ q.target[b] = NoTarget
  BY <1>3 DEF Parted, Parting
<1>8. Kept(q, now, life, inuse)
  BY <1>3 DEF Parted
<1> QED
  BY <1>5, <1>6, <1>7, <1>8 DEF Parting

\* When the actors of order have dissociated from s, one after the other, none of
\* them has anything of it.
LEMMA AllPart ==
    ASSUME SentientsAssumption, Clock, NEW base, Kept(base, now, life, inuse),
           NEW s \in Sentients, NEW hearing, NEW order, Len(order) \in Nat,
           \A i \in 1..Len(order) : order[i] \in Actors \cap inuse,
           NEW q, q = Dissociated(base, s, hearing, order)
    PROVE  Parting(q, Len(order), base, s, order)
<1> DEFINE N == Len(order)
<1>1. PICK f : Steps(f, N, base, s, hearing, order) /\ q = f[N]
  BY DissociatedSteps
<1> DEFINE T == {m \in 0..N : ~Parting(f[m], m, base, s, order)}
<1>2. CASE T # {}
  <2>1. PICK m \in T : \A k \in T : m <= k
    <3>1. T \in SUBSET Nat
      OBVIOUS
    <3> HIDE DEF T
    <3> QED
      BY <1>2, <3>1, LeastOf
  <2>2. CASE m = 0
    <3>1. f[0] = base
      BY <1>1 DEF Steps
    <3>2. Parting(base, 0, base, s, order)
      BY DEF Parting
    <3> QED
      BY <2>1, <2>2, <3>1, <3>2
  <2>3. CASE m # 0
    <3>1. m \in Nat /\ m > 0 /\ m <= N /\ m - 1 \in 0..N /\ m - 1 \notin T
      BY <2>1, <2>3
    <3>2. f[m] = DissociateSentient(f[m - 1], order[m], s, hearing)
      <4>1. m \in 0..N /\ m # 0
        BY <3>1
      <4> HIDE DEF N
      <4>2. \A i \in 0..N :
              f[i] = IF i = 0 THEN base
                     ELSE DissociateSentient(f[i - 1], order[i], s, hearing)
        BY <1>1 DEF Steps
      <4> QED
        BY <4>1, <4>2
    <3>3. Parting(f[m - 1], m - 1, base, s, order)
      BY <3>1
    <3>4. \A i \in 1..m : order[i] \in Actors \cap inuse
      BY <3>1
    <3>5. Parting(f[m], m, base, s, order)
      BY <3>1, <3>2, <3>3, <3>4, OneMoreParts
    <3> QED
      BY <2>1, <3>5
  <2> QED
    BY <2>2, <2>3
<1>3. CASE T = {}
  <2>1. N \in 0..N
    OBVIOUS
  <2> QED
    BY <1>1, <1>3, <2>1
<1> QED
  BY <1>2, <1>3

\* An order of a finite set names all of it.
LEMMA OrderNamesAll ==
    ASSUME NEW S, IsFiniteSet(S), NEW order \in SetToSeqs(S)
    PROVE  /\ Len(order) \in Nat
           /\ \A i \in 1..Len(order) : order[i] \in S
           /\ \A x \in S : \E i \in 1..Len(order) : order[i] = x
<1> DEFINE n == Cardinality(S)
           D == 1..n
<1>1. n \in Nat
  BY FS_CardinalityType
<1>2. order \in [D -> S] /\ \A i, j \in D : i # j => order[i] # order[j]
  BY DEF SetToSeqs
<1>3. order \in Injection(D, S)
  BY <1>2 DEF Injection, IsInjective
<1>4. IsFiniteSet(D) /\ Cardinality(D) = n
  BY <1>1, FS_Interval
<1>5. order \in Surjection(D, S)
  BY <1>3, <1>4, FS_Injection
<1>6. \A x \in S : \E i \in D : order[i] = x
  BY <1>5 DEF Surjection
<1>7. Len(order) = n
  <2>1. order \in Seq(S) /\ DOMAIN order = 1..n
    BY <1>1, <1>2
  <2> HIDE DEF n
  <2> QED
    BY <1>1, <2>1
<1> QED
  BY <1>1, <1>2, <1>6, <1>7

-----------------------------------------------------------------------------
(* Freeing slots *)

\* The fields of a record when the slots S have been vacated.
Vacated(r, q, S) ==
    /\ q \in AI /\ q.info = r.info
    /\ \A a \in Actors :
         /\ q.target[a] = IF a \in S THEN NoTarget ELSE r.target[a]
         /\ q.scriptTarget[a] = IF a \in S \/ r.scriptTarget[a] \in S THEN NoTarget
                                ELSE r.scriptTarget[a]
         /\ q.notify[a] = (a \notin S /\ r.notify[a])
         /\ q.useEnemyGoal[a] = (a \notin S /\ r.useEnemyGoal[a])
    /\ \A s \in Sentients : q.attackers[s] = IF s \in S THEN 0 ELSE r.attackers[s]

\* They are those of Vacate.
LEMMA VacateFields ==
    ASSUME NEW r \in AI, NEW S, NEW q, q = Vacate(r, S)
    PROVE  Vacated(r, q, S)
<1> DEFINE T == Sentients \cup {Thing, NoTarget}
           x == [a \in Actors |-> IF a \in S THEN NoTarget ELSE r.target[a]]
           y == [a \in Actors |-> IF a \in S \/ r.scriptTarget[a] \in S THEN NoTarget
                                  ELSE r.scriptTarget[a]]
           z == [s \in Sentients |-> IF s \in S THEN 0 ELSE r.attackers[s]]
           n == [a \in Actors |-> a \notin S /\ r.notify[a]]
           g == [a \in Actors |-> a \notin S /\ r.useEnemyGoal[a]]
<1>1. /\ r.target \in [Actors -> T] /\ r.scriptTarget \in [Actors -> T]
      /\ r.attackers \in [Sentients -> Int]
  BY DEF AI
<1>2. x \in [Actors -> T]
  BY <1>1
<1>3. y \in [Actors -> T]
  BY <1>1
<1>4. z \in [Sentients -> Int]
  BY <1>1
<1>5. n \in [Actors -> BOOLEAN]
  OBVIOUS
<1>6. g \in [Actors -> BOOLEAN]
  OBVIOUS
<1>7. /\ \A a \in Actors : x[a] = IF a \in S THEN NoTarget ELSE r.target[a]
      /\ \A a \in Actors : y[a] = IF a \in S \/ r.scriptTarget[a] \in S THEN NoTarget
                                  ELSE r.scriptTarget[a]
      /\ \A s \in Sentients : z[s] = IF s \in S THEN 0 ELSE r.attackers[s]
  OBVIOUS
<1>8. /\ \A a \in Actors : n[a] = (a \notin S /\ r.notify[a])
      /\ \A a \in Actors : g[a] = (a \notin S /\ r.useEnemyGoal[a])
  OBVIOUS
<1>9. q = [r EXCEPT !.target = x, !.scriptTarget = y, !.attackers = z, !.notify = n,
                    !.useEnemyGoal = g]
  BY Zenon DEF Vacate
<1> HIDE DEF x, y, z, n, g
<1>10. /\ q \in AI /\ q.info = r.info /\ q.target = x /\ q.scriptTarget = y
       /\ q.attackers = z /\ q.notify = n /\ q.useEnemyGoal = g
  BY <1>2, <1>3, <1>4, <1>5, <1>6, <1>9 DEF AI
<1> QED
  BY <1>7, <1>8, <1>10 DEF Vacated

\* Slots may be freed once no one outside fights one that holds one of them.
LEMMA VacateKept ==
    ASSUME SentientsAssumption, NEW r, NEW n, NEW l, NEW u, u \subseteq Sentients,
           Kept(r, n, l, u), NEW S,
           \A a \in Actors : a \notin S => r.target[a] \notin S,
           \A a \in Actors : a \in S => r.target[a] \in S \cup {Thing, NoTarget},
           NoTarget \notin S, Thing \notin S,
           NEW m, Known(r, m, l, u \ S), NEW q, q = Vacate(r, S)
    PROVE  Kept(q, m, l, u \ S)
<1>1. r \in AI
  BY DEF Kept
<1>2. Vacated(r, q, S)
  BY <1>1, VacateFields
<1>3. Known(q, m, l, u \ S)
  BY <1>2 DEF Known, Vacated
<1>4. Counted(q)
  <2>1. ASSUME NEW s \in Sentients
        PROVE  q.attackers[s] = Cardinality({a \in Actors : q.target[a] = s})
    <3>1. s # NoTarget /\ s # Thing
      BY DEF SentientsAssumption
    <3>2. CASE s \in S
      <4>1. {a \in Actors : q.target[a] = s} = {}
        BY <1>2, <3>1, <3>2 DEF Vacated
      <4>2. q.attackers[s] = 0
        BY <1>2, <3>2 DEF Vacated
      <4> QED
        BY <4>1, <4>2, FS_EmptySet
    <3>3. CASE s \notin S
      <4>1. {a \in Actors : q.target[a] = s} = {a \in Actors : r.target[a] = s}
        BY <1>2, <3>1, <3>3 DEF Vacated
      <4>2. q.attackers[s] = r.attackers[s]
        BY <1>2, <3>3 DEF Vacated
      <4> QED
        BY <4>1, <4>2 DEF Kept, Counted
    <3> QED
      BY <3>2, <3>3
  <2> QED
    BY <2>1 DEF Counted
<1>5. Handles(q, u \ S)
  BY <1>2 DEF Kept, Handles, Vacated
<1>6. Engaged(q, u \ S)
  BY <1>2 DEF Kept, Engaged, Vacated
<1>7. Vacant(q, u \ S)
  BY <1>2 DEF Kept, Vacant, Vacated
<1> QED
  BY <1>2, <1>3, <1>4, <1>5, <1>6, <1>7 DEF Kept, Vacated

-----------------------------------------------------------------------------
(* Single fields *)

\* Records with one field changed at a.
Silent(n, a) == [n EXCEPT !.notify[a] = FALSE]
Chasing(n, a) == [n EXCEPT !.useEnemyGoal[a] = TRUE]
Resting(n, a) == [n EXCEPT !.useEnemyGoal[a] = FALSE]
Scripted(n, a, t) == [n EXCEPT !.scriptTarget[a] = t]

\* The team has been notified.
LEMMA SilentKept ==
    ASSUME NEW r, NEW n, NEW l, NEW u, Kept(r, n, l, u), NEW a \in Actors,
           NEW q, q = Silent(r, a)
    PROVE  Kept(q, n, l, u) /\ q.info = r.info
<1> DEFINE x == [r.notify EXCEPT ![a] = FALSE]
<1>1. r \in AI /\ r.notify \in [Actors -> BOOLEAN]
  BY DEF Kept, AI
<1>2. x \in [Actors -> BOOLEAN] /\ \A b \in Actors : x[b] => r.notify[b]
  BY <1>1
<1>3. q = [r EXCEPT !.notify = x]
  BY <1>1 DEF Silent, AI
<1> HIDE DEF x
<1>4. /\ q \in AI /\ q.info = r.info /\ q.target = r.target /\ q.scriptTarget = r.scriptTarget
      /\ q.attackers = r.attackers /\ q.notify = x /\ q.useEnemyGoal = r.useEnemyGoal
  BY <1>1, <1>2, <1>3 DEF AI
<1>5. Known(q, n, l, u) /\ Counted(q) /\ Handles(q, u) /\ Vacant(q, u)
  BY <1>4 DEF Kept, Known, Counted, Handles, Vacant
<1>6. Engaged(q, u)
  BY <1>2, <1>4 DEF Kept, Engaged
<1> QED
  BY <1>4, <1>5, <1>6 DEF Kept

\* An actor that has an enemy may go after it.
LEMMA ChasingKept ==
    ASSUME NEW r, NEW n, NEW l, NEW u, Kept(r, n, l, u), NEW a \in Actors,
           r.target[a] \in u, NEW q, q = Chasing(r, a)
    PROVE  Kept(q, n, l, u) /\ q.info = r.info
<1> DEFINE x == [r.useEnemyGoal EXCEPT ![a] = TRUE]
<1>1. r \in AI /\ r.useEnemyGoal \in [Actors -> BOOLEAN]
  BY DEF Kept, AI
<1>2. /\ x \in [Actors -> BOOLEAN]
      /\ \A c \in Actors : x[c] => r.useEnemyGoal[c] \/ r.target[c] \in u
  BY <1>1
<1>3. q = [r EXCEPT !.useEnemyGoal = x]
  BY <1>1 DEF Chasing, AI
<1> HIDE DEF x
<1>4. /\ q \in AI /\ q.info = r.info /\ q.target = r.target /\ q.scriptTarget = r.scriptTarget
      /\ q.attackers = r.attackers /\ q.notify = r.notify /\ q.useEnemyGoal = x
  BY <1>1, <1>2, <1>3 DEF AI
<1>5. Known(q, n, l, u) /\ Counted(q) /\ Handles(q, u) /\ Vacant(q, u)
  BY <1>4 DEF Kept, Known, Counted, Handles, Vacant
<1>6. Engaged(q, u)
  BY <1>2, <1>4 DEF Kept, Engaged
<1> QED
  BY <1>4, <1>5, <1>6 DEF Kept

\* An actor may always stop to go after its enemy.
LEMMA RestingKept ==
    ASSUME NEW r, NEW n, NEW l, NEW u, Kept(r, n, l, u), NEW a \in Actors,
           NEW q, q = Resting(r, a)
    PROVE  Kept(q, n, l, u) /\ q.info = r.info
<1> DEFINE x == [r.useEnemyGoal EXCEPT ![a] = FALSE]
<1>1. r \in AI /\ r.useEnemyGoal \in [Actors -> BOOLEAN]
  BY DEF Kept, AI
<1>2. /\ x \in [Actors -> BOOLEAN]
      /\ \A c \in Actors : x[c] => r.useEnemyGoal[c]
  BY <1>1
<1>3. q = [r EXCEPT !.useEnemyGoal = x]
  BY <1>1 DEF Resting, AI
<1> HIDE DEF x
<1>4. /\ q \in AI /\ q.info = r.info /\ q.target = r.target /\ q.scriptTarget = r.scriptTarget
      /\ q.attackers = r.attackers /\ q.notify = r.notify /\ q.useEnemyGoal = x
  BY <1>1, <1>2, <1>3 DEF AI
<1>5. Known(q, n, l, u) /\ Counted(q) /\ Handles(q, u) /\ Vacant(q, u)
  BY <1>4 DEF Kept, Known, Counted, Handles, Vacant
<1>6. Engaged(q, u)
  BY <1>2, <1>4 DEF Kept, Engaged
<1> QED
  BY <1>4, <1>5, <1>6 DEF Kept

\* A script may name anyone who is there.
LEMMA ScriptedKept ==
    ASSUME NEW r, NEW n, NEW l, NEW u, Kept(r, n, l, u), u \subseteq Sentients,
           NEW a \in Actors \cap u, NEW t \in u \cup {Thing, NoTarget},
           NEW q, q = Scripted(r, a, t)
    PROVE  Kept(q, n, l, u) /\ q.info = r.info /\ q.target = r.target
<1> DEFINE x == [r.scriptTarget EXCEPT ![a] = t]
<1>1. r \in AI /\ r.scriptTarget \in [Actors -> Sentients \cup {Thing, NoTarget}]
  BY DEF Kept, AI
<1>2. /\ x \in [Actors -> Sentients \cup {Thing, NoTarget}]
      /\ \A c \in Actors : x[c] = IF c = a THEN t ELSE r.scriptTarget[c]
  BY <1>1
<1>3. q = [r EXCEPT !.scriptTarget = x]
  BY <1>1 DEF Scripted, AI
<1> HIDE DEF x
<1>4. /\ q \in AI /\ q.info = r.info /\ q.target = r.target /\ q.scriptTarget = x
      /\ q.attackers = r.attackers /\ q.notify = r.notify /\ q.useEnemyGoal = r.useEnemyGoal
  BY <1>1, <1>2, <1>3 DEF AI
<1>5. Known(q, n, l, u) /\ Counted(q) /\ Engaged(q, u)
  BY <1>4 DEF Kept, Known, Counted, Engaged
<1>6. Handles(q, u) /\ Vacant(q, u)
  BY <1>2, <1>4 DEF Kept, Handles, Vacant
<1> QED
  BY <1>4, <1>5, <1>6 DEF Kept

-----------------------------------------------------------------------------
(* The steps *)

\* No row of q is older than that of r.
NotOlder(r, q) == \A a \in Actors, s \in Sentients :
    q.info[a][s].time = 0 \/ q.info[a][s].time >= r.info[a][s].time

\* News that spread are newer.
LEMMA SpreadNotOlder ==
    ASSUME NEW r \in AI, NEW q \in AI, Spread(r, q)
    PROVE  NotOlder(r, q)
<1> SUFFICES ASSUME NEW b \in Actors, NEW s \in Sentients
             PROVE  q.info[b][s].time >= r.info[b][s].time
  BY DEF NotOlder
<1>1. r.info[b][s].time \in 0..MaxTime
  BY RowTyped
<1>2. ASSUME NEW c \in Actors, r.info[b][s].time < r.info[c][s].time,
             q.info[b][s] = [r.info[c][s] EXCEPT !.by = life[b]]
      PROVE  q.info[b][s].time >= r.info[b][s].time
  <2>1. r.info[c][s] \in Info /\ r.info[c][s].time \in 0..MaxTime
    BY RowTyped
  <2>2. q.info[b][s].time = r.info[c][s].time
    BY <1>2, <2>1 DEF Info
  <2> QED
    BY <1>1, <1>2, <2>1, <2>2
<1>3. CASE q.info[b][s] = r.info[b][s]
  BY <1>1, <1>3
<1>4. CASE q.info[b][s] # r.info[b][s]
  <2>1. PICK c \in Actors \cap inuse : /\ r.info[b][s].time < r.info[c][s].time
                                       /\ q.info[b][s] = [r.info[c][s] EXCEPT !.by = life[b]]
    BY <1>4 DEF Spread
  <2> QED
    BY <1>2, <2>1
<1> QED
  BY <1>3, <1>4

\* Rows that stay are not older.
LEMMA SameNotOlder ==
    ASSUME NEW r \in AI, NEW q, q.info = r.info
    PROVE  NotOlder(r, q)
<1>1. \A a \in Actors, s \in Sentients : r.info[a][s].time \in 0..MaxTime
  BY RowTyped
<1> QED
  BY <1>1 DEF NotOlder

\* A step keeps the invariant, and no row gets older.
Sound == Kept(ai', now', life', inuse') /\ NotOlder(ai, ai')

\* Spawn: no one knew of whoever was last in the slot.
LEMMA SpawnSound ==
    ASSUME SentientsAssumption, Clock, Kept(ai, now, life, inuse), NEW s \in Sentients, Spawn(s)
    PROVE  Sound
<1> DEFINE rows == [a \in Actors |-> IF a = s THEN EmptyRow ELSE ai.info[a]]
<1>1. ai \in AI /\ ai.info \in [Actors -> [Sentients -> Info]]
  BY DEF Kept, AI
<1>2. s \notin inuse /\ inuse' = inuse \cup {s} /\ now' = now
  BY DEF Spawn
<1>3. \A t \in inuse : life'[t] = life[t]
  BY <1>2 DEF Spawn, Clock
<1>4. rows \in [Actors -> [Sentients -> Info]]
  BY <1>1, BlankTyped DEF EmptyRow
<1>5. /\ \A a \in Actors : a # s => rows[a] = ai.info[a]
      /\ s \in Actors => \A t \in Sentients : rows[s][t] = Blank
  BY DEF EmptyRow
<1>6. ai' \in AI /\ OnlyRows(ai, ai') /\ ai'.info = rows
  <2>1. CASE s \in Actors
    <3>1. ai' = [ai EXCEPT !.info[s] = EmptyRow]
      BY <2>1 DEF Spawn, ResetRow
    <3>2. ai' = [ai EXCEPT !.info = [ai.info EXCEPT ![s] = EmptyRow]]
      BY <1>1, <3>1 DEF AI
    <3>3. [ai.info EXCEPT ![s] = EmptyRow] = rows
      BY <1>1
    <3>4. ai' = [ai EXCEPT !.info = rows]
      BY <3>2, <3>3
    <3> HIDE DEF rows
    <3> QED
      BY <1>1, <1>4, <3>4, RowsReplaced
  <2>2. CASE s \notin Actors
    <3>1. ai' = ai
      BY <2>2 DEF Spawn
    <3>2. rows = ai.info
      BY <1>1, <2>2
    <3> QED
      BY <1>1, <3>1, <3>2 DEF OnlyRows
  <2> QED
    BY <2>1, <2>2
<1> HIDE DEF rows
<1>7. Known(ai', now', life', inuse')
  <2> SUFFICES ASSUME NEW a \in Actors \cap inuse', NEW t \in Sentients
               PROVE  IsTrue(ai'.info[a][t], a, t, now', life', inuse')
    BY DEF Known
  <2>1. CASE a = s
    <3>1. ai'.info[a][t] = Blank
      BY <1>5, <1>6, <2>1
    <3> QED
      BY <3>1, BlankIsTrue
  <2>2. CASE a # s
    <3>1. a \in inuse /\ life'[a] = life[a]
      BY <1>2, <1>3, <2>2
    <3>2. ai'.info[a][t] = ai.info[a][t]
      BY <1>5, <1>6, <2>2
    <3>3. IsTrue(ai.info[a][t], a, t, now, life, inuse)
      BY <3>1 DEF Kept, Known
    <3>4. CASE t \in inuse
      <4>1. life'[t] = life[t]
        BY <1>3, <3>4
      <4> QED
        BY <1>2, <3>1, <3>2, <3>3, <3>4, <4>1 DEF IsTrue
    <3>5. CASE t \notin inuse
      BY <3>2, <3>3, <3>5 DEF IsTrue
    <3> QED
      BY <3>4, <3>5
  <2> QED
    BY <2>1, <2>2
<1>8. /\ Counted(ai') /\ Handles(ai', inuse') /\ Engaged(ai', inuse') /\ Vacant(ai', inuse')
  BY <1>2, <1>6 DEF Kept, OnlyRows, Counted, Handles, Engaged, Vacant
<1>9. NotOlder(ai, ai')
  <2>1. \A a \in Actors, t \in Sentients : ai.info[a][t].time \in 0..MaxTime
    BY <1>1, RowTyped
  <2> QED
    BY <1>5, <1>6, <2>1, BlankTyped DEF NotOlder
<1> QED
  BY <1>6, <1>7, <1>8, <1>9 DEF Kept, Sound

\* Free: those that are left know and fight it no more, in whatever order they learnt it.
LEMMA FreeSound ==
    ASSUME SentientsAssumption, Clock, Kept(ai, now, life, inuse), NEW s \in Sentients,
           NEW hearing, Free(s, hearing)
    PROVE  Sound
<1> DEFINE alone == IF s \in Actors THEN LoseEnemy(ai, s, hearing) ELSE ai
           others == (Actors \cap inuse) \ {s}
<1>1. PICK order \in SetToSeqs(others) :
        ai' = Vacate(Dissociated(alone, s, hearing, order), {s})
  BY DEF Free
<1>2. s \in inuse /\ inuse' = inuse \ {s} /\ now' = now /\ life' = life
  BY DEF Free
<1>3. ai \in AI /\ ai.target \in [Actors -> Sentients \cup {Thing, NoTarget}]
  BY DEF Kept, AI
<1>4. /\ Kept(alone, now, life, inuse) /\ Spread(ai, alone)
      /\ s \in Actors => alone.target[s] = NoTarget
  <2>1. CASE s \in Actors
    <3>1. alone = LoseEnemy(ai, s, hearing) /\ s \in Actors \cap inuse
      BY <1>2, <2>1
    <3> HIDE DEF alone
    <3>2. /\ Kept(alone, now, life, inuse) /\ Spread(ai, alone)
          /\ alone.target = Aimed(ai.target, s, NoTarget)
      BY <3>1, LoseEnemyKept
    <3> QED
      BY <1>3, <2>1, <3>2 DEF Aimed
  <2>2. CASE s \notin Actors
    BY <2>2 DEF Spread
  <2> QED
    BY <2>1, <2>2
<1>5. IsFiniteSet(others)
  <2>1. others \in SUBSET Actors
    OBVIOUS
  <2> QED
    BY <2>1, ActorsFinite, FS_Subset
<1> DEFINE q == Dissociated(alone, s, hearing, order)
<1> HIDE DEF alone
<1>6. /\ Len(order) \in Nat
      /\ \A i \in 1..Len(order) : order[i] \in others
      /\ \A a \in others : \E i \in 1..Len(order) : order[i] = a
  <2> HIDE DEF others
  <2> QED
    BY <1>5, OrderNamesAll
<1>7. Parting(q, Len(order), alone, s, order)
  BY <1>4, <1>6, AllPart
<1> HIDE DEF q
<1>8. Kept(q, now, life, inuse) /\ q \in AI
  BY <1>7 DEF Parting, Kept
<1>9. \A a \in others : q.info[a][s] = Blank /\ q.target[a] # s
  BY <1>6, <1>7 DEF Parting
<1>10. s # NoTarget /\ s # Thing
  BY DEF SentientsAssumption
<1>11. \A a \in Actors : a # s => q.target[a] # s
  BY <1>8, <1>9, <1>10 DEF Kept, Vacant
<1>12. s \in Actors => q.target[s] = NoTarget
  BY <1>4, <1>7 DEF Parting
<1>13. Known(q, now, life, inuse \ {s})
  <2> SUFFICES ASSUME NEW a \in Actors \cap (inuse \ {s}), NEW t \in Sentients
               PROVE  IsTrue(q.info[a][t], a, t, now, life, inuse \ {s})
    BY DEF Known
  <2>1. CASE t = s
    <3>1. q.info[a][t] = Blank
      BY <1>9, <2>1
    <3> QED
      BY <3>1, BlankIsTrue
  <2>2. CASE t # s
    <3>1. IsTrue(q.info[a][t], a, t, now, life, inuse)
      BY <1>8 DEF Kept, Known
    <3> QED
      BY <2>2, <3>1 DEF IsTrue
  <2> QED
    BY <2>1, <2>2
<1>14. Kept(ai', now, life, inuse \ {s})
  <2>1. ai' = Vacate(q, {s})
    BY <1>1 DEF q
  <2>2. /\ \A a \in Actors : a \notin {s} => q.target[a] \notin {s}
        /\ \A a \in Actors : a \in {s} => q.target[a] \in {s} \cup {Thing, NoTarget}
        /\ NoTarget \notin {s} /\ Thing \notin {s}
    BY <1>10, <1>11, <1>12
  <2> DEFINE S == {s}
  <2> HIDE DEF S
  <2>3. /\ \A a \in Actors : a \notin S => q.target[a] \notin S
        /\ \A a \in Actors : a \in S => q.target[a] \in S \cup {Thing, NoTarget}
        /\ NoTarget \notin S /\ Thing \notin S
    BY <2>2 DEF S
  <2>4. Known(q, now, life, inuse \ S) /\ ai' = Vacate(q, S) /\ inuse \subseteq Sentients
    BY <1>13, <2>1 DEF S, Clock
  <2>5. Kept(ai', now, life, inuse \ S)
    BY <1>8, <2>3, <2>4, VacateKept
  <2> QED
    BY <2>5 DEF S
<1>15. NotOlder(ai, ai')
  <2>1. ai'.info = q.info
    BY <1>1, <1>8, VacateFields DEF q, Vacated
  <2>2. NotOlder(ai, alone)
    BY <1>3, <1>4, SpreadNotOlder DEF Kept
  <2> QED
    BY <1>7, <2>1, <2>2, BlankTyped DEF NotOlder, Parting
<1> QED
  BY <1>2, <1>14, <1>15 DEF Sound

\* InitActors frees all the slots.
LEMMA InitActorsSound ==
    ASSUME SentientsAssumption, Clock, Kept(ai, now, life, inuse), InitActors
    PROVE  Sound
<1>1. ai \in AI /\ ai.target \in [Actors -> Sentients \cup {Thing, NoTarget}]
  BY DEF Kept, AI
<1>2. ai' = Vacate(ai, Sentients) /\ now' = 1 /\ life' = life /\ inuse' = {}
  BY DEF InitActors
<1>3. inuse \ Sentients = {} /\ inuse \subseteq Sentients
  BY DEF Clock
<1>4. Known(ai, 1, life, inuse \ Sentients)
  BY <1>3 DEF Known
<1>5. /\ \A a \in Actors : a \notin Sentients => ai.target[a] \notin Sentients
      /\ \A a \in Actors : a \in Sentients => ai.target[a] \in Sentients \cup {Thing, NoTarget}
      /\ NoTarget \notin Sentients /\ Thing \notin Sentients
  BY <1>1 DEF SentientsAssumption
<1>6. Kept(ai', 1, life, inuse \ Sentients)
  BY <1>2, <1>3, <1>4, <1>5, VacateKept
<1>7. ai'.info = ai.info
  BY <1>1, <1>2, VacateFields DEF Vacated
<1> QED
  BY <1>1, <1>2, <1>3, <1>6, <1>7, SameNotOlder DEF Sound

\* LoadGame empties rows.
LEMMA LoadGameSound ==
    ASSUME SentientsAssumption, Clock, Kept(ai, now, life, inuse), LoadGame
    PROVE  Sound
<1> DEFINE rows == [a \in Actors |-> IF a \in inuse THEN EmptyRow ELSE ai.info[a]]
<1>1. ai \in AI /\ ai.info \in [Actors -> [Sentients -> Info]]
  BY DEF Kept, AI
<1>2. ai' = [ai EXCEPT !.info = rows]
  BY Zenon DEF LoadGame
<1>3. rows \in [Actors -> [Sentients -> Info]]
  BY <1>1, BlankTyped DEF EmptyRow
<1>4. /\ \A a \in Actors \cap inuse, s \in Sentients : rows[a][s] = Blank
      /\ \A a \in Actors \ inuse : rows[a] = ai.info[a]
  BY DEF EmptyRow
<1>5. inuse' = inuse /\ now' = now /\ life' = life
  BY DEF LoadGame
<1> HIDE DEF rows
<1>6. ai' \in AI /\ OnlyRows(ai, ai') /\ ai'.info = rows
  BY <1>1, <1>2, <1>3, RowsReplaced
<1>7. Known(ai', now, life, inuse)
  <2> SUFFICES ASSUME NEW a \in Actors \cap inuse, NEW s \in Sentients
               PROVE  IsTrue(ai'.info[a][s], a, s, now, life, inuse)
    BY DEF Known
  <2>1. ai'.info[a][s] = Blank
    BY <1>4, <1>6
  <2> QED
    BY <2>1, BlankIsTrue
<1>8. Kept(ai', now, life, inuse)
  BY <1>6, <1>7, OnlyRowsKept
<1>9. NotOlder(ai, ai')
  <2>1. \A a \in Actors, t \in Sentients : ai.info[a][t].time \in 0..MaxTime
    BY <1>1, RowTyped
  <2> QED
    BY <1>4, <1>6, <2>1, BlankTyped DEF NotOlder
<1> QED
  BY <1>5, <1>8, <1>9 DEF Sound

\* Frame: what was true stays so.
LEMMA FrameSound ==
    ASSUME SentientsAssumption, Clock, Kept(ai, now, life, inuse), Frame
    PROVE  Sound
<1>1. ai \in AI
  BY DEF Kept
<1>2. ai' = ai /\ life' = life /\ inuse' = inuse /\ now' = now + 1 /\ now \in Nat
  BY DEF Frame, Clock
<1>3. \A a \in Actors, s \in Sentients : ai.info[a][s].pos.time \in 0..MaxTime
  BY <1>1, RowTyped
<1>4. Known(ai, now + 1, life, inuse)
  BY <1>2, <1>3 DEF Kept, Known, IsTrue
<1> QED
  BY <1>1, <1>2, <1>4, SameNotOlder DEF Sound, Kept

\* HearPointEvent and HearBullet: now is not earlier than what was known.
LEMMA LearnSound ==
    ASSUME SentientsAssumption, Clock, Kept(ai, now, life, inuse),
           NEW a \in Actors, NEW s \in Sentients, Meets(a, s), Learn(a, s)
    PROVE  Sound
<1> DEFINE i == [time |-> now, pos |-> [life |-> life[s], time |-> now], by |-> life[a]]
<1>1. ai \in AI
  BY DEF Kept
<1>2. a \in inuse /\ s \in inuse
  BY DEF Meets
<1>3. ai' = Written(ai, a, s, i) /\ now' = now /\ life' = life /\ inuse' = inuse
  BY DEF Learn, UpdateLastKnownPos, Written
<1>4. i \in Info
  BY DEF Info, Positions, Clock, SentientsAssumption
<1>5. /\ i.time = now /\ i.pos = [life |-> life[s], time |-> now] /\ i.by = life[a]
      /\ now \in Nat
  BY DEF Clock
<1> HIDE DEF i
<1>6. IsTrue(i, a, s, now, life, inuse)
  BY <1>2, <1>5 DEF IsTrue
<1>7. Kept(ai', now, life, inuse) /\ WroteRow(ai, ai', a, s, i)
  BY <1>3, <1>4, <1>6, WriteKept
<1>8. IsTrue(ai.info[a][s], a, s, now, life, inuse)
  BY <1>2 DEF Kept, Known
<1>9. NotOlder(ai, ai')
  <2>1. \A b \in Actors, t \in Sentients : ai.info[b][t].time \in 0..MaxTime
    BY <1>1, RowTyped
  <2>2. ai.info[a][s].time <= now
    <3>1. CASE ai.info[a][s].time > 0
      BY <1>8, <3>1 DEF IsTrue
    <3>2. CASE ~(ai.info[a][s].time > 0)
      BY <1>5, <2>1, <3>2
    <3> QED
      BY <3>1, <3>2
  <2> QED
    BY <1>5, <1>7, <2>1, <2>2 DEF NotOlder, WroteRow
<1> QED
  BY <1>3, <1>7, <1>9 DEF Sound

\* The rows when a has forgotten the time of s.
Forgotten(r, q, a, s) == \A b \in Actors, t \in Sentients :
    IF b = a /\ t = s THEN q.info[b][t].time = 0 ELSE q.info[b][t] = r.info[b][t]

\* A row without a time is not older knowledge.
LEMMA ForgetNotOlder ==
    ASSUME SentientsAssumption, NEW r \in AI, NEW a \in Actors, NEW s \in Sentients, NEW q,
           Forgotten(r, q, a, s)
    PROVE  NotOlder(r, q)
<1>1. \A b \in Actors, t \in Sentients : r.info[b][t].time \in 0..MaxTime
  BY RowTyped
<1> QED
  BY <1>1 DEF NotOlder, Forgotten

\* TurretForget takes the time out of a row.
LEMMA TurretForgetSound ==
    ASSUME SentientsAssumption, Clock, Kept(ai, now, life, inuse),
           NEW a \in Actors, NEW s \in Sentients, TurretForget(a, s)
    PROVE  Sound
<1>1. /\ a \in inuse /\ ai' = Forget(ai, a, s)
      /\ now' = now /\ life' = life /\ inuse' = inuse
  BY DEF TurretForget, Meets
<1>2. /\ Kept(ai', now, life, inuse) /\ WroteRow(ai, ai', a, s, Untimed(ai, a, s))
      /\ Untimed(ai, a, s).time = 0
  BY <1>1, ForgetKept
<1>3. NotOlder(ai, ai')
  <2>1. ai \in AI /\ Forgotten(ai, ai', a, s)
    BY <1>2 DEF Kept, WroteRow, Forgotten
  <2> QED
    BY <2>1, ForgetNotOlder
<1> QED
  BY <1>1, <1>2, <1>3 DEF Sound

\* NotifyTeam: there is an enemy to tell of.
LEMMA NotifyTeamSound ==
    ASSUME SentientsAssumption, Clock, Kept(ai, now, life, inuse),
           NEW a \in Actors, NEW hearing, NotifyTeam(a, hearing)
    PROVE  Sound
<1> DEFINE n == Notified(ai, a, hearing)
<1>1. /\ a \in Actors \cap inuse /\ ai.notify[a] /\ ai' = Silent(n, a)
      /\ now' = now /\ life' = life /\ inuse' = inuse
  BY DEF NotifyTeam, Silent
<1>2. ai \in AI /\ ai.target[a] \in Sentients
  BY <1>1 DEF Kept, Engaged, Clock
<1>3. n \in AI /\ OnlyRows(ai, n) /\ Spread(ai, n)
  BY <1>1, <1>2, NotifiedSpreads
<1> HIDE DEF n
<1>4. Known(n, now, life, inuse)
  BY <1>2, <1>3, SpreadKnown DEF Kept, Clock, SentientsAssumption
<1>5. Kept(n, now, life, inuse)
  BY <1>3, <1>4, OnlyRowsKept
<1>6. Kept(ai', now, life, inuse) /\ ai'.info = n.info
  BY <1>1, <1>5, SilentKept
<1>7. NotOlder(ai, n)
  BY <1>2, <1>3, SpreadNotOlder
<1> QED
  BY <1>1, <1>6, <1>7 DEF Sound, NotOlder

\* UpdateThreat: whoever it takes is there.
LEMMA UpdateThreatSound ==
    ASSUME SentientsAssumption, Clock, Kept(ai, now, life, inuse),
           NEW a \in Actors, NEW hearing, UpdateThreat(a, hearing)
    PROVE  Sound
<1>1. a \in Actors \cap inuse /\ now' = now /\ life' = life /\ inuse' = inuse
  BY DEF UpdateThreat
<1>2. PICK t \in inuse \cup {Thing, NoTarget} : ai' = SetEnemy(ai, a, t, hearing)
  BY DEF UpdateThreat, Kept, Handles
<1>3. Kept(ai', now, life, inuse) /\ Spread(ai, ai')
  BY <1>1, <1>2, SetEnemyKept
<1>4. NotOlder(ai, ai')
  BY <1>3, SpreadNotOlder DEF Kept
<1> QED
  BY <1>1, <1>3, <1>4 DEF Sound

\* ClearEnemy forgets the enemy before it lets it go.
LEMMA ClearEnemySound ==
    ASSUME SentientsAssumption, Clock, Kept(ai, now, life, inuse),
           NEW a \in Actors, NEW hearing, ClearEnemy(a, hearing)
    PROVE  Sound
<1> DEFINE t == ai.target[a]
           forgotten == IF t \in Sentients THEN Forget(ai, a, t) ELSE ai
           free == IF ai.scriptTarget[a] = t THEN Scripted(forgotten, a, NoTarget)
                   ELSE forgotten
<1>1. a \in Actors \cap inuse /\ now' = now /\ life' = life /\ inuse' = inuse
  BY DEF ClearEnemy
<1>2. ai' = LoseEnemy(free, a, hearing)
  BY DEF ClearEnemy, Scripted
<1>3. ai \in AI /\ inuse \subseteq Sentients
  BY DEF Kept, Clock
<1>4. /\ Kept(forgotten, now, life, inuse) /\ forgotten.target = ai.target
      /\ t \in Sentients => /\ WroteRow(ai, forgotten, a, t, Untimed(ai, a, t))
                             /\ Untimed(ai, a, t).time = 0
      /\ t \notin Sentients => forgotten = ai
  <2>1. CASE t \in Sentients
    <3>1. forgotten = Forget(ai, a, t)
      BY <2>1
    <3> HIDE DEF forgotten
    <3>2. /\ Kept(forgotten, now, life, inuse) /\ WroteRow(ai, forgotten, a, t, Untimed(ai, a, t))
          /\ Untimed(ai, a, t).time = 0
      BY <1>1, <2>1, <3>1, ForgetKept
    <3> QED
      BY <2>1, <3>2 DEF WroteRow, OnlyRows
  <2>2. CASE t \notin Sentients
    BY <2>2
  <2> QED
    BY <2>1, <2>2
<1> HIDE DEF forgotten
<1>5. /\ Kept(free, now, life, inuse) /\ free.info = forgotten.info
      /\ free.target = ai.target
  BY <1>1, <1>3, <1>4, ScriptedKept
<1> HIDE DEF free
<1>6. Kept(ai', now, life, inuse) /\ Spread(free, ai')
  BY <1>1, <1>2, <1>5, LoseEnemyKept
<1>7. NotOlder(ai, ai')
  <2>1. CASE t \in Sentients
    <3>1. free.target[a] \in Sentients /\ free.info[a][free.target[a]].time = 0
      BY <1>4, <1>5, <2>1 DEF WroteRow
    <3>2. ai'.info = free.info
      BY <1>1, <1>2, <1>5, <3>1, LoseEnemyKept
    <3>3. ai'.info = forgotten.info
      BY <1>5, <3>2
    <3>4. Forgotten(ai, ai', a, t)
      BY <1>4, <2>1, <3>3 DEF WroteRow, Forgotten
    <3> HIDE DEF t
    <3> QED
      BY <1>3, <2>1, <3>4, ForgetNotOlder
  <2>2. CASE t \notin Sentients
    <3>1. free.info = ai.info
      BY <1>4, <1>5, <2>2
    <3>2. NotOlder(free, ai')
      BY <1>5, <1>6, SpreadNotOlder DEF Kept
    <3> QED
      BY <3>1, <3>2 DEF NotOlder
  <2> QED
    BY <2>1, <2>2
<1> QED
  BY <1>1, <1>6, <1>7 DEF Sound

\* SetScriptTarget names someone who is there.
LEMMA SetScriptTargetSound ==
    ASSUME SentientsAssumption, Clock, Kept(ai, now, life, inuse),
           NEW a \in Actors, NEW t, SetScriptTarget(a, t)
    PROVE  Sound
<1>1. /\ a \in Actors \cap inuse /\ t \in inuse \cup {Thing, NoTarget}
      /\ ai' = Scripted(ai, a, t) /\ inuse \subseteq Sentients
      /\ now' = now /\ life' = life /\ inuse' = inuse
  BY DEF SetScriptTarget, Scripted, Clock
<1>2. Kept(ai', now, life, inuse) /\ ai'.info = ai.info
  BY <1>1, ScriptedKept
<1> QED
  BY <1>1, <1>2, SameNotOlder DEF Sound, Kept

\* ChaseEnemy: the enemy is there.
LEMMA ChaseEnemySound ==
    ASSUME SentientsAssumption, Clock, Kept(ai, now, life, inuse), NEW a \in Actors, ChaseEnemy(a)
    PROVE  Sound
<1>1. /\ ai' = Chasing(ai, a) /\ now' = now /\ life' = life /\ inuse' = inuse
  BY DEF ChaseEnemy, Chasing
<1>2. ai.target[a] \in inuse
  BY DEF ChaseEnemy, Kept, Handles, SentientsAssumption
<1>3. Kept(ai', now, life, inuse) /\ ai'.info = ai.info
  BY <1>1, <1>2, ChasingKept
<1> QED
  BY <1>1, <1>3, SameNotOlder DEF Sound, Kept

\* TurretThink may only stop.
LEMMA TurretThinkSound ==
    ASSUME SentientsAssumption, Clock, Kept(ai, now, life, inuse), NEW a \in Actors,
           NEW sees, TurretThink(a, sees)
    PROVE  Sound
<1>1. /\ ai' = ai \/ ai' = Resting(ai, a)
      /\ now' = now /\ life' = life /\ inuse' = inuse
  BY DEF TurretThink, Resting
<1>2. Kept(ai', now, life, inuse) /\ ai'.info = ai.info
  BY <1>1, RestingKept
<1> QED
  BY <1>1, <1>2, SameNotOlder DEF Sound, Kept

\* All of the steps.
LEMMA ActionSound ==
    ASSUME SentientsAssumption, Inv, Next
    PROVE  Sound
<1>1. Clock /\ Kept(ai, now, life, inuse)
  BY DEF Inv, TypeOK, Clock
<1>2. CASE Live
  <2>1. ASSUME NEW s \in Sentients, Spawn(s) PROVE Sound
    BY <1>1, <2>1, SpawnSound
  <2>2. ASSUME NEW s \in Sentients, NEW hearing \in SUBSET Actors, Free(s, hearing) PROVE Sound
    BY <1>1, <2>2, FreeSound
  <2>3. CASE InitActors
    BY <1>1, <2>3, InitActorsSound
  <2>4. CASE LoadGame
    BY <1>1, <2>4, LoadGameSound
  <2>5. CASE Frame
    BY <1>1, <2>5, FrameSound
  <2> QED
    BY <1>2, <2>1, <2>2, <2>3, <2>4, <2>5 DEF Live
<1>3. CASE Sense
  <2>1. PICK a \in Actors, s \in Sentients :
          HearPointEvent(a, s) \/ HearBullet(a, s) \/ TurretForget(a, s)
    BY <1>3 DEF Sense
  <2>2. CASE HearPointEvent(a, s) \/ HearBullet(a, s)
    <3>1. Meets(a, s) /\ Learn(a, s)
      BY <2>2 DEF HearPointEvent, HearBullet
    <3> QED
      BY <1>1, <3>1, LearnSound
  <2>3. CASE TurretForget(a, s)
    BY <1>1, <2>3, TurretForgetSound
  <2> QED
    BY <2>1, <2>2, <2>3
<1>4. CASE Think
  <2>1. ASSUME NEW a \in Actors, NEW hearing \in SUBSET (Actors \ {a}),
               NotifyTeam(a, hearing) \/ UpdateThreat(a, hearing) \/ ClearEnemy(a, hearing)
        PROVE  Sound
    BY <1>1, <2>1, NotifyTeamSound, UpdateThreatSound, ClearEnemySound
  <2>2. ASSUME NEW a \in Actors, NEW t \in ScriptTargets, SetScriptTarget(a, t) PROVE Sound
    BY <1>1, <2>2, SetScriptTargetSound
  <2>3. ASSUME NEW a \in Actors, ChaseEnemy(a) PROVE Sound
    BY <1>1, <2>3, ChaseEnemySound
  <2>4. ASSUME NEW a \in Actors, NEW sees \in BOOLEAN, TurretThink(a, sees) PROVE Sound
    BY <1>1, <2>4, TurretThinkSound
  <2> QED
    BY <1>4, <2>1, <2>2, <2>3, <2>4 DEF Think
<1> QED
  BY <1>2, <1>3, <1>4 DEF Next

\* What the clock, the lives and the slots do.
LEMMA ClockKept ==
    ASSUME SentientsAssumption, TypeOK, Next
    PROVE  /\ now' \in 1..MaxTime
           /\ life' \in [Sentients -> Nat] /\ \A s \in Sentients : life'[s] <= MaxLives[s]
           /\ inuse' \subseteq Sentients
<1>1. 1 \in 1..MaxTime /\ \A s \in Sentients : MaxLives[s] \in Nat
  BY DEF SentientsAssumption
<1>2. ASSUME NEW s \in Sentients, Spawn(s)
      PROVE  /\ now' \in 1..MaxTime
             /\ life' \in [Sentients -> Nat] /\ \A t \in Sentients : life'[t] <= MaxLives[t]
             /\ inuse' \subseteq Sentients
  BY <1>1, <1>2 DEF Spawn, TypeOK
<1>3. CASE Frame
  BY <1>3 DEF Frame, TypeOK, SentientsAssumption
<1>4. CASE InitActors
  BY <1>1, <1>4 DEF InitActors, TypeOK
<1>5. CASE /\ now' = now /\ life' = life /\ inuse' \subseteq inuse
  BY <1>5 DEF TypeOK
<1>6. CASE Live
  <2>1. ASSUME NEW s \in Sentients, NEW hearing, Free(s, hearing)
        PROVE  now' = now /\ life' = life /\ inuse' \subseteq inuse
    BY <2>1 DEF Free
  <2>2. LoadGame => now' = now /\ life' = life /\ inuse' \subseteq inuse
    BY DEF LoadGame
  <2> QED
    BY <1>2, <1>3, <1>4, <1>5, <1>6, <2>1, <2>2 DEF Live
<1>7. CASE Sense
  <2>1. now' = now /\ life' = life /\ inuse' = inuse
    BY <1>7 DEF Sense, HearPointEvent, HearBullet, TurretForget, Learn
  <2> QED
    BY <1>5, <2>1
<1>8. CASE Think
  <2>1. now' = now /\ life' = life /\ inuse' = inuse
    BY <1>8 DEF Think, NotifyTeam, UpdateThreat, ClearEnemy, SetScriptTarget, ChaseEnemy,
                TurretThink
  <2> QED
    BY <1>5, <2>1
<1> QED
  BY <1>6, <1>7, <1>8 DEF Next

\* At the start.
LEMMA InitInv ==
    ASSUME SentientsAssumption, Init
    PROVE  Inv
<1>1. now = 1 /\ life = [s \in Sentients |-> 0] /\ inuse = {}
  BY DEF Init
<1>2. now \in 1..MaxTime /\ \A s \in Sentients : MaxLives[s] \in Nat /\ life[s] = 0
  BY <1>1 DEF SentientsAssumption
<1>3. ai \in AI
  BY BlankTyped DEF Init, AI
<1>4. Known(ai, now, life, inuse)
  BY <1>1 DEF Known
<1>5. /\ \A a \in Actors : /\ ai.target[a] = NoTarget /\ ai.scriptTarget[a] = NoTarget
                           /\ ~ai.notify[a] /\ ~ai.useEnemyGoal[a]
      /\ \A s \in Sentients : ai.attackers[s] = 0
  BY DEF Init
<1>6. Counted(ai)
  <2>1. ASSUME NEW s \in Sentients
        PROVE  {a \in Actors : ai.target[a] = s} = {}
    BY <1>5 DEF SentientsAssumption
  <2> QED
    BY <1>5, <2>1, FS_EmptySet DEF Counted
<1>7. Handles(ai, inuse) /\ Engaged(ai, inuse) /\ Vacant(ai, inuse)
  BY <1>5 DEF Handles, Engaged, Vacant
<1>8. Kept(ai, now, life, inuse)
  BY <1>3, <1>4, <1>6, <1>7 DEF Kept
<1>9. TypeOK
  BY <1>1, <1>2, <1>3 DEF TypeOK
<1> QED
  BY <1>8, <1>9 DEF Inv

\* The invariant is inductive, and no step makes a row older.
LEMMA StepInv ==
    ASSUME SentientsAssumption, Inv, [Next]_vars
    PROVE  Inv' /\ NotOlder(ai, ai')
<1>1. CASE Next
  <2>1. Kept(ai', now', life', inuse') /\ NotOlder(ai, ai')
    BY <1>1, ActionSound DEF Sound
  <2>2. /\ now' \in 1..MaxTime
        /\ life' \in [Sentients -> Nat] /\ \A s \in Sentients : life'[s] <= MaxLives[s]
        /\ inuse' \subseteq Sentients
    BY <1>1, ClockKept DEF Inv
  <2>3. TypeOK'
    BY <2>1, <2>2 DEF TypeOK, Kept
  <2> QED
    BY <2>1, <2>3 DEF Inv
<1>2. CASE UNCHANGED vars
  <2>1. now' = now /\ life' = life /\ inuse' = inuse /\ ai' = ai
    BY <1>2 DEF vars
  <2>2. TypeOK'
    BY <2>1 DEF Inv, TypeOK
  <2>3. Kept(ai', now', life', inuse')
    BY <2>1 DEF Inv
  <2>4. NotOlder(ai, ai')
    BY <2>1, SameNotOlder DEF Inv, Kept
  <2> QED
    BY <2>2, <2>3, <2>4 DEF Inv
<1> QED
  BY <1>1, <1>2

\* The invariant holds.
LEMMA Invariance == Spec => []Inv
<1>1. Init => Inv
  BY SentientsAssumption, InitInv
<1>2. Inv /\ [Next]_vars => Inv'
  BY SentientsAssumption, StepInv
<1> QED
  BY <1>1, <1>2, PTL DEF Spec

-----------------------------------------------------------------------------
(* The theorems *)

\* The fields of the AI stay in their ranges, lives within their bound: TypeOK.
THEOREM TypesHold == Spec => []TypeOK
<1>1. Inv => TypeOK
  BY DEF Inv
<1> QED
  BY <1>1, Invariance, PTL

\* What an actor knows of a slot is true of whoever holds it, and its own, although the
\* side table (Actor_SentientInfo) is not keyed by lives, across maps and saved games.
THEOREM KnowledgeIsTrue == Spec => []KnowledgeWasTrue
<1>1. Inv => KnowledgeWasTrue
  BY DEF Inv, Kept, Known, IsTrue, KnowledgeWasTrue
<1> QED
  BY <1>1, Invariance, PTL

\* attackerCount is the number of actors that have the sentient for an enemy, through
\* every inlined copy of Sentient_SetEnemy.
THEOREM AttackersAreCounted == Spec => []AttackersExact
<1>1. ASSUME Inv, NEW s \in inuse
      PROVE  ai.attackers[s] = Cardinality({a \in Actors \cap inuse : ai.target[a] = s})
  <2>1. s \in Sentients /\ s # NoTarget
    BY <1>1, SentientsAssumption DEF Inv, TypeOK
  <2>2. {a \in Actors \cap inuse : ai.target[a] = s} = {a \in Actors : ai.target[a] = s}
    BY <1>1, <2>1 DEF Inv, Kept, Vacant
  <2>3. ai.attackers[s] = Cardinality({a \in Actors : ai.target[a] = s})
    BY <1>1, <2>1 DEF Inv, Kept, Counted
  <2> QED
    BY <2>2, <2>3
<1>2. Inv => AttackersExact
  BY <1>1 DEF AttackersExact
<1> QED
  BY <1>2, Invariance, PTL

\* Actor_UpdateGoalPos finds an enemy whenever useEnemyGoal is set, and the team is told
\* of an enemy that is there.
THEOREM EnemyGoalsHaveEnemies == Spec => []EnemyGoalHasEnemy
<1>1. Inv => EnemyGoalHasEnemy
  BY DEF Inv, Kept, Engaged, EnemyGoalHasEnemy
<1> QED
  BY <1>1, Invariance, PTL

\* No operation puts older knowledge in the place of newer: neither SentientInfo_Copy,
\* whatever the order news spread in, nor a step that combines several writes.
THEOREM NewsNeverGetsOlder == Spec => NeverOlder
<1>1. Inv /\ [Next]_vars =>
        [\A a \in Actors, s \in Sentients :
           LET t == ai'.info[a][s].time IN t = 0 \/ t >= ai.info[a][s].time]_vars
  BY SentientsAssumption, StepInv DEF NotOlder
<1> QED
  BY <1>1, Invariance, PTL DEF Spec, NeverOlder
=============================================================================
