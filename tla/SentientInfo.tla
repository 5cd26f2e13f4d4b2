---------------------------- MODULE SentientInfo ----------------------------
(***************************************************************************)
(* What the AI remembers of its enemies, and whom it fights: the side      *)
(* table of sentient_info_t (PatchT4MAM_ActorSentientInfo.cpp), its        *)
(* writers in PatchT4MAM_SentientInfo_*.cpp, and the target of an actor    *)
(* with the attacker count of that target, kept by the copies of           *)
(* Sentient_SetEnemy(self, NULL) inlined in three places.                  *)
(*                                                                         *)
(* The game runs one server frame after the other on one thread, so every  *)
(* operation is one step.  An actor and its sentient share an index.  A    *)
(* slot is used again when the one that held it is gone, and the table is  *)
(* not keyed by whoever holds the slot: that is what can go wrong.         *)
(***************************************************************************)
EXTENDS Integers, FiniteSets, Sequences, SequencesExt

CONSTANTS
    Sentients,  \* slots of level.sentients
    Actors,     \* those an actor (an AI) may hold; the others are players'
    Enemies,    \* Enemies[a]: sentients of the team a fights
    TalksTo,    \* TalksTo[a]: actors whose species is in a's talkToSpecies
    Thing,      \* an entity that is no sentient, as a script's target
    NoTarget,   \* targetEnt.number = 0
    CareTime,   \* 2000 ms: younger information is not renewed by ear
    ForgetTime, \* 10000 ms: older information is no knowledge of the enemy
    ScriptTargets, \* what scripts set as an actor's target entity
    MaxTime,    \* bound on level.time
    MaxLives    \* MaxLives[s]: bound on the lives slot s sees

ASSUME SentientsAssumption ==
    /\ IsFiniteSet(Sentients) /\ Actors \subseteq Sentients
    /\ Enemies \in [Actors -> SUBSET Sentients] /\ \A a \in Actors : a \notin Enemies[a]
    /\ TalksTo \in [Actors -> SUBSET Actors]
    /\ Thing \notin Sentients /\ NoTarget \notin Sentients \cup {Thing}
    /\ ScriptTargets \subseteq Sentients \cup {Thing}
    /\ {CareTime, ForgetTime, MaxTime} \subseteq Nat \ {0}
    /\ MaxLives \in [Sentients -> Nat \ {0}]

VARIABLES
    now,        \* level.time, in units of CareTime / 2
    life,       \* (history) how many lives each slot has seen
    inuse,      \* sentients (and actors) that hold their slot
    ai          \* what the frame works on, a record: see AI

vars == <<now, life, inuse, ai>>

(***************************************************************************)
(* A position is where the sentient of that slot was in its life l at time *)
(* t: two positions are the same only then.  Of sentient_info_t, the row   *)
(* holds lastKnownPosTime and vLastKnownPos, and (history) the life of the *)
(* actor that wrote it.  notify is iEnemyNotifyTime # 0.                   *)
(***************************************************************************)
Positions == [life : Nat, time : 0..MaxTime]
Info == [time : 0..MaxTime, pos : Positions, by : Nat]
Blank == [time |-> 0, pos |-> [life |-> 0, time |-> 0], by |-> 0]

AI == [info         : [Actors -> [Sentients -> Info]],
       target       : [Actors -> Sentients \cup {Thing, NoTarget}],
       scriptTarget : [Actors -> Sentients \cup {Thing, NoTarget}],
       attackers    : [Sentients -> Int],
       notify       : [Actors -> BOOLEAN],
       useEnemyGoal : [Actors -> BOOLEAN]]

Init ==
    /\ now = 1
    /\ life = [s \in Sentients |-> 0]
    /\ inuse = {}
    /\ ai = [info         |-> [a \in Actors |-> [s \in Sentients |-> Blank]],
             target       |-> [a \in Actors |-> NoTarget],
             scriptTarget |-> [a \in Actors |-> NoTarget],
             attackers    |-> [s \in Sentients |-> 0],
             notify       |-> [a \in Actors |-> FALSE],
             useEnemyGoal |-> [a \in Actors |-> FALSE]]

-----------------------------------------------------------------------------
(* Writing and copying a row *)

\* Actor_UpdateLastKnownPos
UpdateLastKnownPos(r, a, s) ==
    [r EXCEPT !.info[a][s] =
        [time |-> now, pos |-> [life |-> life[s], time |-> now], by |-> life[a]]]

\* A slip: the copy that does not compare ages.
CopyAnyAge(r, to, from, s) ==
    IF to \notin TalksTo[from] THEN r.info[to][s]
    ELSE [r.info[from][s] EXCEPT !.by = life[to]]

\* SentientInfo_Copy: what it leaves in the row of to.
InfoCopy(r, to, from, s) ==
    IF to \notin TalksTo[from] \/ r.info[to][s].time >= r.info[from][s].time
    THEN r.info[to][s]
    ELSE [r.info[from][s] EXCEPT !.by = life[to]]

\* Actor_BroadcastTeamEvent: every actor within hearing (external: which ones) takes
\* over what a knows of its enemy, as Actor_EventNewEnemy does.  Each one writes its own
\* row and reads that of a, who is not among them: their order makes no difference.
BroadcastTeamEvent(r, a, hearing) ==
    [r EXCEPT !.info = [b \in Actors |->
        IF b \in (hearing \cap inuse) \ {a}
        THEN [@[b] EXCEPT ![r.target[a]] = InfoCopy(r, b, a, r.target[a])]
        ELSE @[b]]]

-----------------------------------------------------------------------------
(* Targets *)

Notified(r, a, hearing) ==
    IF r.notify[a] THEN BroadcastTeamEvent(r, a, hearing) ELSE r

\* A slip: the count of the enemy that is left stays as it was.
LeaveEnemyUncounted(r, a, hearing) ==
    IF r.target[a] \notin Sentients THEN r
    ELSE [Notified(r, a, hearing) EXCEPT !.notify[a] = FALSE]

\* What the enemy's side of Sentient_SetEnemy does when a turns away from it.
LeaveEnemy(r, a, hearing) ==
    IF r.target[a] \notin Sentients THEN r
    ELSE [Notified(r, a, hearing) EXCEPT !.notify[a] = FALSE,
                                         !.attackers[r.target[a]] = @ - 1]

\* A slip: the goal of an enemy that is gone is kept.
LoseEnemyKeepingGoal(r, a, hearing) ==
    IF r.target[a] = NoTarget THEN r
    ELSE [LeaveEnemy(r, a, hearing) EXCEPT !.notify[a] = FALSE, !.target[a] = NoTarget]

\* Sentient_SetEnemy(self, NULL, 1), inlined.
LoseEnemy(r, a, hearing) ==
    IF r.target[a] = NoTarget THEN r
    ELSE [LeaveEnemy(r, a, hearing) EXCEPT !.notify[a] = FALSE, !.target[a] = NoTarget,
                                           !.useEnemyGoal[a] = FALSE]

\* Sentient_SetEnemy, for an enemy (external, as its inlined copies show it).
SetEnemy(r, a, t, hearing) ==
    IF t = NoTarget THEN LoseEnemy(r, a, hearing)
    ELSE IF t = r.target[a] THEN r
    ELSE IF t = Thing THEN [LoseEnemy(r, a, hearing) EXCEPT !.target[a] = t]
    ELSE [LeaveEnemy(r, a, hearing) EXCEPT
             !.target[a] = t, !.notify[a] = TRUE, !.attackers[t] = @ + 1]

\* A slip: the team is told before the row is cleared.
DissociateTellingFirst(r, a, s, hearing) ==
    LET told == IF r.target[a] = s THEN LoseEnemy(r, a, hearing) ELSE r
    IN  [told EXCEPT !.info[a][s] = Blank]

\* Actor_DissociateSentient: nothing of s may stay with a.
DissociateSentient(r, a, s, hearing) ==
    LET cleared == [r EXCEPT !.info[a][s] = Blank]
    IN  IF r.target[a] = s THEN LoseEnemy(cleared, a, hearing) ELSE cleared

-----------------------------------------------------------------------------
(* Lives and frames *)

\* Actor_SentientInfoReset
EmptyRow == [s \in Sentients |-> Blank]

\* Actor_Alloc: the side table's rows go with the actor_s.
ResetRow(r, a) == [r EXCEPT !.info[a] = EmptyRow]

\* Sentient_Alloc, and Actor_Alloc for an actor, into any free slot: which one is
\* taken makes no difference, and the lowest free one is among them.
Spawn(s) ==
    /\ s \notin inuse
    /\ life[s] < MaxLives[s]
    /\ life' = [life EXCEPT ![s] = @ + 1]
    /\ inuse' = inuse \cup {s}
    /\ ai' = IF s \in Actors THEN ResetRow(ai, s) ELSE ai
    /\ UNCHANGED now

\* What is left of a sentient_s and an actor_s, the rows apart, is cleared when the
\* slot is taken again and not read before: it might as well be now.
Vacate(r, S) ==
    [r EXCEPT
        !.target       = [a \in Actors |-> IF a \in S THEN NoTarget ELSE @[a]],
        !.scriptTarget = [a \in Actors |-> IF a \in S \/ @[a] \in S THEN NoTarget ELSE @[a]],
        !.attackers    = [s \in Sentients |-> IF s \in S THEN 0 ELSE @[s]],
        !.notify       = [a \in Actors |-> a \notin S /\ @[a]],
        !.useEnemyGoal = [a \in Actors |-> a \notin S /\ @[a]]]

\* The actors of order dissociate from s, one after the other.
Dissociated(r, s, hearing, order) ==
    LET step[n \in 0..Len(order)] ==
          IF n = 0 THEN r ELSE DissociateSentient(step[n - 1], order[n], s, hearing)
    IN  step[Len(order)]

\* The engine frees a sentient (external): it lets its own enemy go, every actor
\* dissociates from it, in any order, and handles to it become empty.
Free(s, hearing) ==
    /\ s \in inuse
    /\ \E order \in SetToSeqs((Actors \cap inuse) \ {s}) :
         LET alone == IF s \in Actors THEN LoseEnemy(ai, s, hearing) ELSE ai
         IN  ai' = Vacate(Dissociated(alone, s, hearing, order), {s})
    /\ inuse' = inuse \ {s}
    /\ UNCHANGED <<now, life>>

\* G_InitActors, at the start of a map: the slots are free and time starts again.
\* The rows stay; Actor_Alloc clears them.
InitActors ==
    /\ inuse' = {}
    /\ now' = 1
    /\ ai' = Vacate(ai, Sentients)
    /\ UNCHANGED life

\* ReadActor, for every actor of a saved game: everything is as it was saved, but for
\* the rows.  A save is a state the game has been in, so loading one is the same as
\* emptying the rows of the state it is in.
LoadGame ==
    /\ inuse # {}
    /\ ai' = [ai EXCEPT !.info = [a \in Actors |->
                IF a \in inuse THEN EmptyRow ELSE @[a]]]
    /\ UNCHANGED <<now, life, inuse>>

Frame ==
    /\ now < MaxTime
    /\ now' = now + 1
    /\ UNCHANGED <<life, inuse, ai>>

-----------------------------------------------------------------------------
(* Events *)

Learn(a, s) ==
    /\ ai' = UpdateLastKnownPos(ai, a, s)
    /\ UNCHANGED <<now, life, inuse>>

Meets(a, s) == a \in inuse /\ s \in Enemies[a] \cap inuse

CaresAboutInfoTime(t) == now - t >= CareTime

\* Actor_ReceivePointEvent: footsteps, gunshots, deaths and pain tell where the one
\* who made them is, when that is not known already.
HearPointEvent(a, s) ==
    /\ Meets(a, s)
    /\ ai.info[a][s].time <= 0 \/ CaresAboutInfoTime(ai.info[a][s].time)
    /\ Learn(a, s)

\* Actor_ReceiveLineEvent and Actor_EventBullet, and a sight that becomes visible
\* (Actor_UpdateVisCache, external), always do.
HearBullet(a, s) == Meets(a, s) /\ Learn(a, s)

\* AI_EV_NEW_ENEMY, when the enemy's notification falls due (external): a's team
\* hears of its enemy.
NotifyTeam(a, hearing) ==
    /\ a \in inuse /\ ai.notify[a]
    /\ ai' = [Notified(ai, a, hearing) EXCEPT !.notify[a] = FALSE]
    /\ UNCHANGED <<now, life, inuse>>

-----------------------------------------------------------------------------
(* Thinking *)

\* Actor_UpdateThreat: an actor that ignores all drops its enemy; otherwise it takes
\* its script target, or one of the enemies it knows of, or none.  Which one is weighed
\* by threat, and left open here.
UpdateThreat(a, hearing) ==
    /\ a \in inuse
    /\ \E t \in {ai.scriptTarget[a], NoTarget}
                  \cup {s \in Enemies[a] \cap inuse : ai.info[a][s].time > 0} :
         ai' = SetEnemy(ai, a, t, hearing)
    /\ UNCHANGED <<now, life, inuse>>

\* lastKnownPosTime = 0.  The place stays in the row: SentientInfo_Copy and whoever
\* weighs what it knows look at the time first, Actor_UpdateGoalPos does not.
Forget(r, a, s) == [r EXCEPT !.info[a][s].time = 0]

\* ActorCmd_ClearEnemy
ClearEnemy(a, hearing) ==
    /\ a \in inuse
    /\ LET t == ai.target[a]
           forgotten == IF t \in Sentients THEN Forget(ai, a, t) ELSE ai
           free == IF ai.scriptTarget[a] = t THEN [forgotten EXCEPT !.scriptTarget[a] = NoTarget]
                   ELSE forgotten
       IN  ai' = LoseEnemy(free, a, hearing)
    /\ UNCHANGED <<now, life, inuse>>

\* A script sets the actor's target entity (external).
SetScriptTarget(a, t) ==
    /\ a \in inuse /\ t \in {Thing} \cup (inuse \ {a})
    /\ ai' = [ai EXCEPT !.scriptTarget[a] = t]
    /\ UNCHANGED <<now, life, inuse>>

\* The engine lets an actor go after the enemy it fights (external).
ChaseEnemy(a) ==
    /\ a \in inuse /\ ai.target[a] \in Sentients
    /\ ai' = [ai EXCEPT !.useEnemyGoal[a] = TRUE]
    /\ UNCHANGED <<now, life, inuse>>

\* What Actor_KnowAboutEnemy and Actor_Turret_Think ask of the target.
KnowsOfTarget(a) ==
    LET t == ai.info[a][ai.target[a]].time IN t # 0 /\ now - t < ForgetTime

\* Actor_Turret_Think: a gunner that has lost track of its enemy stays (sees is
\* Actor_CanSeeEnemyViaClaimedNode).
TurretThink(a, sees) ==
    /\ a \in inuse
    /\ LET knows == ai.target[a] \in Sentients /\ (sees \/ KnowsOfTarget(a))
       IN  ai' = IF knows THEN ai ELSE [ai EXCEPT !.useEnemyGoal[a] = FALSE]
    /\ UNCHANGED <<now, life, inuse>>

\* turret_think_auto: a gunner forgets an enemy it cannot bring to bear.
TurretForget(a, s) ==
    /\ Meets(a, s)
    /\ ai' = Forget(ai, a, s)
    /\ UNCHANGED <<now, life, inuse>>

-----------------------------------------------------------------------------
Live ==
    \/ \E s \in Sentients : Spawn(s) \/ \E hearing \in SUBSET Actors : Free(s, hearing)
    \/ InitActors \/ LoadGame \/ Frame

Sense == \E a \in Actors, s \in Sentients :
    HearPointEvent(a, s) \/ HearBullet(a, s) \/ TurretForget(a, s)

Think == \E a \in Actors :
    \/ \E hearing \in SUBSET (Actors \ {a}) :
         NotifyTeam(a, hearing) \/ UpdateThreat(a, hearing) \/ ClearEnemy(a, hearing)
    \/ \E t \in ScriptTargets : SetScriptTarget(a, t)
    \/ ChaseEnemy(a)
    \/ \E sees \in BOOLEAN : TurretThink(a, sees)

Next == Live \/ Sense \/ Think

Spec == Init /\ [][Next]_vars

-----------------------------------------------------------------------------
(* Properties *)

TypeOK ==
    /\ now \in 1..MaxTime
    /\ life \in [Sentients -> Nat] /\ \A s \in Sentients : life[s] <= MaxLives[s]
    /\ inuse \subseteq Sentients
    /\ ai \in AI

\* What an actor knows of a sentient is true and its own.  A place in a row is one
\* where the sentient that holds the slot now has been, and the actor learnt of it (or
\* was told) in its own life, also when it has forgotten the time, for that is the place
\* Actor_UpdateGoalPos sends it to; a time in a row is when the sentient was there.
\* Whoever died, spawned in the slot, was forgotten or was talked about in between,
\* across maps and saved games.
KnowledgeWasTrue ==
    \A a \in Actors \cap inuse, s \in Sentients :
        LET i == ai.info[a][s]
        IN  /\ i.pos.time > 0 => /\ s \in inuse /\ i.by = life[a]
                                 /\ i.pos.life = life[s] /\ i.pos.time <= now
            /\ i.time > 0 => i.pos = [life |-> life[s], time |-> i.time]

\* Knowledge is renewed or given up, never replaced by older knowledge.
NeverOlder ==
    [][\A a \in Actors, s \in Sentients :
         LET t == ai'.info[a][s].time IN t = 0 \/ t >= ai.info[a][s].time]_vars

\* attackerCount, which the choice of an enemy weighs, counts the actors that have
\* the sentient for a target, whichever of the five paths a target was left by.
AttackersExact ==
    \A s \in inuse :
        ai.attackers[s] = Cardinality({a \in Actors \cap inuse : ai.target[a] = s})

\* Actor_UpdateGoalPos looks the enemy of an actor that goes after it up in the side
\* table, and the team is notified of an actor's enemy, without a test whether there
\* is one: there is, and it lives.
EnemyGoalHasEnemy ==
    \A a \in Actors \cap inuse :
        /\ ai.useEnemyGoal[a] => ai.target[a] \in inuse
        /\ ai.notify[a] => ai.target[a] \in inuse

=============================================================================
