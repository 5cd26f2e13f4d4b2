---------------------------- MODULE WeaponProofs ----------------------------
(***************************************************************************)
(* Proofs about WeaponState, for every weapon file of WeaponFiles.         *)
(*                                                                         *)
(* A frame is a chain of operators from player state to player state.  Up  *)
(* to its dispatch none of them moves a round: Reached says what such a    *)
(* stage has made of the player state the frame began with.  The dispatch  *)
(* is where rounds move: Outcome says what it, and so the frame, may do.   *)
(***************************************************************************)
EXTENDS WeaponState, TLAPS

\* The states in which a delayed action loads.
Busy == StartStates \cup LoadingStates

\* What the start of a reload that began on a clip of b shows and lasts.
BeganEmpty(b) == b = 0 /\ HasEmptyStart(w)
LatchedAnim(b) == IF BeganEmpty(b) THEN "reload_start_empty" ELSE "reload_start"
LatchedTime(b) == IF BeganEmpty(b) THEN w.startEmptyTime ELSE w.startTime

\* The invariant of a player state p whose reload began on a clip of b: a
\* reload of an empty clip has a round to load, ...
Good(b, p) ==
    /\ p \in Player
    /\ p.intent => p.state \notin ReloadStates \cup {"FIRING", "RECHAMBERING"}
    /\ p.state \in StartStates => p.anim = LatchedAnim(b) /\ p.time <= LatchedTime(b)
    /\ p.state \in Busy /\ p.clip = 0 => p.ammo > 0

\* ... and past its start the delayed action that loads it is still to come.
WillLoad(p) == p.state \in LoadingStates /\ p.clip = 0 => p.delay > 0

Inv ==
    /\ w \in WeaponFiles
    /\ oldcmd \in [attack : BOOLEAN, melee : BOOLEAN]
    /\ began \in 0..Limit
    /\ frames \in Nat
    /\ Good(began, ps)
    /\ WillLoad(ps)

-----------------------------------------------------------------------------
(* Rounds.                                                                 *)

\* The numbers of a weapon file.
LEMMA Files ==
    ASSUME w \in WeaponFiles
    PROVE  /\ w.clipSize \in Nat /\ w.clipSize > 0 /\ w.maxAmmo \in Nat /\ w.maxAmmo > 0
           /\ w.closedBolt \in BOOLEAN
           /\ w.sharedCap \in Int /\ (w.sharedCap >= 0 => w.sharedCap > 0)
           /\ w.ammoAdd \in Nat /\ w.ammoAddEmpty \in Nat /\ w.startAdd \in Nat
           /\ w.startEmptyAdd \in Nat
           /\ w.startTime \in Nat /\ w.startAddTime \in Nat
           /\ w.startEmptyTime \in Nat /\ w.startEmptyAddTime \in Nat
           /\ w.time \in Nat /\ w.time > 0 /\ w.emptyTime \in Nat /\ w.emptyTime > 0
           /\ w.addTime \in Nat /\ w.emptyAddTime \in Nat /\ w.boltTime \in Nat
           /\ w.endTime \in Nat /\ w.rechamberTime \in Nat
           /\ w.emptyRaiseTime \in Nat /\ w.meleeTime \in Nat /\ w.meleeChargeTime \in Nat
           /\ w.meleeChargeDelay \in Nat /\ w.quickRaiseTime \in Nat
           /\ w.fireTime \in Nat /\ w.lowReadyInTime \in Nat
           /\ w.lowReadyLoopTime \in Nat /\ w.lowReadyOutTime \in Nat
           /\ Limit \in Nat /\ Limit >= w.clipSize
  BY DEF WeaponFiles, Limit

\* The fields of a player state.
LEMMA Fields ==
    ASSUME NEW p \in Player
    PROVE  /\ p.state \in WeaponStates /\ p.time \in Nat /\ p.delay \in Nat
           /\ p.clip \in 0..Limit /\ p.ammo \in 0..w.maxAmmo
           /\ p.rechamber \in BOOLEAN /\ p.anim \in Anims
           /\ p.intent \in BOOLEAN /\ p.swimEnter \in BOOLEAN
  BY DEF Player

\* A clip never holds more than it can take.
LEMMA Capacity ==
    ASSUME w \in WeaponFiles, NEW p \in Player
    PROVE  /\ ClipCapacity(w, p.clip) \in Nat
           /\ p.clip <= ClipCapacity(w, p.clip) /\ ClipCapacity(w, p.clip) <= Limit
           /\ p.clip = 0 => ClipCapacity(w, p.clip) > 0
<1>1. p.clip \in Nat /\ p.clip <= Limit
  BY Files, Fields
<1> QED
  BY <1>1, Files DEF ClipCapacity, Limit

\* q is p with n rounds moved into the clip, and no change that the reload
\* reads but its delay and the bolt.
Moved(p, q) ==
    /\ q \in Player
    /\ q.state = p.state /\ q.time = p.time /\ q.anim = p.anim
    /\ q.intent = p.intent
    /\ q.clip >= p.clip /\ q.ammo = p.ammo - (q.clip - p.clip)

\* Load moves as many rounds as there are and as the clip can take.
LEMMA Loads ==
    ASSUME w \in WeaponFiles, NEW p \in Player, NEW n \in Nat,
           p.clip + n <= Limit, n <= p.ammo, NEW q, q = Load(p, n)
    PROVE  Moved(p, q) /\ q.clip = p.clip + n /\ q.delay = p.delay
<1>1. /\ p.clip \in Nat /\ p.ammo \in Nat /\ p.ammo <= w.maxAmmo
      /\ w.maxAmmo \in Nat /\ Limit \in Nat
  BY Files, Fields
<1>2. /\ p.clip + n \in 0..Limit /\ p.ammo - n \in 0..w.maxAmmo
  BY <1>1
<1>3. q = [p EXCEPT !.clip = p.clip + n, !.ammo = p.ammo - n]
  BY DEF Load
<1>4. q \in Player
  BY <1>2, <1>3 DEF Player
<1>5. /\ q.clip = p.clip + n /\ q.ammo = p.ammo - n /\ q.delay = p.delay
      /\ q.state = p.state /\ q.time = p.time /\ q.anim = p.anim /\ q.intent = p.intent
  BY <1>3 DEF Player
<1> QED
  BY <1>1, <1>4, <1>5 DEF Moved

\* A reload's delayed action moves rounds into the clip only, and one at least
\* into an empty clip that is being loaded.
LEMMA ReloadsClip ==
    ASSUME w \in WeaponFiles, NEW p \in Player, NEW q, q = PM_ReloadClip(w, p)
    PROVE  /\ Moved(p, q) /\ q.delay = p.delay
           /\ p.state \in LoadingStates /\ p.clip = 0 /\ p.ammo > 0 => q.clip > 0
<1> DEFINE starting == p.state \in StartStates
           limit == IF starting THEN ReloadStartAdd(w, p) ELSE ReloadAmmoAddFor(w, p.clip)
           space == ClipCapacity(w, p.clip) - p.clip
           room == Smaller(space, p.ammo)
           n == IF limit # 0 /\ limit < w.clipSize THEN Smaller(room, limit) ELSE room
<1>1. p.clip \in Nat /\ p.ammo \in Nat /\ w.clipSize \in Nat /\ w.clipSize > 0
  BY Files, Fields
<1>2. limit \in Nat
  BY Files DEF ReloadStartAdd, ReloadAmmoAddFor
<1>3. space \in Nat /\ p.clip + space <= Limit /\ (p.clip = 0 => space > 0) /\ Limit \in Nat
  BY <1>1, Capacity, Files
<1>4. q = IF starting /\ limit = 0 THEN p ELSE Load(p, n)
  BY DEF PM_ReloadClip
<1>5. p.state \in LoadingStates => ~starting
  BY DEF LoadingStates, StartStates
<1> HIDE DEF starting, limit, space
<1>6. /\ n \in Nat /\ p.clip + n <= Limit /\ n <= p.ammo
      /\ p.clip = 0 /\ p.ammo > 0 => n > 0
  BY <1>1, <1>2, <1>3 DEF Smaller
<1> HIDE DEF n
<1>7. CASE starting /\ limit = 0
  <2>1. q = p
    BY <1>4, <1>7
  <2> QED
    BY <1>1, <1>5, <1>7, <2>1 DEF Moved
<1>8. CASE ~(starting /\ limit = 0)
  <2>1. q = Load(p, n)
    BY <1>4, <1>8
  <2>2. Moved(p, q) /\ q.clip = p.clip + n /\ q.delay = p.delay
    BY <1>6, <2>1, Loads
  <2> QED
    BY <1>1, <1>6, <2>2
<1> QED
  BY <1>7, <1>8

\* How long until the delayed action: never none for a clip that is empty and
\* past the start.
LEMMA Delays ==
    ASSUME w \in WeaponFiles, NEW p \in Player
    PROVE  /\ AddDelay(w, p) \in Nat
           /\ p.state \notin StartStates => AddDelay(w, p) > 0
  BY Files DEF AddDelay, StartAddDelay, LoadAddDelay, ReloadStartAddTime, ReloadStartTime, Smaller

\* A player state with another delay and bolt.
Due(p, d, b) == [p EXCEPT !.delay = d, !.rechamber = b]

\* Its other fields.
LEMMA Scheduled ==
    ASSUME w \in WeaponFiles, NEW p \in Player, NEW d \in Nat, NEW b \in BOOLEAN
    PROVE  /\ Moved(p, Due(p, d, b)) /\ Due(p, d, b).clip = p.clip
           /\ Due(p, d, b).ammo = p.ammo /\ Due(p, d, b).delay = d
<1> DEFINE q == Due(p, d, b)
<1>1. q \in Player
  BY DEF Player, Due
<1>2. /\ q.state = p.state /\ q.time = p.time /\ q.anim = p.anim /\ q.intent = p.intent
      /\ q.clip = p.clip /\ q.ammo = p.ammo /\ q.delay = d
  BY DEF Player, Due
<1>3. p.clip \in Nat /\ p.ammo \in Nat
  BY Fields, Files
<1> HIDE DEF q
<1>4. Moved(p, q)
  BY <1>1, <1>2, <1>3 DEF Moved
<1> QED
  BY <1>2, <1>4 DEF q

\* The delayed action of a reload loads, or cycles the bolt and is due again
\* before the animation ends.
LEMMA DelayedAction ==
    ASSUME w \in WeaponFiles, NEW p \in Player, NEW q, q = PM_Weapon_ReloadDelayedAction(w, p)
    PROVE  /\ Moved(p, q)
           /\ p.state \in LoadingStates /\ p.clip = 0 /\ p.ammo > 0
              => q.clip > 0 \/ (q.delay > 0 /\ q.time # 0)
<1> DEFINE cycled == [p EXCEPT !.rechamber = FALSE]
           add == AddDelay(w, p)
           bolt == IF w.boltTime >= add THEN 1 ELSE w.boltTime
<1>1. p.time \in Nat /\ p.delay \in Nat /\ add \in Nat /\ bolt \in Nat
  BY Files, Fields, Delays
<1>2. cycled = Due(p, p.delay, FALSE)
  BY DEF Player, Due
<1>3. /\ cycled \in Player /\ cycled.state = p.state /\ cycled.time = p.time
      /\ cycled.anim = p.anim /\ cycled.intent = p.intent
      /\ cycled.clip = p.clip /\ cycled.ammo = p.ammo
  <2> HIDE DEF cycled, add, bolt
  <2>0. p.delay \in Nat /\ FALSE \in BOOLEAN
    BY <1>1
  <2>1. Moved(p, cycled) /\ cycled.clip = p.clip /\ cycled.ammo = p.ammo
    BY <2>0, <1>2, Scheduled
  <2> QED
    BY <2>1 DEF Moved
<1>4. q = IF ~(w.boltAction /\ p.rechamber) THEN PM_ReloadClip(w, p)
          ELSE IF p.state \in StartStates /\ ReloadStartAddTime(w, p) = 0 THEN cycled
          ELSE IF p.time = 0 \/ add - bolt < 1 THEN PM_ReloadClip(w, cycled)
          ELSE [cycled EXCEPT !.delay = add - bolt]
  BY DEF PM_Weapon_ReloadDelayedAction
<1>5. p.state \in LoadingStates => p.state \notin StartStates
  BY DEF LoadingStates, StartStates
<1>6. [cycled EXCEPT !.delay = add - bolt] = Due(p, add - bolt, FALSE)
  BY DEF Player, Due
<1> HIDE DEF cycled, add, bolt
<1>7. CASE q = PM_ReloadClip(w, p)
  BY <1>7, ReloadsClip
<1>8. CASE q = PM_ReloadClip(w, cycled)
  <2>1. /\ Moved(cycled, q)
        /\ cycled.state \in LoadingStates /\ cycled.clip = 0 /\ cycled.ammo > 0 => q.clip > 0
    BY <1>3, <1>8, ReloadsClip
  <2> QED
    BY <1>3, <2>1 DEF Moved
<1>9. CASE p.state \in StartStates /\ q = cycled
  <2>1. p.clip \in Nat /\ p.ammo \in Nat
    BY Fields, Files
  <2> QED
    BY <1>3, <1>5, <1>9, <2>1 DEF Moved
<1>10. CASE p.time # 0 /\ add - bolt >= 1 /\ q = [cycled EXCEPT !.delay = add - bolt]
  <2>1. add - bolt \in Nat /\ add - bolt > 0
    BY <1>1, <1>10
  <2>2. q = Due(p, add - bolt, FALSE)
    BY <1>6, <1>10
  <2>3. Moved(p, q) /\ q.delay = add - bolt
    BY <2>1, <2>2, Scheduled
  <2> QED
    BY <1>10, <2>1, <2>3 DEF Moved
<1> QED
  BY <1>1, <1>4, <1>7, <1>8, <1>9, <1>10

\* A reload is allowed only with a reserve, and always for an empty clip.
LEMMA Allows ==
    ASSUME w \in WeaponFiles, NEW p \in Player
    PROVE  /\ PM_Weapon_AllowReload(w, p) => p.ammo > 0
           /\ p.clip = 0 /\ p.ammo > 0 => PM_Weapon_AllowReload(w, p)
<1>1. p.ammo \in Nat /\ p.clip \in Nat
  BY Fields, Files
<1>2. p.clip = 0 => ClipCapacity(w, p.clip) = w.clipSize
  BY DEF ClipCapacity
<1> QED
  BY <1>1, <1>2, Files DEF PM_Weapon_AllowReload

\* The delay of the action that has just been scheduled.
LEMMA SetsDelay ==
    ASSUME w \in WeaponFiles, NEW p \in Player, NEW q, q = PM_SetWeaponReloadAddAmmoDelay(w, p)
    PROVE  /\ Moved(p, q) /\ q.clip = p.clip /\ q.ammo = p.ammo
           /\ p.state \notin StartStates => q.delay > 0
<1> DEFINE delay == AddDelay(w, p)
           bolt == Larger(1, Smaller(w.boltTime, IF delay = 0 THEN p.time ELSE delay))
<1>1. /\ p.time \in Nat /\ p.delay \in Nat /\ p.rechamber \in BOOLEAN
      /\ delay \in Nat /\ (p.state \notin StartStates => delay > 0)
  BY Fields, Delays
<1>2. bolt \in Nat /\ bolt > 0
  BY <1>1, Files DEF Larger, Smaller
<1>3. q = IF w.boltAction /\ p.rechamber THEN [p EXCEPT !.delay = bolt]
          ELSE IF delay # 0 THEN [p EXCEPT !.delay = delay] ELSE p
  BY DEF PM_SetWeaponReloadAddAmmoDelay
<1>4. [p EXCEPT !.delay = delay] = Due(p, delay, p.rechamber)
  BY DEF Player, Due
<1>5. [p EXCEPT !.delay = bolt] = Due(p, bolt, p.rechamber)
  BY DEF Player, Due
<1>6. p = Due(p, p.delay, p.rechamber)
  BY DEF Player, Due
<1> HIDE DEF delay, bolt
<1>7. PICK d \in Nat : /\ q = Due(p, d, p.rechamber)
                       /\ p.state \notin StartStates => d > 0
  BY <1>1, <1>2, <1>3, <1>4, <1>5, <1>6
<1>8. Moved(p, q) /\ q.clip = p.clip /\ q.ammo = p.ammo /\ q.delay = d
  BY <1>1, <1>7, Scheduled
<1> QED
  BY <1>7, <1>8

\* A further segment, or a reload without a start, is being loaded.
LEMMA SetsReloading ==
    ASSUME w \in WeaponFiles, NEW p \in Player, NEW k \in BOOLEAN,
           NEW q, q = PM_SetReloadingState(w, p, k)
    PROVE  /\ q \in Player /\ q.state \in LoadingStates /\ q.time > 0 /\ q.delay > 0
           /\ q.clip = p.clip /\ q.ammo = p.ammo /\ q.intent = p.intent
<1> DEFINE s == IF k /\ p.state = "RELOAD_START_INTERUPT" THEN "RELOADING_INTERUPT" ELSE "RELOADING"
           t == IF p.clip = 0 THEN w.emptyTime ELSE w.time
           entered == [p EXCEPT !.state = s, !.anim = "reload", !.time = t]
<1>1. /\ s \in LoadingStates /\ s \in WeaponStates /\ s \notin StartStates
  BY DEF LoadingStates, StartStates, WeaponStates, ReloadStates
<1>2. t \in Nat /\ t > 0
  BY Files
<1>3. q = PM_SetWeaponReloadAddAmmoDelay(w, entered)
  BY DEF PM_SetReloadingState
<1> HIDE DEF s, t
<1>4. entered \in Player
  BY <1>1, <1>2 DEF Player, Anims
<1>5. /\ entered.state = s /\ entered.time = t
      /\ entered.clip = p.clip /\ entered.ammo = p.ammo /\ entered.intent = p.intent
  BY DEF Player
<1> HIDE DEF entered
<1>6. /\ Moved(entered, q) /\ q.clip = entered.clip /\ q.ammo = entered.ammo
      /\ entered.state \notin StartStates => q.delay > 0
  BY <1>3, <1>4, SetsDelay
<1> QED
  BY <1>1, <1>2, <1>5, <1>6 DEF Moved

-----------------------------------------------------------------------------
(* Stances.                                                                *)

\* q is p in another state: no round has moved and the intent is the same.
Turned(p, q) == q \in Player /\ q.clip = p.clip /\ q.ammo = p.ammo /\ q.intent = p.intent

\* The states the frame's own code enters are among the weapon states.
LEMMA States ==
    /\ "READY" \in WeaponStates /\ "RAISING" \in WeaponStates
    /\ "FIRING" \in WeaponStates /\ "RECHAMBERING" \in WeaponStates
    /\ "DETONATING" \in WeaponStates /\ "SWIM_IN" \in WeaponStates
    /\ "SWIM_OUT" \in WeaponStates /\ "MELEE_CHARGE" \in WeaponStates
    /\ "MELEE_INIT" \in WeaponStates /\ "MELEE_FIRE" \in WeaponStates
    /\ "MELEE_END" \in WeaponStates /\ "LOWREADY_START" \in WeaponStates
    /\ "LOWREADY_LOOP" \in WeaponStates /\ "LOWREADY_END" \in WeaponStates
    /\ "RELOAD_END" \in WeaponStates
  BY DEF WeaponStates, ReloadStates, MeleeStates, LowReadyStates

\* None of these is one in which a delayed action loads.
LEMMA NotBusy ==
    /\ Busy \cap {"READY", "RAISING", "FIRING", "RECHAMBERING", "DETONATING", "SWIM_IN",
                  "SWIM_OUT", "MELEE_CHARGE", "MELEE_INIT", "MELEE_FIRE", "MELEE_END",
                  "LOWREADY_START", "LOWREADY_LOOP", "LOWREADY_END", "RELOAD_END"} = {}
    /\ ReloadStates = Busy \cup {"RELOAD_END"}
  BY DEF ReloadStates, StartStates, LoadingStates, Busy

\* A player state put into the state s, whatever its times.
Stands(p, s, t, d) == [p EXCEPT !.state = s, !.time = t, !.delay = d, !.anim = "other"]

\* Its fields.
LEMMA Stood ==
    ASSUME w \in WeaponFiles, NEW p \in Player, NEW s \in WeaponStates, NEW t \in Nat, NEW d \in Nat
    PROVE  /\ Turned(p, Stands(p, s, t, d)) /\ Stands(p, s, t, d).state = s
           /\ Stands(p, s, t, d).time = t
<1>1. Stands(p, s, t, d) \in Player
  BY DEF Player, Anims, Stands
<1> QED
  BY <1>1 DEF Player, Stands, Turned

\* The stances and the ready state a handler goes to.
LEMMA EntersStart ==
    ASSUME w \in WeaponFiles, NEW p \in Player
    PROVE  Turned(p, EnterLowReadyStart(p)) /\ EnterLowReadyStart(p).state = "LOWREADY_START"
<1>1. EnterLowReadyStart(p) = Stands(p, "LOWREADY_START", w.lowReadyInTime, 0)
  BY DEF EnterLowReadyStart, Stands
<1>2. w.lowReadyInTime \in Nat /\ "LOWREADY_START" \in WeaponStates
  BY Files, States
<1> QED
  BY <1>1, <1>2, Stood

LEMMA Readies ==
    ASSUME w \in WeaponFiles, NEW p \in Player
    PROVE  /\ Turned(p, TransitionToReadyOrLowReady(p))
           /\ TransitionToReadyOrLowReady(p).state \in {"READY", "LOWREADY_START"}
<1>1. p.time \in Nat /\ p.delay \in Nat
  BY Fields
<1>2. CASE p.intent
  BY <1>2, EntersStart DEF TransitionToReadyOrLowReady
<1>3. CASE ~p.intent
  <2>1. TransitionToReadyOrLowReady(p) = Stands(p, "READY", p.time, p.delay)
    BY <1>3 DEF TransitionToReadyOrLowReady, Stands, Player
  <2> QED
    BY <1>1, <2>1, Stood, States
<1> QED
  BY <1>2, <1>3

-----------------------------------------------------------------------------
(* The dispatch.                                                           *)

Commands == [attack : BOOLEAN, melee : BOOLEAN, reload : BOOLEAN,
             water : BOOLEAN, blocked : BOOLEAN]

\* What a handler makes of q: rounds move by one shot, or into the clip of a
\* reload that has not ended before its time; what leaves a reload has a round.
Handled(b, q, r) ==
    /\ Good(b, r) /\ WillLoad(r)
    /\ \/ r.clip = q.clip /\ r.ammo = q.ammo
       \/ r.clip = q.clip - 1 /\ r.ammo = q.ammo /\ r.state = "FIRING"
       \/ /\ r.clip > q.clip /\ r.ammo = q.ammo - (r.clip - q.clip)
          /\ q.state \in Busy /\ (q.time # 0 => r.state \in Busy)
    /\ q.state \in Busy /\ r.state \in {"RELOAD_END", "READY"} => r.clip > 0
    /\ q.state \in {"SWIM_IN", "MELEE_CHARGE"} => r.state \notin {"RELOAD_END", "READY"}

\* A handler that only changes the stance.
LEMMA TurnedHandled ==
    ASSUME NEW b, NEW q \in Player, NEW r, Turned(q, r),
           r.state \notin ReloadStates \cup {"FIRING", "RECHAMBERING"},
           q.state \notin Busy,
           q.state \in {"SWIM_IN", "MELEE_CHARGE"} => r.state # "READY"
    PROVE  Handled(b, q, r)
<1>1. r.state \notin StartStates /\ r.state \notin LoadingStates /\ r.state # "RELOAD_END"
  BY DEF ReloadStates
<1>2. Good(b, r) /\ WillLoad(r)
  BY <1>1 DEF Good, WillLoad, Turned, Busy
<1> QED
  BY <1>1, <1>2 DEF Handled, Turned

\* The end of a reload.
LEMMA Ends ==
    ASSUME w \in WeaponFiles, NEW p \in Player, ~p.intent
    PROVE  Turned(p, EnterReloadEnd(p)) /\ EnterReloadEnd(p).state \in {"READY", "RELOAD_END"}
<1>1. CASE w.endTime # 0
  <2>1. EnterReloadEnd(p) = Stands(p, "RELOAD_END", w.endTime, p.delay)
    BY <1>1 DEF EnterReloadEnd, Stands, Player
  <2>2. "RELOAD_END" \in WeaponStates /\ w.endTime \in Nat /\ p.delay \in Nat
    BY Fields, Files, States
  <2> QED
    BY <2>1, <2>2, Stood
<1>2. CASE w.endTime = 0
  <2>1. EnterReloadEnd(p) = TransitionToReadyOrLowReady(p)
    BY <1>2 DEF EnterReloadEnd
  <2>2. TransitionToReadyOrLowReady(p).state = "READY"
    BY DEF TransitionToReadyOrLowReady, Player
  <2> QED
    BY <2>1, <2>2, Readies
<1> QED
  BY <1>1, <1>2, Files

\* A player state whose state is s and that may have forgotten the bolt.
Bolted(p, s, b) == [p EXCEPT !.state = s, !.rechamber = b]

\* Its other fields.
LEMMA BoltedFields ==
    ASSUME NEW p \in Player, NEW s \in WeaponStates, NEW b \in BOOLEAN
    PROVE  /\ Turned(p, Bolted(p, s, b)) /\ Bolted(p, s, b).state = s
           /\ Bolted(p, s, b).time = p.time /\ Bolted(p, s, b).delay = p.delay
           /\ Bolted(p, s, b).anim = p.anim
<1>1. Bolted(p, s, b) \in Player
  BY DEF Player, Bolted
<1> QED
  BY <1>1 DEF Player, Bolted, Turned

\* A reload that has moved its rounds, or not, and still shows its start.
LEMMA StillStarting ==
    ASSUME w \in WeaponFiles, NEW b, NEW q, Good(b, q),
           q.state \in StartStates, NEW d, Moved(q, d)
    PROVE  Handled(b, q, d)
<1>1. q \in Player /\ ~q.intent
  BY DEF Good, Player, ReloadStates
<1>2. q.clip \in Nat /\ q.ammo \in Nat /\ d \in Player /\ d.clip \in Nat /\ d.ammo \in Nat
  BY <1>1, Fields, Files DEF Moved
<1>3. d.state \in Busy /\ q.state \in Busy /\ d.state \notin LoadingStates
      /\ d.state \notin {"RELOAD_END", "READY", "FIRING", "RECHAMBERING"}
      /\ q.state \notin {"SWIM_IN", "MELEE_CHARGE"}
  BY DEF Moved, Busy, StartStates, LoadingStates
<1>4. d.clip = 0 => d.ammo > 0
  BY <1>2, <1>3 DEF Good, Moved
<1>5. Good(b, d) /\ WillLoad(d)
  BY <1>1, <1>2, <1>3, <1>4 DEF Good, WillLoad, Moved
<1> QED
  BY <1>2, <1>3, <1>5 DEF Handled, Moved

\* A further segment of a reload that may have moved its rounds just now.
LEMMA Continues ==
    ASSUME w \in WeaponFiles, NEW b, NEW q \in Player, q.state \in Busy,
           NEW r \in Player, r.state \in LoadingStates, r.delay > 0, ~r.intent,
           r.ammo > 0 \/ r.clip > 0,
           r.clip >= q.clip, r.ammo = q.ammo - (r.clip - q.clip)
    PROVE  Handled(b, q, r)
<1>1. /\ q.clip \in Nat /\ q.ammo \in Nat /\ r.clip \in Nat /\ r.ammo \in Nat
  BY Fields, Files
<1>2. r.state \in Busy /\ r.state \notin StartStates
      /\ r.state \notin {"RELOAD_END", "READY", "FIRING", "RECHAMBERING"}
      /\ q.state \notin {"SWIM_IN", "MELEE_CHARGE"}
  BY DEF Busy, StartStates, LoadingStates
<1>3. Good(b, r) /\ WillLoad(r)
  BY <1>1, <1>2 DEF Good, WillLoad
<1> QED
  BY <1>1, <1>2, <1>3 DEF Handled

\* A reload that ends with a round in the clip, its time over.
LEMMA Ended ==
    ASSUME w \in WeaponFiles, NEW b, NEW q \in Player, q.state \in Busy, q.time = 0,
           NEW r \in Player, r.state \in {"READY", "RELOAD_END"}, ~r.intent, r.clip > 0,
           r.clip >= q.clip, r.ammo = q.ammo - (r.clip - q.clip)
    PROVE  Handled(b, q, r)
<1>1. /\ q.clip \in Nat /\ q.ammo \in Nat /\ r.clip \in Nat /\ r.ammo \in Nat
  BY Fields, Files
<1>2. r.state \notin Busy /\ r.state \notin StartStates /\ r.state \notin LoadingStates
      /\ q.state \notin {"SWIM_IN", "MELEE_CHARGE"}
  BY DEF Busy, StartStates, LoadingStates
<1>3. Good(b, r) /\ WillLoad(r)
  BY <1>1, <1>2 DEF Good, WillLoad
<1> QED
  BY <1>1, <1>2, <1>3 DEF Handled

\* The start of a reload: it goes on until its time is over, then the rounds
\* are loaded; an interrupted one ends here, but not with an empty clip.
LEMMA ReloadStarted ==
    ASSUME w \in WeaponFiles, NEW b, NEW q, Good(b, q), q.state \in StartStates,
           NEW cmd \in Commands, NEW due \in BOOLEAN, NEW ch \in Choices
    PROVE  Handled(b, q, PM_Weapon_ReloadStart(q, cmd, due, ch))
<1> DEFINE d == IF due THEN PM_Weapon_ReloadDelayedAction(w, q) ELSE q
           s == IF w.segmented /\ cmd.attack THEN "RELOAD_START_INTERUPT" ELSE d.state
           r == IF w.segmented /\ cmd.attack
                THEN [d EXCEPT !.state = "RELOAD_START_INTERUPT"] ELSE d
           e == [r EXCEPT !.rechamber = FALSE]
           loads == /\ ~(r.state = "RELOAD_START_INTERUPT" /\ r.clip # 0)
                    /\ PM_Weapon_AllowReload(w, r)
<1>1. /\ q \in Player /\ ~q.intent /\ q.state \in Busy /\ (q.clip = 0 => q.ammo > 0)
      /\ q.clip \in Nat /\ q.ammo \in Nat /\ q.time \in Nat
  BY Fields, Files DEF Good, ReloadStates, Busy, Player
<1>2. Moved(q, d)
  BY <1>1, DelayedAction DEF Moved
<1>3. /\ d \in Player /\ ~d.intent /\ d.time = q.time /\ d.state \in StartStates
      /\ d.clip \in Nat /\ d.ammo \in Nat
      /\ d.clip >= q.clip /\ d.ammo = q.ammo - (d.clip - q.clip)
      /\ (d.clip = 0 => d.ammo > 0)
  <2> HIDE DEF d
  <2>1. d \in Player
    BY <1>2 DEF Moved
  <2>2. d.clip \in Nat /\ d.ammo \in Nat
    BY <2>1, Fields, Files
  <2> QED
    BY <1>1, <1>2, <2>2 DEF Moved
<1>4. PM_Weapon_ReloadStart(q, cmd, due, ch) =
          IF d.time # 0 THEN d
          ELSE IF loads THEN PM_SetReloadingState(w, r, ch.keepInterupt)
          ELSE EnterReloadEnd(e)
  BY DEF PM_Weapon_ReloadStart
<1> HIDE DEF d
<1>5. s \in WeaponStates /\ s \in StartStates
  BY <1>3 DEF StartStates, WeaponStates, ReloadStates
<1>6. r = Bolted(d, s, d.rechamber) /\ d.rechamber \in BOOLEAN
  BY <1>3 DEF Bolted, Player
<1>7. r \in Player /\ r.clip = d.clip /\ r.ammo = d.ammo /\ ~r.intent /\ r.state = s
  BY <1>3, <1>5, <1>6, BoltedFields DEF Turned
<1> HIDE DEF r, s
<1>8. PICK f \in BOOLEAN : e = Bolted(r, s, f)
  <2>1. e = [r EXCEPT !.state = s, !.rechamber = FALSE]
    BY <1>7 DEF Player
  <2> HIDE DEF e
  <2>2. e = Bolted(r, s, FALSE)
    BY <2>1 DEF Bolted
  <2> QED
    BY <2>2
<1> HIDE DEF e
<1>9. e \in Player /\ e.clip = d.clip /\ e.ammo = d.ammo /\ ~e.intent
  BY <1>5, <1>7, <1>8, BoltedFields DEF Turned
<1>10. CASE d.time # 0
  BY <1>2, <1>4, <1>10, StillStarting
<1>11. CASE d.time = 0 /\ loads
  <2> DEFINE x == PM_SetReloadingState(w, r, ch.keepInterupt)
  <2>1. ch.keepInterupt \in BOOLEAN
    BY DEF Choices
  <2>2. /\ x \in Player /\ x.state \in LoadingStates /\ x.delay > 0
        /\ x.clip = d.clip /\ x.ammo = d.ammo /\ ~x.intent
    BY <1>7, <2>1, SetsReloading
  <2> HIDE DEF x
  <2>3. Handled(b, q, x)
    BY <1>1, <1>3, <2>2, Continues
  <2> QED
    BY <1>4, <1>11, <2>3 DEF x
<1>12. CASE d.time = 0 /\ ~loads
  <2> DEFINE x == EnterReloadEnd(e)
  <2>1. /\ x \in Player /\ x.clip = d.clip /\ x.ammo = d.ammo /\ ~x.intent
        /\ x.state \in {"READY", "RELOAD_END"}
    BY <1>9, Ends DEF Turned
  <2>2. d.clip > 0
    <3>1. d.clip = 0 => PM_Weapon_AllowReload(w, r)
      BY <1>3, <1>7, Allows
    <3>2. d.clip # 0
      BY <1>7, <1>12, <3>1
    <3> QED
      BY <1>3, <3>2
  <2> HIDE DEF x
  <2>3. Handled(b, q, x)
    BY <1>1, <1>3, <1>12, <2>1, <2>2, Ended
  <2> QED
    BY <1>4, <1>12, <2>3 DEF x
<1> QED
  BY <1>10, <1>11, <1>12

\* Loading: the delayed action is due, or was; then the next segment or the end.
LEMMA Reloaded ==
    ASSUME w \in WeaponFiles, NEW b, NEW q, Good(b, q), q.state \in LoadingStates,
           NEW cmd \in Commands, NEW due \in BOOLEAN, NEW ch \in Choices,
           WillLoad(q) \/ due, ~due => q.delay = 0
    PROVE  Handled(b, q, PM_Weapon_Reloading(q, cmd, due, ch))
<1> DEFINE d == IF due THEN PM_Weapon_ReloadDelayedAction(w, q) ELSE q
           s == IF w.segmented /\ cmd.attack THEN "RELOADING_INTERUPT" ELSE d.state
           r == [d EXCEPT !.state = IF w.segmented /\ cmd.attack
                                    THEN "RELOADING_INTERUPT" ELSE @,
                          !.rechamber = FALSE]
           loads == r.state # "RELOADING_INTERUPT" /\ PM_Weapon_AllowReload(w, r)
<1>1. /\ q \in Player /\ ~q.intent /\ q.state \in Busy /\ (q.clip = 0 => q.ammo > 0)
      /\ q.clip \in Nat /\ q.ammo \in Nat /\ q.time \in Nat /\ q.delay \in Nat
  BY Fields, Files DEF Good, ReloadStates, Busy, Player
<1>2. Moved(q, d) /\ (d.clip = 0 => d.delay > 0 /\ d.time # 0)
  <2>1. CASE due
    <3>1. /\ Moved(q, d)
          /\ q.clip = 0 => d.clip > 0 \/ (d.delay > 0 /\ d.time # 0)
      BY <1>1, <2>1, DelayedAction
    <3> HIDE DEF d
    <3>2. d.clip \in Nat
      BY <3>1, Fields, Files DEF Moved
    <3> QED
      BY <1>1, <3>1, <3>2 DEF Moved
  <2>2. CASE ~due
    BY <1>1, <2>2 DEF Moved, WillLoad
  <2> QED
    BY <2>1, <2>2
<1>3. /\ d \in Player /\ ~d.intent /\ d.time = q.time /\ d.state \in LoadingStates
      /\ d.clip \in Nat /\ d.ammo \in Nat
      /\ d.clip >= q.clip /\ d.ammo = q.ammo - (d.clip - q.clip)
      /\ (d.clip = 0 => d.ammo > 0)
  <2> HIDE DEF d
  <2>1. d \in Player
    BY <1>2 DEF Moved
  <2>2. d.clip \in Nat /\ d.ammo \in Nat
    BY <2>1, Fields, Files
  <2> QED
    BY <1>1, <1>2, <2>2 DEF Moved
<1>4. PM_Weapon_Reloading(q, cmd, due, ch) =
          IF d.time # 0 THEN d
          ELSE IF ~w.segmented THEN TransitionToReadyOrLowReady(r)
          ELSE IF loads THEN PM_SetReloadingState(w, r, ch.keepInterupt)
          ELSE EnterReloadEnd(r)
  BY DEF PM_Weapon_Reloading
<1> HIDE DEF d
<1>5. s \in WeaponStates
  BY <1>3 DEF LoadingStates, WeaponStates, ReloadStates
<1>6. PICK f \in BOOLEAN : r = Bolted(d, s, f)
  BY <1>3 DEF Bolted, Player
<1>7. r \in Player /\ r.clip = d.clip /\ r.ammo = d.ammo /\ ~r.intent
  BY <1>3, <1>5, <1>6, BoltedFields DEF Turned
<1> HIDE DEF r, s
<1>8. CASE d.time # 0
  <2>1. d.state \in Busy /\ d.state \notin StartStates
        /\ d.state \notin {"RELOAD_END", "READY", "FIRING", "RECHAMBERING"}
        /\ q.state \notin {"SWIM_IN", "MELEE_CHARGE"}
    BY <1>3 DEF Busy, StartStates, LoadingStates
  <2>2. Good(b, d) /\ WillLoad(d)
    BY <1>2, <1>3, <2>1 DEF Good, WillLoad
  <2>3. Handled(b, q, d)
    BY <1>1, <1>3, <2>1, <2>2 DEF Handled
  <2> QED
    BY <1>4, <1>8, <2>3
<1>9. CASE d.time = 0 /\ ~w.segmented
  <2> DEFINE x == TransitionToReadyOrLowReady(r)
  <2>1. /\ x \in Player /\ x.clip = d.clip /\ x.ammo = d.ammo /\ ~x.intent
    BY <1>7, Readies DEF Turned
  <2>2. x.state = "READY"
    BY <1>7 DEF TransitionToReadyOrLowReady, Player
  <2>3. d.clip > 0
    BY <1>2, <1>3, <1>9
  <2> HIDE DEF x
  <2>4. Handled(b, q, x)
    BY <1>1, <1>3, <1>9, <2>1, <2>2, <2>3, Ended
  <2> QED
    BY <1>4, <1>9, <2>4 DEF x
<1>10. CASE d.time = 0 /\ w.segmented /\ loads
  <2> DEFINE x == PM_SetReloadingState(w, r, ch.keepInterupt)
  <2>1. ch.keepInterupt \in BOOLEAN
    BY DEF Choices
  <2>2. /\ x \in Player /\ x.state \in LoadingStates /\ x.delay > 0
        /\ x.clip = d.clip /\ x.ammo = d.ammo /\ ~x.intent
    BY <1>7, <2>1, SetsReloading
  <2> HIDE DEF x
  <2>3. Handled(b, q, x)
    BY <1>1, <1>3, <2>2, Continues
  <2> QED
    BY <1>4, <1>10, <2>3 DEF x
<1>11. CASE d.time = 0 /\ w.segmented /\ ~loads
  <2> DEFINE x == EnterReloadEnd(r)
  <2>1. /\ x \in Player /\ x.clip = d.clip /\ x.ammo = d.ammo /\ ~x.intent
        /\ x.state \in {"READY", "RELOAD_END"}
    BY <1>7, Ends DEF Turned
  <2>2. d.clip > 0
    BY <1>2, <1>3, <1>11
  <2> HIDE DEF x
  <2>3. Handled(b, q, x)
    BY <1>1, <1>3, <1>11, <2>1, <2>2, Ended
  <2> QED
    BY <1>4, <1>11, <2>3 DEF x
<1> QED
  BY <1>8, <1>9, <1>10, <1>11

\* The handlers that only change the stance.
LEMMA StanceHandled ==
    ASSUME w \in WeaponFiles, NEW b, NEW q \in Player, NEW cmd \in Commands, NEW due \in BOOLEAN,
           NEW ch \in Choices, q.state \notin Busy,
           q.state \notin {"READY", "FIRING", "RECHAMBERING"}
    PROVE  Handled(b, q, Dispatch(q, cmd, due, ch))
<1> DEFINE r == Dispatch(q, cmd, due, ch)
<1>1. /\ q.state \in WeaponStates /\ q.time \in Nat /\ q.delay \in Nat
      /\ q.rechamber \in BOOLEAN
  BY Fields
<1>2. q.state \notin StartStates /\ q.state \notin LoadingStates
  BY DEF Busy
<1>3. ASSUME Turned(q, r), r.state \notin ReloadStates \cup {"FIRING", "RECHAMBERING"},
             q.state \in {"SWIM_IN", "MELEE_CHARGE"} => r.state # "READY"
      PROVE  Handled(b, q, r)
  <2> HIDE DEF r
  <2> QED
    BY <1>3, TurnedHandled
<1>4. CASE q.state \in {"RAISING", "RELOAD_END"}
  <2>1. r = TransitionToReadyOrLowReady(q)
    BY <1>2, <1>4 DEF Dispatch
  <2>2. Turned(q, r) /\ r.state \in {"READY", "LOWREADY_START"}
    BY <2>1, Readies
  <2> HIDE DEF r
  <2> QED
    BY <1>4, <2>2, <1>3, NotBusy DEF r
<1>5. CASE q.state = "MELEE_CHARGE"
  <2>1. r = Stands(q, "MELEE_INIT", w.meleeChargeTime, w.meleeChargeDelay)
    BY <1>2, <1>5 DEF Dispatch, PM_Weapon_Tick_MeleeCharge, Stands
  <2>2. /\ w.meleeChargeTime \in Nat /\ w.meleeChargeDelay \in Nat
        /\ "MELEE_INIT" \in WeaponStates
    BY Files, States
  <2>3. Turned(q, r) /\ r.state = "MELEE_INIT"
    BY <2>1, <2>2, Stood
  <2> HIDE DEF r
  <2> QED
    BY <2>3, <1>3, NotBusy DEF r
<1>6. CASE q.state = "MELEE_INIT"
  <2>1. r = Bolted(q, "MELEE_FIRE", q.rechamber)
    BY <1>2, <1>6 DEF Dispatch, PM_Weapon_Tick_MeleeInit, Bolted, Player
  <2>2. "MELEE_FIRE" \in WeaponStates
    BY States
  <2>3. Turned(q, r) /\ r.state = "MELEE_FIRE"
    BY <1>1, <2>1, <2>2, BoltedFields
  <2> HIDE DEF r
  <2> QED
    BY <1>6, <2>3, <1>3, NotBusy DEF r
<1>7. CASE q.state \in {"MELEE_FIRE", "MELEE_END"}
  <2>1. \/ r = Stands(q, "MELEE_END", w.quickRaiseTime, 0)
        \/ r = Stands(q, "READY", 0, 0)
    BY <1>2, <1>7 DEF Dispatch, PM_Weapon_Tick_MeleeFire, FinalizeStateExit, Stands
  <2>2. /\ w.quickRaiseTime \in Nat
        /\ "MELEE_END" \in WeaponStates /\ "READY" \in WeaponStates
    BY Files, States
  <2>3. Turned(q, r) /\ r.state \in {"MELEE_END", "READY"}
    BY <2>1, <2>2, Stood
  <2> HIDE DEF r
  <2> QED
    BY <1>7, <2>3, <1>3, NotBusy DEF r
<1>8. CASE q.state = "DETONATING"
  <2> DEFINE e == [q EXCEPT !.time = 0, !.delay = 0]
  <2>1. r = IF due THEN q ELSE TransitionToReadyOrLowReady(e)
    BY <1>2, <1>8 DEF Dispatch, PM_Weapon_DetonateTransition
  <2>2. e \in Player /\ Turned(q, e)
    BY DEF Player, Turned
  <2> HIDE DEF e
  <2>3. /\ Turned(e, TransitionToReadyOrLowReady(e))
        /\ TransitionToReadyOrLowReady(e).state \in {"READY", "LOWREADY_START"}
    BY <2>2, Readies
  <2>4. Turned(q, r) /\ r.state \in {"READY", "LOWREADY_START", "DETONATING"}
    BY <1>8, <2>1, <2>2, <2>3 DEF Turned
  <2> HIDE DEF r
  <2> QED
    BY <1>8, <2>4, <1>3, NotBusy DEF r
<1>9. CASE q.state = "LOWREADY_START"
  <2>1. r = Stands(q, "LOWREADY_LOOP", w.lowReadyLoopTime, 0)
    BY <1>2, <1>9 DEF Dispatch, PM_Weapon_LowReady_Start, Stands
  <2>2. w.lowReadyLoopTime \in Nat /\ "LOWREADY_LOOP" \in WeaponStates
    BY Files, States
  <2>3. Turned(q, r) /\ r.state = "LOWREADY_LOOP"
    BY <2>1, <2>2, Stood
  <2> HIDE DEF r
  <2> QED
    BY <1>9, <2>3, <1>3, NotBusy DEF r
<1>10. CASE q.state = "LOWREADY_END"
  <2>1. r = IF q.intent THEN EnterLowReadyStart(q) ELSE Stands(q, "READY", 0, 0)
    BY <1>2, <1>10 DEF Dispatch, PM_Weapon_LowReady_End, Stands
  <2>2. "READY" \in WeaponStates
    BY States
  <2>3. Turned(q, r) /\ r.state \in {"LOWREADY_START", "READY"}
    BY <2>1, <2>2, Stood, EntersStart
  <2> HIDE DEF r
  <2> QED
    BY <1>10, <2>3, <1>3, NotBusy DEF r
<1>11. CASE q.state \in {"SWIM_IN", "SWIM_OUT"}
  <2>1. r = Stands(q, q.state, q.time, q.delay)
    BY <1>2, <1>11 DEF Dispatch, Stands, Player
  <2>2. Turned(q, r) /\ r.state = q.state
    BY <1>1, <2>1, Stood
  <2> HIDE DEF r
  <2> QED
    BY <1>11, <2>2, <1>3, NotBusy DEF r
<1>12. CASE q.state = "LOWREADY_LOOP"
  <2>1. r = q
    BY <1>2, <1>12 DEF Dispatch
  <2> HIDE DEF r
  <2> QED
    BY <1>12, <2>1, <1>3, NotBusy DEF r, Turned
<1> HIDE DEF r
<1>13. \/ q.state \in {"RAISING", "RELOAD_END"} \/ q.state = "MELEE_CHARGE"
       \/ q.state = "MELEE_INIT" \/ q.state \in {"MELEE_FIRE", "MELEE_END"}
       \/ q.state = "DETONATING" \/ q.state = "LOWREADY_START" \/ q.state = "LOWREADY_END"
       \/ q.state \in {"SWIM_IN", "SWIM_OUT"} \/ q.state = "LOWREADY_LOOP"
  BY <1>1, <1>2 DEF WeaponStates, ReloadStates, MeleeStates, LowReadyStates
<1> QED
  BY <1>4, <1>5, <1>6, <1>7, <1>8, <1>9, <1>10, <1>11, <1>12, <1>13

\* A weapon at the ready, fired or being rechambered: it may shoot once.
LEMMA FireHandled ==
    ASSUME w \in WeaponFiles, NEW b, NEW q, Good(b, q), ~q.intent,
           q.state \in {"READY", "FIRING", "RECHAMBERING"},
           NEW cmd \in Commands, NEW due \in BOOLEAN, NEW ch \in Choices
    PROVE  Handled(b, q, Dispatch(q, cmd, due, ch))
<1> DEFINE r == Dispatch(q, cmd, due, ch)
           shot == [q EXCEPT !.state = "FIRING", !.clip = q.clip - 1, !.time = w.fireTime,
                             !.anim = "other", !.rechamber = w.boltAction]
<1>1. /\ q \in Player /\ q.time \in Nat /\ q.delay \in Nat /\ q.clip \in 0..Limit
      /\ q.ammo \in Nat /\ Limit \in Nat
  BY Fields, Files DEF Good
<1>2. q.state \notin StartStates /\ q.state \notin LoadingStates /\ q.state \notin Busy
  BY NotBusy DEF Busy
<1>3. r = Fire(q, cmd, due, ch)
  BY <1>2 DEF Dispatch
<1>4. \/ r = [q EXCEPT !.state = "READY", !.anim = "other"]
      \/ r = q
      \/ q.clip # 0 /\ r = shot
  BY <1>3 DEF Fire, ProcessAttackInput
<1> HIDE DEF r
<1>5. CASE r = [q EXCEPT !.state = "READY", !.anim = "other"]
  <2>1. r = Stands(q, "READY", q.time, q.delay)
    BY <1>1, <1>5 DEF Stands, Player
  <2>2. "READY" \in WeaponStates
    BY States
  <2>3. Turned(q, r) /\ r.state = "READY"
    BY <1>1, <2>1, <2>2, Stood
  <2>4. Handled(b, q, r)
    BY <1>1, <1>2, <2>3, TurnedHandled, NotBusy
  <2> QED
    BY <2>4 DEF r
<1>6. CASE r = q
  <2>1. Good(b, r) /\ WillLoad(r)
    BY <1>2, <1>6 DEF WillLoad
  <2>2. Handled(b, q, r)
    BY <1>2, <1>6, <2>1 DEF Handled
  <2> QED
    BY <2>2 DEF r
<1>7. CASE q.clip # 0 /\ r = shot
  <2>1. q.clip - 1 \in 0..Limit
    BY <1>1, <1>7
  <2>2. "FIRING" \in WeaponStates /\ w.fireTime \in Nat /\ w.boltAction \in BOOLEAN
    BY Files, States DEF WeaponFiles
  <2>3. r \in Player
    BY <1>1, <1>7, <2>1, <2>2 DEF Player, Anims
  <2>4. /\ r.state = "FIRING" /\ r.clip = q.clip - 1 /\ r.ammo = q.ammo
        /\ r.intent = q.intent
    BY <1>1, <1>7 DEF Player
  <2>5. "FIRING" \notin Busy /\ "FIRING" \notin StartStates /\ "FIRING" \notin LoadingStates
    BY DEF Busy, StartStates, LoadingStates
  <2>6. Good(b, r) /\ WillLoad(r)
    BY <2>3, <2>4, <2>5 DEF Good, WillLoad
  <2>7. Handled(b, q, r)
    BY <1>2, <2>4, <2>6, NotBusy DEF Handled
  <2> QED
    BY <2>7 DEF r
<1> QED
  BY <1>4, <1>5, <1>6, <1>7

\* The dispatch: when it is reached, no action is due or every time is over.
LEMMA Dispatched ==
    ASSUME w \in WeaponFiles, NEW b, NEW q, Good(b, q), q.intent => q.state # "READY",
           NEW cmd \in Commands, NEW due \in BOOLEAN, NEW ch \in Choices,
           WillLoad(q) \/ due, ~due => q.delay = 0
    PROVE  Handled(b, q, Dispatch(q, cmd, due, ch))
<1>1. q \in Player
  BY DEF Good
<1>2. CASE q.state \in StartStates
  <2>1. Dispatch(q, cmd, due, ch) = PM_Weapon_ReloadStart(q, cmd, due, ch)
    BY <1>2 DEF Dispatch, StartStates, LoadingStates
  <2> QED
    BY <1>2, <2>1, ReloadStarted
<1>3. CASE q.state \in LoadingStates
  <2>1. Dispatch(q, cmd, due, ch) = PM_Weapon_Reloading(q, cmd, due, ch)
    BY <1>3 DEF Dispatch, StartStates, LoadingStates
  <2> QED
    BY <1>3, <2>1, Reloaded
<1>4. CASE q.state \in {"READY", "FIRING", "RECHAMBERING"}
  <2>1. ~q.intent
    BY <1>4 DEF Good
  <2> QED
    BY <1>4, <2>1, FireHandled
<1>5. CASE q.state \notin Busy /\ q.state \notin {"READY", "FIRING", "RECHAMBERING"}
  BY <1>1, <1>5, StanceHandled
<1> QED
  BY <1>2, <1>3, <1>4, <1>5 DEF Busy

-----------------------------------------------------------------------------
(* The stages of a frame before its dispatch.                              *)

\* What a stage has made, by q, of the player state p the frame began with: no
\* round has moved, a reload that begins now begins on a clip of b, and none
\* has ended.
Reached(b, p, q) ==
    /\ Good(b, q)
    /\ q.clip = p.clip /\ q.ammo = p.ammo
    /\ q.intent => q.state # "READY"
    /\ q.state \in {"READY", "FIRING", "RECHAMBERING", "SWIM_OUT"} => q.clip = b
    /\ p.state \in Busy => q.state \in Busy \cup {"SWIM_IN", "MELEE_CHARGE"}
    /\ q.state \in Busy => p.state \in Busy \/ q.time # 0

\* The same, before the timers have run for WeaponTick.
Early(b, p, q) ==
    /\ Reached(b, p, q)
    /\ WillLoad(q)
    /\ q.state \in Busy => p.state \in Busy

\* A weapon that is not reloaded is the one a reload would begin on.
Fresh(b, p) == p.state \notin ReloadStates => p.clip = b

\* A stage that takes a weapon off its reload or its stance.
LEMMA TurnedAway ==
    ASSUME NEW b, NEW p, NEW q, NEW r, Turned(q, r),
           q.clip = p.clip, q.ammo = p.ammo,
           r.state \notin ReloadStates \cup {"FIRING", "RECHAMBERING"},
           r.intent => r.state # "READY",
           r.state \in {"READY", "SWIM_OUT"} => r.clip = b,
           p.state \in Busy => r.state \in {"SWIM_IN", "MELEE_CHARGE"}
    PROVE  Early(b, p, r)
<1>1. r.state \notin StartStates /\ r.state \notin LoadingStates /\ r.state \notin Busy
  BY DEF ReloadStates, Busy
<1>2. Good(b, r) /\ WillLoad(r)
  BY <1>1 DEF Good, Turned, WillLoad
<1>3. Reached(b, p, r)
  BY <1>1, <1>2 DEF Reached, Turned
<1> QED
  BY <1>1, <1>2, <1>3 DEF Early

\* With the intent set the frame begins in the stance.
LEMMA Caught ==
    ASSUME w \in WeaponFiles, NEW b, NEW p, Good(b, p), WillLoad(p), Fresh(b, p)
    PROVE  LET q == LowReadyCatch(p)
           IN  /\ Early(b, p, q) /\ Fresh(b, q)
               /\ p.state \in Busy => q.state \in Busy
<1> DEFINE q == LowReadyCatch(p)
<1>1. p \in Player
  BY DEF Good
<1>2. CASE p.intent /\ p.state \in {"READY", "LOWREADY_START", "LOWREADY_END"}
  <2>1. q = Stands(p, "LOWREADY_LOOP", 0, 0)
    BY <1>2 DEF LowReadyCatch, Stands
  <2>2. "LOWREADY_LOOP" \in WeaponStates
    BY States
  <2>3. Turned(p, q) /\ q.state = "LOWREADY_LOOP"
    BY <1>1, <2>1, <2>2, Stood
  <2> HIDE DEF q
  <2>4. "LOWREADY_LOOP" \notin ReloadStates /\ p.state \notin ReloadStates /\ p.state \notin Busy
    BY <1>2, NotBusy
  <2>5. Early(b, p, q)
    BY <2>3, <2>4, TurnedAway
  <2>6. Fresh(b, q)
    BY <2>3, <2>4 DEF Fresh, Turned
  <2> QED
    BY <2>4, <2>5, <2>6 DEF q
<1>3. CASE ~(p.intent /\ p.state \in {"READY", "LOWREADY_START", "LOWREADY_END"})
  <2>1. q = p
    BY <1>3 DEF LowReadyCatch
  <2> HIDE DEF q
  <2>2. p.state \in {"READY", "FIRING", "RECHAMBERING", "SWIM_OUT"} => p.state \notin ReloadStates
    BY NotBusy
  <2>3. Early(b, p, p)
    BY <1>3, <2>2 DEF Early, Reached, Fresh
  <2> QED
    BY <2>1, <2>3 DEF q
<1> QED
  BY <1>2, <1>3

\* Above water a weapon leaves its swim states, one a frame.
LEMMA Surfaces ==
    ASSUME w \in WeaponFiles, NEW b, NEW p, NEW q, Early(b, p, q), Fresh(b, q),
           p.state \in Busy => q.state \in Busy
    PROVE  Early(b, p, Surface(q))
<1> DEFINE r == Surface(q)
<1>1. /\ q \in Player /\ q.clip = p.clip /\ q.ammo = p.ammo
      /\ q.time \in Nat /\ q.delay \in Nat /\ q.rechamber \in BOOLEAN
  BY Fields DEF Early, Reached, Good
<1>2. CASE q.state = "SWIM_IN" \/ (q.state = "SWIM_OUT" /\ ~q.intent)
  <2>1. PICK s \in {"SWIM_OUT", "READY"} : /\ r = Bolted(q, s, q.rechamber)
                                           /\ s = "READY" => ~q.intent
    BY <1>1, <1>2 DEF Surface, Bolted, Player
  <2>2. s \in WeaponStates
    BY States
  <2>3. Turned(q, r) /\ r.state = s
    BY <1>1, <2>1, <2>2, BoltedFields
  <2>4. q.clip = b /\ q.state \notin Busy
    BY <1>2, NotBusy DEF Fresh
  <2>5. s \notin ReloadStates \cup {"FIRING", "RECHAMBERING"}
    BY NotBusy
  <2> HIDE DEF r
  <2>6. r.clip = b /\ (r.intent => r.state # "READY")
    BY <2>1, <2>3, <2>4 DEF Turned
  <2>7. Early(b, p, r)
    BY <1>1, <2>3, <2>4, <2>5, <2>6, TurnedAway
  <2> QED
    BY <2>7 DEF r
<1>3. CASE q.state = "SWIM_OUT" /\ q.intent
  <2>1. r = EnterLowReadyStart(q)
    BY <1>3 DEF Surface
  <2>2. Turned(q, r) /\ r.state = "LOWREADY_START"
    BY <1>1, <2>1, EntersStart
  <2> HIDE DEF r
  <2>3. Early(b, p, r)
    BY <1>1, <1>3, <2>2, NotBusy, TurnedAway
  <2> QED
    BY <2>3 DEF r
<1>4. CASE q.state \notin {"SWIM_IN", "SWIM_OUT"}
  BY <1>4 DEF Surface
<1> QED
  BY <1>2, <1>3, <1>4

\* A player state with other times, none of them later.
Later(p, t, d) == [p EXCEPT !.time = t, !.delay = d]

\* A frame of the timers.
LEMMA RunsDown ==
    ASSUME w \in WeaponFiles, NEW q \in Player
    PROVE  LET r == AnimCmdState_Resync(q)
           IN  /\ Turned(q, r.ps) /\ r.ps.state = q.state /\ r.ps.anim = q.anim
               /\ r.ps.time <= q.time /\ r.acted \in BOOLEAN
               /\ q.delay > 0 => r.ps.delay > 0 \/ r.acted
<1> DEFINE t == IF q.time > 0 THEN q.time - 1 ELSE 0
           d == IF q.delay > 0 THEN q.delay - 1 ELSE 0
           r == Later(q, t, d)
<1>1. /\ q.time \in Nat /\ q.delay \in Nat
  BY Fields
<1>2. /\ t \in Nat /\ t <= q.time /\ d \in Nat
      /\ q.delay > 0 => d > 0 \/ q.delay = 1
  BY <1>1
<1>3. AnimCmdState_Resync(q) = [ps |-> r, acted |-> q.delay = 1]
  BY DEF AnimCmdState_Resync, Later, Player
<1> HIDE DEF t, d
<1>4. r \in Player
  BY <1>2 DEF Later, Player
<1>5. /\ r.state = q.state /\ r.anim = q.anim /\ r.time = t /\ r.delay = d
      /\ r.clip = q.clip /\ r.ammo = q.ammo /\ r.intent = q.intent
  BY DEF Later, Player
<1> HIDE DEF r
<1> DEFINE both == AnimCmdState_Resync(q)
<1>6. both.ps = r /\ both.acted \in BOOLEAN /\ (q.delay = 1 => both.acted)
  <2>1. both.ps = r
    BY <1>3
  <2>2. both.acted = (q.delay = 1)
    BY DEF AnimCmdState_Resync
  <2> HIDE DEF both
  <2>3. both.acted \in BOOLEAN /\ (q.delay = 1 => both.acted)
    BY <2>2
  <2> QED
    BY <2>1, <2>3
<1> HIDE DEF both
<1>7. /\ Turned(q, both.ps) /\ both.ps.state = q.state /\ both.ps.anim = q.anim
      /\ both.ps.time <= q.time /\ both.acted \in BOOLEAN
      /\ q.delay > 0 => both.ps.delay > 0 \/ both.acted
  BY <1>2, <1>4, <1>5, <1>6 DEF Turned
<1> QED
  BY <1>7 DEF both

\* The timers of a frame: what is still to be loaded is due now, or later.
LEMMA Resyncs ==
    ASSUME w \in WeaponFiles, NEW b, NEW p, NEW q, Early(b, p, q)
    PROVE  LET r == AnimCmdState_Resync(q)
           IN  Reached(b, p, r.ps) /\ (WillLoad(r.ps) \/ r.acted) /\ r.acted \in BOOLEAN
<1> DEFINE both == AnimCmdState_Resync(q)
           r == both.ps
<1>1. q \in Player
  BY DEF Early, Reached, Good
<1>2. /\ Turned(q, r) /\ r.state = q.state /\ r.anim = q.anim
      /\ r.time <= q.time /\ both.acted \in BOOLEAN
      /\ q.delay > 0 => r.delay > 0 \/ both.acted
  BY <1>1, RunsDown
<1> HIDE DEF both
<1>3. r.time \in Nat /\ q.time \in Nat /\ LatchedTime(b) \in Nat /\ r.delay \in Nat
  BY <1>1, <1>2, Fields, Files DEF Turned, LatchedTime
<1>4. Good(b, r)
  BY <1>2, <1>3 DEF Good, Turned, Early, Reached
<1>5. Reached(b, p, r)
  BY <1>2, <1>4 DEF Reached, Turned, Early
<1>6. WillLoad(r) \/ both.acted
  BY <1>2 DEF WillLoad, Early, Turned
<1> QED
  BY <1>2, <1>5, <1>6 DEF both

\* Under water every state but a strike and the stance is forced into SWIM_IN.
LEMMA Submerges ==
    ASSUME w \in WeaponFiles, NEW b, NEW p, NEW q, Early(b, p, q)
    PROVE  /\ Early(b, p, Submerge(q).ps)
           /\ Submerge(q).ends => Submerge(q).ps.state = "SWIM_IN"
<1> DEFINE k == AnimCmdState_Resync(q).ps
           r == Submerge(q).ps
<1>1. /\ q \in Player /\ q.clip = p.clip /\ q.ammo = p.ammo
      /\ q.intent => q.state \notin ReloadStates \cup {"FIRING", "RECHAMBERING"}
  BY DEF Early, Reached, Good
<1>2. /\ Turned(q, k) /\ k.state = q.state
  BY <1>1, RunsDown
<1>3. /\ Submerge(q).ends => r.state = "SWIM_IN"
      /\ \/ k.state = "SWIM_IN" /\ r = [k EXCEPT !.swimEnter = FALSE]
         \/ k.state \in {"MELEE_INIT", "MELEE_FIRE"} \cup LowReadyStates /\ r = k
         \/ r = [k EXCEPT !.state = "SWIM_IN", !.swimEnter = TRUE]
  <2> HIDE DEF k
  <2>1. k \in Player
    BY <1>2 DEF Turned
  <2> QED
    BY <2>1 DEF Submerge, k, Player
<1> HIDE DEF k, r
<1>4. k \in Player /\ k.clip = p.clip /\ k.ammo = p.ammo /\ k.intent = q.intent
  BY <1>1, <1>2 DEF Turned
<1>5. /\ r \in Player /\ r.clip = p.clip /\ r.ammo = p.ammo /\ r.intent = q.intent
      /\ \/ r.state = "SWIM_IN"
         \/ r.state = q.state /\ q.state \in {"MELEE_INIT", "MELEE_FIRE"} \cup LowReadyStates
  <2>1. CASE k.state = "SWIM_IN" /\ r = [k EXCEPT !.swimEnter = FALSE]
    BY <1>4, <2>1 DEF Player
  <2>2. CASE k.state \in {"MELEE_INIT", "MELEE_FIRE"} \cup LowReadyStates /\ r = k
    BY <1>2, <1>4, <2>2
  <2>3. CASE r = [k EXCEPT !.state = "SWIM_IN", !.swimEnter = TRUE]
    <3>1. "SWIM_IN" \in WeaponStates
      BY States
    <3> QED
      BY <1>4, <2>3, <3>1 DEF Player
  <2> QED
    BY <1>3, <2>1, <2>2, <2>3
<1>6. Turned(q, r)
  BY <1>1, <1>5 DEF Turned
<1>7. /\ r.state \notin ReloadStates \cup {"FIRING", "RECHAMBERING"}
      /\ r.state \notin {"READY", "SWIM_OUT"}
      /\ q.state \in Busy \/ q.state \in {"SWIM_IN", "MELEE_CHARGE"} => r.state = "SWIM_IN"
  BY <1>5, NotBusy DEF LowReadyStates
<1>8. p.state \in Busy => r.state \in {"SWIM_IN", "MELEE_CHARGE"}
  BY <1>7 DEF Early, Reached
<1>9. Early(b, p, r)
  BY <1>1, <1>5, <1>6, <1>7, <1>8, TurnedAway
<1> QED
  BY <1>3, <1>9 DEF r

\* The trigger marks a running reload as interrupted, and changes nothing else.
LEMMA Interrupts ==
    ASSUME w \in WeaponFiles, NEW b, NEW p, NEW q, Reached(b, p, q), NEW cmd \in Commands
    PROVE  LET r == Interrupted(w, q, cmd, oldcmd)
           IN  /\ Reached(b, p, r) /\ (WillLoad(q) => WillLoad(r))
               /\ q.state \notin Busy => r = q
<1> DEFINE r == Interrupted(w, q, cmd, oldcmd)
<1>1. q \in Player /\ q.rechamber \in BOOLEAN
  BY Fields DEF Reached, Good
<1>2. \/ r = q
      \/ q.state = "RELOAD_START" /\ r = [q EXCEPT !.state = "RELOAD_START_INTERUPT"]
      \/ q.state = "RELOADING" /\ r = [q EXCEPT !.state = "RELOADING_INTERUPT"]
  BY DEF Interrupted
<1> HIDE DEF r
<1>3. /\ r \in Player /\ r.clip = q.clip /\ r.ammo = q.ammo /\ r.time = q.time
      /\ r.delay = q.delay /\ r.anim = q.anim /\ r.intent = q.intent
      /\ \/ r = q
         \/ q.state = "RELOAD_START" /\ r.state = "RELOAD_START_INTERUPT"
         \/ q.state = "RELOADING" /\ r.state = "RELOADING_INTERUPT"
  <2>1. /\ "RELOAD_START_INTERUPT" \in WeaponStates /\ "RELOADING_INTERUPT" \in WeaponStates
    BY DEF WeaponStates, ReloadStates, StartStates, LoadingStates
  <2>2. CASE r = q
    BY <1>1, <2>2
  <2>3. CASE q.state = "RELOAD_START" /\ r = [q EXCEPT !.state = "RELOAD_START_INTERUPT"]
    BY <1>1, <2>1, <2>3 DEF Player
  <2>4. CASE q.state = "RELOADING" /\ r = [q EXCEPT !.state = "RELOADING_INTERUPT"]
    BY <1>1, <2>1, <2>4 DEF Player
  <2> QED
    BY <1>2, <2>2, <2>3, <2>4
<1>4. CASE r = q
  BY <1>4 DEF r
<1>5. CASE r # q
  <2>1. /\ q.state \in ReloadStates /\ q.state \in Busy /\ r.state \in Busy
        /\ (r.state \in StartStates <=> q.state \in StartStates)
        /\ (r.state \in LoadingStates <=> q.state \in LoadingStates)
        /\ r.state \notin {"READY", "FIRING", "RECHAMBERING", "SWIM_OUT"}
    BY <1>3, <1>5 DEF Busy, ReloadStates, StartStates, LoadingStates
  <2>2. ~q.intent
    BY <2>1 DEF Reached, Good
  <2>3. Good(b, r)
    BY <1>3, <2>1, <2>2 DEF Good, Reached
  <2>4. Reached(b, p, r)
    BY <1>3, <2>1, <2>2, <2>3 DEF Reached
  <2>5. WillLoad(q) => WillLoad(r)
    BY <1>3, <2>1 DEF WillLoad
  <2> QED
    BY <2>1, <2>4, <2>5 DEF r
<1> QED
  BY <1>4, <1>5

\* A reload begins on what the clip holds: its start is latched, its time runs.
LEMMA Begins ==
    ASSUME w \in WeaponFiles, NEW b, NEW p, NEW q, Reached(b, p, q), q.ammo > 0
    PROVE  LET r == PM_BeginWeaponReload(w, q)
           IN  Reached(b, p, r) /\ (WillLoad(q) => WillLoad(r))
<1> DEFINE r == PM_BeginWeaponReload(w, q)
           empty == HasEmptyStart(w) /\ q.clip = 0
           startTime == IF empty THEN w.startEmptyTime ELSE w.startTime
           anim == IF empty THEN "reload_start_empty" ELSE "reload_start"
           started == [q EXCEPT !.state = "RELOAD_START", !.anim = anim, !.time = startTime]
<1>1. q \in Player /\ q.clip \in Nat /\ q.ammo \in Nat
  BY Fields, Files DEF Reached, Good
<1>2. r = IF q.intent \/ q.state \notin {"READY", "FIRING", "RECHAMBERING"} THEN q
          ELSE IF ~w.segmented \/ startTime = 0 THEN PM_SetReloadingState(w, q, FALSE)
          ELSE PM_SetWeaponReloadAddAmmoDelay(w, started)
  BY DEF PM_BeginWeaponReload
<1> HIDE DEF r, started
<1>3. CASE q.intent \/ q.state \notin {"READY", "FIRING", "RECHAMBERING"}
  <2>1. r = q
    BY <1>2, <1>3
  <2> QED
    BY <2>1 DEF r
<1>4. CASE /\ ~(q.intent \/ q.state \notin {"READY", "FIRING", "RECHAMBERING"})
           /\ ~w.segmented \/ startTime = 0
  <2>1. PICK k \in BOOLEAN : r = PM_SetReloadingState(w, q, k)
    BY <1>2, <1>4
  <2>2. /\ r \in Player /\ r.state \in LoadingStates /\ r.time > 0 /\ r.delay > 0
        /\ r.clip = q.clip /\ r.ammo = q.ammo /\ ~r.intent
    BY <1>1, <1>4, <2>1, SetsReloading
  <2>3. /\ r.state \in Busy /\ r.state \notin StartStates
        /\ r.state \notin {"READY", "FIRING", "RECHAMBERING", "SWIM_OUT"}
    BY <2>2 DEF Busy, StartStates, LoadingStates
  <2>4. Good(b, r) /\ WillLoad(r)
    BY <1>1, <2>2, <2>3 DEF Good, WillLoad
  <2>5. Reached(b, p, r)
    BY <2>2, <2>3, <2>4, <1>4 DEF Reached
  <2> QED
    BY <2>4, <2>5 DEF r
<1>5. CASE /\ ~(q.intent \/ q.state \notin {"READY", "FIRING", "RECHAMBERING"})
           /\ ~(~w.segmented \/ startTime = 0)
  <2>1. r = PM_SetWeaponReloadAddAmmoDelay(w, started)
    BY <1>2, <1>5
  <2>2. startTime \in Nat /\ anim \in Anims /\ "RELOAD_START" \in WeaponStates
    BY Files DEF Anims, WeaponStates, ReloadStates, StartStates
  <2>3. q.clip = b
    BY <1>5 DEF Reached
  <2>4. startTime = LatchedTime(b) /\ anim = LatchedAnim(b)
    BY <2>3 DEF LatchedTime, LatchedAnim, BeganEmpty
  <2> HIDE DEF startTime, anim
  <2>5. /\ started \in Player /\ started.state = "RELOAD_START" /\ started.time = startTime
        /\ started.anim = anim /\ started.clip = q.clip /\ started.ammo = q.ammo
        /\ started.intent = q.intent
    BY <1>1, <2>2 DEF started, Player
  <2>6. Moved(started, r) /\ r.clip = started.clip /\ r.ammo = started.ammo
    BY <2>1, <2>5, SetsDelay
  <2>7. /\ r.state = "RELOAD_START" /\ r.time = startTime /\ r.anim = anim
        /\ r.clip = q.clip /\ r.ammo = q.ammo /\ ~r.intent /\ r \in Player
    BY <1>5, <2>5, <2>6 DEF Moved
  <2>8. /\ r.state \in Busy /\ r.state \notin LoadingStates
        /\ r.state \notin {"READY", "FIRING", "RECHAMBERING", "SWIM_OUT"}
    BY <2>7 DEF Busy, StartStates, LoadingStates
  <2>9. Good(b, r) /\ WillLoad(r)
    BY <2>2, <2>4, <2>7, <2>8 DEF Good, WillLoad
  <2>10. Reached(b, p, r)
    BY <1>5, <2>7, <2>8, <2>9 DEF Reached
  <2> QED
    BY <2>9, <2>10 DEF r
<1> QED
  BY <1>3, <1>4, <1>5

\* The reload check of a frame.
LEMMA Checks ==
    ASSUME w \in WeaponFiles, NEW b, NEW p, NEW q, Reached(b, p, q), NEW cmd \in Commands
    PROVE  LET r == PM_Weapon_CheckForReload(w, q, cmd, oldcmd)
           IN  Reached(b, p, r) /\ (WillLoad(q) => WillLoad(r))
<1> DEFINE r == PM_Weapon_CheckForReload(w, q, cmd, oldcmd)
           i == Interrupted(w, q, cmd, oldcmd)
           dry == [q EXCEPT !.state = "DETONATING", !.time = w.emptyRaiseTime, !.anim = "other"]
           asked == /\ cmd.reload
                    /\ PM_Weapon_AllowReload(w, i)
           alone == i.clip = 0 /\ i.ammo # 0 /\ i.state # "FIRING"
<1>1. q \in Player /\ q.delay \in Nat
  BY Fields DEF Reached, Good
<1>2. Reached(b, p, i) /\ (WillLoad(q) => WillLoad(i))
  BY Interrupts
<1>3. \/ q.state = "MELEE_END" /\ r = dry
      \/ r = q
      \/ r = i
      \/ (asked \/ alone) /\ r = PM_BeginWeaponReload(w, i)
  BY DEF PM_Weapon_CheckForReload
<1> HIDE DEF r, i
<1>4. CASE q.state = "MELEE_END" /\ r = dry
  <2>1. r = Stands(q, "DETONATING", w.emptyRaiseTime, q.delay)
    BY <1>1, <1>4 DEF Stands, Player
  <2>2. w.emptyRaiseTime \in Nat /\ "DETONATING" \in WeaponStates
    BY Files, States
  <2>3. Turned(q, r) /\ r.state = "DETONATING"
    BY <1>1, <2>1, <2>2, Stood
  <2>4. p.state \notin Busy
    BY <1>4, NotBusy DEF Reached
  <2>5. Early(b, p, r)
    BY <2>3, <2>4, TurnedAway, NotBusy DEF Reached
  <2> QED
    BY <2>5 DEF Early, r
<1>5. CASE r = q
  BY <1>5 DEF r
<1>6. CASE r = i
  BY <1>2, <1>6 DEF r
<1>7. CASE (asked \/ alone) /\ r = PM_BeginWeaponReload(w, i)
  <2>1. i \in Player
    BY <1>2 DEF Reached, Good
  <2>2. i.ammo \in Nat
    BY <2>1, Fields, Files
  <2>3. i.ammo > 0
    BY <1>7, <2>1, <2>2, Allows
  <2>4. Reached(b, p, r) /\ (WillLoad(i) => WillLoad(r))
    BY <1>2, <1>7, <2>3, Begins
  <2> QED
    BY <1>2, <2>4 DEF r
<1> QED
  BY <1>3, <1>4, <1>5, <1>6, <1>7

\* A melee takes the weapon off whatever it was doing.
LEMMA Cleans ==
    ASSUME w \in WeaponFiles, NEW b, NEW p, NEW q, Reached(b, p, q), NEW cmd \in Commands,
           NEW due \in BOOLEAN
    PROVE  LET r == PM_Weapon_AnimSyncCleanup(q, cmd, due)
           IN  Reached(b, p, r) /\ (WillLoad(q) => WillLoad(r))
<1> DEFINE r == PM_Weapon_AnimSyncCleanup(q, cmd, due)
<1>1. q \in Player /\ q.delay \in Nat
  BY Fields DEF Reached, Good
<1>2. r = q \/ r = FireSwitchEvent(q)
  BY DEF PM_Weapon_AnimSyncCleanup
<1> HIDE DEF r
<1>3. CASE r = q
  BY <1>3 DEF r
<1>4. CASE r = FireSwitchEvent(q)
  <2>1. r = Stands(q, "MELEE_CHARGE", w.meleeTime, q.delay)
    BY <1>1, <1>4 DEF FireSwitchEvent, Stands, Player
  <2>2. w.meleeTime \in Nat /\ "MELEE_CHARGE" \in WeaponStates
    BY Files, States
  <2>3. Turned(q, r) /\ r.state = "MELEE_CHARGE"
    BY <1>1, <2>1, <2>2, Stood
  <2>4. Early(b, p, r)
    BY <2>3, TurnedAway, NotBusy DEF Reached
  <2> QED
    BY <2>4 DEF Early, r
<1> QED
  BY <1>2, <1>3, <1>4

\* Rechambering begins at the ready or after a shot, and keeps the frame.
LEMMA Gates ==
    ASSUME w \in WeaponFiles, NEW b, NEW p, NEW q, Reached(b, p, q), NEW due \in BOOLEAN
    PROVE  LET g == FinalGate(q, due)
           IN  /\ Reached(b, p, g.ps) /\ (WillLoad(q) => WillLoad(g.ps))
               /\ g.busy => g.ps.state = "RECHAMBERING"
<1> DEFINE g == FinalGate(q, due)
           r == g.ps
           e == q.rechamber /\ ~(q.state = "RECHAMBERING" /\ due)
           cycled == Bolted(q, q.state, e)
           begins == cycled.rechamber /\ cycled.time = 0 /\ cycled.state \in {"READY", "FIRING"}
<1>1. q \in Player /\ q.state \in WeaponStates /\ q.rechamber \in BOOLEAN
  BY Fields DEF Reached, Good
<1>2. e \in BOOLEAN
  BY <1>1
<1>3. cycled = [q EXCEPT !.rechamber = @ /\ ~(q.state = "RECHAMBERING" /\ due)]
  BY <1>1 DEF Bolted, Player
<1>4. r = IF begins
          THEN [cycled EXCEPT !.state = "RECHAMBERING", !.anim = "other",
                              !.time = w.rechamberTime, !.delay = w.boltTime]
          ELSE cycled
  BY <1>3 DEF FinalGate
<1>5. g.busy => r.state = "RECHAMBERING"
  BY DEF FinalGate
<1> HIDE DEF e
<1>6. /\ Turned(q, cycled) /\ cycled.state = q.state /\ cycled.time = q.time
      /\ cycled.delay = q.delay /\ cycled.anim = q.anim
  BY <1>1, <1>2, BoltedFields
<1> HIDE DEF g, cycled
<1>7. CASE ~begins
  <2>1. r = cycled
    BY <1>4, <1>7
  <2> HIDE DEF r
  <2>2. Good(b, r)
    BY <1>6, <2>1 DEF Good, Turned, Reached
  <2>3. Reached(b, p, r) /\ (WillLoad(q) => WillLoad(r))
    BY <1>6, <2>1, <2>2 DEF Reached, Turned, WillLoad
  <2> QED
    BY <1>5, <2>3 DEF r, g
<1>8. CASE begins
  <2>1. q.state \in {"READY", "FIRING"} /\ ~q.intent /\ cycled \in Player
    BY <1>6, <1>8 DEF Reached, Good, Turned
  <2>2. r = Stands(cycled, "RECHAMBERING", w.rechamberTime, w.boltTime)
    BY <1>4, <1>8 DEF Stands
  <2>3. /\ w.rechamberTime \in Nat /\ w.boltTime \in Nat /\ "RECHAMBERING" \in WeaponStates
    BY Files, States
  <2>4. Turned(cycled, r) /\ r.state = "RECHAMBERING"
    BY <2>1, <2>2, <2>3, Stood
  <2> HIDE DEF r
  <2>5. /\ r \in Player /\ r.clip = q.clip /\ r.ammo = q.ammo /\ ~r.intent
    BY <1>6, <2>1, <2>4 DEF Turned
  <2>6. /\ r.state \notin Busy /\ r.state \notin StartStates /\ r.state \notin LoadingStates
        /\ p.state \notin Busy
    BY <2>1, <2>4, NotBusy DEF Busy, StartStates, LoadingStates, Reached
  <2>7. Good(b, r) /\ WillLoad(r)
    BY <2>5, <2>6 DEF Good, WillLoad
  <2>8. Reached(b, p, r)
    BY <2>1, <2>4, <2>5, <2>6, <2>7 DEF Reached
  <2> QED
    BY <1>5, <2>7, <2>8 DEF r, g
<1> QED
  BY <1>7, <1>8

\* What a frame that began with p may end with.
Outcome(b, p, r) ==
    /\ Good(b, r) /\ WillLoad(r)
    /\ \/ r.clip = p.clip /\ r.ammo = p.ammo
       \/ r.clip = p.clip - 1 /\ r.ammo = p.ammo /\ r.state = "FIRING"
       \/ /\ r.clip > p.clip /\ r.ammo = p.ammo - (r.clip - p.clip)
          /\ p.state \in Busy \/ r.state \in Busy
    /\ p.state \in Busy /\ r.state \in {"RELOAD_END", "READY"} => r.clip > 0

\* A frame that ends before its dispatch.
LEMMA Halts ==
    ASSUME NEW b, NEW p, NEW q, Reached(b, p, q), WillLoad(q)
    PROVE  Outcome(b, p, q)
  BY NotBusy DEF Reached, Outcome

\* The frame of the weapon, its timers first.
LEMMA WeaponTicks ==
    ASSUME w \in WeaponFiles, NEW b, NEW p, NEW q, Early(b, p, q), NEW cmd \in Commands,
           NEW ch \in Choices
    PROVE  Outcome(b, p, WeaponTick(q, cmd, ch))
<1> DEFINE resync == AnimCmdState_Resync(q)
           due == resync.acted
           loaded == PM_Weapon_CheckForReload(w, resync.ps, cmd, oldcmd)
           cleaned == PM_Weapon_AnimSyncCleanup(loaded, cmd, due)
           gate == FinalGate(cleaned, due)
           g == gate.ps
<1>1. WeaponTick(q, cmd, ch) =
          IF gate.busy \/ (~due /\ (g.time # 0 \/ g.delay # 0)) THEN g
          ELSE Dispatch(g, cmd, due, ch)
  BY DEF WeaponTick
<1>2. Reached(b, p, resync.ps) /\ (WillLoad(resync.ps) \/ due) /\ due \in BOOLEAN
  BY Resyncs
<1> HIDE DEF resync
<1>3. Reached(b, p, loaded) /\ (WillLoad(resync.ps) => WillLoad(loaded))
  BY <1>2, Checks
<1> HIDE DEF loaded
<1>4. Reached(b, p, cleaned) /\ (WillLoad(loaded) => WillLoad(cleaned))
  BY <1>2, <1>3, Cleans
<1> HIDE DEF cleaned
<1>5. /\ Reached(b, p, g) /\ (WillLoad(cleaned) => WillLoad(g))
      /\ gate.busy => g.state = "RECHAMBERING"
  BY <1>2, <1>4, Gates
<1> HIDE DEF gate
<1>6. CASE gate.busy \/ (~due /\ (g.time # 0 \/ g.delay # 0))
  <2>1. WillLoad(g)
    BY <1>2, <1>3, <1>4, <1>5, <1>6 DEF WillLoad, LoadingStates
  <2> QED
    BY <1>1, <1>5, <1>6, <2>1, Halts
<1>7. CASE ~(gate.busy \/ (~due /\ (g.time # 0 \/ g.delay # 0)))
  <2> DEFINE r == Dispatch(g, cmd, due, ch)
  <2>1. Good(b, g) /\ (g.intent => g.state # "READY") /\ (WillLoad(g) \/ due)
        /\ (~due => g.delay = 0)
    BY <1>2, <1>3, <1>4, <1>5, <1>7 DEF Reached
  <2> HIDE DEF g
  <2>2. Handled(b, g, r)
    BY <1>2, <2>1, Dispatched
  <2> HIDE DEF r
  <2>3. Outcome(b, p, r)
    BY <1>5, <2>2, NotBusy DEF Handled, Outcome, Reached
  <2> QED
    BY <1>1, <1>7, <2>3 DEF r, g
<1> QED
  BY <1>6, <1>7

\* PM_Weapon, above water and under it.
LEMMA Plays ==
    ASSUME w \in WeaponFiles, NEW b, NEW p, Good(b, p), WillLoad(p), Fresh(b, p),
           NEW cmd \in Commands, NEW ch \in Choices
    PROVE  Outcome(b, p, PM_Weapon(p, cmd, ch))
<1> DEFINE caught == LowReadyCatch(p)
           sunk == Submerge(caught)
<1>1. PM_Weapon(p, cmd, ch) =
          IF cmd.blocked THEN caught
          ELSE IF ~cmd.water THEN WeaponTick(Surface(caught), cmd, ch)
          ELSE IF sunk.ends THEN sunk.ps
          ELSE WeaponTick(sunk.ps, cmd, ch)
  BY DEF PM_Weapon
<1>2. /\ Early(b, p, caught) /\ Fresh(b, caught)
      /\ p.state \in Busy => caught.state \in Busy
  BY Caught
<1> HIDE DEF caught
<1>3. CASE cmd.blocked
  BY <1>1, <1>2, <1>3, Halts DEF Early
<1>4. CASE ~cmd.blocked /\ ~cmd.water
  <2>1. Early(b, p, Surface(caught))
    BY <1>2, Surfaces
  <2> QED
    BY <1>1, <1>4, <2>1, WeaponTicks
<1>5. CASE ~cmd.blocked /\ cmd.water
  <2>1. Early(b, p, sunk.ps)
    BY <1>2, Submerges
  <2>2. CASE sunk.ends
    BY <1>1, <1>5, <2>1, <2>2, Halts DEF Early
  <2>3. CASE ~sunk.ends
    BY <1>1, <1>5, <2>1, <2>3, WeaponTicks
  <2> QED
    BY <2>2, <2>3
<1> QED
  BY <1>3, <1>4, <1>5 DEF Commands

-----------------------------------------------------------------------------
(* From outside the frame.                                                 *)

\* An empty start brings its missing times and amounts along.
LEMMA Defaults ==
    ASSUME NEW def \in WeaponFiles
    PROVE  Reload_ApplyWeaponDefDefaults(def) \in WeaponFiles
<1> DEFINE Either(x, y) == IF x = 0 THEN y ELSE x
           t == Either(def.startEmptyTime, def.startTime)
           d == Either(def.startEmptyAddTime, def.startAddTime)
           n == Either(def.startEmptyAdd, def.startAdd)
           full == [def EXCEPT !.startEmptyTime = t, !.startEmptyAddTime = d,
                               !.startEmptyAdd = n, !.startEmptyAnim = TRUE]
<1>1. t \in Nat /\ d \in Nat /\ n \in Nat
  BY DEF WeaponFiles
<1>2. \/ Reload_ApplyWeaponDefDefaults(def) = def
      \/ Reload_ApplyWeaponDefDefaults(def) = full
  BY DEF Reload_ApplyWeaponDefDefaults, WeaponFiles
<1> HIDE DEF t, d, n
<1>3. full \in WeaponFiles
  <2> DEFINE f1 == [def EXCEPT !.startEmptyTime = t]
             f2 == [f1 EXCEPT !.startEmptyAddTime = d]
             f3 == [f2 EXCEPT !.startEmptyAdd = n]
             f4 == [f3 EXCEPT !.startEmptyAnim = TRUE]
  <2>1. full = f4
    OBVIOUS
  <2>2. f1 \in WeaponFiles
    BY <1>1 DEF WeaponFiles
  <2> HIDE DEF f1
  <2>3. f2 \in WeaponFiles
    BY <1>1, <2>2 DEF WeaponFiles
  <2> HIDE DEF f2
  <2>4. f3 \in WeaponFiles
    BY <1>1, <2>3 DEF WeaponFiles
  <2> HIDE DEF f3
  <2>5. ASSUME NEW b \in BOOLEAN PROVE [f3 EXCEPT !.startEmptyAnim = b] \in WeaponFiles
    BY <2>4 DEF WeaponFiles
  <2>6. f4 \in WeaponFiles
    BY <2>5
  <2> QED
    BY <2>1, <2>6
<1> QED
  BY <1>2, <1>3

\* A player state with other rounds.
Armed(p, c, a) == [p EXCEPT !.clip = c, !.ammo = a]

\* Ammunition handed out never costs a loaded round, and never leaves an empty
\* clip without the reserve it had.
LEMMA Adds ==
    ASSUME w \in WeaponFiles, NEW p \in Player, NEW count \in Nat, NEW fillClip \in BOOLEAN
    PROVE  \E c \in 0..Limit, a \in 0..w.maxAmmo :
              /\ Add_Ammo(w, p, count, fillClip) = Armed(p, c, a)
              /\ p.clip <= c /\ c + a <= p.clip + p.ammo + count
              /\ c = 0 /\ p.ammo > 0 => a > 0
<1> DEFINE given == p.ammo + count
           move == Smaller(w.clipSize - p.clip, given)
           kept == IF w.closedBolt THEN Larger(move, 0) ELSE move
           n == IF fillClip THEN kept ELSE 0
           c1 == p.clip + n
           a1 == given - n
           a2 == Smaller(a1, w.maxAmmo)
           c2 == Smaller(c1, Limit)
           pickup == w.sharedCap - (c2 + a2)
           a3 == IF w.sharedCap >= 0 /\ pickup < 0 THEN Larger(a2 + pickup, 0) ELSE a2
<1>1. /\ p.clip \in Nat /\ p.clip <= Limit /\ p.ammo \in Nat /\ given \in Nat /\ given >= p.ammo
      /\ w.clipSize \in Nat /\ w.clipSize > 0 /\ w.maxAmmo \in Nat /\ w.maxAmmo > 0
      /\ w.sharedCap \in Int /\ (w.sharedCap >= 0 => w.sharedCap > 0)
      /\ Limit \in Nat /\ Limit >= w.clipSize /\ w.closedBolt \in BOOLEAN
      /\ ~w.closedBolt => Limit = w.clipSize
  BY Fields, Files DEF Limit
<1>2. Add_Ammo(w, p, count, fillClip) = Armed(p, c2, a3)
  <2> DEFINE g == [p EXCEPT !.ammo = given]
             f == Armed(p, c1, a1)
             k == Armed(p, c2, a2)
  <2>1. g.clip = p.clip /\ g.ammo = given
    BY DEF Player
  <2>2. (IF fillClip THEN Fill_Clip(w, g) ELSE g) = f
    <3>1. Fill_Clip(w, g) = [g EXCEPT !.clip = p.clip + kept, !.ammo = given - kept]
      BY <2>1 DEF Fill_Clip, Load
    <3>2. fillClip => Fill_Clip(w, g) = f
      BY <3>1 DEF Armed, Player
    <3>3. g = Armed(p, p.clip, given)
      BY DEF Armed, Player
    <3>4. p.clip + 0 = p.clip /\ given - 0 = given
      BY <1>1
    <3>5. ~fillClip => g = f
      BY <3>3, <3>4
    <3> QED
      BY <3>2, <3>5
  <2>3. f.clip = c1 /\ f.ammo = a1
    BY DEF Armed, Player
  <2>4. [f EXCEPT !.ammo = Smaller(@, w.maxAmmo), !.clip = Smaller(@, Limit)] = k
    BY <2>3 DEF Armed, Player
  <2>5. k.clip = c2 /\ k.ammo = a2
    BY DEF Armed, Player
  <2>6. BG_GetMaxPickupableAmmo(w, k) = pickup
    BY <2>5 DEF BG_GetMaxPickupableAmmo
  <2>7. Add_Ammo(w, p, count, fillClip) =
            IF w.sharedCap >= 0 /\ pickup < 0
            THEN [k EXCEPT !.ammo = Larger(@ + pickup, 0)] ELSE k
    <3>1. Limit = IF w.closedBolt THEN w.clipSize + 1 ELSE w.clipSize
      BY <1>1 DEF Limit
    <3> DEFINE filled == IF fillClip THEN Fill_Clip(w, g) ELSE g
               limit == IF w.closedBolt THEN w.clipSize + 1 ELSE w.clipSize
               clamped == [filled EXCEPT !.ammo = Smaller(@, w.maxAmmo),
                                         !.clip = Smaller(@, limit)]
    <3>2. Add_Ammo(w, p, count, fillClip) =
              IF w.sharedCap >= 0 /\ BG_GetMaxPickupableAmmo(w, clamped) < 0
              THEN [clamped EXCEPT !.ammo =
                        Larger(@ + BG_GetMaxPickupableAmmo(w, clamped), 0)]
              ELSE clamped
      BY DEF Add_Ammo
    <3>3. filled = f /\ limit = Limit
      BY <2>2, <3>1
    <3> HIDE DEF filled, limit, f, k, pickup
    <3>4. clamped = k
      BY <2>4, <3>3
    <3> HIDE DEF clamped
    <3> QED
      BY <2>6, <3>2, <3>4
  <2> QED
    BY <2>5, <2>7 DEF Armed, Player
<1> HIDE DEF given
<1>3. n \in Nat /\ p.clip + n <= Limit /\ n <= given
      /\ (p.clip = 0 /\ fillClip /\ given > 0 => n > 0)
  BY <1>1 DEF Smaller, Larger
<1> HIDE DEF n
<1>4. c2 = p.clip + n /\ c2 \in 0..Limit
  BY <1>1, <1>3 DEF Smaller
<1> HIDE DEF c2
<1>5. a2 \in 0..w.maxAmmo /\ a2 <= a1 /\ (a1 > 0 => a2 > 0)
  BY <1>1, <1>3 DEF Smaller
<1>6. c2 = 0 /\ p.ammo > 0 => a1 > 0
  BY <1>1, <1>3, <1>4
<1>7. p.clip + n + a1 = p.clip + p.ammo + count
  <2>1. given = p.ammo + count
    BY DEF given
  <2>2. p.clip \in Nat /\ p.ammo \in Nat /\ given \in Nat /\ n \in Nat
    BY <1>1, <1>3
  <2> QED
    BY <2>1, <2>2
<1> HIDE DEF a2
<1>8. a3 \in 0..w.maxAmmo /\ a3 <= a2 /\ (c2 = 0 /\ a2 > 0 => a3 > 0)
  BY <1>1, <1>4, <1>5 DEF Larger
<1> HIDE DEF a3
<1>9. c2 + a3 <= p.clip + p.ammo + count
  BY <1>1, <1>3, <1>4, <1>5, <1>7, <1>8
<1> QED
  BY <1>1, <1>2, <1>3, <1>4, <1>5, <1>6, <1>8, <1>9

-----------------------------------------------------------------------------
(* The invariant.                                                          *)

\* What the clip held when the reload that runs after this step began.
Begun == IF Reloading THEN began ELSE ps.clip

\* The state before a step, as its operators read it.
LEMMA Before ==
    ASSUME Inv
    PROVE  /\ w \in WeaponFiles /\ ps \in Player /\ Begun \in 0..Limit
           /\ Good(Begun, ps) /\ WillLoad(ps) /\ Fresh(Begun, ps)
<1>1. ps \in Player /\ ps.clip \in 0..Limit
  BY Fields DEF Inv, Good
<1>2. ~Reloading => ps.state \notin StartStates
  BY DEF Reloading, ReloadStates
<1> QED
  BY <1>1, <1>2 DEF Inv, Good, Begun, Fresh, Reloading

\* A step that takes the player to a good state keeps the invariant.
LEMMA Sets ==
    ASSUME Inv, NEW q, Good(Begun, q), WillLoad(q), NEW played \in Nat,
           SetPlayer(q, played), oldcmd' \in [attack : BOOLEAN, melee : BOOLEAN]
    PROVE  Inv'
<1>1. /\ ps' = q /\ w' = w
      /\ began' = IF ~Reloading' THEN 0 ELSE Begun
      /\ frames' = IF ~Reloading' \/ ~Reloading THEN 0 ELSE frames + played
  BY DEF SetPlayer, Begun
<1>2. Limit' = Limit /\ Limit \in Nat /\ Begun \in 0..Limit
  BY <1>1, Before, Files DEF Limit
<1>3. Player' = Player
  BY <1>1, <1>2 DEF Player
<1>4. frames' \in Nat /\ began' \in 0..Limit /\ w' \in WeaponFiles
  BY <1>1, <1>2 DEF Inv
<1>5. q.state \in StartStates => began' = Begun
  BY <1>1 DEF Reloading, ReloadStates
<1>6. /\ (ps \in Player)'
      /\ (ps.intent => ps.state \notin ReloadStates \cup {"FIRING", "RECHAMBERING"})'
      /\ (ps.state \in Busy /\ ps.clip = 0 => ps.ammo > 0)'
  BY <1>1, <1>3 DEF Good
<1>7. (ps.state \in StartStates => ps.anim = LatchedAnim(began) /\ ps.time <= LatchedTime(began))'
  BY <1>1, <1>5 DEF Good, LatchedAnim, LatchedTime, BeganEmpty
<1>8. Good(began, ps)'
  BY <1>6, <1>7 DEF Good
<1>9. WillLoad(ps)'
  BY <1>1 DEF WillLoad
<1> QED
  BY <1>2, <1>4, <1>8, <1>9 DEF Inv

\* What a step does to the player: the outcome of a frame, or ammunition.
LEMMA Steps ==
    ASSUME Inv, Next
    PROVE  /\ Inv'
           /\ w' = w
           /\ \/ Outcome(Begun, ps, ps')
              \/ /\ ps' = [ps EXCEPT !.clip = ps'.clip, !.ammo = ps'.ammo]
                 /\ ps'.clip \in Nat /\ ps'.clip >= ps.clip /\ ps'.clip <= Limit
                 /\ \E count \in Grants :
                       ps'.clip + ps'.ammo <= ps.clip + ps.ammo + count
<1>1. /\ w \in WeaponFiles /\ ps \in Player /\ Good(Begun, ps) /\ WillLoad(ps) /\ Fresh(Begun, ps)
      /\ oldcmd \in [attack : BOOLEAN, melee : BOOLEAN]
  BY Before DEF Inv
<1>2. ASSUME NEW q, Outcome(Begun, ps, q), NEW played \in Nat, SetPlayer(q, played),
             oldcmd' \in [attack : BOOLEAN, melee : BOOLEAN]
      PROVE  Inv' /\ w' = w /\ Outcome(Begun, ps, ps')
  <2>1. Inv'
    BY <1>2, Sets DEF Outcome
  <2> QED
    BY <1>2, <2>1 DEF SetPlayer
<1>3. ASSUME NEW buttons \in Buttons, NEW water \in BOOLEAN, NEW blocked \in BOOLEAN,
             FrameWith(buttons, water, blocked)
      PROVE  Inv' /\ w' = w /\ Outcome(Begun, ps, ps')
  <2> DEFINE cmd == [attack |-> buttons.attack, melee |-> buttons.melee,
                     reload |-> buttons.reload, water |-> water, blocked |-> blocked]
             played == IF blocked THEN 0 ELSE 1
  <2>1. cmd \in Commands /\ played \in Nat
    BY DEF Commands, Buttons
  <2>2. oldcmd' \in [attack : BOOLEAN, melee : BOOLEAN]
    BY <1>3 DEF FrameWith, Buttons
  <2>3. PICK ch \in Choices : SetPlayer(PM_Weapon(ps, cmd, ch), played)
    BY <1>3 DEF FrameWith
  <2> HIDE DEF cmd, played
  <2>4. Outcome(Begun, ps, PM_Weapon(ps, cmd, ch))
    BY <1>1, <2>1, Plays
  <2> QED
    BY <1>2, <2>1, <2>2, <2>3, <2>4
<1>4. CASE Frame
  BY <1>3, <1>4 DEF Frame
<1>5. CASE BlockedFrame
  BY <1>3, <1>5 DEF BlockedFrame
<1>6. ASSUME NEW enable \in BOOLEAN, SetLowReadyIntent(enable)
      PROVE  Inv' /\ w' = w /\ Outcome(Begun, ps, ps')
  <2> DEFINE p == [ps EXCEPT !.intent = enable]
             q == IF enable /\ p.state \notin LowReadyStates THEN EnterLowReadyStart(p)
                  ELSE IF ~enable /\ p.state = "LOWREADY_LOOP" THEN EnterLowReadyEnd(p)
                  ELSE p
  <2>1. SetPlayer(q, 0) /\ oldcmd' \in [attack : BOOLEAN, melee : BOOLEAN]
    BY <1>1, <1>6 DEF SetLowReadyIntent
  <2>2. /\ p \in Player /\ p.intent = enable /\ p.state = ps.state /\ p.clip = ps.clip
        /\ p.ammo = ps.ammo /\ p.time = ps.time /\ p.delay = ps.delay /\ p.anim = ps.anim
    BY <1>1 DEF Player
  <2> HIDE DEF p
  <2>3. EnterLowReadyEnd(p) = Stands(p, "LOWREADY_END", w.lowReadyOutTime, 0)
    BY DEF EnterLowReadyEnd, Stands
  <2>4. "LOWREADY_END" \in WeaponStates /\ w.lowReadyOutTime \in Nat
    BY <1>1, Files, States
  <2>5. \/ Turned(p, q) /\ q.state \in {"LOWREADY_START", "LOWREADY_END"}
        \/ q = p /\ (enable => p.state \in LowReadyStates)
    BY <1>1, <2>2, <2>3, <2>4, Stood, EntersStart
  <2> HIDE DEF q
  <2>6. CASE Turned(p, q) /\ q.state \in {"LOWREADY_START", "LOWREADY_END"}
    <3>1. /\ q.state \notin ReloadStates \cup {"FIRING", "RECHAMBERING", "READY"}
          /\ q.state \notin StartStates /\ q.state \notin LoadingStates /\ q.state \notin Busy
      BY <2>6, NotBusy DEF Busy
    <3>2. Good(Begun, q) /\ WillLoad(q)
      BY <2>6, <3>1 DEF Good, WillLoad, Turned
    <3>3. Outcome(Begun, ps, q)
      BY <2>2, <2>6, <3>1, <3>2 DEF Outcome, Turned
    <3> QED
      BY <1>2, <2>1, <3>3
  <2>7. CASE q = p /\ (enable => p.state \in LowReadyStates)
    <3>1. enable => ps.state \notin ReloadStates \cup {"FIRING", "RECHAMBERING"}
      BY <2>2, <2>7 DEF LowReadyStates, ReloadStates, StartStates, LoadingStates
    <3>2. Good(Begun, q) /\ WillLoad(q)
      BY <1>1, <2>2, <2>7, <3>1 DEF Good, WillLoad
    <3>3. Outcome(Begun, ps, q)
      BY <2>2, <2>7, <3>2, NotBusy DEF Outcome
    <3> QED
      BY <1>2, <2>1, <3>3
  <2> QED
    BY <2>5, <2>6, <2>7
<1>7. ASSUME NEW count \in Grants, NEW fillClip \in BOOLEAN, GiveAmmo(count, fillClip)
      PROVE  /\ Inv' /\ w' = w
             /\ ps' = [ps EXCEPT !.clip = ps'.clip, !.ammo = ps'.ammo]
             /\ ps'.clip \in Nat /\ ps'.clip >= ps.clip /\ ps'.clip <= Limit
             /\ ps'.clip + ps'.ammo <= ps.clip + ps.ammo + count
  <2> DEFINE q == Add_Ammo(w, ps, count, fillClip)
  <2>1. SetPlayer(q, 0) /\ oldcmd' \in [attack : BOOLEAN, melee : BOOLEAN]
    BY <1>1, <1>7 DEF GiveAmmo
  <2>2. PICK c \in 0..Limit, a \in 0..w.maxAmmo :
            /\ q = Armed(ps, c, a) /\ ps.clip <= c /\ (c = 0 /\ ps.ammo > 0 => a > 0)
            /\ c + a <= ps.clip + ps.ammo + count
    <3>1. count \in Nat
      BY WeaponAssumption
    <3> QED
      BY <1>1, <3>1, Adds
  <2> HIDE DEF q
  <2>3. /\ q \in Player /\ q.state = ps.state /\ q.time = ps.time /\ q.delay = ps.delay
        /\ q.anim = ps.anim /\ q.intent = ps.intent /\ q.clip = c /\ q.ammo = a
    BY <1>1, <2>2 DEF Armed, Player
  <2>4. ps.clip \in Nat /\ c \in Nat /\ c <= Limit
    BY <1>1, Fields, Files
  <2>5. c = 0 => ps.clip = 0
    BY <2>2, <2>4
  <2>6. Good(Begun, q) /\ WillLoad(q)
    BY <1>1, <2>2, <2>3, <2>5 DEF Good, WillLoad
  <2>7. Inv'
    BY <2>1, <2>6, Sets
  <2>8. ps' = q /\ w' = w
    BY <2>1 DEF SetPlayer
  <2>9. ps' = [ps EXCEPT !.clip = ps'.clip, !.ammo = ps'.ammo]
    BY <2>2, <2>3, <2>8 DEF Armed
  <2> QED
    BY <2>2, <2>3, <2>4, <2>7, <2>8, <2>9
<1> QED
  BY <1>4, <1>5, <1>6, <1>7 DEF Next

\* The invariant holds in every state.
LEMMA Invariance == Spec => []Inv
<1>1. Init => Inv
  <2> SUFFICES ASSUME Init PROVE Inv
    OBVIOUS
  <2>1. w \in WeaponFiles
    BY WeaponAssumption, Defaults DEF Init
  <2>2. ps \in Player /\ ps.state = "RAISING" /\ ~ps.intent
    <3>1. "RAISING" \in WeaponStates /\ 0 \in Nat /\ 1 \in Nat
      BY States
    <3>2. \A c \in 0..w.clipSize : c \in 0..Limit
      BY <2>1, Files
    <3> QED
      BY <3>1, <3>2 DEF Init, Player, Anims
  <2>3. ps.state \notin StartStates /\ ps.state \notin LoadingStates /\ ps.state \notin Busy
    BY <2>2 DEF Busy, StartStates, LoadingStates
  <2>4. Good(began, ps) /\ WillLoad(ps)
    BY <2>2, <2>3 DEF Good, WillLoad
  <2>5. began \in 0..Limit /\ frames \in Nat
    BY <2>1, Files DEF Init
  <2>6. oldcmd \in [attack : BOOLEAN, melee : BOOLEAN]
    BY DEF Init, Released
  <2> QED
    BY <2>1, <2>4, <2>5, <2>6 DEF Inv
<1>2. Inv /\ [Next]_vars => Inv'
  <2>1. Inv /\ Next => Inv'
    BY Steps
  <2>2. Inv /\ UNCHANGED vars => Inv'
    BY DEF vars, Inv, Good, WillLoad, LatchedAnim, LatchedTime, BeganEmpty, Player, Limit
  <2> QED
    BY <2>1, <2>2
<1> QED
  BY <1>1, <1>2, PTL DEF Spec

-----------------------------------------------------------------------------
(* The theorems.                                                           *)

\* Clip, reserve and timers keep their ranges, for every weapon file: the clip
\* never holds more than its size and, closed-bolt, the chambered round.
THEOREM TypesHold == Spec => []TypeOK
<1>1. Inv => TypeOK
  BY DEF Inv, Good, TypeOK
<1> QED
  BY <1>1, Invariance, PTL

\* While the script wants low ready the weapon neither fires nor reloads nor
\* rechambers.
THEOREM StanceHolds == Spec => []LowReadyHolds
<1>1. Inv => LowReadyHolds
  BY DEF Inv, Good, LowReadyHolds
<1> QED
  BY <1>1, Invariance, PTL

\* What the start of a reload shows, lasts and loads is decided by the clip the
\* reload began on.
THEOREM StartIsLatched == Spec => []EmptyStartLatched
<1>1. Inv => EmptyStartLatched
  BY DEF Inv, Good, EmptyStartLatched, ReloadStartTime, ReloadStartAdd, IsEmptyStart,
         LatchedAnim, LatchedTime, BeganEmpty
<1> QED
  BY <1>1, Invariance, PTL

\* No step loses, doubles or takes back a round.
THEOREM RoundsAreAccounted == Spec => RoundsAccounted
<1>1. Inv /\ [Next]_vars => [Accounted]_vars
  <2> SUFFICES ASSUME Inv, Next PROVE Accounted
    OBVIOUS
  <2>1. /\ w \in WeaponFiles /\ ps.clip \in Nat /\ ps.clip <= Limit /\ Limit \in Nat
        /\ ps.ammo \in Nat
    BY Before, Fields, Files
  <2>2. CASE Outcome(Begun, ps, ps')
    <3>1. ps' \in Player
      BY <2>2 DEF Outcome, Good
    <3>2. ps'.clip \in Nat /\ ps'.clip <= Limit /\ ps'.ammo \in Nat
      BY <2>1, <3>1, Fields, Files
    <3> QED
      BY <2>1, <2>2, <3>2 DEF Outcome, Busy, Accounted
  <2>3. CASE /\ ps' = [ps EXCEPT !.clip = ps'.clip, !.ammo = ps'.ammo]
             /\ ps'.clip \in Nat /\ ps'.clip >= ps.clip /\ ps'.clip <= Limit
             /\ \E count \in Grants :
                   ps'.clip + ps'.ammo <= ps.clip + ps.ammo + count
    BY <2>1, <2>3 DEF Accounted
  <2> QED
    BY <2>2, <2>3, Steps
<1> QED
  BY <1>1, Invariance, PTL DEF Spec, RoundsAccounted

\* A reload that plays to its end leaves a round to fire.
THEOREM ReloadsLoad == Spec => ReloadLoadsARound
<1>1. Inv /\ [Next]_vars =>
        [ps.state \in StartStates \cup LoadingStates
            /\ ps'.state \in {"RELOAD_END", "READY"} => ps'.clip > 0]_vars
  <2> SUFFICES ASSUME Inv, Next, ps.state \in StartStates \cup LoadingStates,
                      ps'.state \in {"RELOAD_END", "READY"}
               PROVE  ps'.clip > 0
    OBVIOUS
  <2>1. CASE Outcome(Begun, ps, ps')
    BY <2>1 DEF Outcome, Busy
  <2>2. CASE ps' = [ps EXCEPT !.clip = ps'.clip, !.ammo = ps'.ammo]
    <3>1. ps \in Player
      BY Before
    <3>2. ps'.state = ps.state
      BY <2>2, <3>1 DEF Player
    <3> QED
      BY <3>2 DEF StartStates, LoadingStates
  <2> QED
    BY <2>1, <2>2, Steps
<1>2. Spec => [][ps.state \in StartStates \cup LoadingStates
                    /\ ps'.state \in {"RELOAD_END", "READY"} => ps'.clip > 0]_vars
  BY <1>1, Invariance, PTL DEF Spec
<1> QED
  BY <1>2 DEF ReloadLoadsARound

=============================================================================
