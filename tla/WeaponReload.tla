---------------------------- MODULE WeaponReload ----------------------------
(***************************************************************************)
(* The reload of a weapon: how many rounds move from the reserve to the    *)
(* clip, when they move, and which state the weapon goes through.  The     *)
(* functions of PatchT4MAM_Reload.cpp replace the engine's at their entry; *)
(* each is an operator here, from a weapon definition w and a player state *)
(* p to the next player state.                                             *)
(*                                                                         *)
(*   w   a record: clip size, flags, amounts and times of the weapon file. *)
(*   p   a record: weapon state, weaponTime, weaponDelay, ammoclip, ammo,  *)
(*       the weapon's rechamber bit, its vm-anim and the lowReady intent.  *)
(*                                                                         *)
(* Times are counted in frames.  Anims are told apart only as far as the   *)
(* code reads them back: the latched "reload_start_empty" and the others.  *)
(***************************************************************************)
EXTENDS Integers

StartStates == {"RELOAD_START", "RELOAD_START_INTERUPT"}
LoadingStates == {"RELOADING", "RELOADING_INTERUPT"}
LowReadyStates == {"LOWREADY_START", "LOWREADY_LOOP", "LOWREADY_END"}
MeleeStates == {"MELEE_INIT", "MELEE_FIRE", "MELEE_END"}
ReloadStates == StartStates \cup LoadingStates \cup {"RELOAD_END"}

Smaller(a, b) == IF a < b THEN a ELSE b
Larger(a, b) == IF a > b THEN a ELSE b

-----------------------------------------------------------------------------
(* What a clip can take.                                                   *)

ClipCapacity(w, clip) ==
    IF w.closedBolt /\ clip > 0 THEN w.clipSize + 1 ELSE w.clipSize

ReloadAmmoAddFor(w, clip) ==
    IF clip = 0 /\ ~w.segmented /\ w.ammoAddEmpty # 0
    THEN w.ammoAddEmpty ELSE w.ammoAdd

HasEmptyStart(w) == w.startEmptyTime # 0

\* A slip: the empty start is read off the clip instead of the latched anim.
EmptyStartByClip(p) == p.state \in StartStates /\ p.clip = 0

IsEmptyStart(p) == p.state \in StartStates /\ p.anim = "reload_start_empty"

ReloadStartTime(w, p) == IF IsEmptyStart(p) THEN w.startEmptyTime ELSE w.startTime
ReloadStartAddTime(w, p) == IF IsEmptyStart(p) THEN w.startEmptyAddTime ELSE w.startAddTime
ReloadStartAdd(w, p) == IF IsEmptyStart(p) THEN w.startEmptyAdd ELSE w.startAdd

\* An authored reloadStartEmpty* field brings the others with it.
Reload_ApplyWeaponDefDefaults(w) ==
    LET authored == \/ w.startEmptyTime # 0
                    \/ w.startEmptyAddTime # 0
                    \/ w.startEmptyAdd # 0
                    \/ w.startEmptyAnim
        Or(x, y) == IF x = 0 THEN y ELSE x
    IN  IF ~authored THEN w
        ELSE [w EXCEPT !.startEmptyTime    = Or(@, w.startTime),
                       !.startEmptyAddTime = Or(@, w.startAddTime),
                       !.startEmptyAdd     = Or(@, w.startAdd),
                       !.startEmptyAnim    = TRUE]

-----------------------------------------------------------------------------
(* Rounds moving between the reserve and the clip.                         *)

Load(p, n) == [p EXCEPT !.clip = @ + n, !.ammo = @ - n]

PM_ReloadClip(w, p) ==
    LET starting == p.state \in StartStates
        limit    == IF starting THEN ReloadStartAdd(w, p) ELSE ReloadAmmoAddFor(w, p.clip)
        room     == Smaller(ClipCapacity(w, p.clip) - p.clip, p.ammo)
    IN  IF starting /\ limit = 0 THEN p
        ELSE Load(p, IF limit # 0 /\ limit < w.clipSize THEN Smaller(room, limit) ELSE room)

\* A slip: a full clip may be reloaded.
AllowFullReload(w, p) == p.ammo # 0 /\ p.clip <= ClipCapacity(w, p.clip)

PM_Weapon_AllowReload(w, p) ==
    LET capacity == ClipCapacity(w, p.clip)
    IN  /\ p.ammo # 0
        /\ p.clip < capacity
        /\ \/ ~w.noPartial
           \/ IF w.ammoAdd # 0 /\ w.ammoAdd < w.clipSize
              THEN capacity - p.clip >= w.ammoAdd
              ELSE p.clip = 0

\* A slip: a chambered round is pulled back into the reserve.
FillClipPullsBack(w, p) == Load(p, Smaller(w.clipSize - p.clip, p.ammo))

Fill_Clip(w, p) ==
    LET move == Smaller(w.clipSize - p.clip, p.ammo)
    IN  Load(p, IF w.closedBolt THEN Larger(move, 0) ELSE move)

\* The engine's count of what may still be picked up under a shared cap.
BG_GetMaxPickupableAmmo(w, p) == w.sharedCap - (p.clip + p.ammo)

\* A weapon the player owns and that keeps a reserve.
Add_Ammo(w, p, count, fillClip) ==
    LET given   == [p EXCEPT !.ammo = @ + count]
        filled  == IF fillClip THEN Fill_Clip(w, given) ELSE given
        limit   == IF w.closedBolt THEN w.clipSize + 1 ELSE w.clipSize
        clamped == [filled EXCEPT !.ammo = Smaller(@, w.maxAmmo),
                                  !.clip = Smaller(@, limit)]
        pickup  == BG_GetMaxPickupableAmmo(w, clamped)
    IN  IF w.sharedCap >= 0 /\ pickup < 0
        THEN [clamped EXCEPT !.ammo = Larger(@ + pickup, 0)]
        ELSE clamped

-----------------------------------------------------------------------------
(* When they move: weaponDelay is the time left until the delayed action.  *)

StartAddDelay(w, p) ==
    LET add == ReloadStartAddTime(w, p)
    IN  Smaller(add, ReloadStartTime(w, p))

LoadAddDelay(w, p) ==
    LET empty == p.clip = 0
        whole == IF empty THEN w.emptyTime ELSE w.time
        add   == IF empty /\ w.emptyAddTime # 0 THEN w.emptyAddTime ELSE w.addTime
    IN  IF add # 0 /\ add < whole THEN add ELSE whole

AddDelay(w, p) ==
    IF p.state \in StartStates THEN StartAddDelay(w, p) ELSE LoadAddDelay(w, p)

PM_SetWeaponReloadAddAmmoDelay(w, p) ==
    LET delay == AddDelay(w, p)
    IN  IF w.boltAction /\ p.rechamber
        THEN [p EXCEPT !.delay =
                Larger(1, Smaller(w.boltTime, IF delay = 0 THEN p.time ELSE delay))]
        ELSE IF delay # 0 THEN [p EXCEPT !.delay = delay]
        ELSE p

\* A bolt that is still to be cycled is cycled first; the rounds follow after
\* what is left of the add time.
PM_Weapon_ReloadDelayedAction(w, p) ==
    LET cycled == [p EXCEPT !.rechamber = FALSE]
        add    == AddDelay(w, p)
        bolt   == IF w.boltTime >= add THEN 1 ELSE w.boltTime
    IN  IF ~(w.boltAction /\ p.rechamber) THEN PM_ReloadClip(w, p)
        ELSE IF p.state \in StartStates /\ ReloadStartAddTime(w, p) = 0 THEN cycled
        ELSE IF p.time = 0 \/ add - bolt < 1 THEN PM_ReloadClip(w, cycled)
        ELSE [cycled EXCEPT !.delay = add - bolt]

\* The engine's chunk shared by the begin and by every further segment: from
\* an interrupted start it may keep the interrupt.
PM_SetReloadingState(w, p, keepInterupt) ==
    LET entered == [p EXCEPT
            !.state = IF keepInterupt /\ p.state = "RELOAD_START_INTERUPT"
                      THEN "RELOADING_INTERUPT" ELSE "RELOADING",
            !.anim  = "reload",
            !.time  = IF p.clip = 0 THEN w.emptyTime ELSE w.time]
    IN  PM_SetWeaponReloadAddAmmoDelay(w, entered)

PM_BeginWeaponReload(w, p) ==
    LET emptyStart == HasEmptyStart(w) /\ p.clip = 0
        startTime  == IF emptyStart THEN w.startEmptyTime ELSE w.startTime
        started    == [p EXCEPT
            !.state = "RELOAD_START",
            !.anim  = IF emptyStart THEN "reload_start_empty" ELSE "reload_start",
            !.time  = startTime]
    IN  IF p.intent \/ p.state \notin {"READY", "FIRING", "RECHAMBERING"} THEN p
        ELSE IF ~w.segmented \/ startTime = 0 THEN PM_SetReloadingState(w, p, FALSE)
        ELSE PM_SetWeaponReloadAddAmmoDelay(w, started)

-----------------------------------------------------------------------------
(* The check of every frame, from the buttons of this command and the last.*)

Interrupted(w, p, cmd, oldcmd) ==
    LET startTime == ReloadStartTime(w, p)
        pressed   == w.segmented /\ cmd.attack /\ ~oldcmd.attack
    IN  IF ~pressed THEN p
        ELSE IF p.state = "RELOAD_START" /\ startTime # 0
                  /\ 10 * (startTime - p.time) > 4 * startTime
             THEN [p EXCEPT !.state = "RELOAD_START_INTERUPT"]
        ELSE IF p.state = "RELOADING" THEN [p EXCEPT !.state = "RELOADING_INTERUPT"]
        ELSE p

PM_Weapon_CheckForReload(w, p, cmd, oldcmd) ==
    LET q         == Interrupted(w, p, cmd, oldcmd)
        requested == cmd.reload /\ PM_Weapon_AllowReload(w, q)
        automatic == q.clip = 0 /\ q.ammo # 0 /\ q.state # "FIRING"
    IN  IF p.state = "MELEE_END" /\ p.clip = 0
        THEN [p EXCEPT !.state = "DETONATING", !.time = w.emptyRaiseTime, !.anim = "other"]
        ELSE IF p.state \in MeleeStates \/ cmd.water THEN p
        ELSE IF q.state \in ReloadStates \cup {"RAISING", "SWIM_IN"} THEN q
        ELSE IF requested \/ automatic THEN PM_BeginWeaponReload(w, q)
        ELSE q
=============================================================================
