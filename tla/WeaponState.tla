----------------------------- MODULE WeaponState -----------------------------
(***************************************************************************)
(* The weapon of one player, driven once a frame by PM_Weapon              *)
(* (PatchT4MAM_WeaponState.cpp) over the reload of WeaponReload, and from  *)
(* outside by the script's setLowReady and by ammunition being handed out. *)
(*                                                                         *)
(* PM_Weapon is one function called with the buttons of the command; Frame *)
(* is that function from its prologue to its dispatch.  The engine code it *)
(* calls without replacing it (timers, the shot, rechambering, the start   *)
(* and end of a melee) is modelled as this code uses it.  Weapons are      *)
(* bullet weapons without burst fire, so HasAnimSync is always false; the  *)
(* offhand, sprint, deploy and weapon-switch machines are the engine's own *)
(* and their states are not entered.                                       *)
(***************************************************************************)
EXTENDS WeaponReload

CONSTANTS WeaponDefs,   \* weapon files: records as WeaponReload reads them
          Grants        \* how many rounds one call of Add_Ammo may bring

\* A weapon file: a reload takes a frame at least, clip and reserve hold a
\* round at least, and a shared cap, if there is one (-1), does too.
WeaponFiles == [
    clipSize : Nat \ {0}, maxAmmo : Nat \ {0}, sharedCap : {-1} \cup (Nat \ {0}),
    closedBolt : BOOLEAN, segmented : BOOLEAN, noPartial : BOOLEAN,
    boltAction : BOOLEAN, knife : BOOLEAN,
    ammoAdd : Nat, ammoAddEmpty : Nat,
    startTime : Nat, startAddTime : Nat, startAdd : Nat,
    startEmptyTime : Nat, startEmptyAddTime : Nat, startEmptyAdd : Nat,
    startEmptyAnim : BOOLEAN,
    time : Nat \ {0}, addTime : Nat, emptyTime : Nat \ {0}, emptyAddTime : Nat,
    endTime : Nat, fireTime : Nat, rechamberTime : Nat, boltTime : Nat,
    emptyRaiseTime : Nat, meleeTime : Nat, meleeChargeTime : Nat,
    meleeChargeDelay : Nat, quickRaiseTime : Nat,
    lowReadyInTime : Nat, lowReadyLoopTime : Nat, lowReadyOutTime : Nat]

ASSUME WeaponAssumption == WeaponDefs \subseteq WeaponFiles /\ Grants \subseteq Nat

VARIABLES w,            \* the registered definition
          ps,           \* the player state
          oldcmd,       \* the buttons of the last command
          began,        \* history: the clip when the running reload began
          frames        \* history: how many frames it has been played since

vars == <<w, ps, oldcmd, began, frames>>

WeaponStates == {"READY", "RAISING", "FIRING", "RECHAMBERING", "DETONATING",
                 "SWIM_IN", "SWIM_OUT", "MELEE_CHARGE"}
                \cup ReloadStates \cup MeleeStates \cup LowReadyStates

Buttons == [attack : BOOLEAN, melee : BOOLEAN, reload : BOOLEAN]
Released == [attack |-> FALSE, melee |-> FALSE]

\* What the engine's part of a frame may do either way.
Choices == [shoot : BOOLEAN, keepInterupt : BOOLEAN]

-----------------------------------------------------------------------------
(* Low ready.                                                              *)

EnterLowReadyStart(p) ==
    [p EXCEPT !.state = "LOWREADY_START", !.time = w.lowReadyInTime,
              !.delay = 0, !.anim = "other"]

EnterLowReadyEnd(p) ==
    [p EXCEPT !.state = "LOWREADY_END", !.time = w.lowReadyOutTime,
              !.delay = 0, !.anim = "other"]

TransitionToReadyOrLowReady(p) ==
    IF p.intent THEN EnterLowReadyStart(p) ELSE [p EXCEPT !.state = "READY", !.anim = "other"]

PM_Weapon_LowReady_Start(p) ==
    [p EXCEPT !.state = "LOWREADY_LOOP", !.time = w.lowReadyLoopTime,
              !.delay = 0, !.anim = "other"]

PM_Weapon_LowReady_End(p) ==
    IF p.intent THEN EnterLowReadyStart(p)
    ELSE [p EXCEPT !.state = "READY", !.time = 0, !.delay = 0, !.anim = "other"]

\* A slip: only the low-ready states are caught, not a weapon back at READY.
CatchLowReadyOnly(p) ==
    IF p.intent /\ p.state \in {"LOWREADY_START", "LOWREADY_END"}
    THEN [p EXCEPT !.state = "LOWREADY_LOOP", !.time = 0, !.delay = 0, !.anim = "other"]
    ELSE p

\* The prologue of every frame: with the intent set the stance is taken at once.
LowReadyCatch(p) ==
    IF p.intent /\ p.state \in {"READY", "LOWREADY_START", "LOWREADY_END"}
    THEN [p EXCEPT !.state = "LOWREADY_LOOP", !.time = 0, !.delay = 0, !.anim = "other"]
    ELSE p

-----------------------------------------------------------------------------
(* The engine's functions, as PM_Weapon uses them.                         *)

\* One frame of both timers; the delayed action is due when weaponDelay ends.
AnimCmdState_Resync(p) ==
    [ps    |-> [p EXCEPT !.time  = IF @ > 0 THEN @ - 1 ELSE 0,
                         !.delay = IF @ > 0 THEN @ - 1 ELSE 0],
     acted |-> p.delay = 1]

FireSwitchEvent(p) ==
    [p EXCEPT !.state = "MELEE_CHARGE", !.time = w.meleeTime, !.anim = "other"]

FinalizeStateExit(p) ==
    [p EXCEPT !.state = "READY", !.time = 0, !.delay = 0, !.anim = "other"]

ProcessAttackInput(p) ==
    IF p.clip = 0 THEN p
    ELSE [p EXCEPT !.state = "FIRING", !.clip = @ - 1, !.time = w.fireTime,
                   !.anim = "other", !.rechamber = w.boltAction]

\* FinalGate: rechambering after a shot; the frame ends while it runs.
FinalGate(p, acted) ==
    LET cycled == [p EXCEPT !.rechamber = @ /\ ~(p.state = "RECHAMBERING" /\ acted)]
        begins == /\ cycled.rechamber
                  /\ cycled.time = 0
                  /\ cycled.state \in {"READY", "FIRING"}
        next   == IF begins
                  THEN [cycled EXCEPT !.state = "RECHAMBERING", !.anim = "other",
                                      !.time  = w.rechamberTime, !.delay = w.boltTime]
                  ELSE cycled
    IN  [ps |-> next, busy |-> next.state = "RECHAMBERING" /\ next.time # 0]

-----------------------------------------------------------------------------
(* The handlers of the dispatch.                                           *)

EnterReloadEnd(p) ==
    IF w.endTime # 0
    THEN [p EXCEPT !.state = "RELOAD_END", !.anim = "other", !.time = w.endTime]
    ELSE TransitionToReadyOrLowReady(p)

\* A slip: an interrupted start ends at once, the clip empty or not.
InterruptedStartEnds(p, cmd, acted, ch) ==
    LET q == IF acted THEN PM_Weapon_ReloadDelayedAction(w, p) ELSE p
    IN  IF q.time # 0 THEN q
        ELSE IF ~cmd.attack /\ q.state # "RELOAD_START_INTERUPT" /\ PM_Weapon_AllowReload(w, q)
             THEN PM_SetReloadingState(w, q, ch.keepInterupt)
        ELSE EnterReloadEnd([q EXCEPT !.rechamber = FALSE])

PM_Weapon_ReloadStart(p, cmd, acted, ch) ==
    LET q == IF acted THEN PM_Weapon_ReloadDelayedAction(w, p) ELSE p
        r == IF w.segmented /\ cmd.attack
             THEN [q EXCEPT !.state = "RELOAD_START_INTERUPT"] ELSE q
    IN  IF q.time # 0 THEN q
        ELSE IF /\ ~(r.state = "RELOAD_START_INTERUPT" /\ r.clip # 0)
                /\ PM_Weapon_AllowReload(w, r)
             THEN PM_SetReloadingState(w, r, ch.keepInterupt)
        ELSE EnterReloadEnd([r EXCEPT !.rechamber = FALSE])

PM_Weapon_Reloading(p, cmd, acted, ch) ==
    LET q == IF acted THEN PM_Weapon_ReloadDelayedAction(w, p) ELSE p
        r == [q EXCEPT !.state = IF w.segmented /\ cmd.attack
                                 THEN "RELOADING_INTERUPT" ELSE @,
                       !.rechamber = FALSE]
    IN  IF q.time # 0 THEN q
        ELSE IF ~w.segmented THEN TransitionToReadyOrLowReady(r)
        ELSE IF r.state # "RELOADING_INTERUPT" /\ PM_Weapon_AllowReload(w, r)
             THEN PM_SetReloadingState(w, r, ch.keepInterupt)
        ELSE EnterReloadEnd(r)

PM_Weapon_Tick_MeleeCharge(p) ==
    [p EXCEPT !.state = "MELEE_INIT", !.time = w.meleeChargeTime,
              !.delay = w.meleeChargeDelay, !.anim = "other"]

PM_Weapon_Tick_MeleeInit(p) == [p EXCEPT !.state = "MELEE_FIRE"]

PM_Weapon_Tick_MeleeFire(p) ==
    IF w.knife
    THEN [p EXCEPT !.state = "MELEE_END", !.time = w.quickRaiseTime, !.delay = 0,
                   !.anim = "other"]
    ELSE FinalizeStateExit(p)

PM_Weapon_DetonateTransition(p, acted) ==
    IF acted THEN p
    ELSE TransitionToReadyOrLowReady([p EXCEPT !.time = 0, !.delay = 0])

\* Without the trigger, and with no delayed action due, the weapon is ready.
PM_Weapon_DefaultGate(cmd, acted) == cmd.attack \/ acted

Fire(p, cmd, acted, ch) ==
    IF ~PM_Weapon_DefaultGate(cmd, acted) THEN [p EXCEPT !.state = "READY", !.anim = "other"]
    ELSE IF cmd.attack \/ ch.shoot THEN ProcessAttackInput(p)
    ELSE p

Dispatch(p, cmd, acted, ch) ==
    CASE p.state \in {"RAISING", "RELOAD_END"} -> TransitionToReadyOrLowReady(p)
      [] p.state \in StartStates               -> PM_Weapon_ReloadStart(p, cmd, acted, ch)
      [] p.state \in LoadingStates             -> PM_Weapon_Reloading(p, cmd, acted, ch)
      [] p.state = "MELEE_CHARGE"              -> PM_Weapon_Tick_MeleeCharge(p)
      [] p.state = "MELEE_INIT"                -> PM_Weapon_Tick_MeleeInit(p)
      [] p.state = "MELEE_FIRE"                -> PM_Weapon_Tick_MeleeFire(p)
      [] p.state = "MELEE_END"                 -> FinalizeStateExit(p)
      [] p.state = "DETONATING"                -> PM_Weapon_DetonateTransition(p, acted)
      [] p.state = "LOWREADY_START"            -> PM_Weapon_LowReady_Start(p)
      [] p.state = "LOWREADY_END"              -> PM_Weapon_LowReady_End(p)
      [] p.state \in {"SWIM_IN", "SWIM_OUT"}   -> [p EXCEPT !.anim = "other"]
      [] p.state = "LOWREADY_LOOP"             -> p
      [] OTHER                                 -> Fire(p, cmd, acted, ch)

-----------------------------------------------------------------------------
(* One frame of PM_Weapon.                                                 *)

\* A melee key going down on a dry weapon that is not already striking.
PM_Weapon_AnimSyncCleanup(p, cmd, acted) ==
    IF /\ ~cmd.water
       /\ p.state \notin MeleeStates \cup {"RAISING"}
       /\ ~acted
       /\ p.delay = 0 \/ p.state \in ReloadStates
       /\ cmd.melee /\ ~oldcmd.melee
    THEN FireSwitchEvent(p) ELSE p

\* Above water: the way out of the swim states.
Surface(p) ==
    CASE p.state = "SWIM_IN"  -> [p EXCEPT !.state = "SWIM_OUT"]
      [] p.state = "SWIM_OUT" -> IF p.intent THEN EnterLowReadyStart(p)
                                 ELSE [p EXCEPT !.state = "READY"]
      [] OTHER                -> p

\* Under water the timers run here as well as in WeaponTick.  Every state but
\* a strike and the low-ready stance is forced into SWIM_IN, which is then
\* dispatched once: "ends" is the return of the frames after that.
Submerge(p) ==
    LET q == AnimCmdState_Resync(p).ps
    IN  CASE q.state = "SWIM_IN" ->
                [ps |-> [q EXCEPT !.swimEnter = FALSE], ends |-> ~q.swimEnter]
          [] q.state \in {"MELEE_INIT", "MELEE_FIRE"} \cup LowReadyStates ->
                [ps |-> q, ends |-> FALSE]
          [] OTHER ->
                [ps |-> [q EXCEPT !.state = "SWIM_IN", !.swimEnter = TRUE], ends |-> FALSE]

\* Timers, reload check, melee check, rechambering; then the dispatch, unless
\* a timer is still running and no delayed action is due.
WeaponTick(p, cmd, ch) ==
    LET resync == AnimCmdState_Resync(p)
        acted  == resync.acted
        loaded == PM_Weapon_CheckForReload(w, resync.ps, cmd, oldcmd)
        gate   == FinalGate(PM_Weapon_AnimSyncCleanup(loaded, cmd, acted), acted)
        q      == gate.ps
    IN  IF gate.busy \/ (~acted /\ (q.time # 0 \/ q.delay # 0)) THEN q
        ELSE Dispatch(q, cmd, acted, ch)

PM_Weapon(p, cmd, ch) ==
    LET caught == LowReadyCatch(p)
        sunk   == Submerge(caught)
    IN  IF cmd.blocked THEN caught
        ELSE IF ~cmd.water THEN WeaponTick(Surface(caught), cmd, ch)
        ELSE IF sunk.ends THEN sunk.ps
        ELSE WeaponTick(sunk.ps, cmd, ch)

-----------------------------------------------------------------------------
(* The actions.                                                            *)

Reloading == ps.state \in ReloadStates

\* A step of the player state, with the two histories: played counts the frame.
SetPlayer(q, played) ==
    /\ ps' = q
    /\ began' = IF ~Reloading' THEN 0 ELSE IF Reloading THEN began ELSE ps.clip
    /\ frames' = IF ~Reloading' \/ ~Reloading THEN 0
                 ELSE frames + played
    /\ UNCHANGED w

FrameWith(buttons, water, blocked) ==
    LET cmd == [attack |-> buttons.attack, melee |-> buttons.melee,
                reload |-> buttons.reload, water |-> water, blocked |-> blocked]
    IN  /\ \E ch \in Choices : SetPlayer(PM_Weapon(ps, cmd, ch), IF blocked THEN 0 ELSE 1)
        /\ oldcmd' = [attack |-> buttons.attack, melee |-> buttons.melee]

\* A frame that PM_Weapon plays to its end, and one in which the player has no
\* say (IsWeaponInputBlocked, a turret, a ladder).
Frame == \E buttons \in Buttons, water \in BOOLEAN : FrameWith(buttons, water, FALSE)
BlockedFrame == \E buttons \in Buttons : FrameWith(buttons, FALSE, TRUE)

SetLowReadyIntent(enable) ==
    LET p == [ps EXCEPT !.intent = enable]
    IN  /\ SetPlayer(
              IF enable /\ p.state \notin LowReadyStates THEN EnterLowReadyStart(p)
              ELSE IF ~enable /\ p.state = "LOWREADY_LOOP" THEN EnterLowReadyEnd(p)
              ELSE p, 0)
        /\ UNCHANGED oldcmd

GiveAmmo(count, fillClip) ==
    /\ SetPlayer(Add_Ammo(w, ps, count, fillClip), 0)
    /\ UNCHANGED oldcmd

Init ==
    /\ w \in {Reload_ApplyWeaponDefDefaults(def) : def \in WeaponDefs}
    /\ ps \in [state : {"RAISING"}, time : {1}, delay : {0}, clip : 0..w.clipSize,
               ammo : 0..w.maxAmmo, rechamber : {FALSE}, anim : {"other"},
               intent : {FALSE}, swimEnter : {FALSE}]
    /\ oldcmd = Released
    /\ began = 0
    /\ frames = 0

Next ==
    \/ Frame
    \/ BlockedFrame
    \/ \E enable \in BOOLEAN : SetLowReadyIntent(enable)
    \/ \E count \in Grants, fillClip \in BOOLEAN : GiveAmmo(count, fillClip)

Spec == Init /\ [][Next]_vars

-----------------------------------------------------------------------------
(* Properties.                                                             *)

\* A closed-bolt weapon holds one round more than its clip.
Limit == w.clipSize + (IF w.closedBolt THEN 1 ELSE 0)

Anims == {"other", "reload", "reload_start", "reload_start_empty"}

Player == [state : WeaponStates, time : Nat, delay : Nat,
           clip : 0..Limit, ammo : 0..w.maxAmmo, rechamber : BOOLEAN,
           anim : Anims, intent : BOOLEAN, swimEnter : BOOLEAN]

\* Every field keeps its range, clip and reserve among them however reloads,
\* pickups and shots are mixed.
TypeOK ==
    /\ w \in WeaponFiles
    /\ ps \in Player
    /\ oldcmd \in [attack : BOOLEAN, melee : BOOLEAN]
    /\ began \in 0..Limit
    /\ frames \in Nat

\* A round leaves the clip by a shot, and comes in from the reserve in a frame
\* that a reload runs or begins in, or by a pickup that brings no more than was
\* handed out: the delayed action an interrupted reload leaves behind loads
\* nothing by itself, no round is lost or doubled between clip and reserve, a
\* pickup never costs a loaded round, the chambered one of a closed bolt
\* included, and nothing loads more than the clip and that one round.
Accounted ==
    LET added  == ps'.clip - ps.clip
        pickup == /\ ps' = [ps EXCEPT !.clip = ps'.clip, !.ammo = ps'.ammo]
                  /\ \E count \in Grants :
                        ps'.clip + ps'.ammo <= ps.clip + ps.ammo + count
    IN  /\ ps'.clip <= Limit
        /\ \/ added = 0 /\ ps'.ammo = ps.ammo
           \/ added = -1 /\ ps'.ammo = ps.ammo /\ ps'.state = "FIRING"
           \/ /\ added > 0
              /\ ps'.ammo = ps.ammo - added
              /\ \/ ps.state \in StartStates \cup LoadingStates
                 \/ ps'.state \in StartStates \cup LoadingStates
           \/ added >= 0 /\ pickup

RoundsAccounted == [][Accounted]_vars

\* The empty start is latched: how long the start takes and what it loads is
\* decided by the clip the reload began on, whatever is loaded meanwhile.
EmptyStartLatched ==
    ps.state \in StartStates =>
        LET empty == began = 0 /\ HasEmptyStart(w)
        IN  /\ ReloadStartTime(w, ps) = (IF empty THEN w.startEmptyTime ELSE w.startTime)
            /\ ReloadStartAdd(w, ps) = (IF empty THEN w.startEmptyAdd ELSE w.startAdd)
            /\ ps.time <= ReloadStartTime(w, ps)

\* A reload that plays to its end leaves a round to fire, even when the trigger
\* cut it short (RELOAD_START_INTERUPT goes on loading while the clip is empty)
\* and even when its delayed action is due only after the animation.
ReloadLoadsARound ==
    [][ps.state \in StartStates \cup LoadingStates
        /\ ps'.state \in {"RELOAD_END", "READY"} => ps'.clip > 0]_vars

\* While the script wants low ready the weapon neither fires nor reloads nor
\* rechambers, through a melee, a dive or an empty clip.
LowReadyHolds ==
    ps.intent => ps.state \notin ReloadStates \cup {"FIRING", "RECHAMBERING"}

\* A reload ends, within the frames of its start, of one segment for each round
\* the clip can take, of a bolt still to be cycled and of its end: whatever the
\* player presses, whatever is handed out meanwhile, no reload loads for ever.
ReloadEndsInTime ==
    LET Slower(a, b) == IF a > b THEN a ELSE b
    IN  frames <= Slower(w.startTime, w.startEmptyTime)
                    + (w.clipSize + 1) * Slower(w.time, w.emptyTime)
                    + w.boltTime + w.endTime

\* The comment on SetLowReadyIntent: switched off in START or END, the timer
\* runs out and "handlers observe bit".  Low ready is then never looped
\* without the intent.
LoopNeedsIntent == ps.state = "LOWREADY_LOOP" => ps.intent
=============================================================================
