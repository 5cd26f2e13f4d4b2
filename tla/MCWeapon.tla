------------------------------ MODULE MCWeapon ------------------------------
(* Five weapon files that between them take every branch of the reload.    *)
EXTENDS WeaponState

MCRifle == [
    clipSize |-> 2, maxAmmo |-> 3, sharedCap |-> -1,
    closedBolt |-> TRUE, segmented |-> FALSE, noPartial |-> FALSE, boltAction |-> FALSE,
    knife |-> TRUE,
    ammoAdd |-> 0, ammoAddEmpty |-> 1,
    startTime |-> 0, startAddTime |-> 0, startAdd |-> 0,
    startEmptyTime |-> 0, startEmptyAddTime |-> 0, startEmptyAdd |-> 0,
    startEmptyAnim |-> FALSE,
    time |-> 2, addTime |-> 1, emptyTime |-> 3, emptyAddTime |-> 2, endTime |-> 0,
    fireTime |-> 1, rechamberTime |-> 0, boltTime |-> 0, emptyRaiseTime |-> 1,
    meleeTime |-> 1, meleeChargeTime |-> 2, meleeChargeDelay |-> 1, quickRaiseTime |-> 1,
    lowReadyInTime |-> 1, lowReadyLoopTime |-> 0, lowReadyOutTime |-> 1]

\* A shotgun loaded shell by shell, with an empty start of its own.
MCShotgun == [MCRifle EXCEPT
    !.segmented = TRUE, !.ammoAdd = 1, !.ammoAddEmpty = 0,
    !.startTime = 3, !.startAddTime = 2, !.startAdd = 1,
    !.startEmptyTime = 2, !.startEmptyAddTime = 1, !.startEmptyAdd = 1,
    !.time = 2, !.addTime = 1, !.emptyTime = 2, !.emptyAddTime = 0, !.endTime = 1]

\* A bolt action loaded round by round, the start loading nothing; its empty
\* start is authored by its anim alone, and a shared cap limits pickups.
MCBoltSegmented == [MCShotgun EXCEPT
    !.closedBolt = FALSE, !.boltAction = TRUE, !.sharedCap = 4, !.knife = FALSE,
    !.startTime = 2, !.startAddTime = 0, !.startAdd = 0,
    !.startEmptyTime = 0, !.startEmptyAddTime = 0, !.startEmptyAdd = 0,
    !.startEmptyAnim = TRUE, !.rechamberTime = 2, !.boltTime = 1, !.endTime = 0]

\* A bolt action that takes a whole clip and only when empty; its bolt takes
\* as long as the reload.
MCBoltClip == [MCRifle EXCEPT
    !.closedBolt = FALSE, !.boltAction = TRUE, !.noPartial = TRUE, !.ammoAddEmpty = 0,
    !.addTime = 0, !.emptyAddTime = 0, !.rechamberTime = 3, !.boltTime = 3]

\* A bolt action whose rounds may be due before its bolt is.
MCBoltQuick == [MCBoltClip EXCEPT
    !.noPartial = FALSE, !.addTime = 1, !.emptyAddTime = 1, !.boltTime = 2]

MCWeaponDefs == {MCRifle, MCShotgun, MCBoltSegmented, MCBoltClip, MCBoltQuick}
=============================================================================
