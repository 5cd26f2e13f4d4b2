SPECIFICATION Spec
CONSTANTS
    WeaponDefs <- MCWeaponDefs
    Grants = {1, 2}
INVARIANT
    LoopNeedsIntent
