SPECIFICATION Spec
CONSTANTS
    WeaponDefs <- MCWeaponDefs
    Grants = {1, 2}
INVARIANTS
    EmptyStartLatched
    LowReadyHolds
    ReloadEndsInTime
PROPERTIES
    RoundsAccounted
    ReloadLoadsARound
