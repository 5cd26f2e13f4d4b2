SPECIFICATION FairSpec
CONSTANTS
  Maps <- MCMaps
  Mods <- MCMods
  Boot <- CodePostGfx
  EngineCalls <- MCEngineCalls
  Optional <- MCOptional
  EndOf <- MCEndOf
  MaxPrograms = 5
  MaxBlocks = 1
  NoOwner = NoOwner
  Size = 20
  Word = 64
  Requests <- MCRequests
  Slots = 32
CHECK_DEADLOCK FALSE
INVARIANTS Agree PendingExact OneMap
PROPERTIES LoadsEnd UsesMemoryProperly KeepsOwnZones
