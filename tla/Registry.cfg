SPECIFICATION Spec
CONSTANTS
  Names = {"d", "a", "b"}
  DefaultName = "d"
  NoName = NoName
  Exempt = FALSE
  Zones <- MCZones
  Permanent <- MCPermanent
  Priority <- MCPriority
  Content <- MCContent
  SoftRefs <- MCSoftRefs
  EntryCount = 6
  HeaderLimit = 5
  CopyInfoLimit = 2
  MaxDrops = 1
CHECK_DEADLOCK FALSE
INVARIANTS ChainsOrdered ServesBestZone RefCountExact EntriesAccounted NoDangling
PROPERTIES FoundStays HoldersTold UnloadAllEmpties
