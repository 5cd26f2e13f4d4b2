SPECIFICATION Spec
CONSTANTS
  MaxCS = 8
  HighFrom = 4
  Default <- MCDefault
  Texts <- MCTexts
  Empty = ""
  NoText = NoText
  Lower <- MCLower
  Length <- MCLength
  BlobSize = 24
  Clients = {"c1"}
  Special = {3}
  Part <- MCPart
  ModelBase = 5
  MaxModels = 3
  VanillaCS = 5
  Models = {"A", "b", "long"}
  Batches <- MCBatches
  Entities <- MCEntities
  Chunk = 3
  Header = 2
  Prefix = 1
  Buffer = 6
  Breaks <- MCBreaks
  MaxCalls = 3
  MaxSpawns = 2
INVARIANTS RefsExact ModelsNamed ClientsConverge GameStateReadable
\* The server may be shut down for good.
CHECK_DEADLOCK FALSE
