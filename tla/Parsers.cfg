SPECIFICATION AllSpec
CONSTANTS
  Entries <- AllEntries
  Records <- SmallRecords
  MaxFields = 3
  Dangerous = {"proto"}
  Blank = {""}
  Numeric = {"one", "zero"}
  Truthy = {"one", "yes"}
  Falsy = {"zero"}
  DateLike = {"one", "zero", "iso"}
  Fields <- TwoFields
  FieldSpecs <- SmallSpecs
  Texts <- SmallTexts
  Zones <- SmallZones
  Hosts <- SmallHosts
  Parts <- SmallParts
  Ticks = 2
  Horizon = 8
  SavedAt = 3
  Feeds <- SmallFeeds
  MaxBatch = 2
  Requests = {1, 2}
  MaxTokens = 3
  MaxFaults = 1
CHECK_DEADLOCK FALSE
INVARIANTS
  FieldsAreIndependent
  ReadsCron
  NoSlotSkipped
  NoReplay
  SkipsOnlyOld
PROPERTIES
  CallsEnd
