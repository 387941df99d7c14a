SPECIFICATION Spec
CONSTANTS
  Base = 16
  Wide = 2
  Narrow = 1
  None = None
  MaxRank = 3
  MaxDim = 15
  MaxBlocks = 8
  HashLen = 2
  Top = 40
  Second = 5
  SizeUnit = 2
  MessageTask <- MCMessageTask
  AddressTask <- MCAddressTask
  CompatTask <- MCCompatTask
  ManifestTask <- MCManifestTask
  BlocksTask <- MCBlocksTask
  PayloadTask <- MCPayloadTask
  ShapeTask <- MCShapeTask
  EvictionTask <- MCEvictionTask
  LookupTask <- MCLookupTask
  PlannerTask <- MCPlannerTask
  CostTask <- MCCostTask
  AdmissionTask <- MCAdmissionTask
INVARIANTS
  MessageCodec RecordsCanonical  PayloadRestored SizesExact StridesDense
  EvictionMinimal HotEntriesKept CheapestChosen CostsMonotone 
CHECK_DEADLOCK FALSE
