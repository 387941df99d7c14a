SPECIFICATION FairSpec
CONSTANTS
  Node = {n1, n2}
  Object = {o1}
  HasSnapshot = TRUE
  SaveErrors = FALSE
  TornWrites = FALSE
  RecordReplies = TRUE
  MaxFence = 2
  MaxBoot = 3
  None = None
  Torn = Torn
INVARIANTS OneOwnerPerFence GrantsOrdered EpochNamesBoot OwnershipKept
PROPERTIES  ImplementsOwnership
