SPECIFICATION Spec
CONSTANTS
  Node = {n1, n2}
  Object = {o1}
  HasSnapshot = TRUE
  SaveErrors = TRUE
  TornWrites = FALSE
  RecordReplies = TRUE
  MaxFence = 2
  MaxBoot = 3
  None = None
  Torn = Torn
INVARIANT OneOwnerPerFence
CHECK_DEADLOCK FALSE
