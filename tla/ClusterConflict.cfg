SPECIFICATION ClusterSpec
CONSTANTS
  Node = {n1, n2}
  Object = {o1}
  HasSnapshot = TRUE
  SaveErrors = FALSE
  TornWrites = FALSE
  RecordReplies = FALSE
  MaxFence = 1
  MaxBoot = 1
  None = None
  Torn = Torn
  Thread = {t1}
  Migrating = {t1}
  Payload = {p, q}
  Gone = Gone
  Faults = FALSE
  AnyAddress = FALSE
INVARIANTS ReplicasAgree
CHECK_DEADLOCK FALSE
