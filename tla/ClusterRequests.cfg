SPECIFICATION ClusterFairSpec
CONSTANTS
  Node = {n1, n2}
  Object = {o1}
  HasSnapshot = TRUE
  SaveErrors = FALSE
  TornWrites = FALSE
  RecordReplies = FALSE
  MaxFence = 1
  MaxBoot = 2
  None = None
  Torn = Torn
  Thread = {t1, t2}
  Migrating = {t1}
  Payload = {p}
  Gone = Gone
  Faults = TRUE
  AnyAddress = FALSE
INVARIANTS ClusterTypeOK OwnerHadCopy AckedIsOwned
PROPERTIES RequestsEnd
CHECK_DEADLOCK FALSE
