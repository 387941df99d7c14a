SPECIFICATION Spec
CONSTANTS
  Thread = {t1}
  Oid = {o1, o2}
  Content <- Shared
  BlockSizes = {1}
  Backend = {"cpu:0"}
  HostCapacity = 9
  AccelCapacity = 9
  HasStore = TRUE
  ObjectLimit = 9
  MaxRefs = 9
  MaxObjects = 9
  Absent = Absent
INVARIANTS AccountingExact
PROPERTIES DurableSurvivesRestart
