SPECIFICATION FairSpec
CONSTANTS
  Thread = {t1}
  Oid = {o1, o2}
  Content <- Repeated
  BlockSizes = {1}
  Backend = {"cpu:0"}
  HostCapacity = 2
  AccelCapacity = 2
  HasStore = TRUE
  ObjectLimit = 9
  MaxRefs = 3
  MaxObjects = 2
  Absent = Absent
INVARIANTS WithinBudget
PROPERTIES SectionEnds DurableNotReclaimed LastCopyKept
