SPECIFICATION Spec
CONSTANTS
  Thread = {t1, t2}
  Oid = {o1, o2}
  Content <- Shared
  BlockSizes = {1}
  Backend = {}
  HostCapacity = 2
  AccelCapacity = 0
  HasStore = FALSE
  ObjectLimit = 9
  MaxRefs = 9
  MaxObjects = 9
  Absent = Absent
PROPERTY NoReplacement
