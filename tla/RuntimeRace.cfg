SPECIFICATION Spec
CONSTANTS
  Thread = {t1, t2}
  Oid = {o1, o2}
  Content <- Shared
  BlockSizes = {1}
  Backend = {}
  HostCapacity = 2
  AccelCapacity = 0
  HasStore = TRUE
  ObjectLimit = 9
  MaxRefs = 2
  MaxObjects = 2
  Absent = Absent
SYMMETRY ThreadSymmetry
INVARIANTS TypeOK ReferencesCover PersistentIsCommitted 
