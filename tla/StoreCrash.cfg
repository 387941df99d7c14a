SPECIFICATION Spec
CONSTANTS
  a = a
  b = b
  o1 = o1
  o2 = o2
  Oid <- Objects
  Block <- Blocks
  Payload <- Lists
  Capacity = 4
  IOErrors = TRUE
  Replaces = TRUE
  MaxRefs = 4
  None = None
INVARIANTS TypeOK RefsCover CommittedReadable StorageUsedExact BudgetSound
PROPERTIES ImplementsDurableStore
