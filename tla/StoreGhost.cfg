SPECIFICATION Spec
CONSTANTS
  a = a
  b = b
  o1 = o1
  o2 = o2
  Oid <- Objects
  Block <- Blocks
  Payload <- Sharing
  Capacity = 4
  IOErrors = FALSE
  Replaces = FALSE
  MaxRefs = 4
  None = None
PROPERTIES AbsentStaysAbsent
