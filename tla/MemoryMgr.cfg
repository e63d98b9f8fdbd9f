SPECIFICATION Spec
CONSTANTS
  PageSize = 7
  SlotBytes = 7
  ALIGNMENT_DATA = 2
  KeepLimit = 4
  SizeOfData = 2
  Requests <- MCRequests
  HeapReuse <- MCAnyHeap
  MaxPool = 14
  MaxPages = 2
VIEW
  View
CONSTRAINT
  Sound
INVARIANTS
  TypeOK
  NoOverlap
PROPERTIES
  NeverOutOfMemory
  LossBounded
  SetAgreesUnlessMerged
  ImplementsAllocator
