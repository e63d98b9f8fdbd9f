SPECIFICATION Spec
CONSTANTS
  PageSize = 8
  SlotBytes = 8
  ALIGNMENT_DATA = 2
  KeepLimit = 4
  SizeOfData = 2
  Requests <- MCRequests
  HeapReuse <- MCGlibc
  MaxPool = 16
  MaxPages = 2
VIEW
  View
CONSTRAINT
  Sound
INVARIANT
  MergedBlocksLeaveTheSet
