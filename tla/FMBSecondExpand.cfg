SPECIFICATION Spec
CONSTANTS
  PageSize = 1
  SlotBytes = 1
  Offsets <- MCOffsets
  Sizes <- MCSizes
  SizeOfData = 2
  InitOffset = 0
  MaxPages = 4
INVARIANT
  FreeSlotsAreFree
