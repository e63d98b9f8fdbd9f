SPECIFICATION Spec
CONSTANTS
  PageSize = 2
  SlotBytes = 1
  Offsets <- MCOffsets
  Sizes <- MCSizes
  SizeOfData = 2
  InitOffset = 0
  MaxPages = 2
INVARIANTS
  TypeOK
  FreeSlotsAreFree
  SlotsAgree
  RestartLosesNothing
  SlotAtHand
PROPERTY
  OneBlockDisturbed
