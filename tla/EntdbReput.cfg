SPECIFICATION Spec
CONSTANTS
  k1 = k1
  k2 = k2
  k3 = k3
  EmptyKey = EmptyKey
  TornKey = TornKey
  Keys <- MCTwoKeys
  Values <- MCValues
  HeapReuse <- MCGlibc
  Garbage = {0, 3}
  KeySize = 1
  NumEntries = 2
  MaxEntries = 4
  PageSize = 8
  SlotBytes = 1
  ALIGNMENT_DATA = 2
  KeepLimit = 4
  SizeOfData = 2
  MaxPool = 8
  MaxPages = 2
  ReuseGone = FALSE
INVARIANT
  ReadsBack
