SPECIFICATION Spec
CONSTANTS
  k1 = k1
  k2 = k2
  k3 = k3
  EmptyKey = EmptyKey
  TornKey = TornKey
  Keys <- MCKeys
  Extents <- MCExtents
  NumEntries = 1
  MaxEntries = 4
INVARIANTS
  TypeOK
  IndexMatchesFile
  HeaderNeverShort
  FileHoldsEntries
PROPERTY
  ImplementsIndexStore
