SPECIFICATION Spec
CONSTANTS
  p1 = p1
  p2 = p2
  Proc <- MCProc
  MutexSize = 40
  CondSize = 48
  MaxEvents = 2
  MaxLength = 5
  MaxVersion = 2
  MutexFirst <- MCMutexFirst
CONSTRAINT
  FewWithNumbers
INVARIANTS
  TypeOK
  LostOnlyIfRaced
  ObjectsInFile
PROPERTIES
  HalfMadeForEver
  
  VersionsGrow
  OpenSucceeds
