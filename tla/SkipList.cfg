SPECIFICATION Spec
CONSTANTS
  Keys <- MCKeys
  Vals <- MCVals
  MAX_LEVEL = 4
  MaxHeight = 3
  AnyHeight = FALSE
INVARIANTS
  TypeOK
  LevelsLinked
  LevelNearTop
  SearchStaysOnLevels
PROPERTY
  ImplementsKeyMap
