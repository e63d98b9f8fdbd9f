SPECIFICATION Spec
CONSTANTS
  Keys <- MCFewKeys
  Vals <- MCOneVal
  MAX_LEVEL = 3
  MaxHeight = 2
  AnyHeight = TRUE
INVARIANT
  InsertedIsFound
