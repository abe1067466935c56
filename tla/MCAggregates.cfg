SPECIFICATION Spec
CONSTANTS
  Width = 3
  DirectName <- Names
  Family <- Families
  Enumeration <- Letters
  InlineLimit = 2
  MaxDepth = 2
INVARIANTS
  KeyedComponentsStoredOnce
  RecordComponentsStoredOnce
  UnconstrainedBoundsFit
CHECK_DEADLOCK FALSE
