SPECIFICATION Spec
CONSTANTS
  Width = 3
  DirectName <- Names
  Family <- Families
  Enumeration <- Letters
  InlineLimit = 2
  MaxDepth = 2
INVARIANTS
  PositionalComponentsKept
CHECK_DEADLOCK FALSE
