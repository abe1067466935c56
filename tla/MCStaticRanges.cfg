SPECIFICATION Spec
CONSTANTS
  Sizes = {1, 2, 3, 4}
  LengthWidth = 3
  Literals = {0, 1, 2, 3, 5, 8}
  Enumerations = {1, 3, 6}
  Dynamic <- Bounds
  MaxSteps <- Steps
  MaxWidth = 7
  MaxPower = 3
INVARIANTS
  StaticOpsExact
  CompiledOpsAgree
  LengthsAgree
  ConversionsSound
CHECK_DEADLOCK FALSE
