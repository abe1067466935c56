SPECIFICATION Spec
CONSTANTS
  Tag = {"then1", "n"}
  Parameters = {"n"}
  Suffixed <- Numbered
  MaxStmts = 4
  MaxNesting = 4
  MaxChoices = 2
  Unchecked = {}
INVARIANTS
  FunctionVerifies
  LandingPadsAreLexical
  ExitLeavesItsLoop
CHECK_DEADLOCK FALSE
