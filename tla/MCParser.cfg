SPECIFICATION Spec
CONSTANTS
  Ident = {"p", "q", "r", "u", "Assert", "Import"}
  Undeclared = {"u"}
  WellFormed <- MCWellFormed
  Malformed <- MCMalformed
  Edits = {"end", ";", "is", "begin", "loop", "p", "if", "procedure", "when", "else", "u"}
INVARIANTS
  ClientCallsNest
  AcceptedMeansNested
  RecoveryIsSilent
PROPERTY
  EveryStepProgresses
