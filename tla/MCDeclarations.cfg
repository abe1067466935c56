SPECIFICATION Spec
CONSTANTS
  Name = {"a", "b"}
  PackageName = {"p", "q"}
  Dependency = {"q"}
  OperatorArity <- MCOperatorArity
  Features <- MCFeatures
  MaxDecls <- MCMaxDecls
  MaxParams = 1
  MaxElems = 2
  MaxErrors = 0
INVARIANTS
  DefinitionsPair
  AcceptedBodiesComplete
  ScopesFollowRegions
  AssertionsHold
CHECK_DEADLOCK FALSE
