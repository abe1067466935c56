SPECIFICATION Spec
CONSTANTS
  Path = {"a", "b", "c", "d", "./a"}
  Name = {"a", "b", "c", "d", "missing"}
  pathTable <- MCpathTable
  Root = "./a"
  FileSystems <- MCFileSystems
  OptionSets <- MCOptionSets
INVARIANTS
  CycleTableIsChain
  ReportIsCycle
  LoadsExactlyWellFounded
  DependenciesCompiledFirst
  SuccessMeansComplete
PROPERTIES
  Exits
CHECK_DEADLOCK FALSE
