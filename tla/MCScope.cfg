SPECIFICATION Spec
CONSTANTS
  Name <- MCName
  Decl <- MCDecl
  Package <- MCPackage
  idInfo <- MCidInfo
  astKind <- MCastKind
  stype <- MCstype
  profile <- MCstype
  region <- MCregion
  PushKinds = {"SUBROUTINE_SCOPE"}
  EntryCacheSize = 1
  MaxEntries = 3
  MaxImported = 3
INVARIANTS
  HomonymsMatchEntries
  ImportsFollowEntries
  InnermostDeclarationWins
PROPERTY
  ImplementsLexicalScope
