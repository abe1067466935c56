SPECIFICATION Spec
CONSTANTS
  Types <- MCTypes
  Programs <- MCPrograms
INVARIANTS
  AcceptedIsTheMeaning
  UnambiguousIsAccepted
CHECK_DEADLOCK FALSE
