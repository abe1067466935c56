SPECIFICATION Spec
CONSTANTS
  Mine = Mine
  Yours = Yours
  Program = Program
  Constraint = Constraint
  Narrow = Narrow
  Ordered = Ordered
  Others = Others
  Exception = {Mine, Constraint}
  Handled = {Narrow, Ordered, Others}
  getID <- MCgetID
  handlers <- MChandlers
  MaxActivations = 2
  MaxRegions = 2
CHECK_DEADLOCK FALSE
PROPERTIES
  ImplementsSemantics
  PropagationEnds
