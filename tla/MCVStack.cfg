SPECIFICATION Spec
CONSTANTS
  Result = {r1, r2}
  Item <- MCItem
  Address = {8, 16, 32, 40, 48, 80}
  DataOffset = 8
  AddressSpace = 128
  MaxPending = 3
  MaxLost = 1
INVARIANTS
  ResultsReachTheirCallers
  EntriesAccounted
PROPERTY
  ImplementsStack
