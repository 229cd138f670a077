CONSTANTS
  Layouts <- MCLayouts
  MayBeUsed <- MCMayBeUsed
  Sizes = {1, 2, 3}
SPECIFICATION Spec
INVARIANTS
  AllocatedIsSafe
  ResultInOneGroup
  IInv
PROPERTIES
  ImplementsFirstFit
  CallsEnd
