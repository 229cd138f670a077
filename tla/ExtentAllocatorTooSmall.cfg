CONSTANTS
  Layouts <- MCLayouts
  MayBeUsed <- MCMayBeUsed
  Sizes = {1, 2, 3}
SPECIFICATION Spec
INVARIANT TooSmallMeansFull
