CONSTANTS
  Items <- MCItems
  MaxItems = 4
  dentries_per_cluster = 2
  Extents <- MCExtents
SPECIFICATION Spec
INVARIANT ActualDentry
