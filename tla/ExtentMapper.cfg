CONSTANTS
  Layouts <- MCLayouts
  FileSystems <- MCFileSystems
  Sizes <- MCSizes
  ReservedBits = {0}
  EXT4_MAX_INIT_EXTENT_LEN = 5
  PageSize = 4
SPECIFICATION Spec
INVARIANTS
  ContentPreserved
  ExtentsFitExt4
  MovedOnlyIfBlocked
  SourceIntact
PROPERTY MappingEnds
