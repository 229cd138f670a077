CONSTANTS
  Layouts <- MCLayouts
  FileSystems <- MCFileSystems
  Sizes <- MCSizes
  ReservedBits = {0, 1}
  EXT4_MAX_INIT_EXTENT_LEN = 5
  PageSize = 4
SPECIFICATION Spec
INVARIANT ContentPreserved
