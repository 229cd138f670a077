CONSTANTS
  Trees <- MCTrees
  BlockSize = 10
  RecLenRange = 11
  Free <- MCFree
  Inodes <- MCInodes
  RootMax = 2
  BlockMax = 4
  Payload <- MCPayload
  Index <- MCIndex
SPECIFICATION BuildingSpec
INVARIANTS
  BlocksHaveOneOwner
  BlocksAreChains
  DirectoriesComplete
  TreeListsExtents
  SpaceAccounted
  RootDirContiguous
