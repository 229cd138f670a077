CONSTANTS
  Inodes <- MCInodes
  RootMax = 2
  BlockMax = 4
  Payload <- MCPayload
  Index <- MCIndex
SPECIFICATION TreeSpec
INVARIANT FullBlocksAreFollowed
