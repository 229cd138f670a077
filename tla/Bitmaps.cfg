CONSTANTS
  Layouts <- MCLayouts
  BitsPerBlock <- MCBitsPerBlock
  CountRange = 65536
  IndexRange = 5
  Trees <- MCTrees
  Extents <- MCExtents
  SegmentBits = 3
  SegmentCount = 3
  HalfRange = 5
  Ratio = 2
  BitmapGroups <- MCGroups
  NextWords <- MCNextWords
SPECIFICATION BitmapsSpec
INVARIANTS
  CountsMatchBitmaps
  BitmapsMarkTheUsed
  InodesMatchBitmaps
  ExitOnlyWithoutInodes
  CopiesComplete
  SegmentsMarkTheRange
  HalvesCountTheBits
