CONSTANTS
  Items <- MCItems
  MaxItems = 4
  dentries_per_cluster = 2
  Extents <- MCExtents
  LongNames <- MCLongNames
  ShortNames <- MCShortNames
  Leftovers <- MCLeftovers
  LfnFields <- MCLfnFields
  NameBytes = 2
  ExtensionBytes = 1
  EXT4_NAME_LEN = 7
  ModStamps <- MCModStamps
  OtherStamps <- MCOtherStamps
SPECIFICATION EntriesSpec
INVARIANTS
  FilesReadInOrder
  NamesKept
  CutBetweenCharacters
  TimesKeptUntil2038
