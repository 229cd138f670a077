CONSTANTS
  BootSectors <- MCBootSectors
  Layouts <- MCLayouts
  FileSystems <- MCFileSystems
  Paths <- MCPaths
  MaxPages = 2
  RootMax = 1
  MaxDirBlocks = 3
  MaxRuns = 2
  Labels <- MCLabels
  VolumeIds <- MCVolumeIds
  LabelBytes = 3
  IdBytes = 2
SPECIFICATION MainSpec
INVARIANTS
  ReadyLayoutUsable
  ReadyExtentsWellFormed
  FatIntactBeforeCommit
  StreamIntact
  ConversionComplete
  LabelKept
PROPERTY ConversionEnds
