\* Pages of six units with a link and headers of one: elements, headers and
\* ends of sections meet every place in a page.  The users of a stream stop
\* when they are done with it.
CONSTANTS
  PageSize = 6
  PageLink = 1
  HeaderSize = 1
  Sizes = {1, 2, 3}
  MaxPages = 3
  MaxSections = 4
  Trees <- MCTrees
SPECIFICATION StreamSpec
INVARIANTS
  ElementsApart
  ReadAsWritten
  OwnExtents
  TreeRebuilt
PROPERTIES
  ImplementsSectionLog
  TraversalEnds
CHECK_DEADLOCK FALSE
