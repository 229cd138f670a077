CONSTANT BootSectors <- MCBootSectors
SPECIFICATION Spec
INVARIANT LastGroupHasRoom
