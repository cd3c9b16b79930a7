CONSTANTS
  Levels = {5, 6}
  KernelCells = 3
  Workers = 2
  MaxFaults = 1
  Overlap = FALSE

SPECIFICATION Spec
CHECK_DEADLOCK FALSE

INVARIANT TypeOK
PROPERTIES
  CleanBuildEnds
  CommandEnds
  Recovers
