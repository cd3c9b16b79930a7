CONSTANTS
  Levels = {5, 6}
  KernelCells = 2
  Workers = 2
  MaxFaults = 1
  Overlap = TRUE

SPECIFICATION Spec
CHECK_DEADLOCK FALSE

PROPERTY KernelsOfThePrimitives
