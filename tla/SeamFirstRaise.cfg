CONSTANTS
  Ports = 7
  Seams = 5
  seam_a <- RowsA
  seam_b <- RowsB
  MaxLoad = 3
  Loads <- RowsLoads
  Laws = {"mean"}
  Chunks = {5}
  MaxSweeps = 1
  PhiThreshold = 1

SPECIFICATION Spec
CHECK_DEADLOCK FALSE

INVARIANT FirstRaiseAgrees
