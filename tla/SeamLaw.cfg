CONSTANTS
  Ports = 6
  Seams = 4
  seam_a <- RowAndPairA
  seam_b <- RowAndPairB
  MaxLoad = 3
  Loads <- RowAndPairLoads
  Laws = {"integer", "mean"}
  Chunks = {3}
  MaxSweeps = 2
  PhiThreshold = 80000

SPECIFICATION Spec
CHECK_DEADLOCK FALSE

INVARIANTS
  TypeOK
  NoOvertaking
  EnginesAgree
  LedgerExact
  TerminalIsBalanced
  NeverStuck
  PhiChangeExact
PROPERTY DescendsOrPermutes
