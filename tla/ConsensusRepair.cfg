SPECIFICATION Spec
CONSTANTS
  Reg <- MCReg
  Value = {0, 1, 2}
  Client = {1, 2, 3}
  Draft <- MCDraft
  InitState <- MCInitState
  Measure <- MCMeasure
  Boundary <- MCBoundary
  NoTx = NoTx
  NoVersions = NoVersions
INVARIANTS
  TypeOK
  FreshnessIgnoresOrder
  ReceiptMeansApplied
  RedeliveryIsRefused
PROPERTY
  DescentWithinBoundary
