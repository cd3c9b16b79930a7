SPECIFICATION Spec
CONSTANTS
  Client = {c1, c2}
  NoProposal = NoProposal
  Ref <- MCRef
  Reg <- MCReg
  Value <- MCValue
  Appends <- MCAppends
  InitState <- MCInitState
  Draft <- ProtectDrafts
  Recover <- MCRecover
  Observed <- MCObserved
  InverseUpdates <- MCInverse
  Evaluate <- MCEvaluate
  ScoreReads <- MCScoreReads
  AuxName = {"tie"}
  MaxVersion = 2
SYMMETRY Symmetry
INVARIANT
  EachBoundaryKept
