SPECIFICATION Spec
CONSTANTS
  Client = {c1, c2}
  NoProposal = NoProposal
  Ref <- MCRef
  Reg <- MCReg
  Value <- MCValue
  Appends <- MCAppends
  InitState <- MCInitState
  Draft <- CoreDrafts
  Recover <- MCRecover
  Observed <- MCObserved
  InverseUpdates <- MCInverse
  Evaluate <- MCEvaluate
  ScoreReads <- MCScoreReads
  AuxName = {"tie"}
  MaxVersion = 3
SYMMETRY Symmetry
INVARIANTS
  TypeOK
  FreshMeansUntouched
  BatchDecisionsCommute
PROPERTIES
  ImplementsAtomicRepair
  CommitsAreArchived
