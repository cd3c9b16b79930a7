SPECIFICATION ReplaySpec
CONSTANTS
  Client = {c1, c2}
  NoProposal = NoProposal
  NoReceipt = NoReceipt
  Ref <- MCRef
  Reg <- MCReg
  Value <- MCValue
  Appends <- MCAppends
  InitState <- MCInitState
  Draft <- ReceiptDrafts
  Recover <- MCRecover
  Observed <- MCObserved
  InverseUpdates <- MCInverse
  Evaluate <- MCEvaluate
  ScoreReads <- MCScoreReads
  AuxName = {"tie"}
  MaxVersion = 2
SYMMETRY Symmetry
INVARIANTS
  FreshMeansRerun
  CommitReceiptsVerify
  CommittedReceiptsReplay
  ReceiptsDescribeTheStore
