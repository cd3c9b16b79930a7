SPECIFICATION Spec
CONSTANTS
  Cells = 3
  BuildWorkers = 3
  ResumeWorkers = 2
  Pid = {p1, p2, p3}
  NoProc = NoProc
  Installed = Installed
  MaxCrash = 1
  MaxFail = 1
INVARIANT TypeOK
INVARIANT AssemblyCovers
INVARIANT NoStrayWorkers
PROPERTY ChunksOutliveReadout
PROPERTY Resumable
CHECK_DEADLOCK FALSE
