SPECIFICATION Spec
CONSTANTS
  Cells = 7
  BuildWorkers = 3
  ResumeWorkers = 3
  Pid = {p1, p2, p3}
  NoProc = NoProc
  Installed = Installed
  MaxCrash = 1
  MaxFail = 0
PROPERTY Resumable
CHECK_DEADLOCK FALSE
