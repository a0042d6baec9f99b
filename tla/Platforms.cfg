CONSTANTS
  PLATs <- AllPLATs
  Texts <- MCTexts
  ExitCodes <- CodesUsed
  BufSize = 3
  Traps <- MCTraps
  FifoSize = 2
SPECIFICATION PlatformSpec
INVARIANTS PlatformTypeOK NoStaleAnswer ErrorKeepsWhatCameBefore OverrunNeedsFullBuffer VerdictIsTheExitCode
PROPERTIES StreamService ExitArrives UartService AllIsShown
CHECK_DEADLOCK FALSE
