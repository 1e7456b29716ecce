SPECIFICATION FairSpec
CONSTANTS
  p = p
  NoRun = NoRun
  NoProcess = NoProcess
  Processes = {p}
  Child <- SelfChild
  Runs = {r1, r2}
  Callers = {c1, c2}
  MaxNodes = 2
  MaxItems = 2
  MaxConcurrency = 1
  MaxCrashes = 1
  InternalSync = TRUE
CHECK_DEADLOCK FALSE
PROPERTIES EveryRunEnds
