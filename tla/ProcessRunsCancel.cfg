SPECIFICATION Spec
CONSTANTS
  p = p
  NoRun = NoRun
  NoProcess = NoProcess
  Processes = {p}
  Child <- NoChild
  Runs = {r1, r2}
  Callers = {c1, c2}
  MaxNodes = 1
  MaxItems = 2
  MaxConcurrency = 1
  MaxCrashes = 0
  InternalSync = FALSE
CHECK_DEADLOCK FALSE
PROPERTY CancelIsFinal
