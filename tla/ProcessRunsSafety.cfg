SPECIFICATION Spec
CONSTANTS
  p = p
  NoRun = NoRun
  NoProcess = NoProcess
  Processes = {p}
  Child <- SelfChild
  Runs = {r1, r2, r3}
  Callers = {c1}
  MaxNodes = 2
  MaxItems = 2
  MaxConcurrency = 1
  MaxCrashes = 1
  InternalSync = TRUE
SYMMETRY RunSymmetry
CHECK_DEADLOCK FALSE
INVARIANTS OutcomeRecorded CompletedIsQuiescent NestedRunsAreAwaited
PROPERTY ImplementsLedger
