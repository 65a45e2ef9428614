SPECIFICATION Spec
CONSTANTS
  MaxPid = 5
  Boot <- TwoThreads
  Callers = {1, 2}
  Forkers = {2}
  Spawners = {}
  Exiters = {2}
  MaxCalls = 2
  Spaced = FALSE
INVARIANT TypeOK
INVARIANT NoOrphanThread
INVARIANT StopOwned
CHECK_DEADLOCK FALSE
