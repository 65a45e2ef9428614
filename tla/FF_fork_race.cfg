SPECIFICATION Spec
CONSTANTS
  MaxPid = 8
  Boot <- TwoThreads
  Callers = {1}
  Forkers = {2}
  Spawners = {}
  Exiters = {}
  MaxCalls = 1
  Spaced = TRUE
INVARIANT BuildersTakeTurns
