SPECIFICATION Spec
CONSTANTS
  MaxPid = 7
  Boot <- TwoThreads
  Callers = {1}
  Forkers = {}
  Spawners = {}
  Exiters = {}
  MaxCalls = 1
  Spaced = TRUE
INVARIANT OneThreadEach
