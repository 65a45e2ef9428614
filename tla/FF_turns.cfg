SPECIFICATION TimedFairSpec
CONSTANTS
  MaxPid = 7
  Boot <- TwoProcesses
  Callers = {1, 3}
  Forkers = {1}
  Spawners = {}
  Exiters = {4}
  MaxCalls = 2
  Spaced = TRUE
INVARIANT CloneIsReplica
INVARIANT BuildersTakeTurns
INVARIANT TimedTypeOK
INVARIANT LinesInOrder
INVARIANT EveryCallReports
PROPERTY CallReturns
PROPERTY StopLifted
INVARIANT NoLostWakeUp
