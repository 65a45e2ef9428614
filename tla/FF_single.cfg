SPECIFICATION Spec
CONSTANTS
  MaxPid = 7
  Boot <- TwoThreads
  Callers = {1}
  Forkers = {}
  Spawners = {2}
  Exiters = {2, 3, 6}
  MaxCalls = 1
  Spaced = TRUE
PROPERTY ImplementsSnapshot
INVARIANT SiblingsFrozen
INVARIANT CloneIsReplica
INVARIANT OwnCloneDone
INVARIANT DistinctContexts
INVARIANT BuildersTakeTurns
INVARIANT StopIsComing
