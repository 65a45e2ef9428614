\* The call may wait for ever for a process that has ended.
SPECIFICATION FairSpec
CONSTANTS
  MaxPid = 12
  Tree <- UserTree
  Root = 1
  Forkers = {3}
  Exiters = {2, 4}
  MaxCalls = 1
  Interruptible = FALSE
INVARIANT TypeOK
INVARIANT AnswerMatches
INVARIANT TreeMirrored
INVARIANT NoLostWakeUp
PROPERTY ImplementsTreeCopy
PROPERTY CallReturns
CHECK_DEADLOCK FALSE
