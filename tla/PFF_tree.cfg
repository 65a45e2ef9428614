\* A manager that overtakes may sleep for ever: the system may stop.
SPECIFICATION FairSpec
CONSTANTS
  MaxPid = 6
  Tree <- Lineage
  Threads <- Crowd
  Top = 1
  MaxCalls = 1
  Patient = TRUE
CHECK_DEADLOCK FALSE
INVARIANT TypeOK
INVARIANT AnswerMatches
INVARIANT NobodySkipped
INVARIANT TreeMirrored
INVARIANT NoLostWakeUp
INVARIANT NoCopyForgotten
PROPERTY ImplementsTreeCopy
PROPERTY NoEarlyStart
PROPERTY CopiesReleased
PROPERTY CallReturns
