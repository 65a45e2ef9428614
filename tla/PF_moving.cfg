SPECIFICATION Spec
CONSTANTS
  MaxPid = 7
  Tree <- TwoChildren
  Root = 1
  Forkers = {2}
  Exiters = {3, 4}
  MaxCalls = 1
  Interruptible = TRUE
INVARIANT CopiedOnce
PROPERTY OriginalsStay
CHECK_DEADLOCK FALSE
