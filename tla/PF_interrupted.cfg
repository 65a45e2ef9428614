SPECIFICATION Spec
CONSTANTS
  MaxPid = 8
  Tree <- TwoChildren
  Root = 1
  Forkers = {}
  Exiters = {}
  MaxCalls = 1
  Interruptible = TRUE
INVARIANT TreeMirrored
