\* A manager that overtakes may sleep for ever: the system may stop.
SPECIFICATION Spec
CONSTANTS
  MaxPid = 6
  Tree <- Lineage
  Threads <- Crowd
  Top = 1
  MaxCalls = 1
  Patient = TRUE
CHECK_DEADLOCK FALSE
INVARIANT CopiesInPlace
