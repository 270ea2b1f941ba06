CONSTANTS
  Overlap = TRUE
  MaxCommands = 2
  MaxFaults = 1
SPECIFICATION Spec
INVARIANT NothingRunsUnmatched
CHECK_DEADLOCK FALSE
