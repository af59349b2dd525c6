\* Exit after a timeout.
SPECIFICATION Spec
CONSTANTS
  MaxRuns = 1
CHECK_DEADLOCK FALSE
INVARIANT ExitIsChecked
