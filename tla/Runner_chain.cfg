\* Any chain of calls, with up to two programs.
SPECIFICATION Spec
CONSTANTS
  MaxRuns = 2
CHECK_DEADLOCK FALSE
INVARIANTS ExitTellsTheTruth StartedMeansAlive
PROPERTY ErrorSticks
