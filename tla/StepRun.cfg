\* A TestFunc that starts a program and registers its Kill, and its teardown.
SPECIFICATION FairStepSpec
CONSTANTS
  Owner = owner
  Killer = killer
  Killers = {killer}
  MaxOut = 1
  PipeCap = 1
  MaxWrite = 0
  MaxStarts = 1
  Limited = FALSE
  MayFork = FALSE
  MayLeave = FALSE
  MaxReg = 1
CHECK_DEADLOCK FALSE
INVARIANT TeardownKills
PROPERTY StepEnds
