\* Kill, as a teardown calls it, while the owner is in Wait.
SPECIFICATION FairSpec
CONSTANTS
  Owner = owner
  Killers = {killer}
  MaxOut = 1
  PipeCap = 1
  MaxWrite = 0
  MaxStarts = 1
  Limited = FALSE
  MayFork = FALSE
  MayLeave = FALSE
CHECK_DEADLOCK FALSE
PROPERTY KillReturns
