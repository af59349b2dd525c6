\* One run by one goroutine, with the fairness of the code's goroutines and timers.
\* The program may write more than is captured, and leave descendants behind that
\* leave its process group.
SPECIFICATION FairSpec
CONSTANTS
  Owner = owner
  Killers = {}
  MaxOut = 1
  PipeCap = 1
  MaxWrite = 2
  MaxStarts = 1
  Limited = FALSE
  MayFork = TRUE
  MayLeave = TRUE
CHECK_DEADLOCK FALSE
INVARIANTS TypeOK CaptureComplete
PROPERTIES ImplementsProgramRun KillReturns RunReturns ExitNoticed
