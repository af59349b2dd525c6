\* The owner and another goroutine that calls Kill, with two runs under a memory
\* limit: a Start may fall into the clean-up of a Wait.
SPECIFICATION Spec
CONSTANTS
  Owner = owner
  Killers = {killer}
  MaxOut = 1
  PipeCap = 1
  MaxWrite = 0
  MaxStarts = 2
  Limited = TRUE
  MayFork = TRUE
  MayLeave = FALSE
CHECK_DEADLOCK FALSE
VIEW View
INVARIANTS HonestVerdict NothingLeft OneJudge LineWriterListens
