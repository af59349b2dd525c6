\* A stage and an anti-cheat stage, whatever they declare; compilers and TestFuncs
\* may hang.
SPECIFICATION FairSpec
CONSTANTS
  Stages = 1
  AntiCheats = 1
  MaxReg = 2
CHECK_DEADLOCK FALSE
INVARIANTS PassMeansAllPassed FailureStopsTheRun TestSeesItsLanguage TornDown
PROPERTIES RunTerminates ImplementsTheRuns
