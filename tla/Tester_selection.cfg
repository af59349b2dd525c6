\* Two defined test cases and a foreign word, command lines of up to five words.
SPECIFICATION Spec
CONSTANTS
  Slugs <- MCSlugs
  Foreign = {"other"}
  AntiCheats = 1
  HasLegacy = TRUE
  MaxWords = 5
  MaxCases = 2
CHECK_DEADLOCK FALSE
INVARIANTS PassIsEarned AskedIsRun
