\* Slices of up to 170 bytes, strings of up to 60, three processes, five draws.
SPECIFICATION Spec
CONSTANTS
  Lengths <- MCLengths
  Strings <- MCStrings
  Pids = {1, 2, 3}
  MaxLen = 3
  MaxCount = 5
CHECK_DEADLOCK FALSE
INVARIANTS DiffIsShown CaretAtByte TreeCountedOnce SampleWithoutReplacement
