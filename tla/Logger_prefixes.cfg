\* Two loggers, clones of each other or not, and a slice handed out.
SPECIFICATION Spec
CONSTANTS
  Loggers = {one, two}
  Prefix = {a, b}
  MaxLen = 2
  MaxArrays = 4
CHECK_DEADLOCK FALSE
SYMMETRY Symmetry
INVARIANTS LinesCarryOwnPrefixes SavedPrefixesKept
