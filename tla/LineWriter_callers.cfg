\* Any callers: two writers and two flushers, in any order.
SPECIFICATION FairSpec
CONSTANTS
  Byte = {a, nl}
  Newline = nl
  Writers = {w1, w2}
  Flushers = {f1, f2}
  MaxBytes = 4
CHECK_DEADLOCK FALSE
INVARIANTS WholeLines Faithful FlushDelivers
PROPERTIES SilentAfterFlush CallsReturn PartialLineAppears
