\* Two calls of Start, each with pipes or PTYs and with every failure.
SPECIFICATION FairSpec
CONSTANT MaxStarts = 2
CHECK_DEADLOCK FALSE
INVARIANTS NothingLost ClosedOnce RelaysReadOpenEnds
PROPERTY WaitReturns
