SPECIFICATION Spec
CONSTANTS
  Tolerance = 1
  Time = {0, 3}
  MaxEvents = 4
  MaxPackets = 2
  MaxClock = 3
  StartOffset = 0
INVARIANT RelativeGap
INVARIANT OrderKept
INVARIANT NoBackwardTimes
INVARIANT CallDuration
CHECK_DEADLOCK FALSE
