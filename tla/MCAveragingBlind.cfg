SPECIFICATION AveragingSpec
CONSTANTS
  Programs <- OnlyMargins
  WORD = 1048576
  Boot = 2000
  BURST_SIZE = 4
  STOP_TIME = 70
  RETURN_AT = 100
  StatsPeriod = 40
  Gaps = {120}
  DOUBLINGS = 8
  MaxIrregular = 1
  MaxSuspicions = 2
  MaxHeartbeats = 60
INVARIANT DeadlineAhead
CHECK_DEADLOCK FALSE
