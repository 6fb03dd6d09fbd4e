SPECIFICATION AveragingSpec
CONSTANTS
  Programs <- AllCopies
  WORD = 67108864
  Boot = 512000
  BURST_SIZE = 4
  STOP_TIME = 70
  RETURN_AT = 148
  StatsPeriod = 40
  Gaps = {0, 9, 13, 30}
  DOUBLINGS = 10
  MaxIrregular = 1
  MaxSuspicions = 2
  MaxHeartbeats = 150
INVARIANTS AveragingType OldestIsEvicted EstimateTracksWindow EstimateIsNext VarianceBounded DeadlineAhead SettlesWhenRegular
CHECK_DEADLOCK FALSE
