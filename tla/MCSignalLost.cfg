SPECIFICATION SignalSpec
CONSTANTS
  TrainCap = 2
  ParamCap = 2
  RequestCap = 2
  ReplyCap = 2
  MaxBeats = 4
PROPERTY
  EveryBatchTrained
CHECK_DEADLOCK FALSE
