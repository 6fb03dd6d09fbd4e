SPECIFICATION Spec
CONSTANTS
  ARR_SIZE = 2
  LOOK_BACK = 2
  ERROR_CONSIDERED = 2
  WORD = 4
  BURST_SIZE = 2
  INFER_MSG_WORDS = 2
  FIRST_BATCHES = 2
  TrainCap = 1
  ControlCap = 1
  InferCap = 2
  ResultCap = 2
  NicCap = 2
  PacketKinds <- Heartbeats
  Predictions <- UsablePredictions
  DocumentedStart = TRUE
  MaxArrivals = 6
  MaxReceiverRestarts = 0
  MaxBackendRestarts = 0
INVARIANT
  ReceiverKeepsRunning
CHECK_DEADLOCK FALSE
