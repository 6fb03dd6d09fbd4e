SPECIFICATION Spec
CONSTANTS
  ARR_SIZE = 2
  LOOK_BACK = 2
  ERROR_CONSIDERED = 2
  WORD = 4
  BURST_SIZE = 2
  INFER_MSG_WORDS = 3
  FIRST_BATCHES = 1
  TrainCap = 1
  ControlCap = 1
  InferCap = 2
  ResultCap = 2
  NicCap = 2
  PacketKinds <- Heartbeats
  Predictions <- UsablePredictions
  DocumentedStart = TRUE
  MaxArrivals = 6
  MaxReceiverRestarts = 1
  MaxBackendRestarts = 0
INVARIANT
  AnnouncementReachesReceiver
CHECK_DEADLOCK FALSE
