SPECIFICATION Spec
CONSTANTS
  ARR_SIZE = 2
  LOOK_BACK = 2
  ERROR_CONSIDERED = 2
  WORD = 4
  BURST_SIZE = 2
  INFER_MSG_WORDS = 3
  FIRST_BATCHES = 1
  TrainCap = 1
  ControlCap = 1
  InferCap = 1
  ResultCap = 1
  NicCap = 2
  PacketKinds <- BothKinds
  Predictions <- AllPredictions
  DocumentedStart = FALSE
  MaxArrivals = 7
  MaxReceiverRestarts = 0
  MaxBackendRestarts = 0
INVARIANTS
  TypeOK
  InFlightIsCurrent
  AnnouncementReachesReceiver
  FullWindowRequested
  BatchesConsecutive
  MarginIsVoid
CHECK_DEADLOCK FALSE
