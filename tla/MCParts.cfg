SPECIFICATION Spec
CONSTANTS
  ARR_SIZE = 3
  LOOK_BACK = 2
  MaxHeartbeats = 7
  ReceiptTimes <- MCReceiptTimes
  ERROR_CONSIDERED = 2
  WORD = 8
  HEARTBEAT_N = 2
  INITIAL_POSITIVES = 5
  TOLERATED = 1
  REPORT_PERIOD = 4
  INT_SIZE = 8
  Intervals = {2, 6}
  Predicted = {1, 3}
  Latencies = {0, 2}
  MaxPolicyHeartbeats = 6
  TrainCap = 2
  ParamCap = 2
  RequestCap = 2
  ReplyCap = 2
  MaxBeats = 4
  STREAM_LOOK_BACK = 1
  TRAIN_SIZE = 4
  ReceiptCap = 6
  QuestionCap = 1
  AnswerCap = 2
  AnswerKinds = {"time", "raise"}
  MaxReceipts = 16
  m1 = m1
  m2 = m2
  m3 = m3
  m4 = m4
  Mbuf <- FourMbufs
  Copies <- AllSenders
  RX_RING = 1
  TX_RING = 1
  CRASH_TIME = 3
  MaxIds = 4
  CONCURRENT = 1
  MAX_WR = 2
  TOT_NUM_OPS = 4
INVARIANTS
  StreamType
  RingHoldsRecent
  TrainingChronological
  ErrorSumIsSumOfWindow
  ExperimentsType
  DifferenceSumIsChange
  OneSuspicionPerHeartbeat
  RequestNoticed
  OneInference
  EmptyQueueWatched
  AwaitedIsComing
  MbufHasOneOwner
  PeersAgree
  BuffersKept
  RefusedEchoIsOver
PROPERTIES
  ImplementsLog
  RetrainsWhenWorse
  RequestAnswered
  SendsHeartbeats
  EchoEnds
CHECK_DEADLOCK FALSE
