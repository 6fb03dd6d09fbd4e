SPECIFICATION StreamingSpec
CONSTANTS
  STREAM_LOOK_BACK = 1
  TRAIN_SIZE = 4
  ReceiptCap = 6
  QuestionCap = 1
  AnswerCap = 2
  AnswerKinds = {"time"}
  MaxReceipts = 16
PROPERTY
  EveryRoundFitted
CHECK_DEADLOCK FALSE
