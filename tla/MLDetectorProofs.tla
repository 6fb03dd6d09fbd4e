-------------------------- MODULE MLDetectorProofs --------------------------
(***************************************************************************)
(* Theorems about MLDetector, for every value of its constants: the types, *)
(* what is in flight, the weights, the announcement, the margin, and the   *)
(* abstract service; what the messages hold, and the running sum of the    *)
(* suspected intervals; then why the receive loop neither ends by itself   *)
(* nor blocks on a queue for something nobody will do.                     *)
(***************************************************************************)
EXTENDS MLDetector, WindowSums, SequenceTheorems, TLAPS

-----------------------------------------------------------------------------
(***************************************************************************)
(* Type correctness, one group of variables at a time.                     *)
(***************************************************************************)

\* A group of variables keeps its type in a step that leaves the group alone.
LEMMA UnchangedTypes ==
  /\ ReceiverType /\ UNCHANGED receiverVars => ReceiverType'
  /\ WindowType /\ UNCHANGED windowVars => WindowType'
  /\ TimerType /\ UNCHANGED timerVars => TimerType'
  /\ QueueType /\ UNCHANGED queueVars => QueueType'
  /\ BackendType /\ UNCHANGED backendVars => BackendType'
  /\ RestartType /\ UNCHANGED restartVars => RestartType'
  BY DEF ReceiverType, receiverVars, WindowType, windowVars, TimerType, timerVars,
         QueueType, queueVars, BackendType, backendVars, trainerVars, inferenceVars,
         RestartType, restartVars

\* The remainder of any integer is below its divisor.
LEMMA ModRange ==
  ASSUME NEW a \in Int, NEW n \in Nat \ {0} PROVE a % n \in 0 .. n - 1
  OBVIOUS

\* The sequence operators of the receive loop and of the queues.
LEMMA DequeueType ==
  ASSUME NEW S, NEW s \in Seq(S), s # << >>
  PROVE  /\ Head(s) \in S
         /\ Tail(s) \in Seq(S)
         /\ Len(s) \in Nat \ {0}
         /\ Len(Tail(s)) = Len(s) - 1
  BY HeadTailProperties, EmptySeq

LEMMA EnqueueType ==
  ASSUME NEW S, NEW s \in Seq(S), NEW e \in S
  PROVE  Append(s, e) \in Seq(S) /\ Len(Append(s, e)) = Len(s) + 1
  BY AppendProperties

LEMMA SubSeqType ==
  ASSUME NEW S, NEW s \in Seq(S), NEW n \in 0 .. Len(s)
  PROVE  SubSeq(s, 1, n) \in Seq(S) /\ SubSeq(s, n + 1, Len(s)) \in Seq(S)
  OBVIOUS

\* Freeing a packet leaves a well-formed rest of the burst.
LEMMA FinishPacketType ==
  ASSUME ReceiverType, burst # << >>, FinishPacket
  PROVE  /\ burst' \in Seq(PacketKinds)
         /\ pc' \in ReceiverSteps
         /\ pc' \in HandlingSteps => burst' # << >>
  <1>1. burst' = Tail(burst) /\ Len(burst) \in Nat \ {0} /\ Len(burst') = Len(burst) - 1
    BY DequeueType DEF ReceiverType, FinishPacket
  <1>2. burst' \in Seq(PacketKinds)
    BY DequeueType DEF ReceiverType, FinishPacket
  <1>3. Len(burst) # 1 => burst' # << >>
    BY <1>1, <1>2, EmptySeq
  <1>4. QED
    BY <1>2, <1>3 DEF FinishPacket, ReceiverSteps, HandlingSteps

LEMMA TimerCallbackType ==
  ASSUME TimerType, timer1_cb PROVE TimerType'
  <1>1. error_sum \in Int /\ errors[error_idx] \in Int /\ timer.arg \in Ticks
    BY TimerConstants DEF TimerType, Ticks
  <1>2. error_sum' \in Ticks
    <2>1. error_sum - errors[error_idx] + timer.arg \in Int
      BY <1>1 DEF Ticks
    <2>2. QED
      BY <2>1, ModRange, TimerConstants DEF timer1_cb, Ticks
  <1>3. errors' \in [ErrorSlots -> Ticks]
    BY <1>1 DEF timer1_cb, TimerType
  <1>4. error_idx' \in ErrorSlots
    <2>1. error_idx + 1 \in Int
      BY TimerConstants DEF TimerType, ErrorSlots
    <2>2. QED
      BY <2>1, ModRange, TimerConstants DEF timer1_cb, ErrorSlots
  <1>5. timer' \in [armed : BOOLEAN, left : Ticks, arg : Ticks]
    BY TimerConstants DEF timer1_cb, Stopped, Ticks
  <1>6. suspected' \in BOOLEAN
    BY DEF timer1_cb
  <1>7. QED
    BY <1>2, <1>3, <1>4, <1>5, <1>6 DEF TimerType

LEMMA TimerResetType ==
  ASSUME TimerType, NEW d \in Ticks, NEW ticks \in Ticks, Reset(ticks, d)
  PROVE  TimerType'
  <1>1. timer' \in [armed : BOOLEAN, left : Ticks, arg : Ticks]
    BY DEF Reset
  <1>2. suspected' \in BOOLEAN
    BY DEF Reset
  <1>3. QED
    BY <1>1, <1>2 DEF Reset, TimerType

\* Either way of arming hands rte_timer_reset a word.
LEMMA ArmType ==
  ASSUME TimerType, NEW d \in Ticks, ArmWithMargin(d) \/ Arm(d)
  PROVE  TimerType'
  <1>1. (d + error_sum \div ERROR_CONSIDERED) % WORD \in Ticks
    <2>1. error_sum \div ERROR_CONSIDERED \in Int
      BY TimerConstants DEF TimerType, Ticks
    <2>2. d + error_sum \div ERROR_CONSIDERED \in Int
      BY <2>1, TimerConstants DEF Ticks
    <2>3. QED
      BY <2>2, ModRange, TimerConstants DEF Ticks
  <1>2. QED
    BY <1>1, TimerResetType DEF ArmWithMargin, Arm

\* The two messages cut out of the ring.
LEMMA MessageTypes ==
  ASSUME WindowType
  PROVE  /\ TrainBatch(arr_timestamp) \in Batches
         /\ InferWindow(arr_timestamp, next_avail) \in [1 .. LOOK_BACK -> Nat]
  <1>1. ASSUME NEW i \in 1 .. ARR_SIZE PROVE arr_timestamp[i - 1] \in Nat
    BY <1>1, WindowSizes DEF WindowType, Slots
  <1>2. ASSUME NEW j \in 1 .. LOOK_BACK
        PROVE  arr_timestamp[(next_avail - (LOOK_BACK - j + 1) + ARR_SIZE) % ARR_SIZE] \in Nat
    BY <1>2, ModRange, WindowSizes DEF WindowType, Slots
  <1>3. QED
    BY <1>1, <1>2 DEF TrainBatch, Batches, InferWindow

LEMMA InitTypeOK == Init => TypeOK
  <1> SUFFICES ASSUME Init PROVE TypeOK
    OBVIOUS
  <1>1. ReceiverType
    <2>1. nic \in Seq(PacketKinds) /\ burst \in Seq(PacketKinds)
      BY DEF Init
    <2>2. arrivals \in 0 .. MaxArrivals
      BY DetectorConstants DEF Init
    <2>3. pc \in ReceiverSteps /\ (pc \in HandlingSteps => burst # << >>)
      BY DEF Init, ReceiverSteps, HandlingSteps
    <2>4. next_open \in 1 .. 4 /\ opened \subseteq QueueNames
      BY DEF Init
    <2>5. pkt_cnt \in Nat /\ ready_to_infer \in {0, 1}
      BY DEF Init
    <2>6. with_margin \in BOOLEAN
      BY DEF Init
    <2>7. QED
      BY <2>1, <2>2, <2>3, <2>4, <2>5, <2>6 DEF ReceiverType
  <1>2. WindowType
    BY WindowSizes DEF Init, WindowInit, WindowType, EmptyRing, Slots
  <1>3. TimerType
    <2>1. timer \in [armed : BOOLEAN, left : Ticks, arg : Ticks]
      BY TimerConstants DEF Init, TimerInit, Stopped, Ticks
    <2>2. errors \in [ErrorSlots -> Ticks]
      BY TimerConstants DEF Init, TimerInit, NoErrors, Ticks
    <2>3. error_idx \in ErrorSlots /\ error_sum \in Ticks
      BY TimerConstants DEF Init, TimerInit, ErrorSlots, Ticks
    <2>4. suspected \in BOOLEAN
      BY DEF Init, TimerInit
    <2>5. QED
      BY <2>1, <2>2, <2>3, <2>4 DEF TimerType
  <1>4. QueueType
    BY DEF Init, QueueType, QueueNames
  <1>5. BackendType
    BY DEF Init, BackendType, TrainerSteps, InferenceSteps, NoRequest, Requests
  <1>6. RestartType
    BY DetectorConstants DEF Init, RestartType
  <1>7. QED
    BY <1>1, <1>2, <1>3, <1>4, <1>5, <1>6 DEF TypeOK

LEMMA NextTypeOK == TypeOK /\ [Next]_vars => TypeOK'
  <1> SUFFICES ASSUME TypeOK, [Next]_vars PROVE TypeOK'
    OBVIOUS
  <1>1. ASSUME NEW kind \in PacketKinds, Arrive(kind) PROVE TypeOK'
    <2>1. ReceiverType'
      BY <1>1, DetectorConstants
      DEF Arrive, TypeOK, ReceiverType, receiverVars
    <2>2. UNCHANGED <<windowVars, timerVars, queueVars, backendVars, restartVars>>
      BY <1>1 DEF Arrive
    <2>3. QED
      BY <2>1, <2>2, UnchangedTypes DEF TypeOK
  <1>2. CASE OpenQueue
    <2>1. ReceiverType'
      BY <1>2, DetectorConstants
      DEF OpenQueue, TypeOK, ReceiverType, QueueNames, OpenOrder, ReceiverSteps, HandlingSteps
    <2>2. UNCHANGED <<windowVars, timerVars, queueVars, backendVars, restartVars>>
      BY <1>2 DEF OpenQueue
    <2>3. QED
      BY <2>1, <2>2, UnchangedTypes DEF TypeOK
  <1>3. CASE Poll
    <2>1. ReceiverType'
      BY <1>3, DetectorConstants
      DEF Poll, TypeOK, ReceiverType, ReceiverSteps, HandlingSteps
    <2>2. UNCHANGED <<windowVars, timerVars, queueVars, backendVars, restartVars>>
      BY <1>3 DEF Poll
    <2>3. QED
      BY <2>1, <2>2, UnchangedTypes DEF TypeOK
  <1>4. CASE ManageTimer
    <2>1. ReceiverType'
      BY <1>4, DetectorConstants
      DEF ManageTimer, TypeOK, ReceiverType, ReceiverSteps, HandlingSteps
    <2>2. TimerType'
      BY <1>4, TimerCallbackType, UnchangedTypes DEF ManageTimer, TimerManage, TypeOK
    <2>3. UNCHANGED <<windowVars, queueVars, backendVars, restartVars>>
      BY <1>4 DEF ManageTimer
    <2>4. QED
      BY <2>1, <2>2, <2>3, UnchangedTypes DEF TypeOK
  <1>5. CASE DropPacket
    <2>1. ReceiverType'
      <3>1. burst # << >>
        BY <1>5 DEF DropPacket, TypeOK, ReceiverType, HandlingSteps
      <3>2. FinishPacket
        BY <1>5 DEF DropPacket
      <3>3. QED
        BY <1>5, <3>1, <3>2, FinishPacketType DEF DropPacket, TypeOK, ReceiverType
    <2>2. UNCHANGED <<windowVars, timerVars, queueVars, backendVars, restartVars>>
      BY <1>5 DEF DropPacket
    <2>3. QED
      BY <2>1, <2>2, UnchangedTypes DEF TypeOK
  <1>6. CASE StoreHeartbeat
    <2>1. ReceiverType'
      BY <1>6, DetectorConstants
      DEF StoreHeartbeat, TypeOK, ReceiverType, ReceiverSteps, HandlingSteps
    <2>2. WindowType'
      BY <1>6, WindowSizes
      DEF StoreHeartbeat, TypeOK, WindowType, Store, Slots, ReceiverType
    <2>3. UNCHANGED <<timerVars, queueVars, backendVars, restartVars>>
      BY <1>6 DEF StoreHeartbeat
    <2>4. QED
      BY <2>1, <2>2, <2>3, UnchangedTypes DEF TypeOK
  <1>7. CASE SendTrain
    <2>1. ReceiverType'
      BY <1>7, DetectorConstants
      DEF SendTrain, TypeOK, ReceiverType, ReceiverSteps, HandlingSteps
    <2>2. QueueType'
      BY <1>7, MessageTypes, EnqueueType DEF SendTrain, TypeOK, QueueType
    <2>3. UNCHANGED <<windowVars, timerVars, backendVars, restartVars>>
      BY <1>7 DEF SendTrain
    <2>4. QED
      BY <2>1, <2>2, <2>3, UnchangedTypes DEF TypeOK
  <1>8. CASE ReadControl
    <2>1. ReceiverType'
      <3>1. burst # << >>
        BY <1>8 DEF ReadControl, TypeOK, ReceiverType, HandlingSteps
      <3>2. CASE "control" \in opened /\ control_mq # << >>
        BY <1>8, <3>1, <3>2 DEF ReadControl, TypeOK, ReceiverType, ReceiverSteps, HandlingSteps
      <3>3. CASE ~("control" \in opened /\ control_mq # << >>)
        <4>1. FinishPacket
          BY <1>8, <3>3 DEF ReadControl
        <4>2. QED
          BY <1>8, <3>1, <3>3, <4>1, FinishPacketType DEF ReadControl, TypeOK, ReceiverType
      <3>4. QED
        BY <3>2, <3>3
    <2>2. QueueType'
      <3>1. control_mq' \in Seq({1})
        BY <1>8, DequeueType DEF ReadControl, TypeOK, QueueType
      <3>2. QED
        BY <1>8, <3>1 DEF ReadControl, TypeOK, QueueType
    <2>3. UNCHANGED <<windowVars, timerVars, backendVars, restartVars>>
      BY <1>8 DEF ReadControl
    <2>4. QED
      BY <2>1, <2>2, <2>3, UnchangedTypes DEF TypeOK
  <1>9. CASE SkipControl
    <2>1. ReceiverType'
      BY <1>9, DetectorConstants
      DEF SkipControl, TypeOK, ReceiverType, ReceiverSteps, HandlingSteps
    <2>2. UNCHANGED <<windowVars, timerVars, queueVars, backendVars, restartVars>>
      BY <1>9 DEF SkipControl
    <2>3. QED
      BY <2>1, <2>2, UnchangedTypes DEF TypeOK
  <1>10. CASE SendInfer
    <2>1. ReceiverType'
      BY <1>10, DetectorConstants
      DEF SendInfer, TypeOK, ReceiverType, ReceiverSteps, HandlingSteps
    <2>2. QueueType'
      <3>1. [id |-> pkt_cnt, window |-> InferWindow(arr_timestamp, next_avail)] \in Requests
        BY MessageTypes DEF TypeOK, ReceiverType, Requests
      <3>2. QED
        BY <1>10, <3>1, EnqueueType DEF SendInfer, TypeOK, QueueType
    <2>3. UNCHANGED <<windowVars, timerVars, backendVars, restartVars>>
      BY <1>10 DEF SendInfer
    <2>4. QED
      BY <2>1, <2>2, <2>3, UnchangedTypes DEF TypeOK
  <1>11. CASE ExitOnResult
    <2>1. ReceiverType'
      BY <1>11, DetectorConstants
      DEF ExitOnResult, TypeOK, ReceiverType, ReceiverSteps, HandlingSteps
    <2>2. UNCHANGED <<windowVars, timerVars, queueVars, backendVars, restartVars>>
      BY <1>11 DEF ExitOnResult
    <2>3. QED
      BY <2>1, <2>2, UnchangedTypes DEF TypeOK
  <1>12. CASE SkipReply
    <2>1. QueueType'
      BY <1>12, WindowSizes, DetectorConstants
      DEF SkipReply, TypeOK, QueueType
    <2>2. UNCHANGED <<receiverVars, windowVars, timerVars, backendVars, restartVars>>
      BY <1>12 DEF SkipReply
    <2>3. QED
      BY <2>1, <2>2, UnchangedTypes DEF TypeOK
  <1>13. CASE UsePrediction
    <2>1. ReceiverType'
      <3>1. burst # << >>
        BY <1>13 DEF UsePrediction, TypeOK, ReceiverType, HandlingSteps
      <3>2. FinishPacket
        BY <1>13 DEF UsePrediction
      <3>3. QED
        BY <1>13, <3>1, <3>2, FinishPacketType DEF UsePrediction, TypeOK, ReceiverType
    <2>2. TimerType'
      <3>1. CASE UNCHANGED timerVars
        BY <3>1, UnchangedTypes DEF TypeOK
      <3>2. CASE ArmWithMargin(Head(result_mq).due) \/ Arm(Head(result_mq).due)
        <4>1. Head(result_mq) \in Replies
          BY <1>13, DequeueType DEF UsePrediction, TypeOK, QueueType
        <4>2. CASE Head(result_mq).due \in Ticks
          BY <3>2, <4>2, ArmType DEF TypeOK
        <4>3. CASE Head(result_mq).due = Late
          BY <1>13, <4>3, UnchangedTypes DEF UsePrediction, TypeOK
        <4>4. QED
          BY <1>13, <4>1, <4>2, <4>3 DEF UsePrediction, Replies
      <3>3. QED
        BY <1>13, <3>1, <3>2 DEF UsePrediction
    <2>3. QueueType'
      BY <1>13, WindowSizes, DetectorConstants, DequeueType
      DEF UsePrediction, TypeOK, QueueType
    <2>4. UNCHANGED <<windowVars, backendVars, restartVars>>
      BY <1>13 DEF UsePrediction
    <2>5. QED
      BY <2>1, <2>2, <2>3, <2>4, UnchangedTypes DEF TypeOK
  <1>14. CASE TrainerCreates
    <2>1. QueueType'
      BY <1>14, WindowSizes, DetectorConstants
      DEF TrainerCreates, TypeOK, QueueType, QueueNames, OpenOrder
    <2>2. BackendType'
      BY <1>14
      DEF TrainerCreates, TypeOK, BackendType, TrainerSteps, InferenceSteps
    <2>3. UNCHANGED <<receiverVars, windowVars, timerVars, restartVars>>
      BY <1>14 DEF TrainerCreates, detectorVars
    <2>4. QED
      BY <2>1, <2>2, <2>3, UnchangedTypes DEF TypeOK
  <1>15. CASE Collect
    <2>1. QueueType'
      BY <1>15, WindowSizes, DetectorConstants
      DEF Collect, TypeOK, QueueType
    <2>2. BackendType'
      BY <1>15
      DEF Collect, TypeOK, BackendType, TrainerSteps, inferenceVars
    <2>3. UNCHANGED <<receiverVars, windowVars, timerVars, restartVars>>
      BY <1>15 DEF Collect, detectorVars
    <2>4. QED
      BY <2>1, <2>2, <2>3, UnchangedTypes DEF TypeOK
  <1>16. CASE Fit
    <2>1. BackendType'
      <3>1. model_version' \in Nat /\ param_queue' \in Seq(Nat)
        BY <1>16 DEF Fit, TypeOK, BackendType
      <3>2. first_train' \in BOOLEAN
        BY <1>16 DEF Fit
      <3>3. QED
        BY <1>16, <3>1, <3>2 DEF Fit, TypeOK, BackendType, TrainerSteps, inferenceVars
    <2>2. UNCHANGED <<receiverVars, windowVars, timerVars, queueVars, restartVars>>
      BY <1>16 DEF Fit, detectorVars
    <2>3. QED
      BY <2>1, <2>2, UnchangedTypes DEF TypeOK
  <1>17. CASE InferenceCreates
    <2>1. QueueType'
      BY <1>17, WindowSizes, DetectorConstants
      DEF InferenceCreates, TypeOK, QueueType, QueueNames, OpenOrder
    <2>2. BackendType'
      BY <1>17
      DEF InferenceCreates, TypeOK, BackendType, InferenceSteps, trainerVars
    <2>3. UNCHANGED <<receiverVars, windowVars, timerVars, restartVars>>
      BY <1>17 DEF InferenceCreates, detectorVars
    <2>4. QED
      BY <2>1, <2>2, <2>3, UnchangedTypes DEF TypeOK
  <1>18. CASE FirstParams
    <2>1. BackendType'
      BY <1>18
      DEF FirstParams, TypeOK, BackendType, InferenceSteps, trainerVars
    <2>2. UNCHANGED <<receiverVars, windowVars, timerVars, queueVars, restartVars>>
      BY <1>18 DEF FirstParams, detectorVars
    <2>3. QED
      BY <2>1, <2>2, UnchangedTypes DEF TypeOK
  <1>19. CASE Announce
    <2>1. QueueType'
      BY <1>19, WindowSizes, DetectorConstants
      DEF Announce, TypeOK, QueueType
    <2>2. BackendType'
      BY <1>19
      DEF Announce, TypeOK, BackendType, InferenceSteps, trainerVars
    <2>3. UNCHANGED <<receiverVars, windowVars, timerVars, restartVars>>
      BY <1>19 DEF Announce, detectorVars
    <2>4. QED
      BY <2>1, <2>2, <2>3, UnchangedTypes DEF TypeOK
  <1>20. CASE Refresh
    <2>1. BackendType'
      BY <1>20
      DEF Refresh, TypeOK, BackendType, InferenceSteps, trainerVars
    <2>2. UNCHANGED <<receiverVars, windowVars, timerVars, queueVars, restartVars>>
      BY <1>20 DEF Refresh, detectorVars
    <2>3. QED
      BY <2>1, <2>2, UnchangedTypes DEF TypeOK
  <1>21. CASE Serve
    <2>1. QueueType'
      BY <1>21, WindowSizes, DetectorConstants
      DEF Serve, TypeOK, QueueType
    <2>2. BackendType'
      BY <1>21
      DEF Serve, TypeOK, BackendType, InferenceSteps, trainerVars, QueueType
    <2>3. UNCHANGED <<receiverVars, windowVars, timerVars, restartVars>>
      BY <1>21 DEF Serve, detectorVars
    <2>4. QED
      BY <2>1, <2>2, <2>3, UnchangedTypes DEF TypeOK
  <1>22. CASE Predict
    <2>1. QueueType'
      <3>1. PICK due \in Predictions :
               \/ result_mq' = result_mq
               \/ due # Negative /\ result_mq' = Append(result_mq, [id |-> request.id, due |-> due])
        BY <1>22 DEF Predict
      <3>2. due # Negative => [id |-> request.id, due |-> due] \in Replies
        BY DetectorConstants DEF TypeOK, BackendType, Requests, Replies
      <3>3. result_mq' \in Seq(Replies)
        BY <3>1, <3>2, EnqueueType DEF TypeOK, QueueType
      <3>4. QED
        BY <1>22, <3>3 DEF Predict, TypeOK, QueueType
    <2>2. BackendType'
      BY <1>22
      DEF Predict, TypeOK, BackendType, InferenceSteps, trainerVars, NoRequest, Requests
    <2>3. UNCHANGED <<receiverVars, windowVars, timerVars, restartVars>>
      BY <1>22 DEF Predict, detectorVars
    <2>4. QED
      BY <2>1, <2>2, <2>3, UnchangedTypes DEF TypeOK
  <1>23. CASE Tick
    <2>1. TimerType'
      BY <1>23, TimerConstants
      DEF Tick, TypeOK, TimerType, TimerAfterTick, CountingDown, Ticks
    <2>2. QueueType'
      <3>1. ASSUME NEW r \in Replies PROVE Aged(r) \in Replies
        BY <3>1, TimerConstants DEF Aged, Pending, Replies, Ticks, Late, Zero
      <3>2. ASSUME NEW i \in 1 .. Len(result_mq) PROVE Aged(result_mq[i]) \in Replies
        BY <3>1, <3>2 DEF TypeOK, QueueType
      <3>3. result_mq' = [i \in 1 .. Len(result_mq) |-> Aged(result_mq[i])]
        BY <1>23, LenProperties DEF Tick, TypeOK, QueueType
      <3>4. result_mq' \in Seq(Replies)
        BY <3>2, <3>3, IsASeq, LenProperties DEF TypeOK, QueueType
      <3>5. QED
        BY <1>23, <3>4 DEF Tick, TypeOK, QueueType
    <2>3. UNCHANGED <<receiverVars, windowVars, backendVars, restartVars>>
      BY <1>23 DEF Tick
    <2>4. QED
      BY <2>1, <2>2, <2>3, UnchangedTypes DEF TypeOK
  <1>24. CASE RestartReceiver
    <2>1. ReceiverType'
      <3>1. (nic \in Seq(PacketKinds) /\ burst \in Seq(PacketKinds))'
        BY <1>24, DetectorConstants
        DEF RestartReceiver, TypeOK, ReceiverType, ReceiverSteps, HandlingSteps, QueueNames
      <3>2. (arrivals \in 0 .. MaxArrivals)'
        BY <1>24, DetectorConstants
        DEF RestartReceiver, TypeOK, ReceiverType, ReceiverSteps, HandlingSteps, QueueNames
      <3>3. (pc \in ReceiverSteps /\ (pc \in HandlingSteps => burst # << >>))'
        BY <1>24, DetectorConstants
        DEF RestartReceiver, TypeOK, ReceiverType, ReceiverSteps, HandlingSteps, QueueNames
      <3>4. (next_open \in 1 .. 4 /\ opened \subseteq QueueNames)'
        BY <1>24, DetectorConstants
        DEF RestartReceiver, TypeOK, ReceiverType, ReceiverSteps, HandlingSteps, QueueNames
      <3>5. (pkt_cnt \in Nat /\ ready_to_infer \in {0, 1})'
        BY <1>24, DetectorConstants
        DEF RestartReceiver, TypeOK, ReceiverType, ReceiverSteps, HandlingSteps, QueueNames
      <3>6. (with_margin \in BOOLEAN)'
        BY <1>24, DetectorConstants
        DEF RestartReceiver, TypeOK, ReceiverType, ReceiverSteps, HandlingSteps, QueueNames
      <3>7. QED
        BY <3>1, <3>2, <3>3, <3>4, <3>5, <3>6 DEF ReceiverType
    <2>2. WindowType'
      BY <1>24, WindowSizes
      DEF RestartReceiver, TypeOK, WindowType, ClearWindow, EmptyRing, Slots
    <2>3. TimerType'
      <3>1. (timer \in [armed : BOOLEAN, left : Ticks, arg : Ticks])'
        BY <1>24, TimerConstants
        DEF RestartReceiver, TypeOK, TimerType, ClearTimer, Stopped, NoErrors, ErrorSlots, Ticks
      <3>2. (errors \in [ErrorSlots -> Ticks])'
        BY <1>24, TimerConstants
        DEF RestartReceiver, TypeOK, TimerType, ClearTimer, Stopped, NoErrors, ErrorSlots, Ticks
      <3>3. (error_idx \in ErrorSlots /\ error_sum \in Ticks)'
        BY <1>24, TimerConstants
        DEF RestartReceiver, TypeOK, TimerType, ClearTimer, Stopped, NoErrors, ErrorSlots, Ticks
      <3>4. (suspected \in BOOLEAN)'
        BY <1>24, TimerConstants
        DEF RestartReceiver, TypeOK, TimerType, ClearTimer, Stopped, NoErrors, ErrorSlots, Ticks
      <3>5. QED
        BY <3>1, <3>2, <3>3, <3>4 DEF TimerType
    <2>4. RestartType'
      BY <1>24, DetectorConstants
      DEF RestartReceiver, TypeOK, RestartType
    <2>5. UNCHANGED <<queueVars, backendVars>>
      BY <1>24 DEF RestartReceiver
    <2>6. QED
      BY <2>1, <2>2, <2>3, <2>4, <2>5, UnchangedTypes DEF TypeOK
  <1>25. CASE RestartBackend
    <2>1. BackendType'
      BY <1>25
      DEF RestartBackend, TypeOK, BackendType, TrainerSteps, InferenceSteps, NoRequest, Requests, trainerVars, inferenceVars
    <2>2. RestartType'
      BY <1>25, DetectorConstants
      DEF RestartBackend, TypeOK, RestartType
    <2>3. UNCHANGED <<receiverVars, windowVars, timerVars, queueVars>>
      BY <1>25 DEF RestartBackend, detectorVars
    <2>4. QED
      BY <2>1, <2>2, <2>3, UnchangedTypes DEF TypeOK
  <1>26. CASE UNCHANGED vars
    BY <1>26, UnchangedTypes DEF vars, TypeOK
  <1>27. QED
    BY <1>1, <1>2, <1>3, <1>4, <1>5, <1>6, <1>7, <1>8, <1>9, <1>10, <1>11,
       <1>12, <1>13, <1>14, <1>15, <1>16, <1>17, <1>18, <1>19, <1>20, <1>21,
       <1>22, <1>23, <1>24, <1>25, <1>26
    DEF Next, Receiver, Trainer, Inference

\* Every variable keeps its type, through restarts of either program and for any
\* number of packets.
THEOREM TypeCorrect == Spec => []TypeOK
  <1>1. Init => TypeOK
    BY InitTypeOK
  <1>2. TypeOK /\ [Next]_vars => TypeOK'
    BY NextTypeOK
  <1>3. QED
    BY <1>1, <1>2, PTL DEF Spec

-----------------------------------------------------------------------------
(***************************************************************************)
(* Requests and replies in flight.                                         *)
(*                                                                         *)
(* InFlightBounded is not inductive: it says nothing of where the receiver *)
(* stands, and a receiver that could send while it still had a request     *)
(* outstanding would exceed it.  FlightInv adds that outside of "await",   *)
(* and of the end it may come to there, only what earlier lives of the     *)
(* receiver left behind is in flight.                                      *)
(***************************************************************************)

FlightInv ==
  InFlight <= receiver_restarts + (IF pc \in {"await", "exited"} THEN 1 ELSE 0)

\* One dequeue or enqueue moves InFlight by one at most.
LEMMA InFlightNat ==
  ASSUME TypeOK
  PROVE  /\ Len(infer_mq) \in Nat /\ Len(result_mq) \in Nat
         /\ InFlight \in Nat
         /\ receiver_restarts \in Nat
  BY LenProperties, DetectorConstants DEF TypeOK, QueueType, RestartType, InFlight

LEMMA FlightInvStep == TypeOK /\ FlightInv /\ [Next]_vars => FlightInv'
  <1> SUFFICES ASSUME TypeOK, FlightInv, [Next]_vars PROVE FlightInv'
    OBVIOUS
  <1> USE InFlightNat
  \* Steps of the receiver before it sends the request, and steps of the others
  \* that touch neither queue.
  <1>1. CASE UNCHANGED <<infer_mq, result_mq, inference, receiver_restarts>>
             /\ (pc' = pc \/ pc \notin {"await", "exited"})
    BY <1>1 DEF FlightInv, InFlight
  <1>2. CASE SendInfer
    <2>1. CASE pc' = "exited"
      BY <1>2, <2>1 DEF SendInfer, FlightInv, InFlight, restartVars, backendVars, inferenceVars
    <2>2. CASE pc' = "await"
      <3>1. Len(infer_mq') = Len(infer_mq) + 1
        BY <1>2, <2>2, MessageTypes, EnqueueType
        DEF SendInfer, TypeOK, QueueType, ReceiverType, Requests
      <3>2. QED
        BY <1>2, <2>2, <3>1
        DEF SendInfer, FlightInv, InFlight, restartVars, backendVars, inferenceVars
    <2>3. QED
      BY <1>2, <2>1, <2>2 DEF SendInfer
  <1>3. CASE ExitOnResult
    BY <1>3 DEF ExitOnResult, FlightInv, InFlight, queueVars, restartVars, backendVars, inferenceVars
  <1>4. CASE SkipReply
    <2>1. Len(result_mq') = Len(result_mq) - 1
      BY <1>4, DequeueType DEF SkipReply, TypeOK, QueueType
    <2>2. QED
      BY <1>4, <2>1
      DEF SkipReply, FlightInv, InFlight, receiverVars, restartVars, backendVars, inferenceVars
  <1>5. CASE UsePrediction
    <2>1. Len(result_mq') = Len(result_mq) - 1
      BY <1>5, DequeueType DEF UsePrediction, TypeOK, QueueType
    <2>2. pc = "await" /\ pc' \in {"poll", "packet"}
      BY <1>5 DEF UsePrediction, FinishPacket
    <2>3. QED
      BY <1>5, <2>1, <2>2
      DEF UsePrediction, FlightInv, InFlight, restartVars, backendVars, inferenceVars
  <1>6. CASE Serve
    <2>1. Len(infer_mq') = Len(infer_mq) - 1
      BY <1>6, DequeueType DEF Serve, TypeOK, QueueType
    <2>2. QED
      BY <1>6, <2>1 DEF Serve, FlightInv, InFlight, detectorVars, receiverVars, restartVars
  <1>7. CASE Predict
    <2>1. Len(result_mq') <= Len(result_mq) + 1 /\ Len(result_mq') \in Nat
      <3>1. PICK due \in Predictions :
               \/ result_mq' = result_mq
               \/ due # Negative /\ result_mq' = Append(result_mq, [id |-> request.id, due |-> due])
        BY <1>7 DEF Predict
      <3>2. due # Negative => [id |-> request.id, due |-> due] \in Replies
        BY DetectorConstants DEF TypeOK, BackendType, Requests, Replies
      <3>3. QED
        BY <3>1, <3>2, EnqueueType DEF TypeOK, QueueType
    <2>2. inference = "predict" /\ inference' # "predict"
      BY <1>7 DEF Predict
    <2>3. QED
      BY <1>7, <2>1, <2>2 DEF Predict, FlightInv, InFlight, detectorVars, receiverVars, restartVars
  <1>8. CASE Tick
    <2>1. Len(result_mq') = Len(result_mq)
      <3>1. result_mq' = [i \in 1 .. Len(result_mq) |-> Aged(result_mq[i])]
        BY <1>8, LenProperties DEF Tick, TypeOK, QueueType
      <3>2. QED
        BY <3>1
    <2>2. QED
      BY <1>8, <2>1
      DEF Tick, FlightInv, InFlight, receiverVars, restartVars, backendVars, inferenceVars
  <1>9. CASE RestartReceiver
    BY <1>9 DEF RestartReceiver, FlightInv, InFlight, queueVars, backendVars, inferenceVars
  <1>10. CASE RestartBackend
    BY <1>10 DEF RestartBackend, FlightInv, InFlight, queueVars, detectorVars, receiverVars
  <1>11. CASE \E kind \in PacketKinds : Arrive(kind)
    BY <1>1, <1>11 DEF Arrive, queueVars, backendVars, inferenceVars, restartVars
  <1>12. CASE \/ OpenQueue \/ Poll \/ ManageTimer \/ DropPacket \/ StoreHeartbeat
              \/ SendTrain \/ ReadControl \/ SkipControl
    BY <1>1, <1>12
    DEF OpenQueue, Poll, ManageTimer, DropPacket, StoreHeartbeat, SendTrain, ReadControl,
        SkipControl, queueVars, backendVars, inferenceVars, restartVars
  <1>13. CASE TrainerCreates \/ Collect \/ Fit \/ InferenceCreates \/ FirstParams
              \/ Announce \/ Refresh
    <2>1. UNCHANGED <<infer_mq, result_mq, receiver_restarts, pc>>
      BY <1>13
      DEF TrainerCreates, Collect, Fit, InferenceCreates, FirstParams, Announce, Refresh,
          queueVars, detectorVars, receiverVars, restartVars
    <2>2. inference' = "predict" => inference = "predict"
      BY <1>13
      DEF TrainerCreates, Collect, Fit, InferenceCreates, FirstParams, Announce, Refresh,
          inferenceVars
    <2>3. QED
      BY <2>1, <2>2 DEF FlightInv, InFlight
  <1>14. CASE UNCHANGED vars
    BY <1>1, <1>14 DEF vars, receiverVars, queueVars, backendVars, inferenceVars, restartVars
  <1>15. QED
    BY <1>2, <1>3, <1>4, <1>5, <1>6, <1>7, <1>8, <1>9, <1>10, <1>11, <1>12, <1>13, <1>14
    DEF Next, Receiver, Trainer, Inference

\* However often either program is restarted, at most one request or reply per
\* life of the receiver is in flight.
THEOREM AtMostOneInFlightPerLife == Spec => []InFlightBounded
  <1>1. Init => FlightInv
    BY EmptySeq DEF Init, FlightInv, InFlight
  <1>2. TypeOK /\ FlightInv /\ [Next]_vars => FlightInv'
    BY FlightInvStep
  <1>3. TypeOK /\ FlightInv => InFlightBounded
    BY InFlightNat DEF FlightInv, InFlightBounded
  <1>4. QED
    BY <1>1, <1>2, <1>3, TypeCorrect, PTL DEF Spec

-----------------------------------------------------------------------------
(***************************************************************************)
(* Weights.                                                                *)
(***************************************************************************)

\* The head of a queue of consecutive versions is the next one.
LEMMA TakeWeights ==
  ASSUME TypeOK, WeightsInOrder, param_queue # << >>,
         infer_version' = Head(param_queue), param_queue' = Tail(param_queue),
         model_version' = model_version
  PROVE  WeightsInOrder'
  <1>1. Head(param_queue) = infer_version + 1 /\ Len(param_queue) \in Nat \ {0}
    BY EmptySeq, LenProperties DEF TypeOK, BackendType, WeightsInOrder
  <1>2. /\ Len(Tail(param_queue)) = Len(param_queue) - 1
        /\ \A i \in 1 .. Len(Tail(param_queue)) : Tail(param_queue)[i] = param_queue[i + 1]
    BY HeadTailProperties DEF TypeOK, BackendType
  <1>3. DOMAIN Tail(param_queue) = 1 .. Len(Tail(param_queue))
    BY DequeueType, LenProperties DEF TypeOK, BackendType
  <1>4. DOMAIN param_queue = 1 .. Len(param_queue)
    BY LenProperties DEF TypeOK, BackendType
  <1>5. infer_version' + Len(param_queue') = model_version'
    BY <1>1, <1>2 DEF WeightsInOrder, TypeOK, BackendType
  <1>6. ASSUME NEW i \in DOMAIN param_queue'
        PROVE  param_queue'[i] = infer_version' + i
    <2>1. i \in 1 .. Len(param_queue) - 1 /\ i + 1 \in DOMAIN param_queue
      BY <1>1, <1>2, <1>3, <1>4, <1>6
    <2>2. param_queue[i + 1] = infer_version + (i + 1)
      BY <2>1 DEF WeightsInOrder
    <2>3. param_queue'[i] = param_queue[i + 1]
      BY <1>1, <1>2, <2>1
    <2>4. infer_version \in Nat /\ infer_version' = infer_version + 1 /\ i \in Int
      BY <1>1, <2>1 DEF TypeOK, BackendType
    <2>5. QED
      BY <2>2, <2>3, <2>4
  <1>7. QED
    BY <1>5, <1>6 DEF WeightsInOrder

\* No set of weights is lost or applied out of order between the two Python
\* processes, whatever the pace of either and whenever the backend is restarted.
THEOREM WeightsArriveInOrder == Spec => []WeightsInOrder
  <1>1. Init => WeightsInOrder
    BY EmptySeq DEF Init, WeightsInOrder
  <1>2. TypeOK /\ WeightsInOrder /\ [Next]_vars => WeightsInOrder'
    <2> SUFFICES ASSUME TypeOK, WeightsInOrder, [Next]_vars PROVE WeightsInOrder'
      OBVIOUS
    <2>1. CASE UNCHANGED <<model_version, infer_version, param_queue>>
      BY <2>1 DEF WeightsInOrder
    <2>2. CASE Fit
      <3> USE <2>2
      <3>1. /\ Len(param_queue') = Len(param_queue) + 1
            /\ \A i \in 1 .. Len(param_queue) : param_queue'[i] = param_queue[i]
            /\ param_queue'[Len(param_queue) + 1] = model_version + 1
            /\ Len(param_queue) \in Nat
        BY AppendProperties, LenProperties DEF Fit, TypeOK, BackendType
      <3>2. /\ DOMAIN param_queue' = 1 .. Len(param_queue')
            /\ DOMAIN param_queue = 1 .. Len(param_queue)
        BY AppendProperties, LenProperties DEF Fit, TypeOK, BackendType
      <3>3. infer_version' = infer_version /\ model_version' = model_version + 1
        BY DEF Fit, inferenceVars
      <3>4. infer_version \in Nat /\ model_version \in Nat
            /\ infer_version + Len(param_queue) = model_version
        BY DEF WeightsInOrder, TypeOK, BackendType
      <3>5. infer_version' + Len(param_queue') = model_version'
        BY <3>1, <3>3, <3>4
      <3>6. ASSUME NEW i \in DOMAIN param_queue' PROVE param_queue'[i] = infer_version' + i
        <4>1. CASE i \in 1 .. Len(param_queue)
          BY <3>1, <3>2, <3>3, <4>1 DEF WeightsInOrder
        <4>2. CASE i = Len(param_queue) + 1
          BY <3>1, <3>3, <3>4, <4>2
        <4>3. QED
          BY <3>1, <3>2, <4>1, <4>2
      <3>7. QED
        BY <3>5, <3>6 DEF WeightsInOrder
    <2>3. CASE FirstParams
      BY <2>3, TakeWeights DEF FirstParams, trainerVars
    <2>4. CASE Refresh
      <3>1. CASE UNCHANGED <<param_queue, infer_version>>
        BY <2>4, <3>1 DEF Refresh, trainerVars, WeightsInOrder
      <3>2. CASE /\ param_queue # << >>
                 /\ infer_version' = Head(param_queue)
                 /\ param_queue' = Tail(param_queue)
        BY <2>4, <3>2, TakeWeights DEF Refresh, trainerVars
      <3>3. QED
        BY <2>4, <3>1, <3>2 DEF Refresh
    <2>5. CASE RestartBackend
      BY <2>5, EmptySeq DEF RestartBackend, WeightsInOrder
    <2>6. CASE \/ Receiver \/ Tick \/ RestartReceiver \/ UNCHANGED vars
               \/ \E kind \in PacketKinds : Arrive(kind)
      BY <2>1, <2>6
      DEF Receiver, OpenQueue, Poll, ManageTimer, DropPacket, StoreHeartbeat, SendTrain,
          ReadControl, SkipControl, SendInfer, ExitOnResult, SkipReply, UsePrediction, Tick,
          RestartReceiver, Arrive, vars, backendVars, trainerVars, inferenceVars
    <2>7. CASE TrainerCreates \/ Collect \/ InferenceCreates \/ Announce \/ Serve \/ Predict
      BY <2>1, <2>7
      DEF TrainerCreates, Collect, InferenceCreates, Announce, Serve, Predict,
          backendVars, trainerVars, inferenceVars
    <2>8. QED
      BY <2>2, <2>3, <2>4, <2>5, <2>6, <2>7 DEF Next, Trainer, Inference
  <1>3. QED
    BY <1>1, <1>2, TypeCorrect, PTL DEF Spec

-----------------------------------------------------------------------------
(***************************************************************************)
(* The announcement that the model is ready.                               *)
(***************************************************************************)

\* A message in the control queue, or one that was read, was sent by this life
\* of the backend; and the child is started once.
ReadyInv ==
  /\ ready_to_infer = 1 \/ control_mq # << >> => inference \in AfterAnnouncement
  /\ trainer = "create_infer" => inference = "off"

LEMMA ReadyInvStep ==
  ASSUME MaxBackendRestarts = 0 PROVE TypeOK /\ ReadyInv /\ [Next]_vars => ReadyInv'
  <1> SUFFICES ASSUME TypeOK, ReadyInv, [Next]_vars PROVE ReadyInv'
    OBVIOUS
  <1>1. CASE UNCHANGED <<ready_to_infer, control_mq, inference, trainer>>
    BY <1>1 DEF ReadyInv
  <1>2. CASE ReadControl
    BY <1>2 DEF ReadControl, ReadyInv, backendVars, trainerVars, inferenceVars
  <1>3. CASE RestartReceiver
    BY <1>3 DEF RestartReceiver, ReadyInv, queueVars, backendVars, trainerVars, inferenceVars
  <1>4. ~RestartBackend
    BY DEF RestartBackend, TypeOK, RestartType
  <1>5. CASE \/ OpenQueue \/ Poll \/ ManageTimer \/ DropPacket \/ StoreHeartbeat
             \/ SendTrain \/ SkipControl \/ SendInfer \/ ExitOnResult \/ SkipReply
             \/ UsePrediction \/ Tick \/ UNCHANGED vars
             \/ \E kind \in PacketKinds : Arrive(kind)
    BY <1>1, <1>5
    DEF OpenQueue, Poll, ManageTimer, DropPacket, StoreHeartbeat, SendTrain, SkipControl,
        SendInfer, ExitOnResult, SkipReply, UsePrediction, Tick, Arrive, vars,
        receiverVars, queueVars, backendVars, trainerVars, inferenceVars
  <1>6. CASE TrainerCreates
    BY <1>6 DEF TrainerCreates, ReadyInv, AfterAnnouncement, Serving, detectorVars, receiverVars
  <1>7. CASE Collect \/ Fit
    BY <1>7 DEF Collect, Fit, ReadyInv, queueVars, detectorVars, receiverVars, inferenceVars
  <1>8. CASE InferenceCreates \/ FirstParams
    BY <1>8
    DEF InferenceCreates, FirstParams, ReadyInv, AfterAnnouncement, Serving, queueVars, detectorVars,
        receiverVars, trainerVars
  <1>9. CASE Announce \/ Refresh \/ Serve \/ Predict
    BY <1>9
    DEF Announce, Refresh, Serve, Predict, ReadyInv, AfterAnnouncement, Serving, queueVars, detectorVars,
        receiverVars, trainerVars
  <1>10. QED
    BY <1>2, <1>3, <1>4, <1>5, <1>6, <1>7, <1>8, <1>9 DEF Next, Receiver, Trainer, Inference

\* Only a negative prediction ends the inference process.
LEMMA InferenceAliveStep ==
  ASSUME Negative \notin Predictions, inference # "dead", [Next]_vars
  PROVE  inference' # "dead"
  <1>1. CASE UNCHANGED inference
    BY <1>1
  <1>2. CASE Receiver \/ Tick \/ RestartReceiver \/ \E kind \in PacketKinds : Arrive(kind)
    BY <1>1, <1>2
    DEF Receiver, OpenQueue, Poll, ManageTimer, DropPacket, StoreHeartbeat, SendTrain,
        ReadControl, SkipControl, SendInfer, ExitOnResult, SkipReply, UsePrediction, Tick,
        Arrive, RestartReceiver, backendVars, inferenceVars
  <1>3. CASE Trainer \/ RestartBackend
    BY <1>3 DEF Trainer, TrainerCreates, Collect, Fit, RestartBackend, inferenceVars
  <1>4. CASE InferenceCreates \/ FirstParams \/ Announce \/ Refresh \/ Serve
    BY <1>4 DEF InferenceCreates, FirstParams, Announce, Refresh, Serve
  <1>5. CASE Predict
    BY <1>5 DEF Predict
  <1>6. QED
    BY <1>1, <1>2, <1>3, <1>4, <1>5 DEF Next, Inference, vars, backendVars, inferenceVars

\* While the backend is not restarted and no prediction is negative, the flag
\* says the truth: the inference process has its weights and is there to answer.
THEOREM ReadyIsTruthful ==
  ASSUME MaxBackendRestarts = 0, Negative \notin Predictions
  PROVE  Spec => []ReadyMeansModelReady
  <1> DEFINE Alive == inference # "dead"
  <1>1. Init => ReadyInv /\ Alive
    BY DEF Init, ReadyInv
  <1>2. TypeOK /\ ReadyInv /\ [Next]_vars => ReadyInv'
    BY ReadyInvStep
  <1>3. Alive /\ [Next]_vars => Alive'
    BY InferenceAliveStep
  <1>4. ReadyInv /\ Alive => ReadyMeansModelReady
    BY DEF ReadyInv, ReadyMeansModelReady, AfterAnnouncement
  <1> HIDE DEF Alive
  <1>5. QED
    BY <1>1, <1>2, <1>3, <1>4, TypeCorrect, PTL DEF Spec

\* While the receiver is not restarted it never misses that the model is ready:
\* once the inference process serves, the message is read or still queued.
THEOREM AnnouncementIsKept ==
  ASSUME MaxReceiverRestarts = 0 PROVE Spec => []AnnouncementReachesReceiver
  <1>1. Init => AnnouncementReachesReceiver
    BY DEF Init, AnnouncementReachesReceiver, AfterAnnouncement, Serving
  <1>2. TypeOK /\ AnnouncementReachesReceiver /\ [Next]_vars => AnnouncementReachesReceiver'
    <2> SUFFICES ASSUME TypeOK, AnnouncementReachesReceiver, [Next]_vars
                 PROVE  AnnouncementReachesReceiver'
      OBVIOUS
    <2> USE DEF AnnouncementReachesReceiver
    <2>1. CASE UNCHANGED <<ready_to_infer, control_mq, inference>>
      BY <2>1
    <2>2. CASE ReadControl
      BY <2>2 DEF ReadControl, backendVars, inferenceVars
    <2>3. ~RestartReceiver
      BY DEF RestartReceiver, TypeOK, RestartType
    <2>4. CASE Announce
      <3>1. control_mq' # << >>
        BY <2>4, AppendProperties DEF Announce, TypeOK, QueueType
      <3>2. QED
        BY <3>1
    <2>5. CASE TrainerCreates \/ InferenceCreates \/ FirstParams \/ RestartBackend
      BY <2>1, <2>5
      DEF TrainerCreates, InferenceCreates, FirstParams, RestartBackend, AfterAnnouncement, Serving, detectorVars,
          receiverVars
    <2>6. CASE Refresh \/ Serve \/ Predict
      BY <2>6
      DEF Refresh, Serve, Predict, AfterAnnouncement, Serving, detectorVars, receiverVars, queueVars
    <2>7. CASE \/ OpenQueue \/ Poll \/ ManageTimer \/ DropPacket \/ StoreHeartbeat
               \/ SendTrain \/ SkipControl \/ SendInfer \/ ExitOnResult \/ SkipReply
               \/ UsePrediction \/ Tick \/ Collect \/ Fit \/ UNCHANGED vars
               \/ \E kind \in PacketKinds : Arrive(kind)
      BY <2>1, <2>7
      DEF OpenQueue, Poll, ManageTimer, DropPacket, StoreHeartbeat, SendTrain, SkipControl,
          SendInfer, ExitOnResult, SkipReply, UsePrediction, Tick, Collect, Fit, Arrive, vars,
          detectorVars, receiverVars, queueVars, backendVars, inferenceVars
    <2>8. QED
      BY <2>2, <2>3, <2>4, <2>5, <2>6, <2>7 DEF Next, Receiver, Trainer, Inference
  <1>3. QED
    BY <1>1, <1>2, TypeCorrect, PTL DEF Spec

-----------------------------------------------------------------------------
(***************************************************************************)
(* The margin.                                                             *)
(***************************************************************************)

\* Before the first prediction is used no timer was armed and no error summed.
\* The flag with_margin outlives the heartbeat that set it, so only the steps
\* of that heartbeat count; the flag ready_to_infer is set by then.
NoDeadlineYet ==
  /\ ready_to_infer = 0 \/ (with_margin /\ pc \in {"infer", "await"})
       => error_sum = 0 /\ ~timer.armed
  /\ pc \in {"infer", "await"} => ready_to_infer = 1

\* The mean suspected interval is 0 whenever it is added to a deadline, for any
\* number of heartbeats, suspicions and restarts.
THEOREM MarginNeverApplied == Spec => []MarginIsVoid
  <1>1. Init => NoDeadlineYet
    BY DEF Init, TimerInit, Stopped, NoDeadlineYet
  <1>2. TypeOK /\ NoDeadlineYet /\ [Next]_vars => NoDeadlineYet'
    <2> SUFFICES ASSUME TypeOK, NoDeadlineYet, [Next]_vars PROVE NoDeadlineYet'
      OBVIOUS
    <2> USE DEF NoDeadlineYet
    <2>1. CASE /\ UNCHANGED <<ready_to_infer, with_margin, error_sum, timer>>
               /\ pc' = pc \/ pc' \notin {"infer", "await"}
      BY <2>1
    <2>2. CASE ManageTimer
      <3>1. ready_to_infer = 0 => UNCHANGED <<timer, error_sum>>
        BY <2>2 DEF ManageTimer, TimerManage, Due, timerVars
      <3>2. QED
        BY <2>2, <3>1 DEF ManageTimer
    <2>3. CASE ReadControl
      BY <2>3 DEF ReadControl, FinishPacket, timerVars
    <2>4. CASE SkipControl
      BY <2>4 DEF SkipControl
    <2>5. CASE SendInfer
      BY <2>5 DEF SendInfer, timerVars
    <2>6. CASE UsePrediction
      BY <2>6 DEF UsePrediction, FinishPacket
    <2>7. CASE Tick
      BY <2>7 DEF Tick, TimerAfterTick, CountingDown, receiverVars
    <2>8. CASE RestartReceiver
      BY <2>8 DEF RestartReceiver, ClearTimer, Stopped
    <2>9. CASE OpenQueue \/ Poll \/ DropPacket \/ StoreHeartbeat \/ SendTrain \/ ExitOnResult
      BY <2>1, <2>9
      DEF OpenQueue, Poll, DropPacket, StoreHeartbeat, SendTrain, ExitOnResult, FinishPacket,
          timerVars
    <2>10. CASE \/ SkipReply \/ Trainer \/ Inference \/ RestartBackend \/ UNCHANGED vars
                \/ \E kind \in PacketKinds : Arrive(kind)
      BY <2>1, <2>10
      DEF SkipReply, Trainer, TrainerCreates, Collect, Fit, Inference, InferenceCreates,
          FirstParams, Announce, Refresh, Serve, Predict, RestartBackend, Arrive, vars,
          detectorVars, receiverVars, timerVars
    <2>11. QED
      BY <2>2, <2>3, <2>4, <2>5, <2>6, <2>7, <2>8, <2>9, <2>10 DEF Next, Receiver
  <1>3. NoDeadlineYet => MarginIsVoid
    BY DEF NoDeadlineYet, MarginIsVoid
  <1>4. QED
    BY <1>1, <1>2, <1>3, TypeCorrect, PTL DEF Spec

-----------------------------------------------------------------------------
(***************************************************************************)
(* Refinement of SuspicionService.                                         *)
(***************************************************************************)

\* Every behaviour of the detector, with any queue sizes, any model and any
\* restarts, is one of the abstract service: each heartbeat is answered at most
\* once, a deadline moves only with that answer, and it is reported only once.
THEOREM DetectorImplementsService == Spec => ImplementsService
  <1> USE DEF Phase
  <1>1. Init => Service!ServiceInit
    BY DEF Init, TimerInit, Stopped, Service!ServiceInit
  <1>2. TypeOK /\ [Next]_vars => [Service!ServiceNext]_Service!serviceVars
    <2> SUFFICES ASSUME TypeOK, [Next]_vars
                 PROVE  [Service!ServiceNext]_Service!serviceVars
      OBVIOUS
    <2> USE DEF Service!ServiceNext, Service!serviceVars
    \* Stutters: the abstract variables do not see the step.
    <2>1. CASE UNCHANGED <<pkt_cnt, Phase, timer.armed, suspected>>
      BY <2>1
    <2>2. CASE StoreHeartbeat
      BY <2>2 DEF StoreHeartbeat, timerVars, Service!Hear
    <2>3. CASE ReadControl
      BY <2>3 DEF ReadControl, FinishPacket, timerVars, Service!Ask
    <2>4. CASE SendTrain \/ SendInfer
      BY <2>4 DEF SendTrain, SendInfer, timerVars, Service!Ask
    <2>5. CASE ExitOnResult
      BY <2>5 DEF ExitOnResult, timerVars, Service!Answer
    <2>6. CASE UsePrediction
      <3>1. /\ pc = "await" /\ pc' \in {"poll", "packet"} /\ pkt_cnt' = pkt_cnt
            /\ \/ UNCHANGED <<timer, suspected>>
               \/ timer'.armed = TRUE /\ suspected' = FALSE
        BY <2>6 DEF UsePrediction, FinishPacket, timerVars, ArmWithMargin, Arm, Reset
      <3>2. QED
        BY <3>1 DEF Service!Answer
    <2>7. CASE ManageTimer
      <3>1. CASE Due
        <4>1. timer' = Stopped /\ suspected' = TRUE /\ timer.armed
          BY <2>7, <3>1 DEF ManageTimer, TimerManage, timer1_cb, Due
        <4>2. pc = "manage" /\ pc' \in {"poll", "packet"} /\ pkt_cnt' = pkt_cnt
          BY <2>7 DEF ManageTimer
        <4>3. timer'.armed = FALSE
          BY <4>1 DEF Stopped
        <4>4. QED
          BY <4>1, <4>2, <4>3 DEF Service!Suspect
      <3>2. CASE ~Due
        BY <2>7, <3>2 DEF ManageTimer, TimerManage, timerVars
      <3>3. QED
        BY <3>1, <3>2
    <2>8. CASE RestartReceiver
      BY <2>8 DEF RestartReceiver, ClearTimer, Stopped, Service!Restart
    <2>9. CASE Tick
      BY <2>9 DEF Tick, TimerAfterTick, CountingDown, TypeOK, TimerType, receiverVars
    <2>10. CASE OpenQueue \/ Poll \/ DropPacket \/ SkipControl
      BY <2>1, <2>10 DEF OpenQueue, Poll, DropPacket, FinishPacket, SkipControl, timerVars
    <2>11. CASE \/ SkipReply \/ Trainer \/ Inference \/ RestartBackend \/ UNCHANGED vars
                \/ \E kind \in PacketKinds : Arrive(kind)
      BY <2>1, <2>11
      DEF SkipReply, Trainer, TrainerCreates, Collect, Fit, Inference, InferenceCreates,
          FirstParams, Announce, Refresh, Serve, Predict, RestartBackend, Arrive, vars,
          detectorVars, receiverVars, timerVars
    <2>12. QED
      BY <2>2, <2>3, <2>4, <2>5, <2>6, <2>7, <2>8, <2>9, <2>10, <2>11 DEF Next, Receiver
  <1>3. QED
    BY <1>1, <1>2, TypeCorrect, PTL DEF Spec, ImplementsService, Service!ServiceSpec

-----------------------------------------------------------------------------
(***************************************************************************)
(* Places in the ring.                                                     *)
(***************************************************************************)

LEMMA RoundAndPlace ==
  ASSUME NEW n \in Nat \ {0}, NEW x \in Nat
  PROVE  x \div n \in Nat /\ x % n \in 0 .. n - 1 /\ x = n * (x \div n) + (x % n)
  OBVIOUS

\* Counting on by one and wrapping is wrapping the count.
LEMMA NextSlot ==
  ASSUME NEW n \in Nat \ {0}, NEW x \in Nat
  PROVE  ((x % n) + 1) % n = (x + 1) % n
  <1>1. x \in Int /\ 1 \in Int
    OBVIOUS
  <1>2. QED
    BY <1>1, RestAbsorbed

\* Counts that differ by less than a round have different places.
LEMMA DistinctSlots ==
  ASSUME NEW n \in Nat \ {0}, NEW x \in Nat, NEW y \in Nat, x < y, y - x < n
  PROVE  x % n # y % n
  <1> DEFINE q == x \div n
             p == y \div n
  <1> SUFFICES ASSUME x % n = y % n PROVE FALSE
    OBVIOUS
  <1>1. q \in Nat /\ x = n * q + (x % n) /\ x % n \in 0 .. n - 1
    BY RoundAndPlace
  <1>2. p \in Nat /\ y = n * p + (y % n) /\ y % n \in 0 .. n - 1
    BY RoundAndPlace
  <1>3. y - x = n * (p - q)
    BY <1>1, <1>2
  <1>4. p - q \in Int /\ (p - q >= 1 => n * (p - q) >= n) /\ (p - q <= 0 => n * (p - q) <= 0)
    BY <1>1, <1>2
  <1>5. QED
    BY <1>3, <1>4

\* The index arithmetic of the request: going back d slots from the place of a
\* count, with one round added, is the place of the count less d.
LEMMA SlotBack ==
  ASSUME NEW n \in Nat \ {0}, NEW x \in Nat, NEW d \in 1 .. n, d <= x
  PROVE  ((x % n) - d + n) % n = (x - d) % n
  <1> DEFINE q == x \div n
             r == x % n
  <1>1. q \in Nat /\ r \in 0 .. n - 1 /\ x = n * q + r
    BY RoundAndPlace
  <1> HIDE DEF q, r
  <1>2. CASE r >= d
    <2>1. /\ x - d = n * q + (r - d) /\ r - d + n = n * 1 + (r - d)
          /\ r - d \in 0 .. n - 1
      BY <1>1, <1>2
    <2>2. (x - d) % n = r - d /\ (r - d + n) % n = r - d
      BY <1>1, <2>1, RestOfSum
    <2>3. QED
      BY <2>2 DEF r
  <1>3. CASE r < d
    <2>1. /\ x - d = n * (q - 1) + (r - d + n) /\ r - d + n = n * 0 + (r - d + n)
          /\ r - d + n \in 0 .. n - 1 /\ q - 1 \in Int
      BY <1>1, <1>3
    <2>2. (n * (q - 1) + (r - d + n)) % n = r - d + n
      BY <2>1, RestOfSum
    <2>3. (n * 0 + (r - d + n)) % n = r - d + n
      BY <2>1, RestOfSum
    <2>4. QED
      BY <2>1, <2>2, <2>3 DEF r
  <1>4. QED
    BY <1>1, <1>2, <1>3

\* When the count has come round, the ring in memory order is the last round.
LEMMA RoundStarts ==
  ASSUME NEW n \in Nat \ {0}, NEW x \in Nat \ {0}, x % n = 0
  PROVE  /\ x >= n
         /\ \A i \in 1 .. n : (x - n + i - 1) % n = i - 1
         /\ (x - n + 1) % n = 1 % n
  <1> DEFINE q == x \div n
  <1>1. q \in Nat /\ x = n * q
    BY RoundAndPlace
  <1> HIDE DEF q
  <1>2. q >= 1 /\ x - n = n * (q - 1) /\ q - 1 \in Nat
    BY <1>1
  <1>3. x >= n
    BY <1>1, <1>2
  <1>4. ASSUME NEW i \in 1 .. n PROVE (x - n + i - 1) % n = i - 1
    <2> DEFINE p == q - 1
               r == i - 1
    <2>1. p \in Int /\ r \in 0 .. n - 1 /\ x - n + i - 1 = n * p + r
      BY <1>2
    <2> HIDE DEF p, r
    <2>2. (n * p + r) % n = r
      BY <2>1, RestOfSum
    <2>3. (x - n + i - 1) % n = r
      BY <2>1, <2>2
    <2>4. QED
      BY <2>3 DEF r
  <1>5. (x - n + 1) % n = 1 % n
    <2>1. CASE n = 1
      BY <2>1
    <2>2. CASE n > 1
      <3>1. x - n + 1 = n * (q - 1) + 1 /\ 1 \in 0 .. n - 1 /\ 1 = n * 0 + 1
        BY <1>2, <2>2
      <3>2. (x - n + 1) % n = 1 /\ 1 % n = 1
        BY <1>2, <3>1, RestOfSum
      <3>3. QED
        BY <3>2
    <2>3. QED
      BY <2>1, <2>2
  <1>6. QED
    BY <1>3, <1>4, <1>5

-----------------------------------------------------------------------------
(***************************************************************************)
(* The members of a queue, first to last.                                  *)
(***************************************************************************)

LEMMA MembersAfterAppend ==
  ASSUME NEW S, NEW s \in Seq(S), NEW e \in S
  PROVE  Range(Append(s, e)) = Range(s) \union {e}
  <1>1. /\ DOMAIN s = 1 .. Len(s) /\ Len(s) \in Nat
        /\ DOMAIN Append(s, e) = 1 .. Len(s) + 1
        /\ \A i \in 1 .. Len(s) : Append(s, e)[i] = s[i]
        /\ Append(s, e)[Len(s) + 1] = e
    BY AppendProperties, LenProperties
  <1>2. ASSUME NEW i \in DOMAIN Append(s, e)
        PROVE  Append(s, e)[i] \in Range(s) \union {e}
    BY <1>1 DEF Range
  <1>3. ASSUME NEW i \in DOMAIN s PROVE s[i] \in Range(Append(s, e))
    BY <1>1 DEF Range
  <1>4. e \in Range(Append(s, e))
    BY <1>1 DEF Range
  <1>5. QED
    BY <1>2, <1>3, <1>4 DEF Range

LEMMA MembersAfterTake ==
  ASSUME NEW S, NEW s \in Seq(S), s # << >>
  PROVE  Head(s) \in Range(s) /\ Range(Tail(s)) \subseteq Range(s)
  <1>1. /\ DOMAIN s = 1 .. Len(s) /\ Len(s) \in Nat \ {0}
        /\ Tail(s) \in Seq(S) /\ Len(Tail(s)) = Len(s) - 1
        /\ \A i \in 1 .. Len(Tail(s)) : Tail(s)[i] = s[i + 1]
        /\ Head(s) = s[1]
    BY HeadTailProperties, DequeueType, LenProperties
  <1>2. DOMAIN Tail(s) = 1 .. Len(Tail(s))
    BY <1>1, LenProperties
  <1>3. Head(s) \in Range(s)
    BY <1>1 DEF Range
  <1>4. ASSUME NEW i \in DOMAIN Tail(s) PROVE Tail(s)[i] \in Range(s)
    <2>1. i \in 1 .. Len(s) - 1 /\ i + 1 \in DOMAIN s /\ Tail(s)[i] = s[i + 1]
      BY <1>1, <1>2
    <2>2. QED
      BY <2>1 DEF Range
  <1>5. QED
    BY <1>3, <1>4 DEF Range

LEMMA NoMembers ==
  ASSUME NEW S, NEW s \in Seq(S), Len(s) = 0
  PROVE  Range(s) = {}
  BY LenProperties DEF Range

-----------------------------------------------------------------------------
(***************************************************************************)
(* Training messages.  The ring of this life of the receiver holds its     *)
(* last ARR_SIZE heartbeats, heartbeat k in slot k - 1 counted round, and  *)
(* the slot that is written next is the count counted round.  A message is *)
(* sent where the count has come round, and is then the ring in memory     *)
(* order.  Messages of earlier lives stay in the queue as they are.        *)
(***************************************************************************)

RingOfLatest ==
  /\ next_avail = pkt_cnt % ARR_SIZE
  /\ \A k \in 1 .. pkt_cnt :
       pkt_cnt - k < ARR_SIZE => arr_timestamp[(k - 1) % ARR_SIZE] = k

TrainsWhenRound == pc = "train" => pkt_cnt # 0 /\ pkt_cnt % ARR_SIZE = 0

LEMMA RingAfterStore ==
  ASSUME TypeOK, RingOfLatest, pkt_cnt' = pkt_cnt + 1, Store(pkt_cnt')
  PROVE  RingOfLatest'
  <1>1. /\ pkt_cnt \in Nat /\ arr_timestamp \in [Slots -> Nat] /\ next_avail \in Slots
        /\ ARR_SIZE \in Nat \ {0}
    BY WindowSizes DEF TypeOK, ReceiverType, WindowType
  <1>2. /\ arr_timestamp' = [arr_timestamp EXCEPT ![next_avail] = pkt_cnt + 1]
        /\ next_avail' = (next_avail + 1) % ARR_SIZE
    BY DEF Store
  <1>3. next_avail' = pkt_cnt' % ARR_SIZE
    BY <1>1, <1>2, NextSlot DEF RingOfLatest
  <1>4. ASSUME NEW k \in 1 .. pkt_cnt + 1, (pkt_cnt + 1) - k < ARR_SIZE
        PROVE  arr_timestamp'[(k - 1) % ARR_SIZE] = k
    <2>1. CASE k = pkt_cnt + 1
      <3>1. k - 1 = pkt_cnt
        BY <1>1, <2>1
      <3>2. (k - 1) % ARR_SIZE = next_avail
        BY <3>1 DEF RingOfLatest
      <3>3. QED
        BY <1>1, <1>2, <2>1, <3>2
    <2>2. CASE k <= pkt_cnt
      <3>1. k - 1 \in Nat /\ k - 1 < pkt_cnt /\ pkt_cnt - (k - 1) < ARR_SIZE
        BY <1>1, <1>4, <2>2
      <3>2. (k - 1) % ARR_SIZE # next_avail
        BY <1>1, <3>1, DistinctSlots DEF RingOfLatest
      <3>3. k \in 1 .. pkt_cnt /\ pkt_cnt - k < ARR_SIZE
        BY <1>1, <1>4, <2>2
      <3>4. arr_timestamp[(k - 1) % ARR_SIZE] = k
        BY <3>3 DEF RingOfLatest
      <3>5. QED
        BY <1>1, <1>2, <3>2, <3>4
    <2>3. QED
      BY <1>1, <2>1, <2>2
  <1>5. QED
    BY <1>3, <1>4 DEF RingOfLatest

\* The message of a count that has come round.
LEMMA RoundBatch ==
  ASSUME TypeOK, RingOfLatest, pkt_cnt # 0, pkt_cnt % ARR_SIZE = 0,
         NEW b, b = TrainBatch(arr_timestamp)
  PROVE  /\ b[1] % ARR_SIZE = 1 % ARR_SIZE
         /\ \A i \in 1 .. ARR_SIZE : b[i] = b[1] + i - 1
  <1>1. pkt_cnt \in Nat \ {0} /\ ARR_SIZE \in Nat \ {0}
    BY WindowSizes DEF TypeOK, ReceiverType
  <1>2. /\ pkt_cnt >= ARR_SIZE
        /\ \A i \in 1 .. ARR_SIZE : (pkt_cnt - ARR_SIZE + i - 1) % ARR_SIZE = i - 1
        /\ (pkt_cnt - ARR_SIZE + 1) % ARR_SIZE = 1 % ARR_SIZE
    BY <1>1, RoundStarts
  <1>3. ASSUME NEW i \in 1 .. ARR_SIZE PROVE b[i] = pkt_cnt - ARR_SIZE + i
    <2> DEFINE k == pkt_cnt - ARR_SIZE + i
    <2>1. k \in 1 .. pkt_cnt /\ pkt_cnt - k < ARR_SIZE
      BY <1>1, <1>2
    <2>2. k - 1 = pkt_cnt - ARR_SIZE + i - 1
      BY <1>1
    <2>3. (pkt_cnt - ARR_SIZE + i - 1) % ARR_SIZE = i - 1
      BY <1>2
    <2> HIDE DEF k
    <2>4. (k - 1) % ARR_SIZE = i - 1
      BY <2>2, <2>3
    <2>5. arr_timestamp[i - 1] = k
      BY <2>1, <2>4 DEF RingOfLatest
    <2>6. b[i] = arr_timestamp[i - 1]
      BY DEF TrainBatch
    <2>7. QED
      BY <2>5, <2>6 DEF k
  <1>4. 1 \in 1 .. ARR_SIZE
    BY <1>1
  <1>5. b[1] = pkt_cnt - ARR_SIZE + 1
    BY <1>3, <1>4
  <1>6. QED
    BY <1>1, <1>2, <1>3, <1>5

BatchInv == RingOfLatest /\ TrainsWhenRound /\ BatchesConsecutive

\* The steps that leave ring and count alone and do not begin to train keep the
\* ring, and those that put nothing into the training queue its messages.
LEMMA RingKept ==
  ASSUME RingOfLatest, TrainsWhenRound, UNCHANGED <<windowVars, pkt_cnt>>,
         pc' = pc \/ pc' # "train"
  PROVE  RingOfLatest' /\ TrainsWhenRound'
  BY DEF RingOfLatest, TrainsWhenRound, windowVars

LEMMA BatchesKept ==
  ASSUME BatchesConsecutive, Range(train_mq') \subseteq Range(train_mq)
  PROVE  BatchesConsecutive'
  BY DEF BatchesConsecutive

LEMMA BatchInvStep == TypeOK /\ BatchInv /\ [Next]_vars => BatchInv'
  <1> SUFFICES ASSUME TypeOK, BatchInv, [Next]_vars PROVE BatchInv'
    OBVIOUS
  <1> USE DEF BatchInv
  <1>1. CASE UNCHANGED <<windowVars, pkt_cnt, train_mq>> /\ (pc' = pc \/ pc' # "train")
    BY <1>1, RingKept, BatchesKept
  <1>2. CASE StoreHeartbeat
    <2>1. RingOfLatest'
      BY <1>2, RingAfterStore DEF StoreHeartbeat
    <2>2. TrainsWhenRound'
      <3>1. pkt_cnt' = pkt_cnt + 1 /\ pkt_cnt \in Nat
        BY <1>2 DEF StoreHeartbeat, TypeOK, ReceiverType
      <3>2. pc' = "train" => pkt_cnt' % ARR_SIZE = 0
        BY <1>2 DEF StoreHeartbeat
      <3>3. QED
        BY <3>1, <3>2 DEF TrainsWhenRound
    <2>3. BatchesConsecutive'
      BY <1>2, BatchesKept DEF StoreHeartbeat, queueVars
    <2>4. QED
      BY <2>1, <2>2, <2>3
  <1>3. CASE SendTrain
    <2>1. RingOfLatest' /\ TrainsWhenRound'
      BY <1>3, RingKept DEF SendTrain
    <2>2. CASE UNCHANGED train_mq
      BY <2>1, <2>2, BatchesKept
    <2>3. CASE train_mq' = Append(train_mq, TrainBatch(arr_timestamp))
      <3> DEFINE b == TrainBatch(arr_timestamp)
      <3>1. Range(train_mq') = Range(train_mq) \union {b}
        BY <2>3, MessageTypes, MembersAfterAppend DEF TypeOK, QueueType
      <3>2. /\ b[1] % ARR_SIZE = 1 % ARR_SIZE
            /\ \A i \in 1 .. ARR_SIZE : b[i] = b[1] + i - 1
        BY <1>3, RoundBatch DEF SendTrain, TrainsWhenRound
      <3> HIDE DEF b
      <3>3. BatchesConsecutive'
        BY <3>1, <3>2 DEF BatchesConsecutive
      <3>4. QED
        BY <2>1, <3>3
    <2>4. QED
      BY <1>3, <2>2, <2>3 DEF SendTrain
  <1>4. CASE Collect
    <2>1. Range(train_mq') \subseteq Range(train_mq)
      BY <1>4, MembersAfterTake DEF Collect, TypeOK, QueueType
    <2>2. QED
      BY <1>4, <2>1, RingKept, BatchesKept DEF Collect, detectorVars, receiverVars
  <1>5. CASE RestartReceiver
    <2>1. RingOfLatest'
      BY <1>5, WindowSizes DEF RestartReceiver, ClearWindow, RingOfLatest
    <2>2. QED
      BY <1>5, <2>1, BatchesKept DEF RestartReceiver, TrainsWhenRound, queueVars
  <1>6. CASE \/ OpenQueue \/ Poll \/ ManageTimer \/ DropPacket \/ ReadControl \/ SkipControl
             \/ SendInfer \/ ExitOnResult \/ SkipReply \/ UsePrediction
    BY <1>1, <1>6
    DEF OpenQueue, Poll, ManageTimer, DropPacket, ReadControl, SkipControl, SendInfer,
        ExitOnResult, SkipReply, UsePrediction, FinishPacket, receiverVars, queueVars
  <1>7. CASE \/ TrainerCreates \/ Fit \/ Inference \/ Tick \/ RestartBackend
             \/ UNCHANGED vars \/ \E kind \in PacketKinds : Arrive(kind)
    BY <1>1, <1>7
    DEF TrainerCreates, Fit, Inference, InferenceCreates, FirstParams, Announce, Refresh,
        Serve, Predict, Tick, RestartBackend, Arrive, vars, detectorVars, receiverVars, queueVars
  <1>8. QED
    BY <1>2, <1>3, <1>4, <1>5, <1>6, <1>7 DEF Next, Receiver, Trainer

\* Whatever blocks or restarts, every training message in the queue is a round
\* of consecutive heartbeats of one life of the receiver, and no round overlaps
\* another of the same life.
THEOREM BatchesAreRounds == Spec => []BatchesConsecutive
  <1>1. Init => BatchInv
    <2> SUFFICES ASSUME Init PROVE BatchInv
      OBVIOUS
    <2>1. RingOfLatest /\ TrainsWhenRound
      BY WindowSizes DEF Init, WindowInit, RingOfLatest, TrainsWhenRound
    <2>2. Range(train_mq) = {}
      BY DEF Init, Range
    <2>3. QED
      BY <2>1, <2>2 DEF BatchInv, BatchesConsecutive
  <1>2. TypeOK /\ BatchInv /\ [Next]_vars => BatchInv'
    BY BatchInvStep
  <1>3. BatchInv => BatchesConsecutive
    BY DEF BatchInv
  <1>4. QED
    BY <1>1, <1>2, <1>3, TypeCorrect, PTL DEF Spec

-----------------------------------------------------------------------------
(***************************************************************************)
(* Requests and replies.  Only SendInfer makes a request, and every reply  *)
(* carries the number of a request or reply that was there before.         *)
(***************************************************************************)

LEMMA OnlyAnswersArise ==
  ASSUME TypeOK, [Next]_vars, ~SendInfer
  PROVE  /\ OpenRequests' \subseteq OpenRequests
         /\ \A r \in Range(result_mq') :
              \E q \in OpenRequests \union Range(result_mq) : q.id = r.id
  <1>1. CASE UNCHANGED <<infer_mq, result_mq, request>>
             /\ (inference' = "predict" => inference = "predict")
    BY <1>1 DEF OpenRequests
  <1>2. CASE SkipReply \/ UsePrediction
    <2>1. Range(result_mq') \subseteq Range(result_mq)
      BY <1>2, MembersAfterTake DEF SkipReply, UsePrediction, TypeOK, QueueType
    <2>2. UNCHANGED <<infer_mq, inference, request>>
      BY <1>2 DEF SkipReply, UsePrediction, backendVars, inferenceVars
    <2>3. QED
      BY <2>1, <2>2 DEF OpenRequests
  <1>3. CASE Serve
    <2>1. Head(infer_mq) \in Range(infer_mq) /\ Range(infer_mq') \subseteq Range(infer_mq)
      BY <1>3, MembersAfterTake DEF Serve, TypeOK, QueueType
    <2>2. inference # "predict" /\ request' = Head(infer_mq) /\ result_mq' = result_mq
      BY <1>3 DEF Serve
    <2>3. QED
      BY <2>1, <2>2 DEF OpenRequests
  <1>4. CASE Predict
    <2>1. inference = "predict" /\ inference' # "predict" /\ infer_mq' = infer_mq
      BY <1>4 DEF Predict
    <2>2. request \in OpenRequests
      BY <2>1 DEF OpenRequests
    <2>3. PICK due \in Predictions :
             \/ result_mq' = result_mq
             \/ due # Negative /\ result_mq' = Append(result_mq, [id |-> request.id, due |-> due])
      BY <1>4 DEF Predict
    <2>4. CASE result_mq' = result_mq
      BY <2>1, <2>4 DEF OpenRequests
    <2>5. CASE due # Negative /\ result_mq' = Append(result_mq, [id |-> request.id, due |-> due])
      <3>1. [id |-> request.id, due |-> due] \in Replies
        BY <2>5, DetectorConstants DEF TypeOK, BackendType, Requests, Replies
      <3>2. Range(result_mq') = Range(result_mq) \union {[id |-> request.id, due |-> due]}
        BY <2>5, <3>1, MembersAfterAppend DEF TypeOK, QueueType
      <3>3. QED
        BY <2>1, <2>2, <3>2 DEF OpenRequests
    <2>6. QED
      BY <2>3, <2>4, <2>5
  <1>5. CASE Tick
    <2>1. DOMAIN result_mq = 1 .. Len(result_mq)
          /\ \A i \in DOMAIN result_mq : result_mq[i] \in Replies
      BY LenProperties, ElementOfSeq DEF TypeOK, QueueType
    <2>2. ASSUME NEW i \in DOMAIN result_mq
          PROVE  Aged(result_mq[i]).id = result_mq[i].id
      BY <2>1 DEF Aged, Replies
    <2>3. result_mq' = [i \in DOMAIN result_mq |-> Aged(result_mq[i])]
      BY <1>5 DEF Tick
    <2>4. \A r \in Range(result_mq') : \E q \in Range(result_mq) : q.id = r.id
      BY <2>2, <2>3 DEF Range
    <2>5. UNCHANGED <<infer_mq, inference, request>>
      BY <1>5 DEF Tick, backendVars, inferenceVars
    <2>6. QED
      BY <2>4, <2>5 DEF OpenRequests
  <1>6. CASE RestartBackend
    BY <1>6 DEF RestartBackend, OpenRequests, queueVars
  <1>7. CASE \/ OpenQueue \/ Poll \/ ManageTimer \/ DropPacket \/ StoreHeartbeat \/ SendTrain
             \/ ReadControl \/ SkipControl \/ ExitOnResult \/ RestartReceiver
             \/ UNCHANGED vars \/ \E kind \in PacketKinds : Arrive(kind)
    BY <1>1, <1>7
    DEF OpenQueue, Poll, ManageTimer, DropPacket, StoreHeartbeat, SendTrain, ReadControl,
        SkipControl, ExitOnResult, RestartReceiver, Arrive, vars, queueVars, backendVars,
        inferenceVars
  <1>8. CASE TrainerCreates \/ Collect \/ Fit \/ InferenceCreates \/ FirstParams \/ Announce
             \/ Refresh
    <2>1. UNCHANGED <<infer_mq, result_mq, request>>
      BY <1>8
      DEF TrainerCreates, Collect, Fit, InferenceCreates, FirstParams, Announce, Refresh,
          queueVars, inferenceVars
    <2>2. inference' = "predict" => inference = "predict"
      BY <1>8
      DEF TrainerCreates, Collect, Fit, InferenceCreates, FirstParams, Announce, Refresh,
          inferenceVars
    <2>3. QED
      BY <1>1, <2>1, <2>2
  <1>9. QED
    BY <1>2, <1>3, <1>4, <1>5, <1>6, <1>7, <1>8 DEF Next, Receiver, Trainer, Inference

\* The request that SendInfer makes is the only new one.
LEMMA OneRequestArises ==
  ASSUME TypeOK, SendInfer
  PROVE  /\ result_mq' = result_mq
         /\ OpenRequests' \subseteq OpenRequests \union
              {[id |-> pkt_cnt, window |-> InferWindow(arr_timestamp, next_avail)]}
  <1> DEFINE r == [id |-> pkt_cnt, window |-> InferWindow(arr_timestamp, next_avail)]
  <1>1. r \in Requests
    BY MessageTypes DEF TypeOK, ReceiverType, Requests
  <1>2. infer_mq' = infer_mq \/ infer_mq' = Append(infer_mq, r)
    BY DEF SendInfer
  <1> HIDE DEF r
  <1>3. Range(infer_mq') \subseteq Range(infer_mq) \union {r}
    BY <1>1, <1>2, MembersAfterAppend DEF TypeOK, QueueType
  <1>4. UNCHANGED <<result_mq, inference, request>>
    BY DEF SendInfer, backendVars, inferenceVars
  <1>5. QED
    BY <1>3, <1>4 DEF OpenRequests, r

\* A receiver that does not wait, in its first life, has nothing in flight.
LEMMA NothingOpen ==
  ASSUME TypeOK, FlightInv, MaxReceiverRestarts = 0, pc \notin {"await", "exited"}
  PROVE  OpenRequests = {} /\ Range(result_mq) = {}
  <1>1. receiver_restarts = 0
    BY DEF TypeOK, RestartType
  <1>2. InFlight = 0
    BY <1>1, InFlightNat DEF FlightInv
  <1>3. Len(infer_mq) = 0 /\ Len(result_mq) = 0 /\ inference # "predict"
    BY <1>2, InFlightNat DEF InFlight
  <1>4. QED
    BY <1>3, NoMembers DEF OpenRequests, TypeOK, QueueType

RequestsCurrent == \A r \in OpenRequests \union Range(result_mq) : r.id = pkt_cnt

\* While the receiver is not restarted, the reply it takes is the answer to the
\* heartbeat in hand, however the two programs interleave and whether or not the
\* backend is restarted.
THEOREM RepliesAreCurrent ==
  ASSUME MaxReceiverRestarts = 0 PROVE Spec => []InFlightIsCurrent
  <1>1. Init => RequestsCurrent /\ FlightInv
    BY EmptySeq DEF Init, RequestsCurrent, OpenRequests, FlightInv, InFlight, Range
  <1>2. TypeOK /\ FlightInv /\ RequestsCurrent /\ [Next]_vars => RequestsCurrent'
    <2> SUFFICES ASSUME TypeOK, FlightInv, RequestsCurrent, [Next]_vars
                 PROVE  RequestsCurrent'
      OBVIOUS
    <2>1. CASE pkt_cnt' = pkt_cnt /\ ~SendInfer
      BY <2>1, OnlyAnswersArise DEF RequestsCurrent
    <2>2. CASE SendInfer
      <3>1. OpenRequests = {} /\ Range(result_mq) = {}
        BY <2>2, NothingOpen DEF SendInfer
      <3>2. pkt_cnt' = pkt_cnt
        BY <2>2 DEF SendInfer
      <3>3. QED
        BY <2>2, <3>1, <3>2, OneRequestArises DEF RequestsCurrent
    <2>3. CASE StoreHeartbeat
      <3>1. OpenRequests = {} /\ Range(result_mq) = {} /\ ~SendInfer
        BY <2>3, NothingOpen DEF StoreHeartbeat, SendInfer
      <3>2. QED
        BY <3>1, OnlyAnswersArise DEF RequestsCurrent
    <2>4. ~RestartReceiver
      BY DEF RestartReceiver, TypeOK, RestartType
    <2>5. CASE \/ OpenQueue \/ Poll \/ ManageTimer \/ DropPacket \/ SendTrain \/ ReadControl
               \/ SkipControl \/ ExitOnResult \/ SkipReply \/ UsePrediction \/ Trainer
               \/ Inference \/ Tick \/ RestartBackend \/ UNCHANGED vars
               \/ \E kind \in PacketKinds : Arrive(kind)
      <3>1. pkt_cnt' = pkt_cnt
        BY <2>5
        DEF OpenQueue, Poll, ManageTimer, DropPacket, SendTrain, ReadControl, SkipControl,
            ExitOnResult, SkipReply, UsePrediction, Trainer, TrainerCreates, Collect, Fit,
            Inference, InferenceCreates, FirstParams, Announce, Refresh, Serve, Predict, Tick,
            RestartBackend, Arrive, vars, detectorVars, receiverVars
      <3>2. QED
        BY <2>1, <2>2, <3>1
    <2>6. QED
      BY <2>2, <2>3, <2>4, <2>5 DEF Next, Receiver
  <1>3. TypeOK /\ FlightInv /\ RequestsCurrent => InFlightIsCurrent
    <2> SUFFICES ASSUME TypeOK, FlightInv, RequestsCurrent PROVE InFlightIsCurrent
      OBVIOUS
    <2>1. receiver_restarts = 0
      BY DEF TypeOK, RestartType
    <2>2. InFlight > 0 => pc \in {"await", "exited"}
      BY <2>1, InFlightNat DEF FlightInv
    <2>3. QED
      BY <2>2 DEF InFlightIsCurrent, RequestsCurrent
  <1>4. QED
    BY <1>1, <1>2, <1>3, FlightInvStep, TypeCorrect, PTL DEF Spec

-----------------------------------------------------------------------------
(***************************************************************************)
(* The receive loop waits for other programs in four places: for room in   *)
(* the training queue, for room in the request queue, for the announcement *)
(* (without blocking) and for the reply, with no timeout anywhere.  Where  *)
(* the documentation is followed, the message fits and no prediction is    *)
(* zero or negative, it never ends and never waits in vain: what it waits  *)
(* for is always something another process is about to do.                 *)
(***************************************************************************)

\* The receiver opens the queues in one order, and none before it exists.
OpenedInOrder ==
  opened = IF pc = "open" THEN {OpenOrder[i] : i \in 1 .. next_open - 1} ELSE QueueNames

LEMMA FourQueues ==
  /\ \A i \in 1 .. 4 : OpenOrder[i] \in QueueNames
  /\ {"train", "control", "infer", "result"} \subseteq QueueNames
  <1>1. /\ OpenOrder[1] = "train" /\ OpenOrder[2] = "control"
        /\ OpenOrder[3] = "infer" /\ OpenOrder[4] = "result"
    BY DEF OpenOrder
  <1>2. \A i \in 1 .. 4 : OpenOrder[i] \in QueueNames
    BY DEF QueueNames
  <1>3. 1 \in 1 .. 4 /\ 2 \in 1 .. 4 /\ 3 \in 1 .. 4 /\ 4 \in 1 .. 4
    OBVIOUS
  <1>4. QED
    BY <1>1, <1>2, <1>3

LEMMA OpenedInOrderStep ==
  ASSUME DocumentedStart, LOOK_BACK + 1 <= INFER_MSG_WORDS
  PROVE  TypeOK /\ ReceiverKeepsRunning /\ OpenedInOrder /\ [Next]_vars
           => ReceiverKeepsRunning' /\ OpenedInOrder'
  <1> SUFFICES ASSUME TypeOK, ReceiverKeepsRunning, OpenedInOrder, [Next]_vars
               PROVE  ReceiverKeepsRunning' /\ OpenedInOrder'
    OBVIOUS
  <1> USE DEF ReceiverKeepsRunning
  <1>1. CASE UNCHANGED <<opened, next_open>>
             /\ (pc' = pc \/ (pc # "open" /\ pc' \notin {"open", "exited"}))
    BY <1>1 DEF OpenedInOrder
  <1>2. CASE OpenQueue
    <2>1. pc = "open" /\ next_open \in 1 .. 4 /\ existing = QueueNames
      BY <1>2 DEF OpenQueue, TypeOK, ReceiverType
    <2>2. OpenOrder[next_open] \in QueueNames
      BY <2>1, FourQueues
    <2>3. opened' = {OpenOrder[i] : i \in 1 .. next_open - 1} \union {OpenOrder[next_open]}
      BY <1>2, <2>1, <2>2 DEF OpenQueue, OpenedInOrder
    <2>4. opened' = {OpenOrder[i] : i \in 1 .. next_open}
      <3>1. \A i : i \in 1 .. next_open <=> i \in 1 .. next_open - 1 \/ i = next_open
        BY <2>1
      <3>2. QED
        BY <2>3, <3>1
    <2>5. CASE next_open < 4
      <3>1. next_open' = next_open + 1 /\ pc' = "open"
        BY <1>2, <2>1, <2>5 DEF OpenQueue
      <3>2. next_open' - 1 = next_open
        BY <2>1, <3>1
      <3>3. QED
        BY <2>4, <3>1, <3>2 DEF OpenedInOrder
    <2>6. CASE next_open = 4
      BY <1>2, <2>1, <2>4, <2>6 DEF OpenQueue, OpenedInOrder, QueueNames
    <2>7. QED
      BY <2>1, <2>5, <2>6
  <1>3. CASE RestartReceiver
    <2>1. pc' = "open" /\ next_open' = 1 /\ opened' = {}
      BY <1>3 DEF RestartReceiver
    <2>2. 1 .. next_open' - 1 = {}
      BY <2>1
    <2>3. QED
      BY <2>1, <2>2 DEF OpenedInOrder
  <1>4. pc # "open" => {"train", "control", "infer", "result"} \subseteq opened
    BY FourQueues DEF OpenedInOrder
  <1>5. CASE SendTrain
    BY <1>1, <1>4, <1>5 DEF SendTrain
  <1>6. CASE SendInfer
    <2>1. ~(LOOK_BACK + 1 > INFER_MSG_WORDS)
      BY DetectorConstants, WindowSizes
    <2>2. QED
      BY <1>1, <1>4, <1>6, <2>1 DEF SendInfer
  <1>7. ~ExitOnResult
    BY <1>4 DEF ExitOnResult
  <1>8. CASE \/ Poll \/ ManageTimer \/ DropPacket \/ StoreHeartbeat \/ ReadControl
             \/ SkipControl \/ SkipReply \/ UsePrediction
    BY <1>1, <1>8
    DEF Poll, ManageTimer, DropPacket, StoreHeartbeat, ReadControl, SkipControl, SkipReply,
        UsePrediction, FinishPacket, receiverVars
  <1>9. CASE \/ Trainer \/ Inference \/ Tick \/ RestartBackend \/ UNCHANGED vars
             \/ \E kind \in PacketKinds : Arrive(kind)
    BY <1>1, <1>9
    DEF Trainer, TrainerCreates, Collect, Fit, Inference, InferenceCreates, FirstParams,
        Announce, Refresh, Serve, Predict, Tick, RestartBackend, Arrive, vars, detectorVars,
        receiverVars
  <1>10. QED
    BY <1>2, <1>3, <1>5, <1>6, <1>7, <1>8, <1>9 DEF Next, Receiver

LEMMA OpenedInOrderInit == Init => ReceiverKeepsRunning /\ OpenedInOrder
  <1> SUFFICES ASSUME Init PROVE ReceiverKeepsRunning /\ OpenedInOrder
    OBVIOUS
  <1>1. pc = "open" /\ next_open = 1 /\ opened = {}
    BY DEF Init
  <1>2. 1 .. next_open - 1 = {}
    BY <1>1
  <1>3. QED
    BY <1>1, <1>2 DEF ReceiverKeepsRunning, OpenedInOrder

\* A receiver started after the backend, whose requests fit the messages of
\* their queue, never ends by itself, whichever program is restarted.
THEOREM ReceiverNeverEnds ==
  ASSUME DocumentedStart, LOOK_BACK + 1 <= INFER_MSG_WORDS
  PROVE  Spec => []ReceiverKeepsRunning
  <1>1. Init => ReceiverKeepsRunning /\ OpenedInOrder
    BY OpenedInOrderInit
  <1>2. TypeOK /\ ReceiverKeepsRunning /\ OpenedInOrder /\ [Next]_vars
          => ReceiverKeepsRunning' /\ OpenedInOrder'
    BY OpenedInOrderStep
  <1>3. QED
    BY <1>1, <1>2, TypeCorrect, PTL DEF Spec

\* One life of each program, and a model whose predictions can be packed and
\* are not 0.
OneLife == MaxReceiverRestarts = 0 /\ MaxBackendRestarts = 0
Regular == Predictions \subseteq Ticks \union {Late}

\* The training queue exists only when somebody reads it, and the receive loop
\* starts only when that queue exists.
TrainerIsUp ==
  trainer \notin {"collect", "fit"} => "train" \notin existing /\ pc = "open"

LEMMA TrainerIsUpStep ==
  ASSUME DocumentedStart, OneLife
  PROVE  TypeOK /\ TrainerIsUp /\ [Next]_vars => TrainerIsUp'
  <1> SUFFICES ASSUME TypeOK, TrainerIsUp, [Next]_vars PROVE TrainerIsUp'
    OBVIOUS
  <1> USE DEF TrainerIsUp
  <1>1. CASE UNCHANGED <<trainer, existing>> /\ (pc' = pc \/ pc # "open")
    BY <1>1
  <1>2. CASE OpenQueue
    <2>1. "train" \in existing
      BY <1>2, FourQueues DEF OpenQueue
    <2>2. QED
      BY <1>2, <2>1 DEF OpenQueue, queueVars, backendVars, trainerVars
  <1>3. CASE TrainerCreates
    BY <1>3 DEF TrainerCreates, detectorVars, receiverVars
  <1>4. CASE InferenceCreates
    BY <1>4 DEF InferenceCreates, detectorVars, receiverVars, trainerVars
  <1>5. CASE Collect \/ Fit
    BY <1>5 DEF Collect, Fit
  <1>6. ~RestartReceiver /\ ~RestartBackend
    BY DEF OneLife, RestartReceiver, RestartBackend, TypeOK, RestartType
  <1>7. CASE \/ Poll \/ ManageTimer \/ DropPacket \/ StoreHeartbeat \/ SendTrain \/ ReadControl
             \/ SkipControl \/ SendInfer \/ ExitOnResult \/ SkipReply \/ UsePrediction
    BY <1>1, <1>7
    DEF Poll, ManageTimer, DropPacket, StoreHeartbeat, SendTrain, ReadControl, SkipControl,
        SendInfer, ExitOnResult, SkipReply, UsePrediction, receiverVars, queueVars,
        backendVars, trainerVars
  <1>8. CASE \/ FirstParams \/ Announce \/ Refresh \/ Serve \/ Predict \/ Tick \/ UNCHANGED vars
             \/ \E kind \in PacketKinds : Arrive(kind)
    BY <1>1, <1>8
    DEF FirstParams, Announce, Refresh, Serve, Predict, Tick, Arrive, vars, detectorVars,
        receiverVars, queueVars, backendVars, trainerVars
  <1>9. QED
    BY <1>2, <1>3, <1>4, <1>5, <1>6, <1>7, <1>8 DEF Next, Receiver, Trainer, Inference

\* While the receiver waits, exactly one request or reply is between the two
\* programs, in the hands of a process that is alive; and no reply is one the
\* receiver would take for none.
AnswerOnItsWay ==
  /\ InFlight = IF pc = "await" THEN 1 ELSE 0
  /\ pc \in {"infer", "await"} => ready_to_infer = 1
  /\ inference # "dead"
  /\ \A i \in DOMAIN result_mq : result_mq[i].due # Zero

\* Ageing turns no prediction into 0.
LEMMA AgedIsNotZero ==
  ASSUME NEW reply \in Replies, reply.due # Zero PROVE Aged(reply).due # Zero
  <1>1. CASE Pending(reply)
    <2>1. WORD \in Nat \ {0} /\ reply.due \in 0 .. WORD - 1
      BY <1>1, TimerConstants DEF Pending, Ticks
    <2>2. Aged(reply) = [reply EXCEPT !.due = reply.due - 1]
      BY <1>1 DEF Aged
    <2>3. Aged(reply).due = reply.due - 1
      BY <2>2 DEF Replies
    <2>4. QED
      BY <2>1, <2>3 DEF Zero
  <1>2. CASE ~Pending(reply)
    BY <1>2 DEF Aged
  <1>3. QED
    BY <1>1, <1>2

LEMMA ReadyFlagStep ==
  ASSUME MaxReceiverRestarts = 0
  PROVE  /\ TypeOK /\ (pc \in {"infer", "await"} => ready_to_infer = 1) /\ [Next]_vars
         => (pc \in {"infer", "await"} => ready_to_infer = 1)'
  <1> SUFFICES ASSUME TypeOK, pc \in {"infer", "await"} => ready_to_infer = 1, [Next]_vars,
                      pc' \in {"infer", "await"}
               PROVE  ready_to_infer' = 1
    OBVIOUS
  <1>1. CASE pc' = pc /\ ready_to_infer' = ready_to_infer
    BY <1>1
  <1>2. CASE ReadControl \/ SkipControl \/ SendInfer
    BY <1>2 DEF ReadControl, SkipControl, SendInfer, FinishPacket
  <1>3. CASE \/ OpenQueue \/ Poll \/ ManageTimer \/ DropPacket \/ StoreHeartbeat \/ SendTrain
             \/ ExitOnResult \/ SkipReply \/ UsePrediction
    BY <1>1, <1>3
    DEF OpenQueue, Poll, ManageTimer, DropPacket, StoreHeartbeat, SendTrain, ExitOnResult,
        SkipReply, UsePrediction, FinishPacket, receiverVars
  <1>4. ~RestartReceiver
    BY DEF RestartReceiver, TypeOK, RestartType
  <1>5. CASE \/ Trainer \/ Inference \/ Tick \/ RestartBackend \/ UNCHANGED vars
             \/ \E kind \in PacketKinds : Arrive(kind)
    BY <1>1, <1>5
    DEF Trainer, TrainerCreates, Collect, Fit, Inference, InferenceCreates, FirstParams,
        Announce, Refresh, Serve, Predict, Tick, RestartBackend, Arrive, vars, detectorVars,
        receiverVars
  <1>6. QED
    BY <1>2, <1>3, <1>4, <1>5 DEF Next, Receiver

\* With one in flight, and the two queues and the process the places to be.
LEMMA WhereTheAnswerIs ==
  ASSUME TypeOK, AnswerOnItsWay
  PROVE  /\ pc = "await" =>
              \/ /\ infer_mq # << >> /\ result_mq = << >> /\ inference # "predict"
              \/ /\ infer_mq = << >> /\ result_mq = << >> /\ inference = "predict"
              \/ /\ infer_mq = << >> /\ result_mq # << >> /\ inference # "predict"
         /\ pc # "await" =>
              infer_mq = << >> /\ result_mq = << >> /\ inference # "predict"
  <1>1. Len(infer_mq) \in Nat /\ Len(result_mq) \in Nat
    BY InFlightNat
  <1>2. /\ infer_mq = << >> <=> Len(infer_mq) = 0
        /\ result_mq = << >> <=> Len(result_mq) = 0
    BY EmptySeq DEF TypeOK, QueueType
  <1>3. CASE inference = "predict"
    BY <1>1, <1>2, <1>3 DEF AnswerOnItsWay, InFlight
  <1>4. CASE inference # "predict"
    BY <1>1, <1>2, <1>4 DEF AnswerOnItsWay, InFlight
  <1>5. QED
    BY <1>3, <1>4

\* The receiver never throws the reply away that it waits for.
LEMMA RepliesAreUsable ==
  ASSUME TypeOK, InFlightIsCurrent, AnswerOnItsWay, result_mq # << >>
  PROVE  /\ Head(result_mq) \in Replies
         /\ Head(result_mq).id = pkt_cnt /\ Head(result_mq).due # Zero
  <1>1. Head(result_mq) \in Replies /\ Head(result_mq) = result_mq[1]
        /\ 1 \in DOMAIN result_mq
    BY DequeueType, LenProperties DEF TypeOK, QueueType
  <1>2. Head(result_mq) \in Range(result_mq)
    BY <1>1 DEF Range
  <1>3. QED
    BY <1>1, <1>2 DEF InFlightIsCurrent, AnswerOnItsWay

\* The replies that remain after the first was taken are replies that were there.
LEMMA RestIsNotZero ==
  ASSUME TypeOK, AnswerOnItsWay, result_mq # << >>
  PROVE  \A i \in DOMAIN Tail(result_mq) : Tail(result_mq)[i].due # Zero
  <1>1. Tail(result_mq) \in Seq(Replies) /\ Len(result_mq) \in Nat \ {0}
        /\ Len(Tail(result_mq)) = Len(result_mq) - 1
    BY DequeueType DEF TypeOK, QueueType
  <1>2. DOMAIN result_mq = 1 .. Len(result_mq)
        /\ DOMAIN Tail(result_mq) = 1 .. Len(result_mq) - 1
    BY <1>1, LenProperties DEF TypeOK, QueueType
  <1>3. \A i \in 1 .. Len(result_mq) - 1 :
          Tail(result_mq)[i] = result_mq[i + 1] /\ i + 1 \in DOMAIN result_mq
    BY <1>1, <1>2, HeadTailProperties DEF TypeOK, QueueType
  <1>4. QED
    BY <1>2, <1>3 DEF AnswerOnItsWay

LEMMA AnswerOnItsWayStep ==
  ASSUME OneLife, Regular
  PROVE  TypeOK /\ ReceiverKeepsRunning /\ InFlightIsCurrent /\ ReadyInv /\ AnswerOnItsWay
           /\ [Next]_vars /\ ReceiverKeepsRunning' => AnswerOnItsWay'
  <1> SUFFICES ASSUME TypeOK, ReceiverKeepsRunning, InFlightIsCurrent, ReadyInv,
                      AnswerOnItsWay, [Next]_vars, ReceiverKeepsRunning'
               PROVE  AnswerOnItsWay'
    OBVIOUS
  <1>1. (pc \in {"infer", "await"} => ready_to_infer = 1)'
    BY ReadyFlagStep DEF OneLife, AnswerOnItsWay
  <1>2. /\ InFlight = IF pc = "await" THEN 1 ELSE 0
        /\ inference # "dead"
        /\ \A i \in DOMAIN result_mq : result_mq[i].due # Zero
    BY DEF AnswerOnItsWay
  <1>3. CASE UNCHANGED <<infer_mq, result_mq, inference>>
             /\ (pc' = pc \/ (pc # "await" /\ pc' # "await"))
    BY <1>1, <1>2, <1>3 DEF AnswerOnItsWay, InFlight
  <1>4. CASE SendInfer
    <2>1. pc = "infer" /\ pc' = "await" /\ UNCHANGED <<result_mq, inference>>
      BY <1>4 DEF SendInfer, backendVars, inferenceVars, ReceiverKeepsRunning
    <2>2. Len(infer_mq') = Len(infer_mq) + 1
      BY <1>4, <2>1, MessageTypes, EnqueueType
      DEF SendInfer, TypeOK, QueueType, ReceiverType, Requests
    <2>3. InFlight' = InFlight + 1
      BY <2>1, <2>2, InFlightNat DEF InFlight
    <2>4. QED
      BY <1>1, <1>2, <2>1, <2>3 DEF AnswerOnItsWay
  <1>5. ~SkipReply
    BY RepliesAreUsable DEF SkipReply
  <1>6. CASE UsePrediction
    <2>1. /\ result_mq # << >> /\ result_mq' = Tail(result_mq)
          /\ UNCHANGED <<infer_mq, inference>>
          /\ pc = "await" /\ pc' # "await"
      BY <1>6 DEF UsePrediction, FinishPacket, backendVars, inferenceVars
    <2>2. Len(result_mq') = Len(result_mq) - 1
      BY <2>1, DequeueType DEF TypeOK, QueueType
    <2>3. InFlight' = InFlight - 1
      BY <2>1, <2>2, InFlightNat DEF InFlight
    <2>4. \A i \in DOMAIN result_mq' : result_mq'[i].due # Zero
      BY <2>1, RestIsNotZero
    <2>5. QED
      BY <1>1, <1>2, <2>1, <2>3, <2>4 DEF AnswerOnItsWay
  <1>7. CASE Serve
    <2>1. /\ infer_mq # << >> /\ infer_mq' = Tail(infer_mq)
          /\ inference = "serve" /\ inference' = "predict"
          /\ UNCHANGED <<result_mq, pc>>
      BY <1>7 DEF Serve, detectorVars, receiverVars
    <2>2. Len(infer_mq') = Len(infer_mq) - 1
      BY <2>1, DequeueType DEF TypeOK, QueueType
    <2>3. InFlight' = InFlight
      BY <2>1, <2>2, InFlightNat DEF InFlight
    <2>4. QED
      BY <1>1, <1>2, <2>1, <2>3 DEF AnswerOnItsWay
  <1>8. CASE Predict
    <2>1. PICK due \in Predictions :
            IF due = Negative
            THEN inference' = "dead"
            ELSE /\ result_mq' = Append(result_mq, [id |-> request.id, due |-> due])
                 /\ inference' = "refresh"
      BY <1>8 DEF Predict
    <2>2. due \in Ticks \union {Late}
      BY DEF Regular
    <2>3. due # Negative /\ due # Zero
      BY <2>2, TimerConstants DEF Ticks, Late, Negative, Zero
    <2>4. [id |-> request.id, due |-> due] \in Replies
      BY <2>2 DEF TypeOK, BackendType, Requests, Replies
    <2>5. /\ result_mq' = Append(result_mq, [id |-> request.id, due |-> due])
          /\ inference = "predict" /\ inference' = "refresh"
          /\ UNCHANGED <<infer_mq, pc>>
      BY <1>8, <2>1, <2>3 DEF Predict, detectorVars, receiverVars
    <2>6. Len(result_mq') = Len(result_mq) + 1
      BY <2>4, <2>5, EnqueueType DEF TypeOK, QueueType
    <2>7. InFlight' = InFlight
      BY <2>5, <2>6, InFlightNat DEF InFlight
    <2>8. \A i \in DOMAIN result_mq' : result_mq'[i].due # Zero
      <3>1. DOMAIN result_mq = 1 .. Len(result_mq)
            /\ DOMAIN result_mq' = 1 .. Len(result_mq) + 1
        BY <2>4, <2>5, <2>6, EnqueueType, LenProperties DEF TypeOK, QueueType
      <3>2. /\ \A i \in 1 .. Len(result_mq) : result_mq'[i] = result_mq[i]
            /\ result_mq'[Len(result_mq) + 1] = [id |-> request.id, due |-> due]
        BY <2>4, <2>5, AppendProperties DEF TypeOK, QueueType
      <3>3. [id |-> request.id, due |-> due].due # Zero
        BY <2>3
      <3>4. QED
        BY <1>2, <3>1, <3>2, <3>3, InFlightNat
    <2>9. QED
      BY <1>1, <1>2, <2>5, <2>7, <2>8 DEF AnswerOnItsWay
  <1>9. CASE Tick
    <2>1. result_mq' = [i \in 1 .. Len(result_mq) |-> Aged(result_mq[i])]
          /\ DOMAIN result_mq = 1 .. Len(result_mq)
      BY <1>9, LenProperties DEF Tick, TypeOK, QueueType
    <2>2. Len(result_mq') = Len(result_mq)
      BY <2>1, InFlightNat
    <2>3. \A i \in DOMAIN result_mq : result_mq[i] \in Replies
      BY <2>1, ElementOfSeq DEF TypeOK, QueueType
    <2>4. \A i \in DOMAIN result_mq' : result_mq'[i].due # Zero
      BY <1>2, <2>1, <2>3, AgedIsNotZero
    <2>5. UNCHANGED <<infer_mq, inference, pc>>
      BY <1>9 DEF Tick, receiverVars, backendVars, inferenceVars
    <2>6. InFlight' = InFlight
      BY <2>2, <2>5 DEF InFlight
    <2>7. QED
      BY <1>1, <1>2, <2>4, <2>5, <2>6 DEF AnswerOnItsWay
  <1>10. ~RestartReceiver /\ ~RestartBackend
    BY DEF OneLife, RestartReceiver, RestartBackend, TypeOK, RestartType
  <1>11. CASE \/ OpenQueue \/ Poll \/ ManageTimer \/ DropPacket \/ StoreHeartbeat \/ SendTrain
              \/ ReadControl \/ SkipControl
    BY <1>3, <1>11
    DEF OpenQueue, Poll, ManageTimer, DropPacket, StoreHeartbeat, SendTrain, ReadControl,
        SkipControl, FinishPacket, queueVars, backendVars, inferenceVars
  <1>12. ~ExitOnResult
    BY DEF ExitOnResult, ReceiverKeepsRunning
  <1>13. CASE \/ TrainerCreates \/ Collect \/ Fit \/ InferenceCreates \/ FirstParams
              \/ Announce \/ Refresh
    <2>1. UNCHANGED <<infer_mq, result_mq, pc>>
      BY <1>13
      DEF TrainerCreates, Collect, Fit, InferenceCreates, FirstParams, Announce, Refresh,
          queueVars, detectorVars, receiverVars
    <2>2. (inference' # "predict" /\ inference # "predict") \/ inference' = inference
      BY <1>13
      DEF ReadyInv, TrainerCreates, Collect, Fit, InferenceCreates, FirstParams, Announce, Refresh,
          inferenceVars
    <2>3. inference' = inference
            \/ inference' \in {"create_control", "create_result", "await_params", "announce",
                               "refresh", "serve"}
      BY <1>13
      DEF TrainerCreates, Collect, Fit, InferenceCreates, FirstParams, Announce, Refresh,
          inferenceVars
    <2>4. InFlight' = InFlight
      BY <2>1, <2>2 DEF InFlight
    <2>5. QED
      BY <1>1, <1>2, <2>1, <2>3, <2>4 DEF AnswerOnItsWay
  <1>14. CASE UNCHANGED vars \/ \E kind \in PacketKinds : Arrive(kind)
    BY <1>3, <1>14
    DEF Arrive, vars, receiverVars, queueVars, backendVars, inferenceVars
  <1>15. QED
    BY <1>4, <1>5, <1>6, <1>7, <1>8, <1>9, <1>10, <1>11, <1>12, <1>13, <1>14
    DEF Next, Receiver, Trainer, Inference

\* What each blocking call of the receive loop and of the inference process
\* waits for is there, or is the next thing another process does.
NobodyWaitsInVain ==
  /\ pc = "train" =>
       \/ Len(train_mq) < TrainCap
       \/ trainer = "fit"
       \/ trainer = "collect" /\ train_mq # << >>
  /\ pc = "infer" => Len(infer_mq) < InferCap
  /\ pc = "await" =>
       \/ /\ result_mq # << >>
          /\ Head(result_mq).id = pkt_cnt /\ Head(result_mq).due # Zero
       \/ inference = "refresh"
       \/ inference = "serve" /\ infer_mq # << >>
       \/ inference = "predict" /\ Len(result_mq) < ResultCap
  /\ inference = "announce" => Len(control_mq) < ControlCap

\* The steps the inference process still owes the receiver that waits.
RoundTrip ==
  CASE result_mq # << >> -> 0
    [] result_mq = << >> /\ inference = "predict" -> 1
    [] result_mq = << >> /\ inference = "serve" -> 2
    [] OTHER -> 3

\* While the receiver waits nothing disturbs the heartbeat in hand, and every
\* step of the inference process brings the reply closer; the receiver's own
\* next step takes the reply and ends the packet.
RoundTripShortens ==
  pc = "await" =>
    \/ pc' \in {"poll", "packet"} /\ burst' = Tail(burst)
    \/ /\ pc' = "await" /\ UNCHANGED <<burst, pkt_cnt>>
       /\ RoundTrip' <= RoundTrip
       /\ inference' # inference => RoundTrip = 0 \/ RoundTrip' < RoundTrip

LEMMA NobodyWaits ==
  TypeOK /\ InFlightIsCurrent /\ ReadyInv /\ TrainerIsUp /\ AnswerOnItsWay
    => NobodyWaitsInVain
  <1> SUFFICES ASSUME TypeOK, InFlightIsCurrent, ReadyInv, TrainerIsUp, AnswerOnItsWay
               PROVE  NobodyWaitsInVain
    OBVIOUS
  <1>1. pc = "train" =>
          \/ Len(train_mq) < TrainCap
          \/ trainer = "fit"
          \/ trainer = "collect" /\ train_mq # << >>
    <2>1. Len(train_mq) \in Nat /\ (train_mq = << >> => Len(train_mq) = 0)
      BY LenProperties, EmptySeq DEF TypeOK, QueueType
    <2>2. TrainCap \in Nat \ {0}
      BY DetectorConstants
    <2>3. train_mq = << >> => Len(train_mq) < TrainCap
      BY <2>1, <2>2
    <2>4. pc = "train" => trainer \in {"collect", "fit"}
      BY DEF TrainerIsUp
    <2>5. QED
      BY <2>3, <2>4
  <1>2. pc = "infer" => Len(infer_mq) < InferCap
    <2>1. pc = "infer" => infer_mq = << >>
      BY WhereTheAnswerIs
    <2>2. InferCap \in Nat \ {0} /\ Len(<< >>) = 0
      BY DetectorConstants, EmptySeq
    <2>3. QED
      BY <2>1, <2>2
  <1>3. pc = "await" =>
          \/ /\ result_mq # << >>
             /\ Head(result_mq).id = pkt_cnt /\ Head(result_mq).due # Zero
          \/ inference = "refresh"
          \/ inference = "serve" /\ infer_mq # << >>
          \/ inference = "predict" /\ Len(result_mq) < ResultCap
    <2> SUFFICES ASSUME pc = "await", result_mq = << >>
                 PROVE  \/ inference = "refresh"
                        \/ inference = "serve" /\ infer_mq # << >>
                        \/ inference = "predict" /\ Len(result_mq) < ResultCap
      BY RepliesAreUsable
    <2>1. inference \in {"refresh", "serve", "predict"}
      BY DEF ReadyInv, AnswerOnItsWay, AfterAnnouncement, Serving
    <2>2. inference # "predict" => infer_mq # << >>
      BY WhereTheAnswerIs
    <2>3. Len(result_mq) < ResultCap
      BY DetectorConstants, EmptySeq
    <2>4. QED
      BY <2>1, <2>2, <2>3
  <1>4. inference = "announce" => Len(control_mq) < ControlCap
    <2>1. inference = "announce" => control_mq = << >>
      BY DEF ReadyInv, AfterAnnouncement, Serving
    <2>2. ControlCap \in Nat \ {0} /\ Len(<< >>) = 0
      BY DetectorConstants, EmptySeq
    <2>3. QED
      BY <2>1, <2>2
  <1>5. QED
    BY <1>1, <1>2, <1>3, <1>4 DEF NobodyWaitsInVain

LEMMA RoundTripStep ==
  ASSUME OneLife, Regular
  PROVE  TypeOK /\ ReceiverKeepsRunning /\ InFlightIsCurrent /\ ReadyInv /\ AnswerOnItsWay
           /\ [Next]_vars /\ ReceiverKeepsRunning' => RoundTripShortens
  <1> SUFFICES ASSUME TypeOK, ReceiverKeepsRunning, InFlightIsCurrent, ReadyInv,
                      AnswerOnItsWay, [Next]_vars, ReceiverKeepsRunning', pc = "await"
               PROVE  \/ pc' \in {"poll", "packet"} /\ burst' = Tail(burst)
                      \/ /\ pc' = "await" /\ UNCHANGED <<burst, pkt_cnt>>
                         /\ RoundTrip' <= RoundTrip
                         /\ inference' # inference => RoundTrip = 0 \/ RoundTrip' < RoundTrip
    BY DEF RoundTripShortens
  <1>1. inference \in {"refresh", "serve", "predict"}
    BY DEF ReadyInv, AnswerOnItsWay, AfterAnnouncement, Serving
  <1>2. RoundTrip \in {0, 1, 2, 3}
    BY DEF RoundTrip
  <1>3. CASE UNCHANGED <<pc, burst, pkt_cnt, inference>>
             /\ (result_mq' = << >> <=> result_mq = << >>)
    <2>1. RoundTrip' = RoundTrip
      BY <1>3 DEF RoundTrip
    <2>2. QED
      BY <1>2, <1>3, <2>1
  <1>4. CASE UsePrediction
    BY <1>4 DEF UsePrediction, FinishPacket
  <1>5. ~SkipReply
    BY RepliesAreUsable DEF SkipReply
  <1>6. ~ExitOnResult
    BY DEF ExitOnResult, ReceiverKeepsRunning
  <1>7. CASE Refresh
    <2>1. /\ inference = "refresh" /\ inference' = "serve"
          /\ UNCHANGED <<pc, burst, pkt_cnt, result_mq>>
      BY <1>7 DEF Refresh, detectorVars, receiverVars, queueVars
    <2>2. IF result_mq = << >> THEN RoundTrip = 3 /\ RoundTrip' = 2
                               ELSE RoundTrip = 0 /\ RoundTrip' = 0
      BY <2>1 DEF RoundTrip
    <2>3. QED
      BY <2>1, <2>2
  <1>8. CASE Serve
    <2>1. /\ inference = "serve" /\ inference' = "predict" /\ infer_mq # << >>
          /\ UNCHANGED <<pc, burst, pkt_cnt, result_mq>>
      BY <1>8 DEF Serve, detectorVars, receiverVars
    <2>2. result_mq = << >>
      BY <2>1, WhereTheAnswerIs
    <2>3. RoundTrip = 2 /\ RoundTrip' = 1
      BY <2>1, <2>2 DEF RoundTrip
    <2>4. QED
      BY <2>1, <2>3
  <1>9. CASE Predict
    <2>1. PICK due \in Predictions :
            IF due = Negative
            THEN inference' = "dead"
            ELSE /\ result_mq' = Append(result_mq, [id |-> request.id, due |-> due])
                 /\ inference' = "refresh"
      BY <1>9 DEF Predict
    <2>2. due \in Ticks \union {Late}
      BY DEF Regular
    <2>3. due # Negative
      BY <2>2, TimerConstants DEF Ticks, Late, Negative
    <2>4. [id |-> request.id, due |-> due] \in Replies
      BY <2>2 DEF TypeOK, BackendType, Requests, Replies
    <2>5. result_mq' # << >>
      BY <2>1, <2>3, <2>4, AppendProperties DEF TypeOK, QueueType
    <2>6. inference = "predict" /\ UNCHANGED <<pc, burst, pkt_cnt>>
      BY <1>9 DEF Predict, detectorVars, receiverVars
    <2>7. result_mq = << >>
      BY <2>6, WhereTheAnswerIs
    <2>8. RoundTrip = 1 /\ RoundTrip' = 0
      BY <2>5, <2>6, <2>7 DEF RoundTrip
    <2>9. QED
      BY <2>6, <2>8
  <1>10. CASE Tick
    <2>1. result_mq' = [i \in 1 .. Len(result_mq) |-> Aged(result_mq[i])]
      BY <1>10, LenProperties DEF Tick, TypeOK, QueueType
    <2>2. Len(result_mq') = Len(result_mq) /\ result_mq' \in Seq({Aged(r) : r \in Replies})
      <3>1. \A i \in 1 .. Len(result_mq) : result_mq[i] \in Replies
        BY ElementOfSeq DEF TypeOK, QueueType
      <3>2. QED
        BY <2>1, <3>1, InFlightNat
    <2>3. result_mq' = << >> <=> result_mq = << >>
      BY <2>2, EmptySeq DEF TypeOK, QueueType
    <2>4. UNCHANGED <<pc, burst, pkt_cnt, inference>>
      BY <1>10 DEF Tick, receiverVars, backendVars, inferenceVars
    <2>5. QED
      BY <1>3, <2>3, <2>4
  <1>11. ~RestartReceiver /\ ~RestartBackend
    BY DEF OneLife, RestartReceiver, RestartBackend, TypeOK, RestartType
  <1>12. ~(\/ OpenQueue \/ Poll \/ ManageTimer \/ DropPacket \/ StoreHeartbeat \/ SendTrain
           \/ ReadControl \/ SkipControl \/ SendInfer)
    BY DEF OpenQueue, Poll, ManageTimer, DropPacket, StoreHeartbeat, SendTrain, ReadControl,
           SkipControl, SendInfer
  <1>13. trainer # "create_infer" /\ ~InferenceCreates /\ ~FirstParams /\ ~Announce
    BY <1>1 DEF ReadyInv, InferenceCreates, FirstParams, Announce
  <1>14. CASE TrainerCreates \/ Collect \/ Fit
    BY <1>3, <1>13, <1>14
    DEF TrainerCreates, Collect, Fit, detectorVars, receiverVars, queueVars, inferenceVars
  <1>15. CASE UNCHANGED vars \/ \E kind \in PacketKinds : Arrive(kind)
    BY <1>3, <1>15
    DEF Arrive, vars, receiverVars, queueVars, backendVars, inferenceVars
  <1>16. QED
    BY <1>4, <1>5, <1>6, <1>7, <1>8, <1>9, <1>10, <1>11, <1>12, <1>13, <1>14, <1>15
    DEF Next, Receiver, Trainer, Inference

\* In one life of both programs, started in the documented order, with requests
\* that fit their queue and predictions that can be packed and are not 0: none
\* of the blocking calls between the receive loop and the Python processes ever
\* waits for something nobody will do, and nothing delays the awaited reply but
\* the three steps of the inference process that produce it.  With the fairness
\* of those processes this is why every burst is handled to its last packet.
THEOREM ReceiverWaitsForAReason ==
  ASSUME DocumentedStart, LOOK_BACK + 1 <= INFER_MSG_WORDS, OneLife, Regular
  PROVE  Spec => []NobodyWaitsInVain /\ [][RoundTripShortens]_vars
  <1>1. MaxReceiverRestarts = 0 /\ MaxBackendRestarts = 0
    BY DEF OneLife
  <1>2. Init => TrainerIsUp /\ ReadyInv /\ AnswerOnItsWay
    BY EmptySeq DEF Init, TrainerIsUp, ReadyInv, AnswerOnItsWay, InFlight
  <1>3. TypeOK /\ TrainerIsUp /\ [Next]_vars => TrainerIsUp'
    BY TrainerIsUpStep
  <1>4. TypeOK /\ ReadyInv /\ [Next]_vars => ReadyInv'
    BY <1>1, ReadyInvStep
  <1>5. TypeOK /\ ReceiverKeepsRunning /\ InFlightIsCurrent /\ ReadyInv /\ AnswerOnItsWay
          /\ [Next]_vars /\ ReceiverKeepsRunning' => AnswerOnItsWay'
    BY AnswerOnItsWayStep
  <1>6. TypeOK /\ InFlightIsCurrent /\ ReadyInv /\ TrainerIsUp /\ AnswerOnItsWay
          => NobodyWaitsInVain
    BY NobodyWaits
  <1>7. TypeOK /\ ReceiverKeepsRunning /\ InFlightIsCurrent /\ ReadyInv /\ AnswerOnItsWay
          /\ [Next]_vars /\ ReceiverKeepsRunning' => RoundTripShortens
    BY RoundTripStep
  <1>8. Spec => []ReceiverKeepsRunning
    BY ReceiverNeverEnds
  <1>9. Spec => []InFlightIsCurrent
    BY <1>1, RepliesAreCurrent
  <1>10. QED
    BY <1>2, <1>3, <1>4, <1>5, <1>6, <1>7, <1>8, <1>9, TypeCorrect, PTL DEF Spec

-----------------------------------------------------------------------------
(***************************************************************************)
(* What a request holds.  A chain leads from the first training message to *)
(* the first request: batch, fit, weights, announcement, flag.  Each link  *)
(* exists only after one before it, and the first only after a whole round *)
(* of heartbeats; so a request never reaches a slot that was not written.  *)
(***************************************************************************)

Trained ==
  \/ train_mq # << >>
  \/ trainer = "fit"
  \/ param_queue # << >>
  \/ inference \in {"announce"} \union AfterAnnouncement
  \/ control_mq # << >>
  \/ ready_to_infer = 1

RoundBeforeModel ==
  /\ Trained => pkt_cnt >= ARR_SIZE
  /\ pc = "infer" => ready_to_infer = 1

\* Only SendTrain begins the chain.
LEMMA ChainHasNoOtherStart ==
  ASSUME TypeOK, RoundBeforeModel, [Next]_vars, ~SendTrain, Trained'
  PROVE  Trained
  <1> USE DEF Trained, AfterAnnouncement, Serving
  <1>1. CASE UNCHANGED <<train_mq, trainer, param_queue, inference, control_mq, ready_to_infer>>
    BY <1>1
  <1>2. CASE ReadControl
    BY <1>2 DEF ReadControl, backendVars, trainerVars, inferenceVars
  <1>3. CASE RestartReceiver
    BY <1>3 DEF RestartReceiver, queueVars, backendVars, trainerVars, inferenceVars
  <1>4. CASE RestartBackend
    BY <1>4 DEF RestartBackend, queueVars, detectorVars, receiverVars
  <1>5. CASE TrainerCreates
    BY <1>5 DEF TrainerCreates, detectorVars, receiverVars
  <1>6. CASE Collect \/ Fit
    BY <1>6 DEF Collect, Fit, queueVars, detectorVars, receiverVars, inferenceVars
  <1>7. CASE InferenceCreates \/ FirstParams \/ Announce
    BY <1>7
    DEF InferenceCreates, FirstParams, Announce, queueVars, detectorVars, receiverVars, trainerVars
  <1>8. CASE Refresh \/ Serve \/ Predict
    BY <1>8 DEF Refresh, Serve, Predict
  <1>9. CASE \/ OpenQueue \/ Poll \/ ManageTimer \/ DropPacket \/ StoreHeartbeat
             \/ SkipControl \/ SendInfer \/ ExitOnResult \/ SkipReply
             \/ UsePrediction \/ Tick \/ UNCHANGED vars
             \/ \E kind \in PacketKinds : Arrive(kind)
    BY <1>1, <1>9
    DEF OpenQueue, Poll, ManageTimer, DropPacket, StoreHeartbeat, SkipControl, SendInfer,
        ExitOnResult, SkipReply, UsePrediction, Tick, Arrive, vars, receiverVars, queueVars,
        backendVars, trainerVars, inferenceVars
  <1>10. QED
    BY <1>2, <1>3, <1>4, <1>5, <1>6, <1>7, <1>8, <1>9 DEF Next, Receiver, Trainer, Inference

\* The count of heartbeats never falls while the receiver is not restarted.
LEMMA CountGrows ==
  ASSUME TypeOK, MaxReceiverRestarts = 0, [Next]_vars
  PROVE  pkt_cnt' = pkt_cnt \/ pkt_cnt' = pkt_cnt + 1
  <1>1. ~RestartReceiver
    BY DEF RestartReceiver, TypeOK, RestartType
  <1>2. CASE Receiver
    BY <1>2
    DEF Receiver, OpenQueue, Poll, ManageTimer, DropPacket, StoreHeartbeat, SendTrain,
        ReadControl, SkipControl, SendInfer, ExitOnResult, SkipReply, UsePrediction, receiverVars
  <1>3. CASE \/ Trainer \/ Inference \/ Tick \/ RestartBackend \/ UNCHANGED vars
             \/ \E kind \in PacketKinds : Arrive(kind)
    BY <1>3
    DEF Trainer, TrainerCreates, Collect, Fit, Inference, InferenceCreates, FirstParams,
        Announce, Refresh, Serve, Predict, Tick, RestartBackend, Arrive, vars, detectorVars,
        receiverVars
  <1>4. QED
    BY <1>1, <1>2, <1>3 DEF Next

LEMMA RoundBeforeModelStep ==
  ASSUME TypeOK, MaxReceiverRestarts = 0, TrainsWhenRound, RoundBeforeModel, [Next]_vars
  PROVE  RoundBeforeModel'
  <1>1. pkt_cnt \in Nat /\ ARR_SIZE \in Nat \ {0}
    BY WindowSizes DEF TypeOK, ReceiverType
  <1>2. Trained' => pkt_cnt' >= ARR_SIZE
    <2>1. CASE SendTrain
      <3>1. pkt_cnt # 0 /\ pkt_cnt % ARR_SIZE = 0 /\ pkt_cnt' = pkt_cnt
        BY <2>1 DEF SendTrain, TrainsWhenRound
      <3>2. QED
        BY <1>1, <3>1, RoundStarts
    <2>2. CASE ~SendTrain
      <3>1. Trained' => pkt_cnt >= ARR_SIZE
        BY <2>2, ChainHasNoOtherStart DEF RoundBeforeModel
      <3>2. QED
        BY <1>1, <3>1, CountGrows
    <2>3. QED
      BY <2>1, <2>2
  <1>3. pc' = "infer" => ready_to_infer' = 1
    <2>1. CASE UNCHANGED <<pc, ready_to_infer>>
      BY <2>1 DEF RoundBeforeModel
    <2>2. CASE Receiver
      BY <2>1, <2>2
      DEF Receiver, OpenQueue, Poll, ManageTimer, DropPacket, StoreHeartbeat, SendTrain,
          ReadControl, SkipControl, SendInfer, ExitOnResult, SkipReply, UsePrediction,
          FinishPacket, receiverVars, RoundBeforeModel
    <2>3. CASE RestartReceiver
      BY <2>3 DEF RestartReceiver
    <2>4. CASE \/ Trainer \/ Inference \/ Tick \/ RestartBackend \/ UNCHANGED vars
               \/ \E kind \in PacketKinds : Arrive(kind)
      BY <2>1, <2>4
      DEF Trainer, TrainerCreates, Collect, Fit, Inference, InferenceCreates, FirstParams,
          Announce, Refresh, Serve, Predict, Tick, RestartBackend, Arrive, vars, detectorVars,
          receiverVars
    <2>5. QED
      BY <2>2, <2>3, <2>4 DEF Next
  <1>4. QED
    BY <1>2, <1>3 DEF RoundBeforeModel

\* After a whole round the request is the last LOOK_BACK heartbeats.
LEMMA RequestIsRecent ==
  ASSUME TypeOK, RingOfLatest, pkt_cnt >= ARR_SIZE
  PROVE  \A j \in 1 .. LOOK_BACK :
           InferWindow(arr_timestamp, next_avail)[j] = pkt_cnt - LOOK_BACK + j
  <1> SUFFICES ASSUME NEW j \in 1 .. LOOK_BACK
               PROVE  InferWindow(arr_timestamp, next_avail)[j] = pkt_cnt - LOOK_BACK + j
    OBVIOUS
  <1> DEFINE d == LOOK_BACK - j + 1
             k == pkt_cnt - LOOK_BACK + j
  <1>1. pkt_cnt \in Nat /\ ARR_SIZE \in Nat \ {0} /\ LOOK_BACK \in 1 .. ARR_SIZE
    BY WindowSizes DEF TypeOK, ReceiverType
  <1>2. d \in 1 .. ARR_SIZE /\ d <= pkt_cnt
    BY <1>1
  <1>3. k \in 1 .. pkt_cnt /\ pkt_cnt - k < ARR_SIZE /\ k - 1 = pkt_cnt - d
    BY <1>1
  <1>4. InferWindow(arr_timestamp, next_avail)[j]
          = arr_timestamp[(next_avail - d + ARR_SIZE) % ARR_SIZE]
    BY DEF InferWindow
  <1> HIDE DEF d, k
  <1>5. (next_avail - d + ARR_SIZE) % ARR_SIZE = (pkt_cnt - d) % ARR_SIZE
    BY <1>1, <1>2, SlotBack DEF RingOfLatest
  <1>6. arr_timestamp[(k - 1) % ARR_SIZE] = k
    BY <1>3 DEF RingOfLatest
  <1>7. InferWindow(arr_timestamp, next_avail)[j] = k
    BY <1>3, <1>4, <1>5, <1>6
  <1>8. QED
    BY <1>7 DEF k

\* While the receiver is not restarted, every request is made of heartbeats
\* that were received: a model is never asked about a slot nobody wrote.
THEOREM RequestsAreFull ==
  ASSUME MaxReceiverRestarts = 0 PROVE Spec => []FullWindowRequested
  <1> DEFINE Inv == BatchInv /\ RoundBeforeModel /\ FullWindowRequested
  <1>1. Init => Inv
    <2> SUFFICES ASSUME Init PROVE Inv
      OBVIOUS
    <2>1. RingOfLatest /\ TrainsWhenRound
      BY WindowSizes DEF Init, WindowInit, RingOfLatest, TrainsWhenRound
    <2>2. BatchesConsecutive
      BY DEF Init, Range, BatchesConsecutive
    <2>3. RoundBeforeModel
      BY DEF Init, RoundBeforeModel, Trained, AfterAnnouncement, Serving
    <2>4. FullWindowRequested
      BY DEF Init, FullWindowRequested, OpenRequests, Range
    <2>5. QED
      BY <2>1, <2>2, <2>3, <2>4 DEF BatchInv
  <1>2. TypeOK /\ Inv /\ [Next]_vars => Inv'
    <2> SUFFICES ASSUME TypeOK, Inv, [Next]_vars PROVE Inv'
      OBVIOUS
    <2>1. BatchInv'
      BY BatchInvStep
    <2>2. RoundBeforeModel'
      BY RoundBeforeModelStep DEF BatchInv
    <2>3. CASE SendInfer
      <3> DEFINE r == [id |-> pkt_cnt, window |-> InferWindow(arr_timestamp, next_avail)]
      <3>1. pkt_cnt >= ARR_SIZE
        BY <2>3 DEF SendInfer, RoundBeforeModel, Trained
      <3>2. \A j \in 1 .. LOOK_BACK : r.window[j] = r.id - LOOK_BACK + j
        BY <3>1, RequestIsRecent DEF BatchInv
      <3>3. OpenRequests' \subseteq OpenRequests \union {r}
        BY <2>3, OneRequestArises
      <3> HIDE DEF r
      <3>4. QED
        BY <2>1, <2>2, <3>2, <3>3 DEF FullWindowRequested
    <2>4. CASE ~SendInfer
      BY <2>1, <2>2, <2>4, OnlyAnswersArise DEF FullWindowRequested
    <2>5. QED
      BY <2>3, <2>4
  <1>3. Inv => FullWindowRequested
    OBVIOUS
  <1>4. QED
    BY <1>1, <1>2, <1>3, TypeCorrect, PTL DEF Spec

-----------------------------------------------------------------------------
(***************************************************************************)
(* The window of suspected intervals.                                      *)
(***************************************************************************)

LEMMA ErrorSlotsFinite == IsFiniteSet(ErrorSlots)
  BY TimerConstants, FS_Interval DEF ErrorSlots

\* A cleared window sums to 0.
LEMMA ClearedSum ==
  ASSUME NEW w, w = NoErrors PROVE SumFunction(w) % WORD = 0
  <1>1. w = [i \in ErrorSlots |-> 0] /\ DOMAIN w = ErrorSlots
    BY DEF NoErrors
  <1>2. SumFunctionOnSet(w, ErrorSlots) = 0 * Cardinality(ErrorSlots)
    BY <1>1, ErrorSlotsFinite, SumConstant
  <1>3. Cardinality(ErrorSlots) \in Nat
    BY ErrorSlotsFinite, FS_CardinalityType
  <1>4. SumFunction(w) = 0
    BY <1>1, <1>2, <1>3 DEF SumFunction
  <1> QED BY <1>4, TimerConstants

LEMMA ErrorSumInit == TimerInit => ErrorSumIsSumOfWindow
  BY ClearedSum DEF TimerInit, ErrorSumIsSumOfWindow

\* The callback subtracts the interval it overwrites and adds the new one.
LEMMA CallbackKeepsSum ==
  TimerType /\ ErrorSumIsSumOfWindow /\ timer1_cb => ErrorSumIsSumOfWindow'
  <1> SUFFICES ASSUME TimerType, ErrorSumIsSumOfWindow, timer1_cb
               PROVE  ErrorSumIsSumOfWindow'
    OBVIOUS
  <1> DEFINE old == SumFunctionOnSet(errors, ErrorSlots)
             e == errors[error_idx]
             a == timer.arg
  <1>1. /\ errors \in [ErrorSlots -> Ticks] /\ error_idx \in ErrorSlots
        /\ e \in Ticks /\ a \in Ticks
    BY DEF TimerType
  <1>2. (\A i \in ErrorSlots : errors[i] \in Int) /\ e \in Int /\ a \in Int
    BY <1>1, TimerConstants DEF Ticks
  <1>3. old \in Int
    BY <1>2, ErrorSlotsFinite, SumType
  <1>4. error_sum = old % WORD
    BY <1>1 DEF ErrorSumIsSumOfWindow, SumFunction
  <1>5. /\ error_sum' = (error_sum - e + a) % WORD
        /\ errors' = [errors EXCEPT ![error_idx] = a]
    BY DEF timer1_cb
  <1>6. SumFunctionOnSet(errors', ErrorSlots) = old - e + a
    <2>1. DOMAIN errors = ErrorSlots /\ errors = [i \in ErrorSlots |-> errors[i]]
      BY <1>1
    <2>2. a \in Int
      BY <1>2
    <2> HIDE DEF a
    <2>3. SumFunctionOnSet([errors EXCEPT ![error_idx] = a], ErrorSlots)
            = SumFunctionOnSet(errors, ErrorSlots) - errors[error_idx] + a
      BY <1>1, <1>2, <2>1, <2>2, ErrorSlotsFinite, SumExcept
    <2> QED BY <1>5, <2>3
  <1>7. DOMAIN errors' = ErrorSlots
    BY <1>1, <1>5
  <1> HIDE DEF old, e, a
  <1>8. ((old % WORD) + (a - e)) % WORD = (old + (a - e)) % WORD
    <2>1. old \in Int /\ a - e \in Int /\ WORD \in Nat \ {0}
      BY <1>2, <1>3, TimerConstants
    <2> DEFINE d == a - e
    <2>2. d \in Int
      BY <2>1
    <2> HIDE DEF d
    <2>3. ((old % WORD) + d) % WORD = (old + d) % WORD
      BY <2>1, <2>2, RestAbsorbed
    <2> QED BY <2>3 DEF d
  <1>9. error_sum \in Int /\ error_sum - e + a = error_sum + (a - e)
        /\ old - e + a = old + (a - e)
    BY <1>2, <1>3, <1>4, TimerConstants
  <1>10. error_sum' = (old - e + a) % WORD
    BY <1>4, <1>5, <1>8, <1>9
  <1> QED BY <1>6, <1>7, <1>10 DEF ErrorSumIsSumOfWindow, SumFunction

LEMMA ErrorSumKept ==
  ErrorSumIsSumOfWindow /\ UNCHANGED <<errors, error_sum>> => ErrorSumIsSumOfWindow'
  BY DEF ErrorSumIsSumOfWindow

\* The timer on its own has the type its callbacks leave.
LEMMA TimerTypeStep == TimerType /\ [TimerNext]_timerVars => TimerType'
  <1> SUFFICES ASSUME TimerType, [TimerNext]_timerVars PROVE TimerType'
    OBVIOUS
  <1>1. ASSUME NEW delay \in Ticks, ArmWithMargin(delay) \/ Arm(delay) PROVE TimerType'
    BY <1>1, ArmType
  <1>2. CASE Due /\ timer1_cb
    BY <1>2, TimerCallbackType
  <1>3. CASE /\ CountingDown
             /\ timer' = TimerAfterTick
             /\ UNCHANGED <<errors, error_idx, error_sum, suspected>>
    <2>1. timer.left \in Ticks /\ timer.left > 0
      BY <1>3 DEF TimerType, CountingDown
    <2>2. timer.left - 1 \in Ticks
      BY <2>1, TimerConstants DEF Ticks
    <2>3. timer' = [timer EXCEPT !.left = timer.left - 1]
      BY <1>3 DEF TimerAfterTick
    <2>4. timer' \in [armed : BOOLEAN, left : Ticks, arg : Ticks]
      BY <2>2, <2>3, Zenon DEF TimerType
    <2> QED BY <1>3, <2>4 DEF TimerType
  <1>4. CASE UNCHANGED timerVars
    BY <1>4, UnchangedTypes
  <1> QED BY <1>1, <1>2, <1>3, <1>4 DEF TimerNext

\* For every length of the window and every word size the running sum of the
\* timer is the sum of the window, whatever the receive loop does with the
\* timer: it is never recomputed, and never drifts.
THEOREM TimerSumIsExact == TimerSpec => []ErrorSumIsSumOfWindow
  <1> DEFINE IInv == TimerType /\ ErrorSumIsSumOfWindow
  <1>1. TimerInit => IInv
    <2> SUFFICES ASSUME TimerInit PROVE TimerType
      BY ErrorSumInit
    <2>1. 0 \in Ticks /\ 0 \in ErrorSlots
      BY TimerConstants DEF Ticks, ErrorSlots
    <2>2. Stopped \in [armed : BOOLEAN, left : Ticks, arg : Ticks]
      BY <2>1, Zenon DEF Stopped
    <2> QED BY <2>1, <2>2 DEF TimerInit, TimerType, NoErrors
  <1>2. IInv /\ [TimerNext]_timerVars => IInv'
    <2> SUFFICES ASSUME IInv, [TimerNext]_timerVars PROVE ErrorSumIsSumOfWindow'
      BY TimerTypeStep
    <2>1. CASE Due /\ timer1_cb
      BY <2>1, CallbackKeepsSum
    <2>2. CASE ~(Due /\ timer1_cb)
      <3>1. UNCHANGED <<errors, error_sum>>
        BY <2>2 DEF TimerNext, ArmWithMargin, Arm, Reset, timerVars
      <3> QED BY <3>1, ErrorSumKept
    <2> QED BY <2>1, <2>2
  <1> QED BY <1>1, <1>2, PTL DEF TimerSpec

\* In the detector the window and its sum change in the callback and when the
\* process starts again, and nowhere else.
LEMMA DetectorSumStep ==
  TypeOK /\ ErrorSumIsSumOfWindow /\ [Next]_vars => ErrorSumIsSumOfWindow'
  <1> SUFFICES ASSUME TypeOK, ErrorSumIsSumOfWindow, [Next]_vars
               PROVE  ErrorSumIsSumOfWindow'
    OBVIOUS
  <1>1. CASE UNCHANGED <<errors, error_sum>>
    BY <1>1, ErrorSumKept
  <1>2. CASE ManageTimer
    BY <1>1, <1>2, CallbackKeepsSum DEF ManageTimer, TimerManage, timerVars, TypeOK
  <1>3. CASE RestartReceiver
    <2>1. errors' = NoErrors /\ error_sum' = 0
      BY <1>3 DEF RestartReceiver, ClearTimer
    <2> QED BY <2>1, ClearedSum DEF ErrorSumIsSumOfWindow
  <1>4. CASE UsePrediction \/ Tick
    BY <1>1, <1>4 DEF UsePrediction, ArmWithMargin, Arm, Reset, timerVars, Tick
  <1>5. CASE \/ OpenQueue \/ Poll \/ DropPacket \/ StoreHeartbeat \/ SendTrain
             \/ ReadControl \/ SkipControl \/ SendInfer \/ ExitOnResult \/ SkipReply
    BY <1>1, <1>5
    DEF OpenQueue, Poll, DropPacket, StoreHeartbeat, SendTrain, ReadControl, SkipControl,
        SendInfer, ExitOnResult, SkipReply, timerVars
  <1>6. CASE \/ Trainer \/ Inference \/ RestartBackend \/ UNCHANGED vars
             \/ \E kind \in PacketKinds : Arrive(kind)
    BY <1>1, <1>6
    DEF Trainer, TrainerCreates, Collect, Fit, Inference, InferenceCreates, FirstParams,
        Announce, Refresh, Serve, Predict, RestartBackend, Arrive, vars, detectorVars,
        timerVars
  <1> QED BY <1>2, <1>3, <1>4, <1>5, <1>6 DEF Next, Receiver

\* The same of the whole detector: over every interleaving of the receive loop
\* with the Python processes, through any restarts, the sum added to the first
\* deadline is the sum of the intervals in the window.
THEOREM DetectorSumIsExact == Spec => []ErrorSumIsSumOfWindow
  <1>1. Init => ErrorSumIsSumOfWindow
    BY ErrorSumInit DEF Init
  <1> QED BY <1>1, TypeCorrect, DetectorSumStep, PTL DEF Spec

=============================================================================
