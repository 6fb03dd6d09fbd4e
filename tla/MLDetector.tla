----------------------------- MODULE MLDetector -----------------------------
(***************************************************************************)
(* The machine-learning failure detector of tensroflow_dpdk: the DPDK      *)
(* receive loop (recv_heartbeat.c), the Python training and inference      *)
(* processes (new_train.py), and the four POSIX message queues and the     *)
(* multiprocessing queue between them.                                     *)
(*                                                                         *)
(*   receiver --train_mq--> trainer --param_queue--> inference             *)
(*   receiver --infer_mq--> inference --result_mq--> receiver              *)
(*   inference --control_mq--> receiver      ("the model is ready")        *)
(*                                                                         *)
(* Each process is a program counter and its locals; a step runs from one  *)
(* call that may block, or that another process can observe, to the next.  *)
(* Receipt times are the ordinals of the heartbeats: rdtsc only grows, and *)
(* ArrivalStream treats the ring with arbitrary increasing times.          *)
(*                                                                         *)
(* The queues live in the kernel and nobody unlinks them: they keep their  *)
(* messages when a process is restarted.                                   *)
(***************************************************************************)
EXTENDS ArrivalWindow, SuspicionTimer, Sequences, SequencesExt

CONSTANTS
  BURST_SIZE,        \* packets one rx_burst returns at most
  INFER_MSG_WORDS,   \* words the backend allots to a message of infer_mq
  FIRST_BATCHES,     \* training messages collected before the first fit
  TrainCap, ControlCap, InferCap, ResultCap,   \* max_messages of the queues
  NicCap,            \* packets the NIC ring holds
  PacketKinds,       \* "heartbeat", and "other" for what the filter drops
  Predictions,       \* predictions the model may produce (see below)
  DocumentedStart,   \* the detector is started after the backend is up
  MaxArrivals,       \* bound on the packets of a behaviour
  MaxReceiverRestarts, MaxBackendRestarts      \* bounds on the restarts

\* A prediction is the number of ticks it lies ahead of the clock, or one of
\* three values the code treats differently.
Late     == -1   \* in the past when the receiver reads it
Zero     == -2   \* exactly 0: also what recv_prediction returns for a mismatch
Negative == -3   \* not packable as an unsigned word

ASSUME DetectorConstants ==
  /\ BURST_SIZE \in Nat \ {0} /\ FIRST_BATCHES \in Nat \ {0}
  /\ TrainCap \in Nat \ {0} /\ ControlCap \in Nat \ {0}
  /\ InferCap \in Nat \ {0} /\ ResultCap \in Nat \ {0}
  /\ NicCap \in Nat \ {0} /\ INFER_MSG_WORDS \in Nat
  /\ PacketKinds \subseteq {"heartbeat", "other"}
  /\ Predictions \subseteq Ticks \union {Late, Zero, Negative}
  /\ DocumentedStart \in BOOLEAN
  /\ MaxArrivals \in Nat
  /\ MaxReceiverRestarts \in Nat /\ MaxBackendRestarts \in Nat

VARIABLES
  \* the NIC and the receiver
  nic,              \* packets received by the NIC and not yet polled
  arrivals,         \* packets that ever arrived
  pc,               \* the next step of the receive loop
  next_open,        \* the queue the receiver opens next
  opened,           \* queues whose mq_open succeeded
  burst,            \* packets of the burst still to be handled
  pkt_cnt,
  ready_to_infer,
  with_margin,      \* this heartbeat took the branch that adds the margin
  \* the kernel's message queues
  existing,         \* queues that have been created
  train_mq, control_mq, infer_mq, result_mq,
  \* the Python processes
  trainer,          \* the next step of the training process
  train_data_count, \* messages collected for the first fit
  first_train,
  model_version,    \* fits so far
  param_queue,      \* weights on their way, by version
  inference,        \* the next step of the inference process
  infer_version,    \* the weights it predicts with, 0 before the first
  request,          \* the request it is working on
  \* restarts so far
  receiver_restarts, backend_restarts

receiverVars ==
  <<nic, arrivals, pc, next_open, opened, burst, pkt_cnt, ready_to_infer, with_margin>>
queueVars == <<existing, train_mq, control_mq, infer_mq, result_mq>>
trainerVars == <<trainer, train_data_count, first_train, model_version>>
inferenceVars == <<inference, infer_version, request>>
backendVars == <<trainerVars, param_queue, inferenceVars>>
restartVars == <<receiver_restarts, backend_restarts>>

vars == <<receiverVars, windowVars, timerVars, queueVars, backendVars, restartVars>>

-----------------------------------------------------------------------------

OpenOrder == <<"train", "control", "infer", "result">>
QueueNames == {OpenOrder[i] : i \in 1 .. 4}

ReceiverSteps ==
  {"open", "poll", "manage", "packet", "train", "control", "infer", "await", "exited"}
\* The steps that handle the packet at the head of the burst.
HandlingSteps == {"packet", "train", "control", "infer", "await"}

TrainerSteps == {"create_infer", "create_train", "collect", "fit"}
InferenceSteps ==
  {"off", "create_control", "create_result", "await_params", "announce",
   "refresh", "serve", "predict", "dead"}

Batches  == [1 .. ARR_SIZE -> Nat]
Requests == [id : Nat, window : [1 .. LOOK_BACK -> Nat]]
Replies  == [id : Nat, due : Ticks \union {Late, Zero}]
NoRequest == [id |-> 0, window |-> [j \in 1 .. LOOK_BACK |-> 0]]

ReceiverType ==
  /\ nic \in Seq(PacketKinds) /\ burst \in Seq(PacketKinds)
  /\ arrivals \in 0 .. MaxArrivals
  /\ pc \in ReceiverSteps
  /\ pc \in HandlingSteps => burst # << >>
  /\ next_open \in 1 .. 4
  /\ opened \subseteq QueueNames
  /\ pkt_cnt \in Nat
  /\ ready_to_infer \in {0, 1}
  /\ with_margin \in BOOLEAN

QueueType ==
  /\ existing \subseteq QueueNames
  /\ train_mq \in Seq(Batches)
  /\ control_mq \in Seq({1})
  /\ infer_mq \in Seq(Requests)
  /\ result_mq \in Seq(Replies)

BackendType ==
  /\ trainer \in TrainerSteps
  /\ train_data_count \in Nat
  /\ first_train \in BOOLEAN
  /\ model_version \in Nat
  /\ param_queue \in Seq(Nat)
  /\ inference \in InferenceSteps
  /\ infer_version \in Nat
  /\ request \in Requests

RestartType ==
  /\ receiver_restarts \in 0 .. MaxReceiverRestarts
  /\ backend_restarts \in 0 .. MaxBackendRestarts

TypeOK ==
  /\ ReceiverType /\ WindowType /\ TimerType
  /\ QueueType /\ BackendType /\ RestartType

Init ==
  /\ nic = << >> /\ arrivals = 0 /\ burst = << >>
  /\ pc = "open" /\ next_open = 1 /\ opened = {}
  /\ pkt_cnt = 0 /\ ready_to_infer = 0 /\ with_margin = FALSE
  /\ WindowInit /\ TimerInit
  /\ existing = {} /\ train_mq = << >> /\ control_mq = << >>
  /\ infer_mq = << >> /\ result_mq = << >>
  /\ trainer = "create_infer" /\ train_data_count = 0 /\ first_train = TRUE
  /\ model_version = 0 /\ param_queue = << >>
  /\ inference = "off" /\ infer_version = 0 /\ request = NoRequest
  /\ receiver_restarts = 0 /\ backend_restarts = 0

-----------------------------------------------------------------------------
(***************************************************************************)
(* The receive loop, lcore_recv_heartbeat_pkt.                             *)
(***************************************************************************)

\* A packet reaches the NIC.  Heartbeats carry an id that the receiver never
\* reads, so a lost, repeated or reordered heartbeat is one packet fewer, one
\* more, or the same.
Arrive(kind) ==
  /\ arrivals < MaxArrivals
  /\ Len(nic) < NicCap
  /\ nic' = Append(nic, kind)
  /\ arrivals' = arrivals + 1
  /\ UNCHANGED <<pc, next_open, opened, burst, pkt_cnt, ready_to_infer, with_margin>>
  /\ UNCHANGED <<windowVars, timerVars, queueVars, backendVars, restartVars>>

\* mq_open of the next queue, without O_CREAT.  A failure is noticed for the
\* first queue only, and only printed.
OpenQueue ==
  /\ pc = "open"
  /\ DocumentedStart => existing = QueueNames
  /\ opened' = opened \union ({OpenOrder[next_open]} \intersect existing)
  /\ IF next_open < 4
     THEN next_open' = next_open + 1 /\ UNCHANGED pc
     ELSE pc' = "poll" /\ UNCHANGED next_open
  /\ UNCHANGED <<nic, arrivals, burst, pkt_cnt, ready_to_infer, with_margin>>
  /\ UNCHANGED <<windowVars, timerVars, queueVars, backendVars, restartVars>>

\* rte_eth_rx_burst
Poll ==
  /\ pc = "poll"
  /\ LET n == IF Len(nic) < BURST_SIZE THEN Len(nic) ELSE BURST_SIZE
     IN /\ burst' = SubSeq(nic, 1, n)
        /\ nic' = SubSeq(nic, n + 1, Len(nic))
  /\ pc' = "manage"
  /\ UNCHANGED <<arrivals, next_open, opened, pkt_cnt, ready_to_infer, with_margin>>
  /\ UNCHANGED <<windowVars, timerVars, queueVars, backendVars, restartVars>>

\* Mutant: the timer is also served while a prediction is awaited.
ManageTimerWhileWaiting ==
  /\ pc \in {"manage", "await"}
  /\ TimerManage
  /\ pc' = IF pc = "await" THEN "await" ELSE IF burst = << >> THEN "poll" ELSE "packet"
  /\ UNCHANGED <<nic, arrivals, next_open, opened, burst, pkt_cnt, ready_to_infer, with_margin>>
  /\ UNCHANGED <<windowVars, queueVars, backendVars, restartVars>>

\* rte_timer_manage, after the burst was fetched and before it is looked at.
ManageTimer ==
  /\ pc = "manage"
  /\ TimerManage
  /\ pc' = IF burst = << >> THEN "poll" ELSE "packet"
  /\ UNCHANGED <<nic, arrivals, next_open, opened, burst, pkt_cnt, ready_to_infer, with_margin>>
  /\ UNCHANGED <<windowVars, queueVars, backendVars, restartVars>>

\* Mutant: one packet too many.
FinishPacketOffByOne ==
  /\ burst' = Tail(burst)
  /\ pc' = IF Len(burst) = 0 THEN "poll" ELSE "packet"

\* The mbuf is freed and the loop goes on with the burst.
FinishPacket ==
  /\ burst' = Tail(burst)
  /\ pc' = IF Len(burst) = 1 THEN "poll" ELSE "packet"

\* Not IPv4, not UDP, or another port.
DropPacket ==
  /\ pc = "packet"
  /\ Head(burst) # "heartbeat"
  /\ FinishPacket
  /\ UNCHANGED <<nic, arrivals, next_open, opened, pkt_cnt, ready_to_infer, with_margin>>
  /\ UNCHANGED <<windowVars, timerVars, queueVars, backendVars, restartVars>>

\* Mutant: the training period is tested on the count before this heartbeat.
StoreHeartbeatTrainsLate ==
  /\ pc = "packet"
  /\ Head(burst) = "heartbeat"
  /\ pkt_cnt' = pkt_cnt + 1
  /\ Store(pkt_cnt')
  /\ pc' = IF pkt_cnt % ARR_SIZE = 0 THEN "train" ELSE "control"
  /\ UNCHANGED <<nic, arrivals, next_open, opened, burst, ready_to_infer, with_margin>>
  /\ UNCHANGED <<timerVars, queueVars, backendVars, restartVars>>

StoreHeartbeat ==
  /\ pc = "packet"
  /\ Head(burst) = "heartbeat"
  /\ pkt_cnt' = pkt_cnt + 1
  /\ Store(pkt_cnt')
  /\ pc' = IF pkt_cnt' % ARR_SIZE = 0 THEN "train" ELSE "control"
  /\ UNCHANGED <<nic, arrivals, next_open, opened, burst, ready_to_infer, with_margin>>
  /\ UNCHANGED <<timerVars, queueVars, backendVars, restartVars>>

\* send_to_ml_model: blocks while the queue is full, ends the process when the
\* descriptor is bad.
SendTrain ==
  /\ pc = "train"
  /\ \/ /\ "train" \notin opened
        /\ pc' = "exited"
        /\ UNCHANGED train_mq
     \/ /\ "train" \in opened
        /\ Len(train_mq) < TrainCap
        /\ train_mq' = Append(train_mq, TrainBatch(arr_timestamp))
        /\ pc' = "control"
  /\ UNCHANGED <<nic, arrivals, next_open, opened, burst, pkt_cnt, ready_to_infer, with_margin>>
  /\ UNCHANGED <<windowVars, timerVars, existing, control_mq, infer_mq, result_mq>>
  /\ UNCHANGED <<backendVars, restartVars>>

\* Mutant: the -1 of an empty queue is not told from a message.
ReadControlUnchecked ==
  /\ pc = "control"
  /\ ready_to_infer = 0
  /\ IF TRUE
     THEN /\ control_mq' = IF control_mq = << >> THEN control_mq ELSE Tail(control_mq)
          /\ ready_to_infer' = 1
          /\ with_margin' = TRUE
          /\ pc' = "infer"
          /\ UNCHANGED burst
     ELSE /\ FinishPacket
          /\ UNCHANGED <<control_mq, ready_to_infer, with_margin>>
  /\ UNCHANGED <<nic, arrivals, next_open, opened, pkt_cnt>>
  /\ UNCHANGED <<windowVars, timerVars, existing, train_mq, infer_mq, result_mq>>
  /\ UNCHANGED <<backendVars, restartVars>>

\* The non-blocking receive from the control queue; its content is ignored.
ReadControl ==
  /\ pc = "control"
  /\ ready_to_infer = 0
  /\ IF "control" \in opened /\ control_mq # << >>
     THEN /\ control_mq' = Tail(control_mq)
          /\ ready_to_infer' = 1
          /\ with_margin' = TRUE
          /\ pc' = "infer"
          /\ UNCHANGED burst
     ELSE /\ FinishPacket
          /\ UNCHANGED <<control_mq, ready_to_infer, with_margin>>
  /\ UNCHANGED <<nic, arrivals, next_open, opened, pkt_cnt>>
  /\ UNCHANGED <<windowVars, timerVars, existing, train_mq, infer_mq, result_mq>>
  /\ UNCHANGED <<backendVars, restartVars>>

\* Mutant: every deadline gets the margin, not the first only.
SkipControlKeepsMargin ==
  /\ pc = "control"
  /\ ready_to_infer = 1
  /\ with_margin' = TRUE
  /\ pc' = "infer"
  /\ UNCHANGED <<nic, arrivals, next_open, opened, burst, pkt_cnt, ready_to_infer>>
  /\ UNCHANGED <<windowVars, timerVars, queueVars, backendVars, restartVars>>

SkipControl ==
  /\ pc = "control"
  /\ ready_to_infer = 1
  /\ with_margin' = FALSE
  /\ pc' = "infer"
  /\ UNCHANGED <<nic, arrivals, next_open, opened, burst, pkt_cnt, ready_to_infer>>
  /\ UNCHANGED <<windowVars, timerVars, queueVars, backendVars, restartVars>>

\* Mutant: the request is sent and the loop goes on without its reply.
SendInferAsync ==
  /\ pc = "infer"
  /\ \/ /\ "infer" \notin opened \/ LOOK_BACK + 1 > INFER_MSG_WORDS
        /\ pc' = "exited"
        /\ UNCHANGED <<infer_mq, burst>>
     \/ /\ "infer" \in opened /\ LOOK_BACK + 1 <= INFER_MSG_WORDS
        /\ Len(infer_mq) < InferCap
        /\ infer_mq' = Append(infer_mq,
             [id |-> pkt_cnt, window |-> InferWindow(arr_timestamp, next_avail)])
        /\ FinishPacket
  /\ UNCHANGED <<nic, arrivals, next_open, opened, pkt_cnt, ready_to_infer, with_margin>>
  /\ UNCHANGED <<windowVars, timerVars, existing, train_mq, control_mq, result_mq>>
  /\ UNCHANGED <<backendVars, restartVars>>

\* send_to_infer: pkt_cnt identifies the request.  mq_send fails, and ends the
\* process, on a bad descriptor and on a message longer than the queue allows.
SendInfer ==
  /\ pc = "infer"
  /\ \/ /\ "infer" \notin opened \/ LOOK_BACK + 1 > INFER_MSG_WORDS
        /\ pc' = "exited"
        /\ UNCHANGED infer_mq
     \/ /\ "infer" \in opened /\ LOOK_BACK + 1 <= INFER_MSG_WORDS
        /\ Len(infer_mq) < InferCap
        /\ infer_mq' = Append(infer_mq,
             [id |-> pkt_cnt, window |-> InferWindow(arr_timestamp, next_avail)])
        /\ pc' = "await"
  /\ UNCHANGED <<nic, arrivals, next_open, opened, burst, pkt_cnt, ready_to_infer, with_margin>>
  /\ UNCHANGED <<windowVars, timerVars, existing, train_mq, control_mq, result_mq>>
  /\ UNCHANGED <<backendVars, restartVars>>

\* A bad result descriptor ends the process.
ExitOnResult ==
  /\ pc = "await"
  /\ "result" \notin opened
  /\ pc' = "exited"
  /\ UNCHANGED <<nic, arrivals, next_open, opened, burst, pkt_cnt, ready_to_infer, with_margin>>
  /\ UNCHANGED <<windowVars, timerVars, queueVars, backendVars, restartVars>>

\* recv_prediction returns 0 for the reply to another request, and the loop
\* around it takes 0 for "not yet": a prediction of 0 is skipped like it.
SkipReply ==
  /\ pc = "await"
  /\ "result" \in opened
  /\ result_mq # << >>
  /\ Head(result_mq).id # pkt_cnt \/ Head(result_mq).due = Zero
  /\ result_mq' = Tail(result_mq)
  /\ UNCHANGED <<receiverVars, windowVars, timerVars>>
  /\ UNCHANGED <<existing, train_mq, control_mq, infer_mq, backendVars, restartVars>>

\* Mutant: the reply is read but stays in the queue.
UsePredictionKeepsReply ==
  /\ pc = "await"
  /\ "result" \in opened
  /\ result_mq # << >>
  /\ LET reply == Head(result_mq)
     IN /\ reply.id = pkt_cnt
        /\ reply.due # Zero
        /\ IF reply.due = Late THEN UNCHANGED timerVars
           ELSE IF with_margin THEN ArmWithMargin(reply.due) ELSE Arm(reply.due)
  /\ result_mq' = result_mq
  /\ FinishPacket
  /\ UNCHANGED <<nic, arrivals, next_open, opened, pkt_cnt, ready_to_infer, with_margin>>
  /\ UNCHANGED <<windowVars, existing, train_mq, control_mq, infer_mq>>
  /\ UNCHANGED <<backendVars, restartVars>>

\* Mutant: a late prediction stops the timer instead of leaving it.
UsePredictionStopsWhenLate ==
  /\ pc = "await"
  /\ "result" \in opened
  /\ result_mq # << >>
  /\ LET reply == Head(result_mq)
     IN /\ reply.id = pkt_cnt
        /\ reply.due # Zero
        /\ IF reply.due = Late THEN timer' = Stopped /\ UNCHANGED <<errors, error_idx, error_sum, suspected>>
           ELSE IF with_margin THEN ArmWithMargin(reply.due) ELSE Arm(reply.due)
  /\ result_mq' = Tail(result_mq)
  /\ FinishPacket
  /\ UNCHANGED <<nic, arrivals, next_open, opened, pkt_cnt, ready_to_infer, with_margin>>
  /\ UNCHANGED <<windowVars, existing, train_mq, control_mq, infer_mq>>
  /\ UNCHANGED <<backendVars, restartVars>>

\* The awaited reply.  A prediction already in the past leaves the timer as it
\* is: armed with the previous deadline, or stopped.
UsePrediction ==
  /\ pc = "await"
  /\ "result" \in opened
  /\ result_mq # << >>
  /\ LET reply == Head(result_mq)
     IN /\ reply.id = pkt_cnt
        /\ reply.due # Zero
        /\ IF reply.due = Late THEN UNCHANGED timerVars
           ELSE IF with_margin THEN ArmWithMargin(reply.due) ELSE Arm(reply.due)
  /\ result_mq' = Tail(result_mq)
  /\ FinishPacket
  /\ UNCHANGED <<nic, arrivals, next_open, opened, pkt_cnt, ready_to_infer, with_margin>>
  /\ UNCHANGED <<windowVars, existing, train_mq, control_mq, infer_mq>>
  /\ UNCHANGED <<backendVars, restartVars>>

Receiver ==
  \/ OpenQueue \/ Poll \/ ManageTimer \/ DropPacket \/ StoreHeartbeat
  \/ SendTrain \/ ReadControl \/ SkipControl \/ SendInfer
  \/ ExitOnResult \/ SkipReply \/ UsePrediction

-----------------------------------------------------------------------------
(***************************************************************************)
(* The training process: the parent of new_train.py.                       *)
(***************************************************************************)

\* Everything but the queues and the Python processes.
detectorVars == <<receiverVars, windowVars, timerVars>>

\* The parent creates /infer_data and starts the child, then creates
\* /train_data.  Creating a queue that exists leaves its messages alone.
TrainerCreates ==
  /\ \/ /\ trainer = "create_infer"
        /\ existing' = existing \union {"infer"}
        /\ inference' = "create_control"
        /\ trainer' = "create_train"
     \/ /\ trainer = "create_train"
        /\ existing' = existing \union {"train"}
        /\ trainer' = "collect"
        /\ UNCHANGED inference
  /\ UNCHANGED <<detectorVars, train_mq, control_mq, infer_mq, result_mq>>
  /\ UNCHANGED <<train_data_count, first_train, model_version, param_queue>>
  /\ UNCHANGED <<infer_version, request, restartVars>>

\* A blocking receive; the first fit waits for FIRST_BATCHES messages.
Collect ==
  /\ trainer = "collect"
  /\ train_mq # << >>
  /\ train_mq' = Tail(train_mq)
  /\ train_data_count' = IF first_train THEN train_data_count + 1 ELSE train_data_count
  /\ trainer' = IF first_train /\ train_data_count' < FIRST_BATCHES THEN "collect" ELSE "fit"
  /\ UNCHANGED <<detectorVars, existing, control_mq, infer_mq, result_mq>>
  /\ UNCHANGED <<first_train, model_version, param_queue, inferenceVars, restartVars>>

\* The fit ends and the weights are put on the unbounded queue to the child.
Fit ==
  /\ trainer = "fit"
  /\ model_version' = model_version + 1
  /\ param_queue' = Append(param_queue, model_version')
  /\ first_train' = FALSE
  /\ trainer' = "collect"
  /\ UNCHANGED <<detectorVars, queueVars, train_data_count, inferenceVars, restartVars>>

Trainer == TrainerCreates \/ Collect \/ Fit

-----------------------------------------------------------------------------
(***************************************************************************)
(* The inference process: the child of new_train.py.                       *)
(***************************************************************************)

InferenceCreates ==
  /\ \/ /\ inference = "create_control"
        /\ existing' = existing \union {"control"}
        /\ inference' = "create_result"
     \/ /\ inference = "create_result"
        /\ existing' = existing \union {"result"}
        /\ inference' = "await_params"
  /\ UNCHANGED <<detectorVars, train_mq, control_mq, infer_mq, result_mq>>
  /\ UNCHANGED <<trainerVars, param_queue, infer_version, request, restartVars>>

\* Mutant: the process serves without announcing itself.
FirstParamsSilent ==
  /\ inference = "await_params"
  /\ param_queue # << >>
  /\ infer_version' = Head(param_queue)
  /\ param_queue' = Tail(param_queue)
  /\ inference' = "refresh"
  /\ UNCHANGED <<detectorVars, queueVars, trainerVars, request, restartVars>>

\* The blocking get of the first weights.
FirstParams ==
  /\ inference = "await_params"
  /\ param_queue # << >>
  /\ infer_version' = Head(param_queue)
  /\ param_queue' = Tail(param_queue)
  /\ inference' = "announce"
  /\ UNCHANGED <<detectorVars, queueVars, trainerVars, request, restartVars>>

\* "tell the DPDK process that I am ready for doing inference": once, and
\* blocking while the control queue is full.
Announce ==
  /\ inference = "announce"
  /\ Len(control_mq) < ControlCap
  /\ control_mq' = Append(control_mq, 1)
  /\ inference' = "refresh"
  /\ UNCHANGED <<detectorVars, existing, train_mq, infer_mq, result_mq>>
  /\ UNCHANGED <<trainerVars, param_queue, infer_version, request, restartVars>>

\* Mutant: the weights are taken off the queue and not set.
RefreshNotApplied ==
  /\ inference = "refresh"
  /\ \/ UNCHANGED <<param_queue, infer_version>>
     \/ /\ param_queue # << >>
        /\ infer_version' = infer_version
        /\ param_queue' = Tail(param_queue)
  /\ inference' = "serve"
  /\ UNCHANGED <<detectorVars, queueVars, trainerVars, request, restartVars>>

\* The non-blocking get at the head of the loop takes at most one set of
\* weights, and may find none while the parent's feeder thread is still
\* writing them.
Refresh ==
  /\ inference = "refresh"
  /\ \/ UNCHANGED <<param_queue, infer_version>>
     \/ /\ param_queue # << >>
        /\ infer_version' = Head(param_queue)
        /\ param_queue' = Tail(param_queue)
  /\ inference' = "serve"
  /\ UNCHANGED <<detectorVars, queueVars, trainerVars, request, restartVars>>

\* The blocking receive of a request.
Serve ==
  /\ inference = "serve"
  /\ infer_mq # << >>
  /\ request' = Head(infer_mq)
  /\ infer_mq' = Tail(infer_mq)
  /\ inference' = "predict"
  /\ UNCHANGED <<detectorVars, existing, train_mq, control_mq, result_mq>>
  /\ UNCHANGED <<trainerVars, param_queue, infer_version, restartVars>>

\* Mutant: the reply is never sent, the "TODO" left in train.py.
PredictNoReply ==
  /\ inference = "predict"
  /\ \E due \in Predictions :
       IF due = Negative
       THEN /\ inference' = "dead"
            /\ UNCHANGED result_mq
       ELSE /\ Len(result_mq) < ResultCap
            /\ UNCHANGED result_mq
            /\ inference' = "refresh"
  /\ request' = NoRequest
  /\ UNCHANGED <<detectorVars, existing, train_mq, control_mq, infer_mq>>
  /\ UNCHANGED <<trainerVars, param_queue, infer_version, restartVars>>

\* struct.pack raises on a negative prediction and ends the child; otherwise
\* the reply is sent, blocking while the result queue is full.
Predict ==
  /\ inference = "predict"
  /\ \E due \in Predictions :
       IF due = Negative
       THEN /\ inference' = "dead"
            /\ UNCHANGED result_mq
       ELSE /\ Len(result_mq) < ResultCap
            /\ result_mq' = Append(result_mq, [id |-> request.id, due |-> due])
            /\ inference' = "refresh"
  /\ request' = NoRequest
  /\ UNCHANGED <<detectorVars, existing, train_mq, control_mq, infer_mq>>
  /\ UNCHANGED <<trainerVars, param_queue, infer_version, restartVars>>

Inference ==
  InferenceCreates \/ FirstParams \/ Announce \/ Refresh \/ Serve \/ Predict

-----------------------------------------------------------------------------
(***************************************************************************)
(* The clock and the operator.                                             *)
(***************************************************************************)

Pending(reply) == reply.due \in Ticks

Aged(reply) == IF Pending(reply) THEN [reply EXCEPT !.due = @ - 1] ELSE reply

\* A tick brings the deadline of the timer and every prediction that has not
\* been read closer; a prediction due now is in the past afterwards.
Tick ==
  /\ CountingDown \/ \E i \in DOMAIN result_mq : Pending(result_mq[i])
  /\ timer' = TimerAfterTick
  /\ result_mq' = [i \in DOMAIN result_mq |-> Aged(result_mq[i])]
  /\ UNCHANGED <<receiverVars, windowVars, errors, error_idx, error_sum, suspected>>
  /\ UNCHANGED <<existing, train_mq, control_mq, infer_mq, backendVars, restartVars>>

\* The DPDK program is killed at any point and started again; the port comes
\* up with empty rings and the message queues keep what they hold.
RestartReceiver ==
  /\ receiver_restarts < MaxReceiverRestarts
  /\ receiver_restarts' = receiver_restarts + 1
  /\ nic' = << >> /\ burst' = << >>
  /\ pc' = "open" /\ next_open' = 1 /\ opened' = {}
  /\ pkt_cnt' = 0 /\ ready_to_infer' = 0 /\ with_margin' = FALSE
  /\ ClearWindow /\ ClearTimer
  /\ UNCHANGED <<arrivals, queueVars, backendVars, backend_restarts>>

\* Both Python processes are killed at any point and started again.
RestartBackend ==
  /\ backend_restarts < MaxBackendRestarts
  /\ backend_restarts' = backend_restarts + 1
  /\ trainer' = "create_infer" /\ train_data_count' = 0 /\ first_train' = TRUE
  /\ model_version' = 0 /\ param_queue' = << >>
  /\ inference' = "off" /\ infer_version' = 0 /\ request' = NoRequest
  /\ UNCHANGED <<detectorVars, queueVars, receiver_restarts>>

Next ==
  \/ \E kind \in PacketKinds : Arrive(kind)
  \/ Receiver
  \/ Trainer
  \/ Inference
  \/ Tick
  \/ RestartReceiver
  \/ RestartBackend

Spec == Init /\ [][Next]_vars

\* The receiver busy-polls on a core of its own, the Python processes run when
\* their queue has what they wait for, and time passes.  Nothing is assumed of
\* the network or of restarts.
Fairness ==
  /\ WF_vars(Receiver)
  /\ WF_vars(Trainer)
  /\ WF_vars(Inference)
  /\ WF_vars(Tick)

FairSpec == Spec /\ Fairness

-----------------------------------------------------------------------------
(***************************************************************************)
(* Safety.                                                                 *)
(***************************************************************************)

\* The steps in which the inference process answers requests, now or later.
Serving == {"refresh", "serve", "predict"}

\* The steps after its announcement: it is serving, or a negative prediction
\* has ended it.
AfterAnnouncement == Serving \union {"dead"}

InFlight ==
  Len(infer_mq) + Len(result_mq) + (IF inference = "predict" THEN 1 ELSE 0)

\* The requests that have been sent and not been replied to, oldest last.
OpenRequests ==
  Range(infer_mq) \union (IF inference = "predict" THEN {request} ELSE {})

\* A receiver has one request outstanding at a time, and a receiver that was
\* killed leaves at most one behind: requests and replies together never
\* exceed one per life of the receiver, so neither blocking send between the
\* receive loop and the inference process can wait on a full queue.
InFlightBounded == InFlight <= 1 + receiver_restarts

\* As long as the receiver is not restarted, everything between the two
\* processes is about the heartbeat the receiver is waiting on: the reply it
\* takes is never the reply to an earlier heartbeat.
InFlightIsCurrent ==
  /\ \A r \in OpenRequests \union Range(result_mq) : r.id = pkt_cnt
  /\ InFlight > 0 => pc \in {"await", "exited"}

\* ready_to_infer is "an indication of whether the inference model is ready":
\* when it is 1 a process is there that answers.  This takes predictions that
\* can be packed: a negative one ends the inference process, and the flag stays.
ReadyMeansModelReady == ready_to_infer = 1 => inference \in Serving

\* "tell the DPDK process that I am ready for doing inference": once the
\* inference process is past it, the receiver knows or has the message waiting.
AnnouncementReachesReceiver ==
  inference \in AfterAnnouncement => ready_to_infer = 1 \/ control_mq # << >>

\* A request holds the last LOOK_BACK receipts, none of them a slot that was
\* never written: the model cannot be ready before a full ring was trained on.
FullWindowRequested ==
  \A r \in OpenRequests :
    \A j \in 1 .. LOOK_BACK : r.window[j] = r.id - LOOK_BACK + j

\* Every training message holds ARR_SIZE consecutive heartbeats in order of
\* receipt, and starts where a previous message of the same receiver ended.
BatchesConsecutive ==
  \A b \in Range(train_mq) :
    /\ b[1] % ARR_SIZE = 1 % ARR_SIZE
    /\ \A i \in 1 .. ARR_SIZE : b[i] = b[1] + i - 1

\* Weights reach the inference process in the order they were fitted and none
\* is lost, although only one set is taken per request.
WeightsInOrder ==
  /\ infer_version + Len(param_queue) = model_version
  /\ \A i \in DOMAIN param_queue : param_queue[i] = infer_version + i

\* The mean of the suspected intervals is added to a deadline in one place
\* only, the branch that reads the control message.  No timer was ever armed
\* before it, so what is added is 0: the learnt margin never reaches a deadline.
MarginIsVoid ==
  pc \in {"infer", "await"} /\ with_margin => error_sum = 0 /\ ~timer.armed

\* The receive loop never ends by itself.
ReceiverKeepsRunning == pc # "exited"

-----------------------------------------------------------------------------
(***************************************************************************)
(* Refinement.                                                             *)
(***************************************************************************)

\* Where the receive loop stands with the heartbeat it is handling.
Phase ==
  CASE pc \in {"train", "control", "infer"} -> "heard"
    [] pc = "await" -> "waiting"
    [] OTHER -> "idle"

Service == INSTANCE SuspicionService WITH
  heard <- pkt_cnt, phase <- Phase, deadline <- timer.armed

\* The detector with its queues, processes and restarts is a SuspicionService:
\* no interleaving lets one heartbeat be answered twice, lets a deadline move
\* without the answer to the current heartbeat, or lets an expired deadline be
\* reported twice.
ImplementsService == Service!ServiceSpec

-----------------------------------------------------------------------------
(***************************************************************************)
(* Liveness, with a model whose predictions are never zero or negative.    *)
(***************************************************************************)

\* Every burst is handled to its last packet: a heartbeat is never stuck behind
\* a full training queue, an unanswered request or the wrong reply.
BurstDrained == burst # << >> ~> burst = << >>

\* Completeness: packets stop coming (a behaviour has at most MaxArrivals), so
\* once a deadline has been set the peer ends up suspected.
SilenceSuspected == timer.armed ~> suspected

\* A full ring of heartbeats gets a model trained and announced.
ModelAnnounced == train_mq # << >> ~> (control_mq # << >> \/ ready_to_infer = 1)

=============================================================================
