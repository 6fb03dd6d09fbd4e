--------------------------- MODULE SignalBackend ---------------------------
(***************************************************************************)
(* The evaluated detector (perf_eval/mlfd_perf_eval/recv_heartbeat.c) with *)
(* its signal-driven backend: async_signal_train.py and                    *)
(* async_signal_inference.py.  Both programs sleep, and are woken by a     *)
(* signal the kernel sends once, when a message arrives at an empty queue  *)
(* on which a notification was requested.                                  *)
(*                                                                         *)
(*   receiver --train_q--> trainer --params--> loader thread               *)
(*   receiver --requests--> handlers --replies--> receiver                 *)
(*   loader thread --control--> receiver                                   *)
(*                                                                         *)
(* A Python signal handler runs between any two bytecodes of the main      *)
(* thread, also inside a handler: frames is the stack of the handlers      *)
(* that are running, the last on top.  Messages of train_q and control     *)
(* carry nothing the properties tell apart and are counted; a request is   *)
(* the number of its heartbeat, and a reply is this number and whether the *)
(* prediction is 0.  What is predicted otherwise, and with which of two    *)
(* sets of weights, is left open.                                          *)
(***************************************************************************)
EXTENDS Integers, Sequences, SequencesExt, FiniteSets

CONSTANTS
  TrainCap, ParamCap, RequestCap, ReplyCap,   \* max_messages of the queues
  MaxBeats                                    \* bound on the heartbeats

ASSUME CapAssumption ==
  /\ TrainCap \in Nat \ {0} /\ ParamCap \in Nat \ {0}
  /\ RequestCap \in Nat \ {0} /\ ReplyCap \in Nat \ {0} /\ MaxBeats \in Nat

VARIABLES
  \* the receive loop
  receiver, beats, ready,
  \* the kernel's queues, the requested notifications, the pending signals
  train_q, params, requests, replies, control,
  train_notify, train_signal, infer_notify, infer_signal,
  \* the training program
  trainer, fits,
  \* the inference program: main thread, its handlers, and the loader thread
  inference, frames, loader, weights, announced

loopVars == <<receiver, beats, ready>>
trainQueueVars == <<train_q, train_notify, train_signal>>
requestVars == <<requests, infer_notify, infer_signal>>
trainProcessVars == <<trainer, fits>>
loaderVars == <<loader, weights, announced>>
handlerVars == <<inference, frames>>
signalVars ==
  <<loopVars, trainQueueVars, requestVars, params, replies, control,
    trainProcessVars, loaderVars, handlerVars>>

\* Whether a handler holds a request.
Working(f) == f.at \in {"notify", "infer", "reply"}

SignalInit ==
  /\ receiver = "off" /\ beats = 0 /\ ready = FALSE
  /\ train_q = 0 /\ params = << >> /\ requests = << >> /\ replies = << >> /\ control = 0
  /\ train_notify = FALSE /\ train_signal = FALSE
  /\ infer_notify = FALSE /\ infer_signal = FALSE
  /\ trainer = "create" /\ fits = 0
  /\ inference = "create" /\ frames = << >>
  /\ loader = "off" /\ weights = 0 /\ announced = FALSE

-----------------------------------------------------------------------------
\* The receive loop.

\* mq_open without O_CREAT: the receiver is started when the queues exist.
StartReceiver ==
  /\ receiver = "off" /\ trainer # "create" /\ inference # "create"
  /\ receiver' = "poll"
  /\ UNCHANGED <<beats, ready, trainQueueVars, requestVars, params, replies, control,
                 trainProcessVars, loaderVars, handlerVars>>

\* A heartbeat: RetrainPolicy says whether it comes with a training message.
Beat ==
  /\ receiver = "poll" /\ beats < MaxBeats
  /\ beats' = beats + 1
  /\ receiver' \in {"train", "control"}
  /\ UNCHANGED <<ready, trainQueueVars, requestVars, params, replies, control,
                 trainProcessVars, loaderVars, handlerVars>>

\* mq_send blocks while the queue is full.
SendTraining ==
  /\ receiver = "train" /\ train_q < TrainCap
  /\ train_q' = train_q + 1
  /\ train_signal' = (train_signal \/ (train_notify /\ train_q = 0))
  /\ train_notify' = (train_notify /\ train_q # 0)
  /\ receiver' = "control"
  /\ UNCHANGED <<beats, ready, requestVars, params, replies, control,
                 trainProcessVars, loaderVars, handlerVars>>

ReadReadiness ==
  /\ receiver = "control"
  /\ ready' = (ready \/ control > 0)
  /\ control' = IF ready \/ control = 0 THEN control ELSE control - 1
  /\ receiver' = IF ready' THEN "request" ELSE "poll"
  /\ UNCHANGED <<beats, trainQueueVars, requestVars, params, replies,
                 trainProcessVars, loaderVars, handlerVars>>

\* Mutant: the next heartbeat is not held up by the reply.
SendRequestAsync ==
  /\ receiver = "request" /\ Len(requests) < RequestCap
  /\ requests' = Append(requests, beats)
  /\ infer_signal' = (infer_signal \/ (infer_notify /\ requests = << >>))
  /\ infer_notify' = (infer_notify /\ requests # << >>)
  /\ receiver' \in {"await", "poll"}
  /\ UNCHANGED <<beats, ready, trainQueueVars, params, replies, control,
                 trainProcessVars, loaderVars, handlerVars>>

SendRequest ==
  /\ receiver = "request" /\ Len(requests) < RequestCap
  /\ requests' = Append(requests, beats)
  /\ infer_signal' = (infer_signal \/ (infer_notify /\ requests = << >>))
  /\ infer_notify' = (infer_notify /\ requests # << >>)
  /\ receiver' = "await"
  /\ UNCHANGED <<beats, ready, trainQueueVars, params, replies, control,
                 trainProcessVars, loaderVars, handlerVars>>

\* recv_prediction, before and in the loop that receives again: it returns 0
\* for a reply that does not match, and what the reply says for one that does,
\* which may be 0 as well.
AwaitReply ==
  /\ receiver \in {"await", "again"} /\ replies # << >>
  /\ replies' = Tail(replies)
  /\ receiver' = IF Head(replies) = [id |-> beats, zero |-> FALSE] THEN "poll" ELSE "again"
  /\ UNCHANGED <<beats, ready, trainQueueVars, requestVars, params, control,
                 trainProcessVars, loaderVars, handlerVars>>

Loop == StartReceiver \/ SendTraining \/ ReadReadiness \/ SendRequest \/ AwaitReply

-----------------------------------------------------------------------------
\* The training program.

\* The notification is requested here, the handler installed in the next step.
CreateTrainQueue ==
  /\ trainer = "create"
  /\ train_notify' = TRUE
  /\ trainer' = "build"
  /\ UNCHANGED <<loopVars, train_q, train_signal, requestVars, params, replies, control,
                 fits, loaderVars, handlerVars>>

\* The default action of SIGUSR1 ends the program.
KilledBySignal ==
  /\ trainer = "build" /\ train_signal
  /\ trainer' = "dead" /\ train_signal' = FALSE
  /\ UNCHANGED <<loopVars, train_q, train_notify, requestVars, params, replies, control,
                 fits, loaderVars, handlerVars>>

InstallTrainHandler ==
  /\ trainer = "build" /\ ~train_signal
  /\ trainer' = "sleep"
  /\ UNCHANGED <<loopVars, trainQueueVars, requestVars, params, replies, control,
                 fits, loaderVars, handlerVars>>

HandleTrainSignal ==
  /\ trainer = "sleep" /\ train_signal
  /\ trainer' = "receive" /\ train_signal' = FALSE
  /\ UNCHANGED <<loopVars, train_q, train_notify, requestVars, params, replies, control,
                 fits, loaderVars, handlerVars>>

ReceiveBatch ==
  /\ trainer = "receive" /\ train_q > 0
  /\ train_q' = train_q - 1
  /\ trainer' = "fit"
  /\ UNCHANGED <<loopVars, train_notify, train_signal, requestVars, params, replies,
                 control, fits, loaderVars, handlerVars>>

FitModel ==
  /\ trainer = "fit" /\ Len(params) < ParamCap
  /\ fits' = fits + 1
  /\ params' = Append(params, fits')
  /\ trainer' = "request"
  /\ UNCHANGED <<loopVars, trainQueueVars, requestVars, replies, control,
                 loaderVars, handlerVars>>

\* Mutant: the notification is not requested again.
RequestTrainSignalOnce ==
  /\ trainer = "request"
  /\ trainer' = "sleep"
  /\ UNCHANGED <<loopVars, train_q, train_signal, train_notify, requestVars, params,
                 replies, control, fits, loaderVars, handlerVars>>

\* A queue that is not empty now will not notify until it has been empty.
RequestTrainSignal ==
  /\ trainer = "request"
  /\ train_notify' = TRUE
  /\ trainer' = "sleep"
  /\ UNCHANGED <<loopVars, train_q, train_signal, requestVars, params, replies, control,
                 fits, loaderVars, handlerVars>>

Trainer ==
  \/ CreateTrainQueue \/ KilledBySignal \/ InstallTrainHandler \/ HandleTrainSignal
  \/ ReceiveBatch \/ FitModel \/ RequestTrainSignal

-----------------------------------------------------------------------------
\* The inference program.

CreateInferQueues ==
  /\ inference = "create"
  /\ infer_notify' = TRUE
  /\ inference' = "build"
  /\ UNCHANGED <<loopVars, trainQueueVars, requests, infer_signal, params, replies,
                 control, trainProcessVars, loaderVars, frames>>

\* The model is built, the handler installed, the notification requested once
\* more and the thread started.  The request replaces the first one: a program
\* that failed here would never have run.  No signal can be pending yet, the
\* receiver has not been told of a model.
StartInference ==
  /\ inference = "build"
  /\ infer_notify' = TRUE
  /\ inference' = "serve" /\ loader' = "wait"
  /\ UNCHANGED <<loopVars, trainQueueVars, requests, infer_signal, params, replies,
                 control, trainProcessVars, weights, announced, frames>>

\* The main thread calls the handler itself after every second of sleep.
PollRequests ==
  /\ inference = "serve" /\ frames = << >>
  /\ frames' = << [at |-> "receive", id |-> 0] >>
  /\ UNCHANGED <<loopVars, trainQueueVars, requestVars, params, replies, control,
                 trainProcessVars, loaderVars, inference>>

HandleInferSignal ==
  /\ inference = "serve" /\ infer_signal
  /\ infer_signal' = FALSE
  /\ frames' = Append(frames, [at |-> "receive", id |-> 0])
  /\ UNCHANGED <<loopVars, trainQueueVars, requests, infer_notify, params, replies,
                 control, trainProcessVars, loaderVars, inference>>

Top == frames[Len(frames)]
Continue(at, id) == frames' = [frames EXCEPT ![Len(frames)] = [at |-> at, id |-> id]]
At(step) == inference = "serve" /\ frames # << >> /\ Top.at = step

\* receive(timeout = 0)
ReceiveRequest ==
  /\ At("receive") /\ requests # << >>
  /\ requests' = Tail(requests)
  /\ Continue("notify", Head(requests))
  /\ UNCHANGED <<loopVars, trainQueueVars, infer_notify, infer_signal, params, replies,
                 control, trainProcessVars, loaderVars, inference>>

\* BusyError: nothing is waiting and the handler returns.
ReturnFromHandler ==
  /\ At("receive") /\ requests = << >>
  /\ frames' = Front(frames)
  /\ UNCHANGED <<loopVars, trainQueueVars, requestVars, params, replies, control,
                 trainProcessVars, loaderVars, inference>>

\* Mutant: the notification is not requested again.
RequestInferSignalOnce ==
  /\ At("notify")
  /\ Continue("infer", Top.id)
  /\ UNCHANGED <<loopVars, trainQueueVars, requests, infer_signal, infer_notify, params,
                 replies, control, trainProcessVars, loaderVars, inference>>

RequestInferSignal ==
  /\ At("notify")
  /\ infer_notify' = TRUE
  /\ Continue("infer", Top.id)
  /\ UNCHANGED <<loopVars, trainQueueVars, requests, infer_signal, params, replies,
                 control, trainProcessVars, loaderVars, inference>>

Infer ==
  /\ At("infer")
  /\ Continue("reply", Top.id)
  /\ UNCHANGED <<loopVars, trainQueueVars, requestVars, params, replies, control,
                 trainProcessVars, loaderVars, inference>>

\* A negative prediction cannot be packed, and one scaled by an interval of 0
\* is not a number: the exception leaves every handler and ends the main
\* thread.  The loader thread keeps the program alive.
InferRaises ==
  /\ At("infer")
  /\ inference' = "dead" /\ frames' = << >>
  /\ UNCHANGED <<loopVars, trainQueueVars, requestVars, params, replies, control,
                 trainProcessVars, loaderVars>>

\* Mutant: the handler goes on without sending the result.
ReplyNothing ==
  /\ At("reply") /\ Len(replies) < ReplyCap
  /\ Continue("receive", 0)
  /\ UNCHANGED <<loopVars, trainQueueVars, requestVars, params, control, replies,
                 trainProcessVars, loaderVars, inference>>

Reply ==
  /\ At("reply") /\ Len(replies) < ReplyCap
  /\ \E zero \in BOOLEAN : replies' = Append(replies, [id |-> Top.id, zero |-> zero])
  /\ Continue("receive", 0)
  /\ UNCHANGED <<loopVars, trainQueueVars, requestVars, params, control,
                 trainProcessVars, loaderVars, inference>>

LoadParams ==
  /\ loader = "wait" /\ params # << >>
  /\ weights' = Head(params) /\ params' = Tail(params)
  /\ loader' = IF announced THEN "wait" ELSE "announce"
  /\ UNCHANGED <<loopVars, trainQueueVars, requestVars, replies, control,
                 trainProcessVars, announced, handlerVars>>

\* Sent once: the queue of ten messages cannot be full.
AnnounceModel ==
  /\ loader = "announce"
  /\ control' = control + 1
  /\ announced' = TRUE /\ loader' = "wait"
  /\ UNCHANGED <<loopVars, trainQueueVars, requestVars, params, replies,
                 trainProcessVars, weights, handlerVars>>

Handlers ==
  \/ ReceiveRequest \/ ReturnFromHandler \/ RequestInferSignal \/ Infer \/ InferRaises
  \/ Reply

Inference ==
  \/ CreateInferQueues \/ StartInference \/ PollRequests \/ HandleInferSignal
  \/ Handlers \/ LoadParams \/ AnnounceModel

-----------------------------------------------------------------------------

SignalNext == Beat \/ Loop \/ Trainer \/ Inference

SignalSafety == SignalInit /\ [][SignalNext]_signalVars

\* The receive loop spins on a core of its own, and the operating system runs
\* the two programs: each goes on as long as it can.  A heartbeat need not
\* come, and an inference need not fail.
SignalFairness ==
  /\ WF_signalVars(Loop)
  /\ WF_signalVars(Trainer)
  /\ WF_signalVars(CreateInferQueues \/ StartInference \/ HandleInferSignal)
  /\ WF_signalVars(PollRequests)
  /\ WF_signalVars(ReceiveRequest \/ ReturnFromHandler \/ RequestInferSignal \/ Infer \/ Reply)
  /\ WF_signalVars(LoadParams \/ AnnounceModel)

SignalSpec == SignalSafety /\ SignalFairness

-----------------------------------------------------------------------------

ReplyRecords == [id : Nat, zero : BOOLEAN]

SignalType ==
  /\ receiver \in {"off", "poll", "train", "control", "request", "await", "again"}
  /\ beats \in Nat /\ ready \in BOOLEAN
  /\ train_q \in Nat /\ control \in Nat
  /\ params \in Seq(Nat) /\ requests \in Seq(Nat) /\ replies \in Seq(ReplyRecords)
  /\ train_notify \in BOOLEAN /\ train_signal \in BOOLEAN
  /\ infer_notify \in BOOLEAN /\ infer_signal \in BOOLEAN
  /\ trainer \in {"create", "build", "sleep", "receive", "fit", "request", "dead"}
  /\ fits \in Nat /\ weights \in Nat /\ announced \in BOOLEAN
  /\ inference \in {"create", "build", "serve", "dead"}
  /\ loader \in {"off", "wait", "announce"}
  /\ frames \in Seq([at : {"receive", "notify", "infer", "reply"}, id : Nat])

\* A request that is waiting is waiting for a signal on its way or for a
\* handler that is about to look: none depends on the poll once a second,
\* although requests are taken by handlers the signal did not start and the
\* notification is requested again only after that.
RequestNoticed ==
  requests # << >> /\ inference = "serve" =>
    infer_signal \/ \E i \in DOMAIN frames : frames[i].at = "receive"

\* The notification is requested before the inference is done, so that a
\* handler can interrupt one at work; but it finds nothing to do there: one
\* request is on its way at most, it is for the heartbeat the receiver waits
\* for, and it is answered by one handler.  So no reply is ever a mismatch, and
\* a receiver that receives again got a prediction of 0 and gets nothing more.
OneInference ==
  LET working == {i \in DOMAIN frames : Working(frames[i])}
  IN /\ Cardinality(working) + Len(requests) + Len(replies) <= 1
     /\ \A i \in working : frames[i].id = beats
     /\ \A i \in DOMAIN replies : replies[i].id = beats
     /\ receiver # "await" => working = {} /\ requests = << >> /\ replies = << >>

\* While the trainer sleeps over an empty queue, the next message wakes it.
EmptyQueueWatched == trainer = "sleep" /\ train_q = 0 => train_notify

\* A request is answered unless an inference raised: the receiver gets the reply
\* and goes on with the next heartbeat, or is sent back to receive again by a
\* prediction of 0, which it takes for a mismatch.
RequestAnswered ==
  receiver = "await" ~> receiver \in {"poll", "again"} \/ inference = "dead"

\* "this is a process that train the machine learning model": every training
\* message is trained on, unless the program was killed.
EveryBatchTrained == train_q > 0 ~> train_q = 0 \/ trainer = "dead"

=============================================================================
