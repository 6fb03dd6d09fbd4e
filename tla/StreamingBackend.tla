-------------------------- MODULE StreamingBackend --------------------------
(***************************************************************************)
(* The other protocol tried out for the evaluated detector: one receipt    *)
(* per message (recv_heartbeat_messed_up.c with optimized.py).  Every      *)
(* heartbeat is sent to the training and to the inference process, which   *)
(* keep the past themselves; the receive loop reads the predictions once   *)
(* it has been told that a model is ready.                                 *)
(*                                                                         *)
(*   receive loop --receipts--> training --model_params--> inference       *)
(*   receive loop --questions--> inference --answers--> receive loop       *)
(*   inference --ctrl--> receive loop                                      *)
(*                                                                         *)
(* The messages of receipts, model_params and ctrl are counted; a question *)
(* is the number of its heartbeat.  The timer is that of SuspicionTimer.   *)
(***************************************************************************)
EXTENDS Integers, Sequences, SequencesExt

CONSTANTS
  STREAM_LOOK_BACK, \* receipts a prediction is made from, 50
  TRAIN_SIZE,       \* receipts collected for a fit, 200
  ReceiptCap, QuestionCap, AnswerCap,   \* max_messages: 300, 50 and 100
  AnswerKinds,      \* what predicting may come to, see below
  MaxReceipts       \* bound on the heartbeats

\* A prediction of 0 looks like a reply to another question, and what
\* struct.pack refuses ends the inference process.
ASSUME StreamingConstants ==
  /\ TRAIN_SIZE \in Nat /\ STREAM_LOOK_BACK \in 1 .. TRAIN_SIZE - 1
  /\ ReceiptCap \in Nat \ {0} /\ QuestionCap \in Nat \ {0} /\ AnswerCap \in Nat \ {0}
  /\ AnswerKinds \subseteq {"time", "zero", "raise"} /\ MaxReceipts \in Nat

VARIABLES
  core, count, told,         \* receive loop: next step, pkt_cnt, ready_to_infer
  receipts, questions, answers, ctrl,
  learner, collected, fitted,   \* training: next step, data for the next fit, fits
  model_params,
  predictor,                 \* the inference process: next step,
  history,                   \*   receipts it keeps (the length of all_data),
  question,                  \*   the question it works on
  model_params_ready

coreVars == <<core, count, told>>
learnerVars == <<learner, collected, fitted>>
predictorVars == <<predictor, history, question, model_params_ready>>
streamingVars ==
  <<coreVars, receipts, questions, answers, ctrl, learnerVars, model_params, predictorVars>>

StreamingInit ==
  /\ core = "poll" /\ count = 0 /\ told = FALSE
  /\ receipts = 0 /\ questions = << >> /\ answers = << >> /\ ctrl = 0
  /\ learner = "collect" /\ collected = 0 /\ fitted = 0 /\ model_params = 0
  /\ predictor = "refresh" /\ history = 0 /\ question = 0 /\ model_params_ready = FALSE

-----------------------------------------------------------------------------
\* The receive loop.  Both sends block while their queue is full.

TakeReceipt ==
  /\ core = "poll" /\ count < MaxReceipts
  /\ count' = count + 1
  /\ core' = "train"
  /\ UNCHANGED <<told, receipts, questions, answers, ctrl, learnerVars, model_params,
                 predictorVars>>

send_to_ml_model ==
  /\ core = "train" /\ receipts < ReceiptCap
  /\ receipts' = receipts + 1
  /\ core' = "infer"
  /\ UNCHANGED <<count, told, questions, answers, ctrl, learnerVars, model_params,
                 predictorVars>>

send_to_infer ==
  /\ core = "infer" /\ Len(questions) < QuestionCap
  /\ questions' = Append(questions, count)
  /\ core' = "control"
  /\ UNCHANGED <<count, told, receipts, answers, ctrl, learnerVars, model_params,
                 predictorVars>>

\* Mutant: the -1 of an empty queue is taken for the message.
HearReadyUnchecked ==
  /\ core = "control"
  /\ told' = TRUE
  /\ ctrl' = IF told \/ ctrl = 0 THEN ctrl ELSE ctrl - 1
  /\ core' = "await"
  /\ UNCHANGED <<count, receipts, questions, answers, learnerVars, model_params,
                 predictorVars>>

\* The non-blocking receive, and whether this heartbeat waits for a prediction.
HearReady ==
  /\ core = "control"
  /\ told' = (told \/ ctrl > 0)
  /\ ctrl' = IF told \/ ctrl = 0 THEN ctrl ELSE ctrl - 1
  /\ core' = IF told' THEN "await" ELSE "poll"
  /\ UNCHANGED <<count, receipts, questions, answers, learnerVars, model_params,
                 predictorVars>>

recv_prediction ==
  /\ core = "await" /\ answers # << >>
  /\ answers' = Tail(answers)
  /\ core' = IF Head(answers) = [id |-> count, kind |-> "time"] THEN "poll" ELSE "await"
  /\ UNCHANGED <<count, told, receipts, questions, ctrl, learnerVars, model_params,
                 predictorVars>>

StreamLoop ==
  TakeReceipt \/ send_to_ml_model \/ send_to_infer \/ HearReady \/ recv_prediction

-----------------------------------------------------------------------------
\* The training process.

CollectReceipt ==
  /\ learner = "collect" /\ receipts > 0
  /\ receipts' = receipts - 1
  /\ collected' = collected + 1
  /\ learner' = IF collected' = TRAIN_SIZE THEN "fit" ELSE "collect"
  /\ UNCHANGED <<coreVars, questions, answers, ctrl, fitted, model_params, predictorVars>>

FirstFit ==
  /\ learner = "fit" /\ fitted = 0
  /\ fitted' = 1 /\ model_params' = model_params + 1
  /\ collected' = 0 /\ learner' = "collect"
  /\ UNCHANGED <<coreVars, receipts, questions, answers, ctrl, predictorVars>>

\* A list has no reshape: the exception ends the loop, and the program then
\* waits for its child for ever.
FineTune ==
  /\ learner = "fit" /\ fitted > 0
  /\ learner' = "dead"
  /\ UNCHANGED <<coreVars, receipts, questions, answers, ctrl, collected, fitted,
                 model_params, predictorVars>>

Learner == CollectReceipt \/ FirstFit \/ FineTune

-----------------------------------------------------------------------------
\* The inference process.

\* The non-blocking get may find nothing while the feeder thread of the parent
\* is still writing.
TakeParams ==
  /\ predictor = "refresh"
  /\ \/ predictor' = "serve" /\ UNCHANGED model_params
     \/ /\ model_params > 0
        /\ model_params' = model_params - 1
        /\ predictor' = IF model_params_ready THEN "serve" ELSE "announce"
  /\ UNCHANGED <<coreVars, receipts, questions, answers, ctrl, learnerVars, history,
                 question, model_params_ready>>

\* Sent once: the queue of ten messages cannot be full.
TellReady ==
  /\ predictor = "announce"
  /\ ctrl' = ctrl + 1
  /\ model_params_ready' = TRUE
  /\ predictor' = "serve"
  /\ UNCHANGED <<coreVars, receipts, questions, answers, learnerVars, model_params,
                 history, question>>

\* Until STREAM_LOOK_BACK receipts are kept a question is not answered.
TakeQuestion ==
  /\ predictor = "serve" /\ questions # << >>
  /\ question' = Head(questions)
  /\ questions' = Tail(questions)
  /\ IF history < STREAM_LOOK_BACK
     THEN history' = history + 1 /\ predictor' = "refresh"
     ELSE UNCHANGED history /\ predictor' = "predict"
  /\ UNCHANGED <<coreVars, receipts, answers, ctrl, learnerVars, model_params,
                 model_params_ready>>

\* The weights may still be the ones the model was built with.
AnswerQuestion ==
  /\ predictor = "predict" /\ Len(answers) < AnswerCap
  /\ \E kind \in AnswerKinds \ {"raise"} :
       answers' = Append(answers, [id |-> question, kind |-> kind])
  /\ predictor' = "refresh"
  /\ UNCHANGED <<coreVars, receipts, questions, ctrl, learnerVars, model_params,
                 history, question, model_params_ready>>

PredictingRaises ==
  /\ predictor = "predict" /\ "raise" \in AnswerKinds
  /\ predictor' = "dead"
  /\ UNCHANGED <<coreVars, receipts, questions, answers, ctrl, learnerVars, model_params,
                 history, question, model_params_ready>>

Predictor ==
  TakeParams \/ TellReady \/ TakeQuestion \/ AnswerQuestion \/ PredictingRaises

-----------------------------------------------------------------------------

StreamingNext == StreamLoop \/ Learner \/ Predictor

StreamingSafety == StreamingInit /\ [][StreamingNext]_streamingVars

\* Heartbeats keep coming, and each program goes on as long as it can.
StreamingSpec ==
  /\ StreamingSafety
  /\ WF_streamingVars(StreamLoop) /\ WF_streamingVars(Learner) /\ WF_streamingVars(Predictor)

AnswerRecords == [id : Nat, kind : {"time", "zero"}]

StreamingType ==
  /\ core \in {"poll", "train", "infer", "control", "await"}
  /\ count \in Nat /\ told \in BOOLEAN
  /\ receipts \in 0 .. ReceiptCap /\ questions \in Seq(Nat) /\ answers \in Seq(AnswerRecords)
  /\ ctrl \in {0, 1}
  /\ learner \in {"collect", "fit", "dead"}
  /\ collected \in 0 .. TRAIN_SIZE /\ fitted \in Nat /\ model_params \in Nat
  /\ predictor \in {"refresh", "announce", "serve", "predict", "dead"}
  /\ history \in 0 .. STREAM_LOOK_BACK /\ question \in Nat /\ model_params_ready \in BOOLEAN

\* The questions that are not answered, and the answers that are not read.
UnderWay ==
  ToSet(questions) \cup (IF predictor = "predict" THEN {question} ELSE {})
    \cup {a.id : a \in ToSet(answers)}

\* The replies are read from the moment a model is ready, after a backlog that
\* is skipped: the one the receive loop waits for is still to come and will be
\* given, as long as the predictions are times.
AwaitedIsComing ==
  core = "await" /\ predictor # "dead" => count \in UnderWay /\ count > STREAM_LOOK_BACK

\* "one process to keep training, and anther process to do the inference": a
\* round of receipts that has been collected is fitted, and the next one begun.
\* The second fit ends the training process instead; nobody reads the receipts
\* any more, and the blocking send stops the receive loop for good.
EveryRoundFitted == collected = TRAIN_SIZE ~> collected < TRAIN_SIZE

\* "tell the DPDK process that I am ready for doing inference": a model that is
\* fitted is announced while heartbeats come.  The replies nobody reads before
\* that fill their queue, and the process that should announce is blocked.
FittedIsAnnounced == fitted > 0 ~> model_params_ready \/ count = MaxReceipts

=============================================================================
