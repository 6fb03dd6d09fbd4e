------------------------- MODULE SignalBackendProofs -------------------------
(***************************************************************************)
(* The signals of the evaluated detector's backend, for queues of any      *)
(* capacity, any number of heartbeats and handlers nested to any depth:    *)
(* one inference at a time, and no request or first training message that  *)
(* nobody is going to look for.  The last part is about StreamingBackend,  *)
(* the other backend tried out for this detector.                          *)
(***************************************************************************)
EXTENDS SignalBackend, StreamingBackend, SequenceTheorems, FiniteSetTheorems, TLAPS

-----------------------------------------------------------------------------
(***************************************************************************)
(* The training program: what it watches for before and while it sleeps.   *)
(***************************************************************************)

TrainingInv ==
  /\ train_q \in Nat
  /\ trainer \in {"build", "sleep"} /\ train_q = 0 => train_notify

LEMMA TrainingInit == SignalInit => TrainingInv
  BY DEF SignalInit, TrainingInv

LEMMA TrainingKept == TrainingInv /\ UNCHANGED <<train_q, trainer, train_notify>> => TrainingInv'
  BY DEF TrainingInv

LEMMA TrainingStep == TrainingInv /\ [SignalNext]_signalVars => TrainingInv'
  <1> SUFFICES ASSUME TrainingInv, [SignalNext]_signalVars PROVE TrainingInv'
    OBVIOUS
  <1>1. CASE Beat \/ StartReceiver \/ ReadReadiness \/ SendRequest \/ AwaitReply
    BY <1>1, TrainingKept
       DEF Beat, StartReceiver, ReadReadiness, SendRequest, AwaitReply, trainQueueVars,
           trainProcessVars
  <1>2. CASE SendTraining
    <2>1. train_q' = train_q + 1 /\ train_q \in Nat
      BY <1>2 DEF SendTraining, TrainingInv
    <2>2. train_q' \in Nat /\ train_q' # 0
      BY <2>1
    <2>3. QED
      BY <2>2 DEF TrainingInv
  <1>3. CASE CreateTrainQueue \/ RequestTrainSignal
    BY <1>3 DEF CreateTrainQueue, RequestTrainSignal, TrainingInv
  <1>4. CASE KilledBySignal \/ HandleTrainSignal \/ FitModel
    BY <1>4
       DEF KilledBySignal, HandleTrainSignal, FitModel, TrainingInv, trainQueueVars
  <1>5. CASE InstallTrainHandler
    BY <1>5 DEF InstallTrainHandler, TrainingInv, trainQueueVars
  <1>6. CASE ReceiveBatch
    <2>1. train_q' = train_q - 1 /\ train_q > 0 /\ train_q \in Nat /\ trainer' = "fit"
      BY <1>6 DEF ReceiveBatch, TrainingInv
    <2>2. train_q' \in Nat
      BY <2>1
    <2>3. QED
      BY <2>1, <2>2 DEF TrainingInv
  <1>7. CASE Inference
    BY <1>7, TrainingKept
       DEF Inference, Handlers, CreateInferQueues, StartInference, PollRequests,
           HandleInferSignal, ReceiveRequest, ReturnFromHandler, RequestInferSignal, Infer,
           InferRaises, Reply, LoadParams, AnnounceModel, trainQueueVars, trainProcessVars
  <1>8. CASE UNCHANGED signalVars
    BY <1>8, TrainingKept DEF signalVars, trainQueueVars, trainProcessVars
  <1>9. QED
    BY <1>1, <1>2, <1>3, <1>4, <1>5, <1>6, <1>7, <1>8 DEF SignalNext, Loop, Trainer

\* While the trainer sleeps over an empty queue, the next message wakes it
\* (async_signal_train.py).
THEOREM SleepingTrainerWatches == SignalSafety => []EmptyQueueWatched
  <1>1. TrainingInv => EmptyQueueWatched
    BY DEF TrainingInv, EmptyQueueWatched
  <1>2. QED
    BY <1>1, TrainingInit, TrainingStep, PTL DEF SignalSafety

-----------------------------------------------------------------------------
(***************************************************************************)
(* The stack of handlers.                                                  *)
(***************************************************************************)

Frame == [at : {"receive", "notify", "infer", "reply"}, id : Nat]

\* A handler is entered.
LEMMA Pushed ==
  ASSUME NEW s \in Seq(Frame), NEW f \in Frame
  PROVE  /\ Append(s, f) \in Seq(Frame)
         /\ DOMAIN Append(s, f) = 1 .. Len(s) + 1 /\ DOMAIN s = 1 .. Len(s)
         /\ Len(s) \in Nat
         /\ \A i \in DOMAIN s : Append(s, f)[i] = s[i]
         /\ Append(s, f)[Len(s) + 1] = f
  BY AppendProperties, LenProperties

\* The last handler returns.
LEMMA Popped ==
  ASSUME NEW s \in Seq(Frame), s # << >>
  PROVE  /\ Front(s) \in Seq(Frame)
         /\ DOMAIN Front(s) = DOMAIN s \ {Len(s)}
         /\ Len(s) \in DOMAIN s
         /\ \A i \in DOMAIN Front(s) : Front(s)[i] = s[i]
  <1>1. Len(s) \in Nat /\ Len(s) > 0 /\ DOMAIN s = 1 .. Len(s)
    BY EmptySeq, LenProperties
  <1>2. /\ SubSeq(s, 1, Len(s) - 1) \in Seq(Frame)
        /\ Len(SubSeq(s, 1, Len(s) - 1)) = Len(s) - 1
        /\ \A i \in 1 .. Len(s) - 1 : SubSeq(s, 1, Len(s) - 1)[i] = s[i]
    BY <1>1, SubSeqProperties
  <1>3. DOMAIN SubSeq(s, 1, Len(s) - 1) = 1 .. Len(s) - 1
    BY <1>2, LenProperties
  <1>4. 1 .. Len(s) - 1 = (1 .. Len(s)) \ {Len(s)}
    BY <1>1
  <1>5. QED
    BY <1>1, <1>2, <1>3, <1>4 DEF Front

\* The last handler goes on.
LEMMA Continued ==
  ASSUME frames \in Seq(Frame), frames # << >>, NEW at, NEW id,
         [at |-> at, id |-> id] \in Frame, Continue(at, id)
  PROVE  /\ frames' \in Seq(Frame)
         /\ DOMAIN frames' = DOMAIN frames
         /\ Len(frames) \in DOMAIN frames
         /\ frames'[Len(frames)] = [at |-> at, id |-> id]
         /\ \A i \in DOMAIN frames : i # Len(frames) => frames'[i] = frames[i]
  <1>1. Len(frames) \in 1 .. Len(frames) /\ DOMAIN frames = 1 .. Len(frames)
    BY EmptySeq, LenProperties
  <1>2. frames' = [frames EXCEPT ![Len(frames)] = [at |-> at, id |-> id]]
    BY DEF Continue
  <1>3. /\ frames' \in Seq(Frame) /\ Len(frames') = Len(frames)
        /\ \A i \in 1 .. Len(frames) :
             frames'[i] = IF i = Len(frames) THEN [at |-> at, id |-> id] ELSE frames[i]
    BY <1>1, <1>2, ExceptSeq
  <1>4. DOMAIN frames' = 1 .. Len(frames)
    BY <1>3, LenProperties
  <1>5. QED
    BY <1>1, <1>3, <1>4

-----------------------------------------------------------------------------
(***************************************************************************)
(* The types.                                                              *)
(***************************************************************************)

\* What a queue of numbers becomes.
LEMMA NumbersMove ==
  ASSUME NEW s \in Seq(Nat)
  PROVE  /\ \A n \in Nat : Append(s, n) \in Seq(Nat)
         /\ s # << >> => Head(s) \in Nat /\ Tail(s) \in Seq(Nat)
  BY AppendProperties, HeadTailProperties

LEMMA FrameType == SignalType => frames \in Seq(Frame)
  BY DEF SignalType, Frame

LEMMA LoopTypes == ASSUME SignalType, Beat \/ Loop PROVE SignalType'
  <1> USE DEF SignalType
  <1>1. CASE Beat
    BY <1>1 DEF Beat, trainQueueVars, requestVars, trainProcessVars, loaderVars, handlerVars
  <1>2. CASE StartReceiver
    BY <1>2 DEF StartReceiver, trainQueueVars, requestVars, trainProcessVars, loaderVars,
                handlerVars
  <1>3. CASE SendTraining
    <2>1. train_q' \in Nat /\ receiver' = "control"
      BY <1>3 DEF SendTraining
    <2>2. train_signal' \in BOOLEAN /\ train_notify' \in BOOLEAN
      BY <1>3 DEF SendTraining
    <2>3. UNCHANGED <<beats, ready, requestVars, params, replies, control,
                      trainProcessVars, loaderVars, handlerVars>>
      BY <1>3 DEF SendTraining
    <2> QED BY <2>1, <2>2, <2>3 DEF requestVars, trainProcessVars, loaderVars, handlerVars
  <1>4. CASE ReadReadiness
    <2>1. control' \in Nat
      BY <1>4 DEF ReadReadiness
    <2>2. ready' \in BOOLEAN /\ receiver' \in {"request", "poll"}
      BY <1>4 DEF ReadReadiness
    <2>3. UNCHANGED <<beats, trainQueueVars, requestVars, params, replies,
                      trainProcessVars, loaderVars, handlerVars>>
      BY <1>4 DEF ReadReadiness
    <2> QED BY <2>1, <2>2, <2>3
            DEF trainQueueVars, requestVars, trainProcessVars, loaderVars, handlerVars
  <1>5. CASE SendRequest
    <2>1. requests' \in Seq(Nat)
      BY <1>5, NumbersMove DEF SendRequest
    <2>2. infer_signal' \in BOOLEAN /\ infer_notify' \in BOOLEAN /\ receiver' = "await"
      BY <1>5 DEF SendRequest
    <2>3. UNCHANGED <<beats, ready, trainQueueVars, params, replies, control,
                      trainProcessVars, loaderVars, handlerVars>>
      BY <1>5 DEF SendRequest
    <2> QED BY <2>1, <2>2, <2>3 DEF trainQueueVars, trainProcessVars, loaderVars, handlerVars
  <1>6. CASE AwaitReply
    <2>1. replies' \in Seq(ReplyRecords) /\ receiver' \in {"poll", "again"}
      BY <1>6, HeadTailProperties DEF AwaitReply
    <2>2. UNCHANGED <<beats, ready, trainQueueVars, requestVars, params, control,
                      trainProcessVars, loaderVars, handlerVars>>
      BY <1>6 DEF AwaitReply
    <2> QED BY <2>1, <2>2
            DEF trainQueueVars, requestVars, trainProcessVars, loaderVars, handlerVars
  <1> QED BY <1>1, <1>2, <1>3, <1>4, <1>5, <1>6 DEF Loop

LEMMA TrainerTypes == ASSUME SignalType, Trainer PROVE SignalType'
  <1> USE DEF SignalType
  <1>1. UNCHANGED <<loopVars, requestVars, replies, control, loaderVars, handlerVars>>
    BY DEF Trainer, CreateTrainQueue, KilledBySignal, InstallTrainHandler, HandleTrainSignal,
           ReceiveBatch, FitModel, RequestTrainSignal
  <1>2. CASE \/ CreateTrainQueue \/ KilledBySignal \/ InstallTrainHandler
             \/ HandleTrainSignal \/ RequestTrainSignal
    <2>1. trainer' \in {"build", "dead", "sleep", "receive"}
      BY <1>2 DEF CreateTrainQueue, KilledBySignal, InstallTrainHandler, HandleTrainSignal,
                  RequestTrainSignal
    <2>2. /\ train_notify' = TRUE \/ train_notify' = train_notify
          /\ train_signal' = FALSE \/ train_signal' = train_signal
          /\ UNCHANGED <<train_q, params, fits>>
      BY <1>2 DEF CreateTrainQueue, KilledBySignal, InstallTrainHandler, HandleTrainSignal,
                  RequestTrainSignal, trainQueueVars
    <2>3. train_notify' \in BOOLEAN /\ train_signal' \in BOOLEAN
      BY <2>2
    <2> QED BY <1>1, <2>1, <2>2, <2>3 DEF loopVars, requestVars, loaderVars, handlerVars
  <1>3. CASE ReceiveBatch
    <2>1. train_q' \in Nat /\ trainer' = "fit" /\ UNCHANGED <<params, fits>>
      BY <1>3 DEF ReceiveBatch
    <2>2. UNCHANGED <<train_notify, train_signal>>
      BY <1>3 DEF ReceiveBatch
    <2> QED BY <1>1, <2>1, <2>2 DEF loopVars, requestVars, loaderVars, handlerVars
  <1>4. CASE FitModel
    <2>1. fits' \in Nat /\ trainer' = "request"
      BY <1>4 DEF FitModel
    <2>2. params' \in Seq(Nat)
      BY <1>4, <2>1, NumbersMove DEF FitModel
    <2>3. UNCHANGED <<train_q, train_notify, train_signal>>
      BY <1>4 DEF FitModel, trainQueueVars
    <2> QED BY <1>1, <2>1, <2>2, <2>3 DEF loopVars, requestVars, loaderVars, handlerVars
  <1> QED
    BY <1>2, <1>3, <1>4 DEF Trainer

LEMMA HandlerTypes == ASSUME SignalType, Inference PROVE SignalType'
  <1> USE DEF SignalType
  <1>1. UNCHANGED <<loopVars, trainQueueVars, trainProcessVars>>
    BY DEF Inference, Handlers, CreateInferQueues, StartInference, PollRequests,
           HandleInferSignal, ReceiveRequest, ReturnFromHandler, RequestInferSignal, Infer,
           InferRaises, Reply, LoadParams, AnnounceModel
  <1>2. frames \in Seq(Frame)
    BY FrameType
  <1> DEFINE rest == <<params, control, loaderVars>>
  <1>3. ASSUME frames' \in Seq(Frame), requests' \in Seq(Nat), replies' \in Seq(ReplyRecords),
               infer_notify' \in BOOLEAN, infer_signal' \in BOOLEAN,
               inference' \in {"create", "build", "serve", "dead"},
               UNCHANGED rest
        PROVE  SignalType'
    BY <1>1, <1>3 DEF Frame, loopVars, trainQueueVars, trainProcessVars, loaderVars
  <1>4. CASE CreateInferQueues
    BY <1>2, <1>3, <1>4 DEF CreateInferQueues
  <1>5. CASE StartInference
    BY <1>1, <1>5 DEF StartInference, loopVars, trainQueueVars, trainProcessVars
  <1>6. CASE PollRequests
    <2>1. [at |-> "receive", id |-> 0] \in Frame
      BY DEF Frame
    <2>2. frames' \in Seq(Frame)
      BY <1>6, <2>1 DEF PollRequests
    <2> QED BY <1>3, <1>6, <2>2 DEF PollRequests, requestVars
  <1>7. CASE HandleInferSignal
    <2>1. [at |-> "receive", id |-> 0] \in Frame
      BY DEF Frame
    <2>2. frames' \in Seq(Frame)
      BY <1>2, <1>7, <2>1, Pushed DEF HandleInferSignal
    <2> QED BY <1>3, <1>7, <2>2 DEF HandleInferSignal
  <1>8. CASE ReturnFromHandler
    <2>1. frames' \in Seq(Frame)
      BY <1>2, <1>8, Popped DEF ReturnFromHandler, At
    <2> QED BY <1>3, <1>8, <2>1 DEF ReturnFromHandler, requestVars
  <1>9. CASE ReceiveRequest
    <2>1. Head(requests) \in Nat /\ requests' \in Seq(Nat)
      BY <1>9, NumbersMove DEF ReceiveRequest
    <2>2. [at |-> "notify", id |-> Head(requests)] \in Frame
      BY <2>1 DEF Frame
    <2>3. frames' \in Seq(Frame)
      BY <1>2, <1>9, <2>2, Continued DEF ReceiveRequest, At
    <2> QED BY <1>3, <1>9, <2>1, <2>3 DEF ReceiveRequest
  <1>10. frames # << >> => Top.id \in Nat
    <2> SUFFICES ASSUME frames # << >> PROVE Top.id \in Nat
      OBVIOUS
    <2>1. Len(frames) \in DOMAIN frames
      BY <1>2, Popped
    <2>2. frames[Len(frames)] \in Frame
      BY <1>2, <2>1, ElementOfSeq, LenProperties
    <2> QED BY <2>2 DEF Top, Frame
  <1>11. CASE RequestInferSignal \/ Infer \/ Reply
    <2>1. frames # << >>
      BY <1>11 DEF RequestInferSignal, Infer, Reply, At
    <2>2. PICK at \in {"infer", "reply", "receive"}, id \in {Top.id, 0} : Continue(at, id)
      BY <1>11 DEF RequestInferSignal, Infer, Reply
    <2>3. [at |-> at, id |-> id] \in Frame
      BY <1>10, <2>1 DEF Frame
    <2>4. frames' \in Seq(Frame)
      BY <1>2, <2>1, <2>2, <2>3, Continued
    <2>5. replies' \in Seq(ReplyRecords)
      <3>1. \A zero \in BOOLEAN : [id |-> Top.id, zero |-> zero] \in ReplyRecords
        BY <1>10, <2>1 DEF ReplyRecords
      <3>2. CASE UNCHANGED replies
        BY <3>2
      <3>3. CASE Reply
        <4>1. PICK zero \in BOOLEAN : replies' = Append(replies, [id |-> Top.id, zero |-> zero])
          BY <3>3 DEF Reply
        <4>2. QED
          BY <3>1, <4>1, AppendProperties
      <3>4. QED
        BY <1>11, <3>2, <3>3 DEF RequestInferSignal, Infer
    <2> QED BY <1>3, <1>11, <2>4, <2>5 DEF RequestInferSignal, Infer, Reply, requestVars
  <1>12. CASE InferRaises
    <2>1. frames' \in Seq(Frame)
      BY <1>12 DEF InferRaises
    <2> QED BY <1>3, <1>12, <2>1 DEF InferRaises, requestVars
  <1>13. CASE LoadParams
    <2>1. weights' \in Nat /\ params' \in Seq(Nat)
      BY <1>13, NumbersMove DEF LoadParams
    <2>2. loader' \in {"wait", "announce"}
      BY <1>13 DEF LoadParams
    <2> QED BY <1>1, <1>13, <2>1, <2>2
            DEF LoadParams, loopVars, trainQueueVars, requestVars, trainProcessVars, handlerVars
  <1>14. CASE AnnounceModel
    BY <1>1, <1>14
       DEF AnnounceModel, loopVars, trainQueueVars, requestVars, trainProcessVars, handlerVars
  <1> QED
    BY <1>4, <1>5, <1>6, <1>7, <1>8, <1>9, <1>11, <1>12, <1>13, <1>14
       DEF Inference, Handlers

\* What the queues, the signals and the stack of handlers hold.
THEOREM SignalTypeCorrect == SignalSafety => []SignalType
  <1>1. SignalInit => SignalType
    <2>1. << >> \in Seq(Nat) /\ << >> \in Seq(Frame) /\ << >> \in Seq(ReplyRecords)
      OBVIOUS
    <2>2. 0 \in Nat /\ TRUE \in BOOLEAN /\ FALSE \in BOOLEAN
      OBVIOUS
    <2> QED BY <2>1, <2>2, Zenon DEF SignalInit, SignalType, Frame
  <1>2. SignalType /\ [SignalNext]_signalVars => SignalType'
    <2> SUFFICES ASSUME SignalType, [SignalNext]_signalVars PROVE SignalType'
      OBVIOUS
    <2>1. CASE UNCHANGED signalVars
      BY <2>1 DEF SignalType, signalVars, loopVars, trainQueueVars, requestVars,
                  trainProcessVars, loaderVars, handlerVars
    <2> QED BY <2>1, LoopTypes, TrainerTypes, HandlerTypes DEF SignalNext
  <1> QED BY <1>1, <1>2, PTL DEF SignalSafety

-----------------------------------------------------------------------------
(***************************************************************************)
(* One request is on its way at most, for the heartbeat the receiver waits *)
(* for: it is in one of the queues or with one handler.                    *)
(***************************************************************************)

NoneWorks == \A i \in DOMAIN frames : ~Working(frames[i])

FlowType ==
  /\ beats \in Nat /\ control \in Nat
  /\ frames \in Seq(Frame)

OneToken ==
  /\ requests \in {<< >>, <<beats>>}
  /\ replies = << >> \/ \E zero \in BOOLEAN : replies = <<[id |-> beats, zero |-> zero]>>
  /\ requests = << >> \/ replies = << >>
  /\ requests # << >> \/ replies # << >> => NoneWorks
  /\ \A i, j \in DOMAIN frames : Working(frames[i]) /\ Working(frames[j]) => i = j
  /\ \A i \in DOMAIN frames : Working(frames[i]) => frames[i].id = beats
  /\ receiver # "await" => requests = << >> /\ replies = << >> /\ NoneWorks

\* Nothing is asked for before the inference program serves.
NotEarly ==
  /\ inference \in {"create", "build"} => loader = "off"
  /\ inference # "serve" => frames = << >>
  /\ loader = "off" => control = 0 /\ ~ready /\ receiver \notin {"request", "await"}

\* The notification is requested, or somebody is about to request it.
Watched ==
  inference = "serve" /\ ~infer_notify =>
    requests # << >> \/ \E i \in DOMAIN frames : frames[i].at = "notify"

FlowInv == FlowType /\ OneToken /\ NotEarly /\ Watched /\ RequestNoticed

flowVars ==
  <<receiver, beats, ready, requests, replies, control, infer_notify, infer_signal,
    inference, frames, loader>>

LEMMA FlowInit == SignalInit => FlowInv
  <1> SUFFICES ASSUME SignalInit PROVE FlowInv
    OBVIOUS
  <1>1. frames = << >> /\ requests = << >> /\ replies = << >> /\ beats = 0 /\ control = 0
    BY DEF SignalInit
  <1>2. FlowType
    BY <1>1, EmptySeq DEF FlowType
  <1>3. OneToken
    BY <1>1 DEF OneToken, NoneWorks
  <1>4. NotEarly /\ Watched /\ RequestNoticed
    BY DEF SignalInit, NotEarly, Watched, RequestNoticed
  <1>5. QED
    BY <1>2, <1>3, <1>4 DEF FlowInv

LEMMA FlowKept == FlowInv /\ UNCHANGED flowVars => FlowInv'
  BY DEF FlowInv, flowVars, FlowType, OneToken, NoneWorks, NotEarly, Watched, RequestNoticed

\* The receive loop moves on with nothing on its way.
LEMMA LoopMoves ==
  ASSUME FlowInv, receiver # "await", receiver' # "await", beats' \in Nat, control' \in Nat,
         UNCHANGED <<requests, replies, infer_notify, infer_signal, inference, frames, loader>>,
         loader = "off" => control' = 0 /\ ~ready' /\ receiver' # "request"
  PROVE  FlowInv'
  <1>1. requests = << >> /\ replies = << >> /\ NoneWorks
    BY DEF FlowInv, OneToken
  <1>2. FlowType'
    BY DEF FlowInv, FlowType
  <1>3. OneToken'
    BY <1>1 DEF OneToken, NoneWorks
  <1>4. NotEarly'
    BY DEF FlowInv, NotEarly
  <1>5. Watched' /\ RequestNoticed'
    BY DEF FlowInv, Watched, RequestNoticed
  <1>6. QED
    BY <1>2, <1>3, <1>4, <1>5 DEF FlowInv

LEMMA LoopFlow ==
  ASSUME FlowInv, StartReceiver \/ Beat \/ SendTraining \/ ReadReadiness
  PROVE  FlowInv'
  <1> USE DEF trainQueueVars, requestVars, trainProcessVars, loaderVars, handlerVars
  <1>1. beats \in Nat /\ control \in Nat
    BY DEF FlowInv, FlowType
  <1>2. loader = "off" => control = 0 /\ ~ready
    BY DEF FlowInv, NotEarly
  <1>3. CASE StartReceiver
    BY <1>1, <1>2, <1>3, LoopMoves DEF StartReceiver
  <1>4. CASE Beat
    BY <1>1, <1>2, <1>4, LoopMoves DEF Beat
  <1>5. CASE SendTraining
    BY <1>1, <1>2, <1>5, LoopMoves DEF SendTraining
  <1>6. CASE ReadReadiness
    <2>1. control' \in Nat
      BY <1>1, <1>6 DEF ReadReadiness
    <2>2. ASSUME loader = "off" PROVE control' = 0 /\ ~ready' /\ receiver' = "poll"
      <3>1. control = 0 /\ ~ready /\ ~(control > 0)
        BY <1>2, <2>2
      <3>2. ~ready' /\ control' = 0
        BY <1>6, <3>1 DEF ReadReadiness
      <3>3. QED
        BY <1>6, <3>2 DEF ReadReadiness
    <2>3. receiver = "control" /\ receiver' # "await"
      BY <1>6 DEF ReadReadiness
    <2>4. QED
      BY <1>1, <1>6, <2>1, <2>2, <2>3, LoopMoves DEF ReadReadiness
  <1>7. QED
    BY <1>3, <1>4, <1>5, <1>6

\* The notification is there when a request comes: a signal follows.
LEMMA RequestFlow == ASSUME FlowInv, SendRequest PROVE FlowInv'
  <1> USE DEF loopVars, trainQueueVars, trainProcessVars, loaderVars, handlerVars
  <1>1. receiver = "request" /\ receiver' = "await" /\ UNCHANGED <<beats, control, frames>>
    BY DEF SendRequest
  <1>2. requests = << >> /\ replies = << >> /\ NoneWorks /\ loader # "off"
    BY <1>1 DEF FlowInv, OneToken, NotEarly
  <1>3. requests' = <<beats>> /\ replies' = replies
    BY <1>2 DEF SendRequest
  <1>4. FlowType'
    BY <1>1 DEF FlowInv, FlowType
  <1>5. OneToken'
    BY <1>1, <1>2, <1>3 DEF OneToken, NoneWorks
  <1>6. NotEarly'
    BY <1>2 DEF FlowInv, NotEarly, SendRequest
  <1>7. requests' # << >>
    BY <1>3
  <1>8. Watched'
    BY <1>7 DEF Watched
  <1>9. inference = "serve" => infer_notify
    BY <1>2 DEF FlowInv, Watched, NoneWorks, Working
  <1>10. RequestNoticed'
    BY <1>2, <1>9 DEF SendRequest, RequestNoticed
  <1>11. QED
    BY <1>4, <1>5, <1>6, <1>8, <1>10 DEF FlowInv

LEMMA ReplyFlow == ASSUME FlowInv, AwaitReply PROVE FlowInv'
  <1> USE DEF loopVars, trainQueueVars, requestVars, trainProcessVars, loaderVars, handlerVars
  <1>1. /\ replies # << >> /\ replies' = Tail(replies) /\ receiver' \in {"poll", "again"}
        /\ UNCHANGED <<beats, control, frames, requests, inference, loader, ready,
                       infer_notify, infer_signal>>
    BY DEF AwaitReply
  <1>2. requests = << >> /\ NoneWorks
    BY <1>1 DEF FlowInv, OneToken
  <1>3. PICK zero \in BOOLEAN : replies = <<[id |-> beats, zero |-> zero]>>
    BY <1>1 DEF FlowInv, OneToken
  <1>4. replies' = << >>
    BY <1>1, <1>3
  <1>5. FlowType'
    BY <1>1 DEF FlowInv, FlowType
  <1>6. OneToken'
    BY <1>1, <1>2, <1>4 DEF OneToken, NoneWorks
  <1>7. NotEarly'
    BY <1>1 DEF FlowInv, NotEarly
  <1>8. Watched' /\ RequestNoticed'
    BY <1>1 DEF FlowInv, Watched, RequestNoticed
  <1>9. QED
    BY <1>5, <1>6, <1>7, <1>8 DEF FlowInv

\* The start of the program, which nobody asks anything yet.
LEMMA StartFlow == ASSUME FlowInv, CreateInferQueues \/ StartInference PROVE FlowInv'
  <1> USE DEF loopVars, trainQueueVars, trainProcessVars
  <1>1. /\ inference \in {"create", "build"}
        /\ UNCHANGED <<receiver, beats, ready, requests, replies, control, frames>>
    BY DEF CreateInferQueues, StartInference
  <1>2. loader = "off" /\ frames = << >> /\ receiver # "await"
    BY <1>1 DEF FlowInv, NotEarly
  <1>3. requests = << >>
    BY <1>2 DEF FlowInv, OneToken
  <1>4. FlowType'
    BY <1>1 DEF FlowInv, FlowType
  <1>5. OneToken'
    BY <1>1 DEF FlowInv, OneToken, NoneWorks
  <1>6. NotEarly'
    BY <1>1, <1>2 DEF FlowInv, NotEarly, CreateInferQueues, StartInference, loaderVars
  <1>7. infer_notify'
    BY DEF CreateInferQueues, StartInference
  <1>8. Watched' /\ RequestNoticed'
    BY <1>1, <1>3, <1>7 DEF Watched, RequestNoticed
  <1>9. QED
    BY <1>4, <1>5, <1>6, <1>8 DEF FlowInv

-----------------------------------------------------------------------------

\* A handler is entered: it is about to look.
LEMMA EnterFlow == ASSUME FlowInv, PollRequests \/ HandleInferSignal PROVE FlowInv'
  <1> USE DEF loopVars, trainQueueVars, trainProcessVars, loaderVars
  <1> DEFINE f == [at |-> "receive", id |-> 0]
  <1>1. /\ inference = "serve"
        /\ UNCHANGED <<receiver, beats, ready, requests, replies, control, infer_notify,
                       inference, loader>>
    BY DEF PollRequests, HandleInferSignal, requestVars
  <1>2. f \in Frame /\ ~Working(f) /\ f.at = "receive"
    BY DEF Frame, Working
  <1>3. frames \in Seq(Frame)
    BY DEF FlowInv, FlowType
  <1>4. frames' = Append(frames, f)
    <2>1. Append(<< >>, f) = <<f>>
      OBVIOUS
    <2>2. CASE PollRequests
      BY <2>1, <2>2 DEF PollRequests
    <2>3. CASE HandleInferSignal
      BY <2>3 DEF HandleInferSignal
    <2>4. QED
      BY <2>2, <2>3
  <1> DEFINE n == Len(frames) + 1
  <1>5. /\ frames' \in Seq(Frame)
        /\ DOMAIN frames' = DOMAIN frames \cup {n} /\ n \notin DOMAIN frames
        /\ \A i \in DOMAIN frames : frames'[i] = frames[i]
        /\ frames'[n] = f
    BY <1>2, <1>3, <1>4, Pushed
  <1> HIDE DEF f, n
  <1>6. FlowType'
    BY <1>1, <1>5 DEF FlowInv, FlowType
  <1>7. NoneWorks => NoneWorks'
    BY <1>2, <1>5 DEF NoneWorks
  <1>8. OneToken'
    BY <1>1, <1>2, <1>5, <1>7 DEF FlowInv, OneToken
  <1>9. NotEarly'
    BY <1>1 DEF FlowInv, NotEarly
  <1>10. Watched'
    BY <1>1, <1>5 DEF FlowInv, Watched
  <1>11. RequestNoticed'
    BY <1>2, <1>5 DEF RequestNoticed
  <1>12. QED
    BY <1>6, <1>8, <1>9, <1>10, <1>11 DEF FlowInv

\* A handler that found nothing returns.
LEMMA ReturnFlow == ASSUME FlowInv, ReturnFromHandler PROVE FlowInv'
  <1> USE DEF loopVars, trainQueueVars, requestVars, trainProcessVars, loaderVars
  <1> DEFINE n == Len(frames)
  <1>1. /\ inference = "serve" /\ frames # << >> /\ frames[n].at = "receive"
        /\ requests = << >> /\ frames' = Front(frames)
        /\ UNCHANGED <<receiver, beats, ready, requests, replies, control, infer_notify,
                       infer_signal, inference, loader>>
    BY DEF ReturnFromHandler, At, Top
  <1>2. frames \in Seq(Frame)
    BY DEF FlowInv, FlowType
  <1>3. /\ frames' \in Seq(Frame)
        /\ n \in DOMAIN frames /\ DOMAIN frames' = DOMAIN frames \ {n}
        /\ \A i \in DOMAIN frames' : frames'[i] = frames[i]
    BY <1>1, <1>2, Popped
  <1> HIDE DEF n
  <1>4. FlowType'
    BY <1>1, <1>3 DEF FlowInv, FlowType
  <1>5. NoneWorks => NoneWorks'
    BY <1>3 DEF NoneWorks
  <1>6. OneToken'
    BY <1>1, <1>3, <1>5 DEF FlowInv, OneToken
  <1>7. NotEarly'
    BY <1>1 DEF FlowInv, NotEarly
  <1>8. Watched'
    BY <1>1, <1>3 DEF FlowInv, Watched
  <1>9. RequestNoticed'
    BY <1>1 DEF RequestNoticed
  <1>10. QED
    BY <1>4, <1>6, <1>7, <1>8, <1>9 DEF FlowInv

\* A handler takes the request: the token moves from the queue to it.
LEMMA TakeFlow == ASSUME FlowInv, ReceiveRequest PROVE FlowInv'
  <1> USE DEF loopVars, trainQueueVars, trainProcessVars, loaderVars
  <1> DEFINE n == Len(frames)
  <1>1. /\ inference = "serve" /\ frames # << >> /\ frames[n].at = "receive"
        /\ requests # << >> /\ requests' = Tail(requests)
        /\ Continue("notify", Head(requests))
        /\ UNCHANGED <<receiver, beats, ready, replies, control, infer_notify,
                       infer_signal, inference, loader>>
    BY DEF ReceiveRequest, At, Top
  <1>2. /\ frames \in Seq(Frame) /\ beats \in Nat
        /\ requests = <<beats>> /\ replies = << >> /\ NoneWorks /\ receiver = "await"
    BY <1>1 DEF FlowInv, FlowType, OneToken
  <1>3. Head(requests) = beats /\ requests' = << >>
    BY <1>1, <1>2
  <1>4. [at |-> "notify", id |-> beats] \in Frame
    BY <1>2 DEF Frame
  <1>5. /\ frames' \in Seq(Frame) /\ DOMAIN frames' = DOMAIN frames /\ n \in DOMAIN frames
        /\ frames'[n] = [at |-> "notify", id |-> beats]
        /\ \A i \in DOMAIN frames : i # n => frames'[i] = frames[i]
    BY <1>1, <1>2, <1>3, <1>4, Continued
  <1> HIDE DEF n
  <1>6. FlowType'
    BY <1>1, <1>5 DEF FlowInv, FlowType
  <1>7. OneToken'
    BY <1>1, <1>2, <1>3, <1>5 DEF OneToken, NoneWorks
  <1>8. NotEarly'
    BY <1>1 DEF FlowInv, NotEarly
  <1>9. frames'[n].at = "notify"
    BY <1>5
  <1>10. Watched'
    BY <1>5, <1>9 DEF Watched
  <1>11. RequestNoticed'
    BY <1>3 DEF RequestNoticed
  <1>12. QED
    BY <1>6, <1>7, <1>8, <1>10, <1>11 DEF FlowInv

\* The handler that has the request goes on with it.
LEMMA WorkFlow == ASSUME FlowInv, RequestInferSignal \/ Infer PROVE FlowInv'
  <1> USE DEF loopVars, trainQueueVars, trainProcessVars, loaderVars
  <1> DEFINE n == Len(frames)
  <1>1. PICK next \in {"infer", "reply"} :
          /\ inference = "serve" /\ frames # << >> /\ frames[n].at \in {"notify", "infer"}
          /\ Continue(next, frames[n].id)
          /\ (frames[n].at = "notify" => infer_notify')
          /\ (infer_notify => infer_notify')
          /\ UNCHANGED <<receiver, beats, ready, requests, replies, control,
                         infer_signal, inference, loader>>
    BY DEF RequestInferSignal, Infer, At, Top, requestVars
  <1>2. frames \in Seq(Frame) /\ n \in DOMAIN frames
    <2>1. frames \in Seq(Frame)
      BY DEF FlowInv, FlowType
    <2>2. QED
      BY <1>1, <2>1, EmptySeq, LenProperties
  <1>3. Working(frames[n]) /\ frames[n].id = beats /\ beats \in Nat
    BY <1>1, <1>2 DEF FlowInv, FlowType, OneToken, Working
  <1>4. [at |-> next, id |-> beats] \in Frame
    BY <1>3 DEF Frame
  <1>5. /\ frames' \in Seq(Frame) /\ DOMAIN frames' = DOMAIN frames
        /\ frames'[n] = [at |-> next, id |-> beats]
        /\ \A i \in DOMAIN frames : i # n => frames'[i] = frames[i]
    BY <1>1, <1>2, <1>3, <1>4, Continued
  <1>6. Working(frames'[n]) /\ frames'[n].id = beats
    BY <1>5 DEF Working
  <1> HIDE DEF n
  <1>7. FlowType'
    BY <1>1, <1>5 DEF FlowInv, FlowType
  <1>8. requests = << >> /\ replies = << >> /\ receiver = "await"
    BY <1>2, <1>3 DEF FlowInv, OneToken, NoneWorks
  <1>9. \A i \in DOMAIN frames' : Working(frames'[i]) => i = n
    BY <1>2, <1>3, <1>5 DEF FlowInv, OneToken
  <1>10. OneToken'
    BY <1>1, <1>5, <1>6, <1>8, <1>9 DEF OneToken
  <1>11. NotEarly'
    BY <1>1 DEF FlowInv, NotEarly
  <1>12. Watched'
    <2> SUFFICES ASSUME ~infer_notify'
                 PROVE  \E i \in DOMAIN frames' : frames'[i].at = "notify"
      BY DEF Watched
    <2>1. ~infer_notify /\ frames[n].at # "notify"
      BY <1>1
    <2>2. PICK i \in DOMAIN frames : frames[i].at = "notify"
      BY <1>1, <1>8, <2>1 DEF FlowInv, Watched
    <2>3. QED
      BY <1>5, <2>1, <2>2
  <1>13. RequestNoticed'
    BY <1>1, <1>8 DEF RequestNoticed
  <1>14. QED
    BY <1>7, <1>10, <1>11, <1>12, <1>13 DEF FlowInv

\* The exception: the program that held the token is gone.
LEMMA RaiseFlow == ASSUME FlowInv, InferRaises PROVE FlowInv'
  <1> USE DEF loopVars, trainQueueVars, requestVars, trainProcessVars, loaderVars
  <1>1. /\ inference' = "dead" /\ frames' = << >>
        /\ UNCHANGED <<receiver, beats, ready, requests, replies, control, loader>>
    BY DEF InferRaises
  <1>2. FlowType'
    BY <1>1, EmptySeq DEF FlowInv, FlowType
  <1>3. OneToken'
    BY <1>1 DEF FlowInv, OneToken, NoneWorks
  <1>4. NotEarly'
    BY <1>1 DEF FlowInv, NotEarly
  <1>5. Watched' /\ RequestNoticed'
    BY <1>1 DEF Watched, RequestNoticed
  <1>6. QED
    BY <1>2, <1>3, <1>4, <1>5 DEF FlowInv

\* The token moves on to the queue of replies.
LEMMA AnswerFlow == ASSUME FlowInv, Reply PROVE FlowInv'
  <1> USE DEF loopVars, trainQueueVars, requestVars, trainProcessVars, loaderVars
  <1> DEFINE n == Len(frames)
  <1>1. /\ inference = "serve" /\ frames # << >> /\ frames[n].at = "reply"
        /\ \E zero \in BOOLEAN : replies' = Append(replies, [id |-> frames[n].id, zero |-> zero])
        /\ Continue("receive", 0)
        /\ UNCHANGED <<receiver, beats, ready, requests, control, infer_notify,
                       infer_signal, inference, loader>>
    BY DEF Reply, At, Top
  <1>2. frames \in Seq(Frame) /\ n \in DOMAIN frames
    <2>1. frames \in Seq(Frame)
      BY DEF FlowInv, FlowType
    <2>2. QED
      BY <1>1, <2>1, EmptySeq, LenProperties
  <1>3. Working(frames[n]) /\ frames[n].id = beats
    BY <1>1, <1>2 DEF FlowInv, OneToken, Working
  <1>4. requests = << >> /\ replies = << >> /\ receiver = "await"
    BY <1>2, <1>3 DEF FlowInv, OneToken, NoneWorks
  <1>5. \E zero \in BOOLEAN : replies' = <<[id |-> beats, zero |-> zero]>>
    <2>1. PICK zero \in BOOLEAN : replies' = Append(replies, [id |-> frames[n].id, zero |-> zero])
      BY <1>1
    <2>2. replies' = <<[id |-> beats, zero |-> zero]>>
      BY <1>3, <1>4, <2>1
    <2>3. QED
      BY <2>2
  <1>6. [at |-> "receive", id |-> 0] \in Frame
    BY DEF Frame
  <1>7. /\ frames' \in Seq(Frame) /\ DOMAIN frames' = DOMAIN frames
        /\ frames'[n] = [at |-> "receive", id |-> 0]
        /\ \A i \in DOMAIN frames : i # n => frames'[i] = frames[i]
    BY <1>1, <1>2, <1>6, Continued
  <1>8. ~Working(frames'[n])
    BY <1>7 DEF Working
  <1> HIDE DEF n
  <1>9. NoneWorks'
    BY <1>2, <1>3, <1>7, <1>8 DEF FlowInv, OneToken, NoneWorks
  <1>10. FlowType'
    BY <1>1, <1>7 DEF FlowInv, FlowType
  <1>11. OneToken'
    BY <1>1, <1>4, <1>5, <1>9 DEF OneToken, NoneWorks
  <1>12. NotEarly'
    BY <1>1 DEF FlowInv, NotEarly
  <1>13. Watched'
    <2> SUFFICES ASSUME ~infer_notify
                 PROVE  \E i \in DOMAIN frames' : frames'[i].at = "notify"
      BY <1>1 DEF Watched
    <2>1. PICK i \in DOMAIN frames : frames[i].at = "notify"
      BY <1>1, <1>4 DEF FlowInv, Watched
    <2>2. QED
      BY <1>1, <1>7, <2>1
  <1>14. RequestNoticed'
    BY <1>1, <1>4 DEF RequestNoticed
  <1>15. QED
    BY <1>10, <1>11, <1>12, <1>13, <1>14 DEF FlowInv

LEMMA LoaderFlow == ASSUME FlowInv, LoadParams \/ AnnounceModel PROVE FlowInv'
  <1> USE DEF loopVars, trainQueueVars, requestVars, trainProcessVars, handlerVars
  <1>1. /\ loader \in {"wait", "announce"} /\ loader' \in {"wait", "announce"}
        /\ control' \in {control, control + 1}
        /\ UNCHANGED <<receiver, beats, ready, requests, replies, infer_notify,
                       infer_signal, inference, frames>>
    BY DEF LoadParams, AnnounceModel
  <1>2. FlowType'
    BY <1>1 DEF FlowInv, FlowType
  <1>3. OneToken'
    BY <1>1 DEF FlowInv, OneToken, NoneWorks
  <1>4. NotEarly'
    BY <1>1 DEF FlowInv, NotEarly
  <1>5. Watched' /\ RequestNoticed'
    BY <1>1 DEF FlowInv, Watched, RequestNoticed
  <1>6. QED
    BY <1>2, <1>3, <1>4, <1>5 DEF FlowInv

LEMMA FlowStep == FlowInv /\ [SignalNext]_signalVars => FlowInv'
  <1> SUFFICES ASSUME FlowInv, [SignalNext]_signalVars PROVE FlowInv'
    OBVIOUS
  <1>1. CASE Beat \/ Loop
    BY <1>1, LoopFlow, RequestFlow, ReplyFlow DEF Loop
  <1>2. CASE Trainer
    BY <1>2, FlowKept
       DEF Trainer, CreateTrainQueue, KilledBySignal, InstallTrainHandler, HandleTrainSignal,
           ReceiveBatch, FitModel, RequestTrainSignal, flowVars, loopVars, requestVars,
           loaderVars, handlerVars
  <1>3. CASE Inference
    BY <1>3, StartFlow, EnterFlow, TakeFlow, ReturnFlow, WorkFlow, RaiseFlow, AnswerFlow,
       LoaderFlow DEF Inference, Handlers
  <1>4. CASE UNCHANGED signalVars
    BY <1>4, FlowKept
       DEF signalVars, flowVars, loopVars, requestVars, loaderVars, handlerVars
  <1>5. QED
    BY <1>1, <1>2, <1>3, <1>4 DEF SignalNext

-----------------------------------------------------------------------------

LEMMA OneTokenCounts == FlowInv => OneInference
  <1> SUFFICES ASSUME FlowInv PROVE OneInference
    OBVIOUS
  <1> DEFINE working == {i \in DOMAIN frames : Working(frames[i])}
  <1>1. OneToken
    BY DEF FlowInv
  <1>2. Len(<< >>) = 0 /\ Len(<<beats>>) = 1
    OBVIOUS
  <1>3. /\ Len(requests) = IF requests = << >> THEN 0 ELSE 1
        /\ Len(replies) = IF replies = << >> THEN 0 ELSE 1
        /\ \A i \in DOMAIN replies : replies[i].id = beats
    <2>1. Len(requests) = IF requests = << >> THEN 0 ELSE 1
      BY <1>1, <1>2 DEF OneToken
    <2>2. CASE replies = << >>
      BY <2>1, <2>2, <1>2
    <2>3. ASSUME NEW zero \in BOOLEAN, replies = <<[id |-> beats, zero |-> zero]>>
          PROVE  /\ Len(replies) = 1 /\ replies # << >>
                 /\ \A i \in DOMAIN replies : replies[i].id = beats
      BY <2>3
    <2>4. QED
      BY <1>1, <2>1, <2>2, <2>3 DEF OneToken
  <1> DEFINE Idle == working = {} /\ requests = << >> /\ replies = << >>
  <1>7. receiver # "await" => Idle
    BY <1>1 DEF OneToken, NoneWorks
  <1>4. CASE working = {}
    <2>1. Cardinality(working) = 0
      BY <1>4, FS_EmptySet
    <2>2. Cardinality(working) + Len(requests) + Len(replies) <= 1
      BY <1>1, <1>3, <2>1 DEF OneToken
    <2>3. QED
      BY <1>3, <1>4, <1>7, <2>2 DEF OneInference
  <1>5. CASE working # {}
    <2>1. PICK i \in DOMAIN frames : Working(frames[i])
      BY <1>5
    <2>2. working = {i}
      BY <1>1, <2>1 DEF OneToken
    <2>3. Cardinality(working) = 1
      BY <2>2, FS_Singleton
    <2>4. requests = << >> /\ replies = << >> /\ receiver = "await" /\ frames[i].id = beats
      BY <1>1, <2>1 DEF OneToken, NoneWorks
    <2>5. Cardinality(working) + Len(requests) + Len(replies) <= 1
      BY <1>3, <2>3, <2>4
    <2>6. QED
      BY <1>3, <1>7, <2>2, <2>4, <2>5 DEF OneInference
  <1>6. QED
    BY <1>4, <1>5

\* No inference interrupts another, however deep the handlers nest
\* (handle_signal and inference of async_signal_inference.py).
THEOREM InferenceNotInterrupted == SignalSafety => []OneInference
  BY FlowInit, FlowStep, OneTokenCounts, PTL DEF SignalSafety

\* No request waits for the poll once a second (handle_signal and the loop of
\* the main thread).
THEOREM NoRequestUnnoticed == SignalSafety => []RequestNoticed
  <1>1. FlowInv => RequestNoticed
    BY DEF FlowInv
  <1>2. QED
    BY <1>1, FlowInit, FlowStep, PTL DEF SignalSafety

-----------------------------------------------------------------------------
(***************************************************************************)
(* StreamingBackend: where the receipts are.                               *)
(***************************************************************************)

\* What the training process has taken from the queue in its life.
Taken == IF fitted = 0 THEN collected ELSE TRAIN_SIZE + collected

\* Every heartbeat counted is still to be sent, in the queue, or taken.
ReceiptsInv ==
  /\ count \in Nat /\ receipts \in 0 .. ReceiptCap /\ collected \in 0 .. TRAIN_SIZE
  /\ fitted \in {0, 1}
  /\ count = receipts + Taken + (IF core = "train" THEN 1 ELSE 0)
  /\ learner \in {"collect", "fit", "dead"}
  /\ learner = "collect" => collected < TRAIN_SIZE
  /\ learner = "fit" => collected = TRAIN_SIZE
  /\ learner = "dead" => fitted = 1

LEMMA ReceiptsStart == StreamingInit => ReceiptsInv
  BY StreamingConstants DEF StreamingInit, ReceiptsInv, Taken

LEMMA ReceiptsStep == ReceiptsInv /\ [StreamingNext]_streamingVars => ReceiptsInv'
  <1> SUFFICES ASSUME ReceiptsInv, [StreamingNext]_streamingVars PROVE ReceiptsInv'
    OBVIOUS
  <1> USE StreamingConstants DEF ReceiptsInv, Taken
  <1>1. CASE TakeReceipt
    BY <1>1 DEF TakeReceipt, learnerVars
  <1>2. CASE send_to_ml_model
    BY <1>2 DEF send_to_ml_model, learnerVars
  <1>3. CASE send_to_infer \/ HearReady \/ recv_prediction
    BY <1>3 DEF send_to_infer, HearReady, recv_prediction, learnerVars
  <1>4. CASE CollectReceipt
    BY <1>4 DEF CollectReceipt, coreVars
  <1>5. CASE FirstFit
    BY <1>5 DEF FirstFit, coreVars
  <1>6. CASE FineTune
    BY <1>6 DEF FineTune, coreVars
  <1>7. CASE Predictor
    BY <1>7 DEF Predictor, TakeParams, TellReady, TakeQuestion, AnswerQuestion,
                PredictingRaises, coreVars, learnerVars
  <1>8. CASE UNCHANGED streamingVars
    BY <1>8 DEF streamingVars, coreVars, learnerVars
  <1>9. QED
    BY <1>1, <1>2, <1>3, <1>4, <1>5, <1>6, <1>7, <1>8
    DEF StreamingNext, StreamLoop, Learner

-----------------------------------------------------------------------------
(***************************************************************************)
(* StreamingBackend: the prediction the receive loop waits for.            *)
(***************************************************************************)

\* A model is announced after a fit, so after a whole round of receipts.
AnnouncedInv ==
  /\ told \in BOOLEAN /\ ctrl \in Nat /\ model_params \in Nat /\ fitted \in Nat
  /\ fitted = 0 =>
       /\ told = FALSE /\ ctrl = 0 /\ model_params = 0 /\ predictor # "announce"
       /\ core # "await"

LEMMA AnnouncedStep == AnnouncedInv /\ [StreamingNext]_streamingVars => AnnouncedInv'
  <1> SUFFICES ASSUME AnnouncedInv, [StreamingNext]_streamingVars PROVE AnnouncedInv'
    OBVIOUS
  <1>1. CASE TakeReceipt \/ send_to_ml_model \/ send_to_infer \/ recv_prediction
    BY <1>1 DEF AnnouncedInv, TakeReceipt, send_to_ml_model, send_to_infer,
                recv_prediction, learnerVars, predictorVars
  <1>2. CASE HearReady
    <2>1. told' \in BOOLEAN /\ fitted' \in Nat /\ model_params' \in Nat
      BY <1>2 DEF HearReady, AnnouncedInv, learnerVars
    <2>2. ctrl' \in Nat
      BY <1>2 DEF HearReady, AnnouncedInv
    <2>3. fitted = 0 => told' = FALSE /\ ctrl' = 0 /\ core' = "poll"
      BY <1>2 DEF HearReady, AnnouncedInv
    <2>4. QED
      BY <1>2, <2>1, <2>2, <2>3 DEF HearReady, AnnouncedInv, learnerVars, predictorVars
  <1>3. CASE Learner
    BY <1>3 DEF AnnouncedInv, Learner, CollectReceipt, FirstFit, FineTune, coreVars,
                predictorVars
  <1>4. CASE Predictor
    BY <1>4 DEF AnnouncedInv, Predictor, TakeParams, TellReady, TakeQuestion,
                AnswerQuestion, PredictingRaises, coreVars, learnerVars
  <1>5. CASE UNCHANGED streamingVars
    BY <1>5 DEF AnnouncedInv, streamingVars, coreVars, learnerVars, predictorVars
  <1>6. QED
    BY <1>1, <1>2, <1>3, <1>4, <1>5 DEF StreamingNext, StreamLoop

LEMMA ModelNeedsRound ==
  ASSUME AnnouncedInv, ReceiptsInv, told = TRUE \/ ctrl > 0 \/ core = "await"
  PROVE  count > STREAM_LOOK_BACK
  <1>1. fitted # 0
    BY DEF AnnouncedInv
  <1>2. QED
    BY <1>1, StreamingConstants DEF ReceiptsInv, Taken

\* The questions asked so far: the one about this heartbeat comes after its receipt.
Asked == IF core \in {"train", "infer"} THEN count - 1 ELSE count

\* The queue holds the latest questions in order, and the inference process has
\* kept a receipt of each of the others, up to STREAM_LOOK_BACK.
QuestionsInv ==
  /\ questions \in Seq(Nat) /\ count \in Nat /\ Len(questions) <= Asked
  /\ core \in {"poll", "train", "infer", "control", "await"}
  /\ \A i \in 1 .. Len(questions) : questions[i] = Asked - Len(questions) + i
  /\ history =
       IF Asked - Len(questions) < STREAM_LOOK_BACK THEN Asked - Len(questions) ELSE STREAM_LOOK_BACK

LEMMA QuestionsStep == QuestionsInv /\ [StreamingNext]_streamingVars => QuestionsInv'
  <1> SUFFICES ASSUME QuestionsInv, [StreamingNext]_streamingVars PROVE QuestionsInv'
    OBVIOUS
  <1>20. Len(questions) \in Nat
    BY LenProperties DEF QuestionsInv
  <1>1. CASE TakeReceipt
    BY <1>1, <1>20 DEF QuestionsInv, Asked, TakeReceipt, predictorVars
  <1>2. CASE send_to_ml_model
    BY <1>2 DEF QuestionsInv, Asked, send_to_ml_model, predictorVars
  <1>3. CASE send_to_infer
    <2>1. /\ questions' \in Seq(Nat) /\ Len(questions') = Len(questions) + 1
          /\ questions'[Len(questions) + 1] = count
          /\ \A i \in 1 .. Len(questions) : questions'[i] = questions[i]
      BY <1>3, AppendProperties DEF QuestionsInv, send_to_infer
    <2>2. Asked = count - 1 /\ Asked' = count /\ count' = count /\ core' = "control"
          /\ history' = history
      BY <1>3 DEF send_to_infer, Asked, predictorVars
    <2>3. Asked \in Int /\ count \in Nat
      BY DEF QuestionsInv, Asked
    <2>4. Len(questions') <= Asked' /\ Asked' - Len(questions') = Asked - Len(questions)
      BY <2>1, <2>2, <2>3, <1>20 DEF QuestionsInv
    <2>5. ASSUME NEW i \in 1 .. Len(questions')
          PROVE  questions'[i] = Asked' - Len(questions') + i
      <3>1. CASE i = Len(questions) + 1
        BY <3>1, <2>1, <2>2, <2>3, <1>20
      <3>2. CASE i # Len(questions) + 1
        <4>1. i \in 1 .. Len(questions)
          BY <3>2, <2>1, <1>20
        <4>2. questions[i] = Asked - Len(questions) + i
          BY <4>1 DEF QuestionsInv
        <4>3. questions'[i] = questions[i]
          BY <4>1, <2>1
        <4>4. QED
          BY <4>2, <4>3, <2>4, <2>2, <2>1
      <3>3. QED
        BY <3>1, <3>2
    <2>6. QED
      BY <2>1, <2>2, <2>4, <2>5 DEF QuestionsInv
  <1>4. CASE HearReady
    <2>1. core = "control" /\ core' \in {"await", "poll"}
      BY <1>4 DEF HearReady
    <2>2. Asked' = Asked
      BY <1>4, <2>1 DEF HearReady, Asked
    <2>3. QED
      BY <1>4, <2>1, <2>2 DEF HearReady, QuestionsInv, predictorVars
  <1>5. CASE recv_prediction
    <2>1. core = "await" /\ core' \in {"await", "poll"}
      BY <1>5 DEF recv_prediction
    <2>2. Asked' = Asked
      BY <1>5, <2>1 DEF recv_prediction, Asked
    <2>3. QED
      BY <1>5, <2>1, <2>2 DEF recv_prediction, QuestionsInv, predictorVars
  <1>6. CASE TakeQuestion
    <2>1. /\ questions' \in Seq(Nat) /\ Len(questions') = Len(questions) - 1
          /\ Len(questions) > 0
          /\ \A i \in 1 .. Len(questions') : questions'[i] = questions[i + 1]
      BY <1>6, HeadTailProperties, LenProperties, EmptySeq DEF QuestionsInv, TakeQuestion
    <2>2. Asked' = Asked /\ count' = count /\ core' = core
      BY <1>6 DEF TakeQuestion, Asked, coreVars
    <2>3. history' = IF history < STREAM_LOOK_BACK THEN history + 1 ELSE history
      BY <1>6 DEF TakeQuestion
    <2>4. Asked \in Int
      BY DEF QuestionsInv, Asked
    <2>5. \A i \in 1 .. Len(questions') : questions'[i] = Asked' - Len(questions') + i
      BY <2>1, <2>2, <2>4, <1>20 DEF QuestionsInv
    <2>6. QED
      BY <2>1, <2>2, <2>3, <2>4, <2>5, <1>20, StreamingConstants DEF QuestionsInv
  <1>7. CASE Learner \/ TakeParams \/ TellReady \/ AnswerQuestion \/ PredictingRaises
    BY <1>7 DEF QuestionsInv, Asked, Learner, CollectReceipt, FirstFit, FineTune, TakeParams,
                TellReady, AnswerQuestion, PredictingRaises, coreVars, predictorVars
  <1>8. CASE UNCHANGED streamingVars
    BY <1>8 DEF QuestionsInv, Asked, streamingVars, coreVars, predictorVars
  <1>9. QED
    BY <1>1, <1>2, <1>3, <1>4, <1>5, <1>6, <1>7, <1>8 DEF StreamingNext, StreamLoop, Predictor

\* What UnderWay says of this heartbeat, by places.
CountUnderWay ==
  \/ \E i \in 1 .. Len(questions) : questions[i] = count
  \/ predictor = "predict" /\ question = count
  \/ \E i \in 1 .. Len(answers) : answers[i].id = count

AwaitInv ==
  /\ answers \in Seq([id : Nat, kind : {"time"}]) /\ question \in Nat
  /\ core \in {"control", "await"} /\ count > STREAM_LOOK_BACK /\ predictor # "dead" =>
       CountUnderWay

LEMMA AwaitStart == StreamingInit => AnnouncedInv /\ QuestionsInv /\ AwaitInv
  <1> SUFFICES ASSUME StreamingInit PROVE AnnouncedInv /\ QuestionsInv /\ AwaitInv
    OBVIOUS
  <1>1. AnnouncedInv
    BY DEF StreamingInit, AnnouncedInv
  <1>2. questions \in Seq(Nat) /\ Len(questions) = 0
    BY EmptySeq DEF StreamingInit
  <1>3. QuestionsInv
    BY <1>2, StreamingConstants DEF StreamingInit, QuestionsInv, Asked
  <1>4. answers \in Seq([id : Nat, kind : {"time"}])
    BY EmptySeq DEF StreamingInit
  <1>5. AwaitInv
    BY <1>4 DEF StreamingInit, AwaitInv
  <1>6. QED
    BY <1>1, <1>3, <1>5

LEMMA AwaitStep ==
  ASSUME AwaitInv, QuestionsInv, "zero" \notin AnswerKinds, [StreamingNext]_streamingVars
  PROVE  AwaitInv'
  <1>20. answers \in Seq([id : Nat, kind : {"time"}]) /\ Len(answers) \in Nat
    BY LenProperties DEF AwaitInv
  <1>21. questions \in Seq(Nat) /\ Len(questions) \in Nat /\ count \in Nat
    BY LenProperties DEF QuestionsInv
  <1>1. CASE TakeReceipt \/ send_to_ml_model
    BY <1>1 DEF TakeReceipt, send_to_ml_model, AwaitInv, predictorVars
  <1>2. CASE send_to_infer
    <2>1. questions'[Len(questions) + 1] = count /\ Len(questions') = Len(questions) + 1
      BY <1>2, <1>21, AppendProperties DEF send_to_infer
    <2>2. Len(questions) + 1 \in 1 .. Len(questions') /\ count' = count
      BY <1>2, <2>1, <1>21 DEF send_to_infer
    <2>3. CountUnderWay'
      BY <2>1, <2>2 DEF CountUnderWay
    <2>4. QED
      BY <1>2, <2>3 DEF send_to_infer, AwaitInv, predictorVars
  <1>3. CASE HearReady
    BY <1>3 DEF HearReady, AwaitInv, CountUnderWay, predictorVars
  <1>4. CASE recv_prediction
    <2>1. /\ answers' \in Seq([id : Nat, kind : {"time"}])
          /\ Len(answers) > 0 /\ Len(answers') = Len(answers) - 1
          /\ \A i \in 1 .. Len(answers') : answers'[i] = answers[i + 1]
          /\ Head(answers) = answers[1]
      BY <1>4, <1>20, HeadTailProperties, EmptySeq DEF recv_prediction
    <2>2. question' \in Nat
      BY <1>4 DEF recv_prediction, AwaitInv, predictorVars
    <2>3. SUFFICES ASSUME core' = "await", count > STREAM_LOOK_BACK, predictor # "dead"
                   PROVE  CountUnderWay'
      BY <1>4, <2>1, <2>2 DEF recv_prediction, AwaitInv, predictorVars
    <2>4. answers[1] # [id |-> count, kind |-> "time"] /\ core = "await"
      BY <1>4, <2>1, <2>3 DEF recv_prediction
    <2>5. answers[1] \in [id : Nat, kind : {"time"}]
      <3>1. 1 \in 1 .. Len(answers)
        BY <2>1, <1>20
      <3>2. QED
        BY <3>1, <1>20, ElementOfSeq
    <2>6. answers[1].id # count
      BY <2>4, <2>5
    <2>7. CountUnderWay
      BY <2>3, <2>4 DEF AwaitInv
    <2>8. UNCHANGED <<questions, count, predictor, question>>
      BY <1>4 DEF recv_prediction, predictorVars
    <2>9. CASE \E i \in 1 .. Len(answers) : answers[i].id = count
      <3>1. PICK i \in 1 .. Len(answers) : answers[i].id = count
        BY <2>9
      <3>2. i # 1 /\ i - 1 \in 1 .. Len(answers') /\ (i - 1) + 1 = i
        BY <3>1, <2>6, <2>1, <1>20
      <3>3. answers'[i - 1] = answers[i]
        BY <3>2, <2>1
      <3>4. answers'[i - 1].id = count'
        BY <3>1, <3>3, <2>8
      <3>5. QED
        BY <3>2, <3>4 DEF CountUnderWay
    <2>10. QED
      BY <2>7, <2>8, <2>9 DEF CountUnderWay
  <1>5. CASE TakeQuestion
    <2>1. /\ Len(questions) > 0 /\ Len(questions') = Len(questions) - 1
          /\ \A i \in 1 .. Len(questions') : questions'[i] = questions[i + 1]
          /\ question' = questions[1]
      BY <1>5, <1>21, HeadTailProperties, EmptySeq DEF TakeQuestion
    <2>2. questions[1] \in Nat
      BY <2>1, <1>21, ElementOfSeq
    <2>3. UNCHANGED <<core, count, answers>> /\ predictor = "serve"
          /\ predictor' \in {"refresh", "predict"}
      BY <1>5 DEF TakeQuestion, coreVars
    <2>4. SUFFICES ASSUME core \in {"control", "await"}, count > STREAM_LOOK_BACK
                   PROVE  CountUnderWay'
      BY <1>20, <2>1, <2>2, <2>3 DEF AwaitInv
    <2>5. CountUnderWay
      BY <2>3, <2>4 DEF AwaitInv
    <2>6. CASE \E i \in 1 .. Len(answers) : answers[i].id = count
      BY <2>6, <2>3 DEF CountUnderWay
    <2>7. CASE \E i \in 1 .. Len(questions) : questions[i] = count
      <3>1. PICK i \in 1 .. Len(questions) : questions[i] = count
        BY <2>7
      <3>2. CASE i = 1
        <4>1. Asked = count
          BY <2>4 DEF Asked
        <4>2. 1 \in 1 .. Len(questions)
          BY <2>1, <1>21
        <4>3. questions[1] = Asked - Len(questions) + 1
          BY <4>2 DEF QuestionsInv
        <4>4. Asked - Len(questions) >= STREAM_LOOK_BACK
          BY <3>1, <3>2, <4>1, <4>3, <2>4, <1>21, StreamingConstants
        <4>5. history = STREAM_LOOK_BACK
          BY <4>4, <4>1, <1>21, StreamingConstants DEF QuestionsInv
        <4>6. predictor' = "predict"
          BY <1>5, <4>5, StreamingConstants DEF TakeQuestion
        <4>7. QED
          BY <4>6, <2>1, <2>3, <3>1, <3>2 DEF CountUnderWay
      <3>3. CASE i # 1
        <4>1. i - 1 \in 1 .. Len(questions') /\ (i - 1) + 1 = i
          BY <3>3, <2>1, <1>21
        <4>2. questions'[i - 1] = questions[i]
          BY <4>1, <2>1
        <4>3. questions'[i - 1] = count'
          BY <4>2, <3>1, <2>3
        <4>4. QED
          BY <4>1, <4>3 DEF CountUnderWay
      <3>4. QED
        BY <3>2, <3>3
    <2>8. QED
      BY <2>3, <2>5, <2>6, <2>7 DEF CountUnderWay
  <1>6. CASE AnswerQuestion
    <2>1. PICK kind \in AnswerKinds \ {"raise"} :
            answers' = Append(answers, [id |-> question, kind |-> kind])
      BY <1>6 DEF AnswerQuestion
    <2>2. kind = "time" /\ question \in Nat
      BY StreamingConstants DEF AwaitInv
    <2>3. [id |-> question, kind |-> kind] \in [id : Nat, kind : {"time"}]
      BY <2>2
    <2>4. /\ answers' \in Seq([id : Nat, kind : {"time"}])
          /\ Len(answers') = Len(answers) + 1
          /\ answers'[Len(answers) + 1] = [id |-> question, kind |-> kind]
          /\ \A i \in 1 .. Len(answers) : answers'[i] = answers[i]
      BY <2>1, <2>3, <1>20, AppendProperties
    <2>5. UNCHANGED <<core, count, questions, question>> /\ predictor = "predict"
      BY <1>6 DEF AnswerQuestion, coreVars
    <2>6. CountUnderWay => CountUnderWay'
      <3>1. CASE question = count
        <4>1. Len(answers) + 1 \in 1 .. Len(answers') /\ answers'[Len(answers) + 1].id = count'
          BY <3>1, <2>4, <2>5, <1>20
        <4>2. QED
          BY <4>1 DEF CountUnderWay
      <3>2. CASE \E i \in 1 .. Len(answers) : answers[i].id = count
        <4>1. PICK i \in 1 .. Len(answers) : answers[i].id = count
          BY <3>2
        <4>2. i \in 1 .. Len(answers') /\ answers'[i].id = count'
          BY <4>1, <2>4, <2>5, <1>20
        <4>3. QED
          BY <4>2 DEF CountUnderWay
      <3>3. QED
        BY <3>1, <3>2, <2>5 DEF CountUnderWay
    <2>7. QED
      BY <2>2, <2>4, <2>5, <2>6 DEF AwaitInv
  <1>7. CASE Learner
    BY <1>7 DEF Learner, CollectReceipt, FirstFit, FineTune, AwaitInv, CountUnderWay,
                coreVars, predictorVars
  <1>8. CASE TakeParams \/ TellReady
    BY <1>8 DEF TakeParams, TellReady, AwaitInv, CountUnderWay, coreVars
  <1>9. CASE PredictingRaises
    BY <1>9 DEF PredictingRaises, AwaitInv
  <1>10. CASE UNCHANGED streamingVars
    BY <1>10 DEF streamingVars, coreVars, predictorVars, AwaitInv, CountUnderWay
  <1>11. QED
    BY <1>1, <1>2, <1>3, <1>4, <1>5, <1>6, <1>7, <1>8, <1>9, <1>10
    DEF StreamingNext, StreamLoop, Predictor

\* The receive loop that reads the replies waits for one that is still to come:
\* through any backlog it skips, for queues of any size, as long as a
\* prediction that is made at all is a time.
THEOREM AwaitedAnswerComes ==
  ASSUME "zero" \notin AnswerKinds PROVE StreamingSafety => []AwaitedIsComing
  <1> DEFINE Inv == ReceiptsInv /\ AnnouncedInv /\ QuestionsInv /\ AwaitInv
  <1>1. StreamingInit => Inv
    BY ReceiptsStart, AwaitStart
  <1>2. Inv /\ [StreamingNext]_streamingVars => Inv'
    BY ReceiptsStep, AnnouncedStep, QuestionsStep, AwaitStep
  <1>3. Inv => AwaitedIsComing
    <2> SUFFICES ASSUME Inv, core = "await", predictor # "dead"
                 PROVE  count \in UnderWay /\ count > STREAM_LOOK_BACK
      BY DEF AwaitedIsComing
    <2>1. count > STREAM_LOOK_BACK
      BY ModelNeedsRound
    <2>2. CountUnderWay
      BY <2>1 DEF AwaitInv
    <2>3. DOMAIN questions = 1 .. Len(questions) /\ DOMAIN answers = 1 .. Len(answers)
      BY LenProperties DEF QuestionsInv, AwaitInv
    <2>4. QED
      BY <2>1, <2>2, <2>3 DEF CountUnderWay, UnderWay, ToSet
  <1>4. QED
    BY <1>1, <1>2, <1>3, PTL DEF StreamingSafety

-----------------------------------------------------------------------------
(***************************************************************************)
(* StreamingBackend: the types.  The message that says the model is ready  *)
(* is sent once, so the queue it is counted in holds at most that one.     *)
(***************************************************************************)

ToldOnce ==
  /\ told \in BOOLEAN /\ model_params_ready \in BOOLEAN /\ ctrl \in {0, 1}
  /\ predictor \in {"refresh", "announce", "serve", "predict", "dead"}
  /\ ~model_params_ready => ctrl = 0 /\ ~told
  /\ predictor = "announce" => ~model_params_ready
  /\ told => ctrl = 0

AnswersType == answers \in Seq(AnswerRecords) /\ question \in Nat

LEMMA ToldOnceStep == ToldOnce /\ [StreamingNext]_streamingVars => ToldOnce'
  <1> SUFFICES ASSUME ToldOnce, [StreamingNext]_streamingVars PROVE ToldOnce'
    OBVIOUS
  <1> USE DEF ToldOnce
  <1>1. CASE TakeReceipt \/ send_to_ml_model \/ send_to_infer \/ recv_prediction \/ Learner
    BY <1>1 DEF TakeReceipt, send_to_ml_model, send_to_infer, recv_prediction, Learner,
                CollectReceipt, FirstFit, FineTune, coreVars, predictorVars
  <1>2. CASE HearReady
    <2>1. CASE ctrl = 0
      BY <1>2, <2>1 DEF HearReady, predictorVars
    <2>2. CASE ctrl = 1
      <3>1. ~told /\ model_params_ready
        BY <2>2
      <3>2. ctrl' = 0 /\ 1 > 0
        BY <1>2, <2>2, <3>1 DEF HearReady
      <3>3. told' = TRUE /\ UNCHANGED <<model_params_ready, predictor>>
        BY <1>2, <2>2, <3>2 DEF HearReady, predictorVars
      <3> QED BY <3>1, <3>2, <3>3
    <2> QED BY <2>1, <2>2
  <1>3. CASE TellReady
    <2>1. ctrl' = 1 /\ ~told
      BY <1>3 DEF TellReady
    <2>2. model_params_ready' = TRUE /\ predictor' = "serve" /\ told' = told
      BY <1>3 DEF TellReady, coreVars
    <2> QED BY <2>1, <2>2
  <1>4. CASE TakeParams
    BY <1>4 DEF TakeParams, coreVars
  <1>5. CASE TakeQuestion \/ AnswerQuestion \/ PredictingRaises
    BY <1>5 DEF TakeQuestion, AnswerQuestion, PredictingRaises, coreVars
  <1>6. CASE UNCHANGED streamingVars
    BY <1>6 DEF streamingVars, coreVars, predictorVars
  <1> QED BY <1>1, <1>2, <1>3, <1>4, <1>5, <1>6 DEF StreamingNext, StreamLoop, Predictor

LEMMA AnswersStep ==
  AnswersType /\ questions \in Seq(Nat) /\ [StreamingNext]_streamingVars => AnswersType'
  <1> SUFFICES ASSUME AnswersType, questions \in Seq(Nat), [StreamingNext]_streamingVars
               PROVE  AnswersType'
    OBVIOUS
  <1> USE DEF AnswersType
  <1>1. CASE recv_prediction
    <2>1. answers' \in Seq(AnswerRecords)
      BY <1>1, HeadTailProperties DEF recv_prediction
    <2> QED BY <1>1, <2>1 DEF recv_prediction, predictorVars
  <1>2. CASE TakeQuestion
    <2>1. question' \in Nat
      BY <1>2, HeadTailProperties DEF TakeQuestion
    <2> QED BY <1>2, <2>1 DEF TakeQuestion
  <1>3. CASE AnswerQuestion
    <2>1. PICK kind \in AnswerKinds \ {"raise"} :
            answers' = Append(answers, [id |-> question, kind |-> kind])
      BY <1>3 DEF AnswerQuestion
    <2>2. [id |-> question, kind |-> kind] \in AnswerRecords
      BY StreamingConstants DEF AnswerRecords
    <2>3. answers' \in Seq(AnswerRecords)
      BY <2>1, <2>2, AppendProperties
    <2> QED BY <1>3, <2>3 DEF AnswerQuestion
  <1>4. CASE UNCHANGED <<answers, question>>
    BY <1>4
  <1> QED
    BY <1>1, <1>2, <1>3, <1>4
       DEF StreamingNext, StreamLoop, Predictor, Learner, TakeReceipt, send_to_ml_model,
           send_to_infer, HearReady, CollectReceipt, FirstFit, FineTune, TakeParams,
           TellReady, PredictingRaises, predictorVars, streamingVars

LEMMA StreamTyped ==
  ReceiptsInv /\ AnnouncedInv /\ QuestionsInv /\ ToldOnce /\ AnswersType => StreamingType
  <1> SUFFICES ASSUME ReceiptsInv, AnnouncedInv, QuestionsInv, ToldOnce, AnswersType
               PROVE  StreamingType
    OBVIOUS
  <1>1. history \in 0 .. STREAM_LOOK_BACK
    <2>1. Len(questions) \in Nat /\ Asked \in Int
      BY LenProperties DEF QuestionsInv, Asked
    <2> QED BY <2>1, StreamingConstants DEF QuestionsInv
  <1>2. receipts \in 0 .. ReceiptCap /\ collected \in 0 .. TRAIN_SIZE /\ count \in Nat
        /\ learner \in {"collect", "fit", "dead"}
    BY DEF ReceiptsInv
  <1>3. fitted \in Nat /\ model_params \in Nat
    BY DEF AnnouncedInv
  <1>4. core \in {"poll", "train", "infer", "control", "await"} /\ questions \in Seq(Nat)
    BY DEF QuestionsInv
  <1> QED BY <1>1, <1>2, <1>3, <1>4, Zenon DEF StreamingType, ToldOnce, AnswersType

\* What the queues of the streaming backend hold.
THEOREM StreamingTypeCorrect == StreamingSafety => []StreamingType
  <1> DEFINE Inv == ReceiptsInv /\ AnnouncedInv /\ QuestionsInv /\ ToldOnce /\ AnswersType
  <1>1. StreamingInit => Inv
    <2> SUFFICES ASSUME StreamingInit PROVE Inv
      OBVIOUS
    <2>1. ToldOnce /\ AnswersType
      BY EmptySeq DEF StreamingInit, ToldOnce, AnswersType
    <2> QED BY <2>1, ReceiptsStart, AwaitStart
  <1>2. Inv /\ [StreamingNext]_streamingVars => Inv'
    <2>1. QuestionsInv => questions \in Seq(Nat)
      BY DEF QuestionsInv
    <2> QED BY <2>1, ReceiptsStep, AnnouncedStep, QuestionsStep, ToldOnceStep, AnswersStep
  <1> QED BY <1>1, <1>2, StreamTyped, PTL DEF StreamingSafety

=============================================================================
