--------------------------- MODULE ArrivalStream ---------------------------
(***************************************************************************)
(* The per-heartbeat path of lcore_recv_heartbeat_pkt over the ring of     *)
(* ArrivalWindow: count the heartbeat, store its receipt time, cut out the *)
(* training message at every HEARTBEAT_N-th heartbeat and the inference    *)
(* request at every heartbeat (the model is taken to be ready: whether it  *)
(* is ready is MLDetector's subject).                                      *)
(*                                                                         *)
(* log is a history variable: every receipt time ever stored.              *)
(***************************************************************************)
EXTENDS ArrivalWindow, Sequences

CONSTANT ReceiptTimes   \* values rte_rdtsc() may return

ASSUME ReceiptTimesArePositive == ReceiptTimes \subseteq Nat \ {0}

CONSTANT MaxHeartbeats  \* bound on the heartbeats of a behaviour

ASSUME MaxHeartbeatsIsNat == MaxHeartbeats \in Nat

VARIABLES
  stored,                 \* the heartbeats so far, pkt_cnt
  train_msg, infer_msg,   \* the latest message of either kind
  log

streamVars ==
  <<arr_timestamp, next_avail, stored, train_msg, infer_msg, log>>

StreamInit ==
  /\ WindowInit
  /\ stored = 0
  /\ train_msg = << >>
  /\ infer_msg = << >>
  /\ log = << >>

\* Mutant of Heartbeat: the training period is tested before the count.
HeartbeatTrainsLate(t) ==
  /\ stored < MaxHeartbeats
  /\ stored' = stored + 1
  /\ Store(t)
  /\ log' = Append(log, t)
  /\ train_msg' = IF stored > 0 /\ stored % ARR_SIZE = 0
                  THEN TrainBatch(arr_timestamp')
                  ELSE train_msg
  /\ infer_msg' = InferWindow(arr_timestamp', next_avail')

\* One heartbeat whose receipt is timed at t.
Heartbeat(t) ==
  /\ stored < MaxHeartbeats
  /\ stored' = stored + 1
  /\ Store(t)
  /\ log' = Append(log, t)
  /\ train_msg' = IF stored' % ARR_SIZE = 0
                  THEN TrainBatch(arr_timestamp')
                  ELSE train_msg
  /\ infer_msg' = InferWindow(arr_timestamp', next_avail')

\* The receipt clock moves forward, heartbeat by heartbeat.
StreamNext ==
  \E t \in ReceiptTimes :
    /\ \A i \in DOMAIN log : log[i] < t
    /\ Heartbeat(t)

StreamSpec == StreamInit /\ [][StreamNext]_streamVars

-----------------------------------------------------------------------------

StreamType ==
  /\ WindowType
  /\ stored \in 0 .. MaxHeartbeats
  /\ log \in Seq(Nat)
  /\ Len(log) = stored

\* Slot s of the ring was written by the latest heartbeat whose number is
\* congruent to s + 1, and by none if no such heartbeat came.
RingHoldsRecent ==
  /\ next_avail = stored % ARR_SIZE
  /\ \A k \in 1 .. ARR_SIZE :
       arr_timestamp[(next_avail - k + ARR_SIZE) % ARR_SIZE] =
         IF k <= stored THEN log[stored - k + 1] ELSE 0

\* The ring refines the everlasting log: whatever the index arithmetic does,
\* the training message is the last ARR_SIZE receipts in the order they came
\* (the ring is sent as it lies in memory, which is chronological only because
\* the training period equals the wrap of next_avail) and the request is the
\* last LOOK_BACK of them.
Log == INSTANCE ArrivalLog WITH HEARTBEAT_N <- ARR_SIZE

ImplementsLog == Log!LogSpec

\* The training process differences neighbouring receipt times: a message
\* rotated in memory would hold one large step backwards.  Every training
\* message is strictly increasing, hence in order of receipt.
TrainingChronological ==
  \A i, j \in DOMAIN train_msg : i < j => train_msg[i] < train_msg[j]

=============================================================================
