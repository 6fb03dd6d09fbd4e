--------------------------- MODULE RetrainPolicy ---------------------------
(***************************************************************************)
(* The evaluated machine-learning detector, perf_eval/mlfd_perf_eval and   *)
(* its profiled copy perf_eval/mlfd_profile: unlike the one in             *)
(* tensroflow_dpdk (MLDetector) it does not send a training message every  *)
(* HEARTBEAT_N heartbeats but only when it got worse, by the false         *)
(* positives and by the differences between prediction and arrival.        *)
(*                                                                         *)
(* The loop is sequential and a heartbeat is one step.  What it shares     *)
(* with MLDetector and ArrivalWindow (ring, requests, queues, exits) is    *)
(* left out.  Only differences of clock readings matter, so times are      *)
(* relative to the last receipt.                                           *)
(***************************************************************************)
EXTENDS Integers, FiniteSetsExt

CONSTANTS
  HEARTBEAT_N,      \* heartbeats in a period, and entries of the window
  INITIAL_POSITIVES,\* initial value of current_false_positives, 200
  TOLERATED,        \* false positives never worth a training message, 35
  REPORT_PERIOD,    \* heartbeats between two reports, 1000
  INT_SIZE,         \* number of values of an int
  Intervals,        \* ticks between two receipts
  Predicted,        \* ticks a prediction lies after the receipt
  Latencies,        \* ticks from the receipt to the reply
  MaxPolicyHeartbeats   \* bound

ASSUME PeriodAssumption ==
  HEARTBEAT_N \in Nat \ {0} /\ REPORT_PERIOD \in Nat \ {0}
ASSUME PositivesAssumption == INITIAL_POSITIVES \in Nat /\ TOLERATED \in Nat
ASSUME FirstPeriodAssumption == INITIAL_POSITIVES > TOLERATED
ASSUME IntAssumption == INT_SIZE \in Nat /\ INT_SIZE % 2 = 0 /\ INT_SIZE > 0
ASSUME TimesAssumption ==
  Intervals \subseteq Nat /\ Predicted \subseteq Nat \ {0} /\ Latencies \subseteq Nat

VARIABLES
  pkt_cnt, ready_to_infer,
  next_arrival,             \* 0 before the first prediction
  prediction_difference, difference_idx,
  cur_difference_sum, last_difference_sum,
  current_false_positives, last_false_positives,
  false_positive_cnt, late_prediction_cnt,
  armed, deadline,          \* the timer
  passed,                   \* time since the last receipt, at least
  batches,                  \* training messages sent
  \* for the properties
  fired, fired_before,      \* expiries in this and in the previous period
  base                      \* sum of the window when the period began

policyVars ==
  <<pkt_cnt, ready_to_infer, next_arrival, prediction_difference, difference_idx,
    cur_difference_sum, last_difference_sum, current_false_positives,
    last_false_positives, false_positive_cnt, late_prediction_cnt, armed,
    deadline, passed, batches, fired, fired_before, base>>

Entries == 0 .. HEARTBEAT_N - 1

\* The value of an int that the low bits of x make.
Signed(x) == ((x + INT_SIZE \div 2) % INT_SIZE) - (INT_SIZE \div 2)

WindowTotal(window) ==
  LET Entry(i) == window[i] IN MapThenSumSet(Entry, Entries)

PolicyInit ==
  /\ pkt_cnt = 0 /\ ready_to_infer = FALSE /\ next_arrival = 0
  /\ prediction_difference = [i \in Entries |-> 0] /\ difference_idx = 0
  /\ cur_difference_sum = 0 /\ last_difference_sum = 0
  /\ current_false_positives = INITIAL_POSITIVES /\ last_false_positives = 0
  /\ false_positive_cnt = 0 /\ late_prediction_cnt = 0
  /\ armed = FALSE /\ deadline = 0 /\ passed = 0 /\ batches = 0
  /\ fired = 0 /\ fired_before = 0 /\ base = 0

-----------------------------------------------------------------------------

\* Mutant: the index runs one entry past the end of the window.
RecordDifferenceNoWrap(gap) ==
  IF next_arrival = 0
  THEN UNCHANGED <<prediction_difference, difference_idx>>
  ELSE /\ prediction_difference' =
            [prediction_difference EXCEPT ![difference_idx] = Signed(next_arrival - gap)]
       /\ difference_idx' = (difference_idx + 1) % (HEARTBEAT_N + 1)

\* The new difference replaces the oldest in the window and in the sum.  A
\* prediction that came late is compared as well.
RecordDifference(gap) ==
  IF next_arrival = 0
  THEN UNCHANGED <<prediction_difference, difference_idx>>
  ELSE /\ prediction_difference' =
            [prediction_difference EXCEPT ![difference_idx] = Signed(next_arrival - gap)]
       /\ difference_idx' = (difference_idx + 1) % HEARTBEAT_N

\* Mutant: the entry that is overwritten is not subtracted.
SumWithDifferenceOnlyAdds(gap) ==
  IF next_arrival = 0 THEN cur_difference_sum
  ELSE Signed(cur_difference_sum + Signed(next_arrival - gap))

SumWithDifference(gap) ==
  IF next_arrival = 0 THEN cur_difference_sum
  ELSE Signed(cur_difference_sum - prediction_difference[difference_idx]
              + Signed(next_arrival - gap))

\* No int exceeds 4000000000, the fourth condition of the code.
Worse(sum) ==
  \/ 10 * current_false_positives > 12 * last_false_positives
  \/ current_false_positives > TOLERATED
  \/ 10 * sum > 12 * last_difference_sum

\* The sum is reset, the window is not.
DecideTraining(gap) ==
  IF pkt_cnt' % HEARTBEAT_N = 0
  THEN /\ batches' = batches + (IF Worse(SumWithDifference(gap)) THEN 1 ELSE 0)
       /\ last_false_positives' = current_false_positives
       /\ current_false_positives' = 0
       /\ last_difference_sum' = SumWithDifference(gap)
       /\ cur_difference_sum' = 0
       /\ fired_before' = fired /\ fired' = 0
       /\ base' = WindowTotal(prediction_difference')
  ELSE /\ cur_difference_sum' = SumWithDifference(gap)
       /\ UNCHANGED <<batches, last_false_positives, current_false_positives,
                      last_difference_sum, fired, fired_before, base>>

\* A report prints the two counters and resets them.
Count(mistakes, late) ==
  LET reported == pkt_cnt' % REPORT_PERIOD = 0
  IN /\ false_positive_cnt' = IF reported THEN 0 ELSE false_positive_cnt + mistakes
     /\ late_prediction_cnt' = IF reported THEN 0 ELSE late_prediction_cnt + late

Elapse(gap) == IF armed THEN deadline - gap ELSE 0

\* The control queue is still empty: nothing is requested.
NotReady(gap) ==
  /\ ~ready_to_infer
  /\ deadline' = Elapse(gap) /\ passed' = 0
  /\ Count(0, 0)
  /\ UNCHANGED <<ready_to_infer, next_arrival, armed>>

\* Both branches of the code: the model has just become ready, or has been for
\* a while.  A late prediction leaves the timer as it was and is counted as a
\* false positive, but not in current_false_positives.
Predict(gap) ==
  \E ahead \in Predicted, latency \in Latencies :
    /\ ready_to_infer' = TRUE
    /\ next_arrival' = ahead
    /\ passed' = latency
    /\ IF ahead < latency
       THEN deadline' = Elapse(gap) /\ UNCHANGED armed /\ Count(1, 1)
       ELSE deadline' = ahead /\ armed' = TRUE /\ Count(0, 0)

\* The packets of a burst are received without serving the timers in between,
\* so a deadline may have passed.
Receive(gap) ==
  /\ pkt_cnt < MaxPolicyHeartbeats
  /\ passed <= gap
  /\ pkt_cnt' = pkt_cnt + 1
  /\ RecordDifference(gap)
  /\ DecideTraining(gap)
  /\ NotReady(gap) \/ Predict(gap)

\* Mutant: the call that arms the timer again is not commented out.
PolicyExpireRewires ==
  /\ armed
  /\ current_false_positives' = current_false_positives + 1
  /\ false_positive_cnt' = false_positive_cnt + 1
  /\ fired' = fired + 1
  /\ passed' = Max({passed, deadline})
  /\ UNCHANGED <<pkt_cnt, ready_to_infer, next_arrival, prediction_difference,
                 difference_idx, cur_difference_sum, last_difference_sum, armed, deadline,
                 last_false_positives, late_prediction_cnt, batches, fired_before, base>>

\* Mutant: the counter of the policy is forgotten.
PolicyExpireCountsOnce ==
  /\ armed
  /\ false_positive_cnt' = false_positive_cnt + 1
  /\ fired' = fired + 1
  /\ passed' = Max({passed, deadline})
  /\ armed' = FALSE /\ deadline' = 0
  /\ UNCHANGED <<pkt_cnt, ready_to_infer, next_arrival, prediction_difference,
                 difference_idx, cur_difference_sum, last_difference_sum,
                 current_false_positives,
                 last_false_positives, late_prediction_cnt, batches, fired_before, base>>

\* The timer is not armed again, and the window of suspected intervals it keeps
\* is only printed by this copy.
PolicyExpire ==
  /\ armed
  /\ current_false_positives' = current_false_positives + 1
  /\ false_positive_cnt' = false_positive_cnt + 1
  /\ fired' = fired + 1
  /\ passed' = Max({passed, deadline})
  /\ armed' = FALSE /\ deadline' = 0
  /\ UNCHANGED <<pkt_cnt, ready_to_infer, next_arrival, prediction_difference,
                 difference_idx, cur_difference_sum, last_difference_sum,
                 last_false_positives, late_prediction_cnt, batches, fired_before, base>>

PolicyReceive == \E gap \in Intervals : Receive(gap)

PolicyNext == PolicyReceive \/ PolicyExpire

PolicySpec == PolicyInit /\ [][PolicyNext]_policyVars

-----------------------------------------------------------------------------

PolicyType ==
  /\ pkt_cnt \in Nat /\ ready_to_infer \in BOOLEAN
  /\ next_arrival \in Nat /\ armed \in BOOLEAN /\ deadline \in Int
  /\ prediction_difference \in [Entries -> Int] /\ difference_idx \in Entries
  /\ cur_difference_sum \in Int /\ last_difference_sum \in Int
  /\ current_false_positives \in Nat /\ last_false_positives \in Nat
  /\ false_positive_cnt \in Nat /\ late_prediction_cnt \in Nat
  /\ passed \in Int /\ batches \in Nat
  /\ fired \in Nat /\ fired_before \in Nat

\* "this is used to retrain the model when the detection time is going high":
\* the sum is reset at every period while the window it is maintained from is
\* not, so what is compared is neither the sum over the window nor that over
\* the period but how far the window moved since the period began.
DifferenceSumIsChange ==
  cur_difference_sum = Signed(WindowTotal(prediction_difference) - base)

PeriodEnds == pkt_cnt' # pkt_cnt /\ pkt_cnt' % HEARTBEAT_N = 0

\* Whatever the differences do, a period ends with a training message if it is
\* the first, if it had more suspicions than are tolerated, or, from the third
\* on, a fifth more than the one before; the second is compared with the
\* initial value of the counter.
RetrainsWhenWorse ==
  [][/\ PeriodEnds
     /\ \/ pkt_cnt' = HEARTBEAT_N
        \/ fired > TOLERATED
        \/ pkt_cnt' > 2 * HEARTBEAT_N /\ 10 * fired > 12 * fired_before
     => batches' = batches + 1]_policyVars

\* The timer is SINGLE and armed by a timely prediction only: a period counts
\* at most one suspicion per heartbeat, and one for the last of the period
\* before, so the number tolerated is a share of HEARTBEAT_N.
OneSuspicionPerHeartbeat ==
  fired + (IF armed THEN 1 ELSE 0) <= (pkt_cnt % HEARTBEAT_N) + 1

=============================================================================
