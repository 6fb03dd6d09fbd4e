------------------------- MODULE RetrainPolicyProofs -------------------------
(***************************************************************************)
(* When the evaluated detector asks for training, for any period, any      *)
(* tolerance and any clock: what its counters stand for, that a period     *)
(* that was worse ends with a training message, and what is compared.      *)
(***************************************************************************)
EXTENDS RetrainPolicy, WindowSums, TLAPS

-----------------------------------------------------------------------------
(***************************************************************************)
(* Counting heartbeats by periods.                                         *)
(***************************************************************************)

LEMMA NextInPeriod ==
  ASSUME NEW n \in Nat \ {0}, NEW x \in Nat
  PROVE  /\ x % n \in 0 .. n - 1
         /\ (x + 1) % n = IF (x % n) + 1 = n THEN 0 ELSE (x % n) + 1
  <1> DEFINE q == x \div n
             r == x % n
  <1>1. q \in Nat /\ r \in 0 .. n - 1 /\ x = n * q + r
    OBVIOUS
  <1>2. CASE r + 1 = n
    <2>1. x + 1 = n * (q + 1) + 0
      BY <1>1, <1>2
    <2>2. (n * (q + 1) + 0) % n = 0
      BY <1>1
    <2>3. QED
      BY <1>1, <1>2, <2>1, <2>2
  <1>3. CASE r + 1 < n
    <2>1. x + 1 = n * q + (r + 1)
      BY <1>1
    <2>2. (n * q + (r + 1)) % n = r + 1
      BY <1>1, <1>3
    <2>3. QED
      BY <1>1, <1>3, <2>1, <2>2
  <1>4. QED
    BY <1>1, <1>2, <1>3

\* The first two periods end at HEARTBEAT_N and at twice as many heartbeats.
LEMMA FirstEnds ==
  ASSUME NEW n \in Nat \ {0}, NEW x \in Nat, (x + 1) % n = 0
  PROVE  /\ x < n => x + 1 = n
         /\ x >= n /\ x < 2 * n => x + 1 = 2 * n
  <1> DEFINE q == (x + 1) \div n
  <1>1. q \in Nat /\ x + 1 = n * q
    OBVIOUS
  <1>2. q # 0
    BY <1>1
  <1>3. CASE x < n
    <2>1. q >= 2 => n * q >= n * 2
      BY <1>1
    <2>2. q = 1
      BY <1>1, <1>2, <1>3, <2>1
    <2>3. QED
      BY <1>1, <1>3, <2>2
  <1>4. CASE x >= n /\ x < 2 * n
    <2>1. q >= 3 => n * q >= n * 3
      BY <1>1
    <2>2. q # 1
      BY <1>1, <1>4
    <2>3. q = 2
      BY <1>1, <1>2, <1>4, <2>1, <2>2
    <2>4. QED
      BY <1>1, <1>4, <2>3
  <1>5. QED
    BY <1>3, <1>4

LEMMA EndsAreEnds ==
  ASSUME NEW n \in Nat \ {0}
  PROVE  n % n = 0 /\ (2 * n) % n = 0
  <1>1. (n * 1 + 0) % n = 0 /\ (n * 2 + 0) % n = 0
    OBVIOUS
  <1>2. QED
    BY <1>1

LEMMA SignedIsInt == ASSUME NEW x \in Int PROVE Signed(x) \in Int
  <1>1. INT_SIZE \in Nat \ {0} /\ INT_SIZE \div 2 \in Int
    BY IntAssumption
  <1>2. x + INT_SIZE \div 2 \in Int
    BY <1>1
  <1>3. (x + INT_SIZE \div 2) % INT_SIZE \in Int
    BY <1>1, <1>2
  <1>4. QED
    BY <1>1, <1>3 DEF Signed

LEMMA LaterIsInt == ASSUME NEW a \in Int, NEW b \in Int PROVE Max({a, b}) \in Int
  <1>1. \E x \in {a, b} : \A y \in {a, b} : x >= y
    <2>1. CASE a >= b
      BY <2>1
    <2>2. CASE b >= a
      BY <2>2
    <2>3. QED
      BY <2>1, <2>2
  <1>2. Max({a, b}) \in {a, b}
    BY <1>1 DEF Max
  <1>3. QED
    BY <1>2

-----------------------------------------------------------------------------
(***************************************************************************)
(* What the counters of the code count.  Before the first period has ended *)
(* the initial value is still in current_false_positives, before the       *)
(* second has, in last_false_positives.                                    *)
(***************************************************************************)

CountersCount ==
  /\ current_false_positives =
       IF pkt_cnt < HEARTBEAT_N THEN INITIAL_POSITIVES + fired ELSE fired
  /\ pkt_cnt >= 2 * HEARTBEAT_N => last_false_positives = fired_before

PolicyInv == PolicyType /\ CountersCount

LEMMA PolicyInitInv == PolicyInit => PolicyInv /\ OneSuspicionPerHeartbeat
  <1> SUFFICES ASSUME PolicyInit PROVE PolicyInv /\ OneSuspicionPerHeartbeat
    OBVIOUS
  <1>1. PolicyType
    <2>1. 0 \in Entries
      BY PeriodAssumption DEF Entries
    <2>2. prediction_difference \in [Entries -> Int] /\ difference_idx \in Entries
      BY <2>1 DEF PolicyInit
    <2>3. ready_to_infer \in BOOLEAN /\ armed \in BOOLEAN
      BY DEF PolicyInit
    <2>4. QED
      BY <2>2, <2>3, PositivesAssumption DEF PolicyInit, PolicyType
  <1>2. CountersCount
    BY PeriodAssumption, PositivesAssumption DEF PolicyInit, CountersCount
  <1>3. OneSuspicionPerHeartbeat
    <2>1. 0 % HEARTBEAT_N \in 0 .. HEARTBEAT_N - 1
      BY PeriodAssumption, NextInPeriod
    <2>2. QED
      BY <2>1 DEF PolicyInit, OneSuspicionPerHeartbeat
  <1>4. QED
    BY <1>1, <1>2, <1>3 DEF PolicyInv

\* The window and its sum.
LEMMA DifferencesTyped ==
  ASSUME PolicyType, NEW gap \in Intervals, RecordDifference(gap)
  PROVE  /\ prediction_difference' \in [Entries -> Int]
         /\ difference_idx' \in Entries
         /\ SumWithDifference(gap) \in Int
  <1>1. next_arrival - gap \in Int
    BY TimesAssumption DEF PolicyType
  <1>2. Signed(next_arrival - gap) \in Int
    BY <1>1, SignedIsInt
  <1>3. (difference_idx + 1) % HEARTBEAT_N \in Entries
    BY PeriodAssumption, NextInPeriod DEF PolicyType, Entries
  <1>4. cur_difference_sum - prediction_difference[difference_idx]
          + Signed(next_arrival - gap) \in Int
    BY <1>2 DEF PolicyType
  <1>5. SumWithDifference(gap) \in Int
    BY <1>4, SignedIsInt DEF SumWithDifference, PolicyType
  <1>6. CASE next_arrival = 0
    BY <1>5, <1>6 DEF RecordDifference, PolicyType
  <1>7. CASE next_arrival # 0
    BY <1>2, <1>3, <1>5, <1>7 DEF RecordDifference, PolicyType
  <1>8. QED
    BY <1>6, <1>7

\* The rest of a heartbeat leaves everything in its type.
LEMMA PredictTyped ==
  ASSUME PolicyType, pkt_cnt' \in Nat, NEW gap \in Intervals, NotReady(gap) \/ Predict(gap)
  PROVE  /\ ready_to_infer' \in BOOLEAN /\ armed' \in BOOLEAN
         /\ next_arrival' \in Nat /\ deadline' \in Int /\ passed' \in Int
         /\ false_positive_cnt' \in Nat /\ late_prediction_cnt' \in Nat
  <1>1. Elapse(gap) \in Int
    BY TimesAssumption DEF Elapse, PolicyType
  <1>2. ASSUME NEW mistakes \in Nat, NEW late \in Nat, Count(mistakes, late)
        PROVE  false_positive_cnt' \in Nat /\ late_prediction_cnt' \in Nat
    BY <1>2 DEF Count, PolicyType
  <1>3. CASE NotReady(gap)
    <2>1. Count(0, 0)
      BY <1>3 DEF NotReady
    <2>2. false_positive_cnt' \in Nat /\ late_prediction_cnt' \in Nat
      BY <1>2, <2>1
    <2>3. QED
      BY <1>1, <1>3, <2>2 DEF NotReady, PolicyType
  <1>4. CASE Predict(gap)
    <2>1. PICK ahead \in Predicted, latency \in Latencies :
            /\ ready_to_infer' = TRUE /\ next_arrival' = ahead /\ passed' = latency
            /\ IF ahead < latency
               THEN deadline' = Elapse(gap) /\ UNCHANGED armed /\ Count(1, 1)
               ELSE deadline' = ahead /\ armed' = TRUE /\ Count(0, 0)
      BY <1>4 DEF Predict
    <2>2. Count(1, 1) \/ Count(0, 0)
      BY <2>1
    <2>3. false_positive_cnt' \in Nat /\ late_prediction_cnt' \in Nat
      BY <1>2, <2>2
    <2>4. armed' \in BOOLEAN
      BY <2>1 DEF PolicyType
    <2>5. QED
      BY <1>1, <2>1, <2>3, <2>4, TimesAssumption
  <1>5. QED
    BY <1>3, <1>4

LEMMA DecideTyped ==
  ASSUME PolicyType, NEW gap \in Intervals, SumWithDifference(gap) \in Int,
         DecideTraining(gap)
  PROVE  /\ batches' \in Nat
         /\ current_false_positives' \in Nat /\ last_false_positives' \in Nat
         /\ cur_difference_sum' \in Int /\ last_difference_sum' \in Int
         /\ fired' \in Nat /\ fired_before' \in Nat
  <1>1. CASE pkt_cnt' % HEARTBEAT_N = 0
    <2>1. (IF Worse(SumWithDifference(gap)) THEN 1 ELSE 0) \in Nat
      OBVIOUS
    <2>2. QED
      BY <1>1, <2>1 DEF DecideTraining, PolicyType
  <1>2. CASE pkt_cnt' % HEARTBEAT_N # 0
    BY <1>2 DEF DecideTraining, PolicyType
  <1>3. QED
    BY <1>1, <1>2

\* A heartbeat and the counters.
LEMMA ReceiveCounts ==
  ASSUME PolicyInv, NEW gap \in Intervals, Receive(gap)
  PROVE  CountersCount'
  <1>1. /\ pkt_cnt \in Nat /\ pkt_cnt' = pkt_cnt + 1
        /\ HEARTBEAT_N \in Nat \ {0} /\ INITIAL_POSITIVES \in Nat
        /\ fired \in Nat /\ DecideTraining(gap)
    BY PeriodAssumption, PositivesAssumption DEF PolicyInv, PolicyType, Receive
  <1>2. CountersCount
    BY DEF PolicyInv
  <1>3. CASE pkt_cnt' % HEARTBEAT_N = 0
    <2>1. /\ pkt_cnt < HEARTBEAT_N => pkt_cnt' = HEARTBEAT_N
          /\ pkt_cnt >= HEARTBEAT_N /\ pkt_cnt < 2 * HEARTBEAT_N => pkt_cnt' = 2 * HEARTBEAT_N
      BY <1>1, <1>3, FirstEnds
    <2>2. /\ last_false_positives' = current_false_positives /\ current_false_positives' = 0
          /\ fired_before' = fired /\ fired' = 0
      BY <1>1, <1>3 DEF DecideTraining
    <2>3. pkt_cnt' >= HEARTBEAT_N
      BY <1>1, <2>1
    <2>4. pkt_cnt' >= 2 * HEARTBEAT_N => pkt_cnt >= HEARTBEAT_N
      BY <1>1
    <2>5. QED
      BY <1>1, <1>2, <2>2, <2>3, <2>4 DEF CountersCount
  <1>4. CASE pkt_cnt' % HEARTBEAT_N # 0
    <2>1. pkt_cnt' # HEARTBEAT_N /\ pkt_cnt' # 2 * HEARTBEAT_N
      BY <1>1, <1>4, EndsAreEnds
    <2>2. UNCHANGED <<last_false_positives, current_false_positives, fired, fired_before>>
      BY <1>1, <1>4 DEF DecideTraining
    <2>3. (pkt_cnt' < HEARTBEAT_N <=> pkt_cnt < HEARTBEAT_N)
      BY <1>1, <2>1
    <2>4. pkt_cnt' >= 2 * HEARTBEAT_N => pkt_cnt >= 2 * HEARTBEAT_N
      BY <1>1, <2>1
    <2>5. QED
      BY <1>2, <2>2, <2>3, <2>4 DEF CountersCount
  <1>5. QED
    BY <1>3, <1>4

LEMMA ReceiveTyped ==
  ASSUME PolicyType, NEW gap \in Intervals, Receive(gap)
  PROVE  PolicyType'
  <1>1. pkt_cnt' \in Nat
    BY DEF PolicyType, Receive
  <1>2. /\ prediction_difference' \in [Entries -> Int] /\ difference_idx' \in Entries
        /\ SumWithDifference(gap) \in Int
    BY DifferencesTyped DEF Receive
  <1>3. /\ batches' \in Nat
        /\ current_false_positives' \in Nat /\ last_false_positives' \in Nat
        /\ cur_difference_sum' \in Int /\ last_difference_sum' \in Int
        /\ fired' \in Nat /\ fired_before' \in Nat
    BY <1>2, DecideTyped DEF Receive
  <1>4. /\ ready_to_infer' \in BOOLEAN /\ armed' \in BOOLEAN
        /\ next_arrival' \in Nat /\ deadline' \in Int /\ passed' \in Int
        /\ false_positive_cnt' \in Nat /\ late_prediction_cnt' \in Nat
    BY <1>1, PredictTyped DEF Receive
  <1>5. QED
    BY <1>1, <1>2, <1>3, <1>4 DEF PolicyType

LEMMA ExpiryKeeps == ASSUME PolicyInv, PolicyExpire PROVE PolicyInv'
  <1>1. Max({passed, deadline}) \in Int
    BY LaterIsInt DEF PolicyInv, PolicyType
  <1>2. PolicyType'
    <2>1. ready_to_infer' \in BOOLEAN /\ armed' \in BOOLEAN
      BY DEF PolicyInv, PolicyType, PolicyExpire
    <2>2. passed' \in Int /\ deadline' \in Int
      BY <1>1 DEF PolicyExpire
    <2>3. QED
      BY <2>1, <2>2 DEF PolicyInv, PolicyType, PolicyExpire
  <1>3. CountersCount'
    BY PositivesAssumption DEF PolicyInv, PolicyType, CountersCount, PolicyExpire
  <1>4. QED
    BY <1>2, <1>3 DEF PolicyInv

LEMMA PolicyStepInv == PolicyInv /\ [PolicyNext]_policyVars => PolicyInv'
  <1> SUFFICES ASSUME PolicyInv, [PolicyNext]_policyVars PROVE PolicyInv'
    OBVIOUS
  <1>1. CASE PolicyReceive
    BY <1>1, ReceiveTyped, ReceiveCounts DEF PolicyReceive, PolicyInv
  <1>2. CASE PolicyExpire
    BY <1>2, ExpiryKeeps
  <1>3. CASE UNCHANGED policyVars
    BY <1>3 DEF policyVars, PolicyInv, PolicyType, CountersCount
  <1>4. QED
    BY <1>1, <1>2, <1>3 DEF PolicyNext

-----------------------------------------------------------------------------
(***************************************************************************)
(* One suspicion for a heartbeat.                                          *)
(***************************************************************************)

LEMMA OneMore ==
  ASSUME PolicyInv, OneSuspicionPerHeartbeat, [PolicyNext]_policyVars
  PROVE  OneSuspicionPerHeartbeat'
  <1>1. pkt_cnt \in Nat /\ HEARTBEAT_N \in Nat \ {0} /\ fired \in Nat
    BY PeriodAssumption DEF PolicyInv, PolicyType
  <1>2. ASSUME NEW gap \in Intervals, Receive(gap)
        PROVE  OneSuspicionPerHeartbeat'
    <2>1. pkt_cnt' = pkt_cnt + 1 /\ DecideTraining(gap)
      BY <1>2 DEF Receive
    <2>2. /\ pkt_cnt % HEARTBEAT_N \in 0 .. HEARTBEAT_N - 1
          /\ pkt_cnt' % HEARTBEAT_N =
               IF (pkt_cnt % HEARTBEAT_N) + 1 = HEARTBEAT_N THEN 0
               ELSE (pkt_cnt % HEARTBEAT_N) + 1
      BY <1>1, <2>1, NextInPeriod
    <2>3. (IF armed' THEN 1 ELSE 0) \in 0 .. 1 /\ (IF armed THEN 1 ELSE 0) \in 0 .. 1
      OBVIOUS
    <2>4. CASE pkt_cnt' % HEARTBEAT_N = 0
      <3>1. fired' = 0
        BY <2>1, <2>4 DEF DecideTraining
      <3>2. QED
        BY <2>3, <2>4, <3>1 DEF OneSuspicionPerHeartbeat
    <2>5. CASE pkt_cnt' % HEARTBEAT_N # 0
      <3>1. fired' = fired
        BY <2>1, <2>5 DEF DecideTraining
      <3>2. fired <= (pkt_cnt % HEARTBEAT_N) + 1
        BY <1>1, <2>2, <2>3 DEF OneSuspicionPerHeartbeat
      <3>3. pkt_cnt' % HEARTBEAT_N = (pkt_cnt % HEARTBEAT_N) + 1
        BY <2>2, <2>5
      <3>4. fired' + (IF armed' THEN 1 ELSE 0) <= (pkt_cnt' % HEARTBEAT_N) + 1
        BY <1>1, <2>2, <2>3, <3>1, <3>2, <3>3
      <3>5. QED
        BY <3>4 DEF OneSuspicionPerHeartbeat
    <2>6. QED
      BY <2>4, <2>5
  <1>3. CASE PolicyExpire
    BY <1>1, <1>3 DEF PolicyExpire, OneSuspicionPerHeartbeat
  <1>4. CASE UNCHANGED policyVars
    BY <1>4 DEF policyVars, OneSuspicionPerHeartbeat
  <1>5. QED
    BY <1>2, <1>3, <1>4 DEF PolicyNext, PolicyReceive

-----------------------------------------------------------------------------
(***************************************************************************)
(* A period that was worse.                                                *)
(***************************************************************************)

LEMMA WorseIsNoticed ==
  ASSUME PolicyInv, [PolicyNext]_policyVars, PeriodEnds,
         \/ pkt_cnt' = HEARTBEAT_N
         \/ fired > TOLERATED
         \/ pkt_cnt' > 2 * HEARTBEAT_N /\ 10 * fired > 12 * fired_before
  PROVE  batches' = batches + 1
  <1>1. PICK gap \in Intervals : Receive(gap)
    BY DEF PeriodEnds, PolicyNext, PolicyReceive, PolicyExpire, policyVars
  <1>2. /\ pkt_cnt \in Nat /\ HEARTBEAT_N \in Nat \ {0} /\ fired \in Nat
        /\ INITIAL_POSITIVES \in Nat /\ TOLERATED \in Nat
        /\ INITIAL_POSITIVES > TOLERATED /\ batches \in Nat
    BY PeriodAssumption, PositivesAssumption, FirstPeriodAssumption DEF PolicyInv, PolicyType
  <1>3. pkt_cnt' = pkt_cnt + 1 /\ DecideTraining(gap) /\ pkt_cnt' % HEARTBEAT_N = 0
    BY <1>1 DEF Receive, PeriodEnds
  <1>4. CountersCount
    BY DEF PolicyInv
  <1>5. Worse(SumWithDifference(gap))
    <2>1. CASE pkt_cnt' = HEARTBEAT_N
      <3>1. current_false_positives > TOLERATED
        BY <1>2, <1>3, <1>4, <2>1 DEF CountersCount
      <3>2. QED
        BY <3>1 DEF Worse
    <2>2. CASE fired > TOLERATED
      <3>1. current_false_positives > TOLERATED
        BY <1>2, <1>4, <2>2 DEF CountersCount
      <3>2. QED
        BY <3>1 DEF Worse
    <2>3. CASE pkt_cnt' > 2 * HEARTBEAT_N /\ 10 * fired > 12 * fired_before
      <3>1. current_false_positives = fired /\ last_false_positives = fired_before
        BY <1>2, <1>3, <1>4, <2>3 DEF CountersCount
      <3>2. QED
        BY <2>3, <3>1 DEF Worse
    <2>4. QED
      BY <2>1, <2>2, <2>3
  <1>6. QED
    BY <1>2, <1>3, <1>5 DEF DecideTraining

-----------------------------------------------------------------------------

\* The counters, the window and its index stay in their types, with no
\* overflow of the index (recv_heartbeat.c, the receive loop).
THEOREM PolicyTypeCorrect == PolicySpec => []PolicyType
  <1>1. PolicySpec => []PolicyInv
    BY PolicyInitInv, PolicyStepInv, PTL DEF PolicySpec
  <1>2. PolicyInv => PolicyType
    BY DEF PolicyInv
  <1>3. QED
    BY <1>1, <1>2, PTL

\* A period counts at most one suspicion per heartbeat and one from the period
\* before (timer1_cb and the SINGLE timer).
THEOREM SuspicionsBounded == PolicySpec => []OneSuspicionPerHeartbeat
  <1> DEFINE Inv == PolicyInv /\ OneSuspicionPerHeartbeat
  <1>1. PolicyInit => Inv
    BY PolicyInitInv
  <1>2. Inv /\ [PolicyNext]_policyVars => Inv'
    BY PolicyStepInv, OneMore
  <1>3. Inv => OneSuspicionPerHeartbeat
    OBVIOUS
  <1> HIDE DEF Inv
  <1>4. QED
    BY <1>1, <1>2, <1>3, PTL DEF PolicySpec

\* Every first, intolerable or clearly worse period is followed by a training
\* message (the condition before send_to_ml_model).
THEOREM WorsePeriodsRetrain == PolicySpec => RetrainsWhenWorse
  <1>1. PolicySpec => []PolicyInv
    BY PolicyInitInv, PolicyStepInv, PTL DEF PolicySpec
  <1>2. PolicyInv /\ [PolicyNext]_policyVars =>
          [/\ PeriodEnds
           /\ \/ pkt_cnt' = HEARTBEAT_N
              \/ fired > TOLERATED
              \/ pkt_cnt' > 2 * HEARTBEAT_N /\ 10 * fired > 12 * fired_before
           => batches' = batches + 1]_policyVars
    BY WorseIsNoticed
  <1>3. QED
    BY <1>1, <1>2, PTL DEF PolicySpec, RetrainsWhenWorse

-----------------------------------------------------------------------------
(***************************************************************************)
(* What the sum that is reset at every period stands for.                  *)
(***************************************************************************)

LEMMA EntriesFinite == IsFiniteSet(Entries)
  BY PeriodAssumption, FS_Interval DEF Entries

LEMMA TotalIsSum == ASSUME NEW w PROVE WindowTotal(w) = SumFunctionOnSet(w, Entries)
  BY DEF WindowTotal, MapThenSumSet, SumFunctionOnSet, FoldFunctionOnSet

LEMMA TotalIsInt == ASSUME NEW w \in [Entries -> Int] PROVE WindowTotal(w) \in Int
  <1>1. \A i \in Entries : w[i] \in Int
    OBVIOUS
  <1> QED BY <1>1, EntriesFinite, TotalIsSum, SumType

LEMMA TotalAfterChange ==
  ASSUME NEW w \in [Entries -> Int], NEW i \in Entries, NEW v \in Int
  PROVE  WindowTotal([w EXCEPT ![i] = v]) = WindowTotal(w) - w[i] + v
  <1>1. /\ \A k \in Entries : w[k] \in Int
        /\ DOMAIN w = Entries
        /\ w = [k \in Entries |-> w[k]]
    OBVIOUS
  <1>2. SumFunctionOnSet([w EXCEPT ![i] = v], Entries)
          = SumFunctionOnSet(w, Entries) - w[i] + v
    BY <1>1, EntriesFinite, SumExcept
  <1> QED BY <1>2, TotalIsSum

LEMMA SignedZero == Signed(0) = 0
  <1>1. INT_SIZE \in Nat \ {0}
    BY IntAssumption
  <1>2. INT_SIZE \div 2 \in 0 .. INT_SIZE - 1
    BY <1>1
  <1>3. (0 + INT_SIZE \div 2) % INT_SIZE = INT_SIZE \div 2
    BY <1>1, <1>2
  <1> QED BY <1>2, <1>3 DEF Signed

\* Wrapping an int on the way to a sum gives the same sum as wrapping once.
LEMMA SignedAbsorbed ==
  ASSUME NEW x \in Int, NEW d \in Int
  PROVE  Signed(Signed(x) + d) = Signed(x + d)
  <1> DEFINE h == INT_SIZE \div 2
             y == x + h
             r == y % INT_SIZE
  <1>1. INT_SIZE \in Nat \ {0}
    BY IntAssumption
  <1>2. h \in Int /\ y \in Int
    BY <1>1
  <1>3. r \in Int
    <2> HIDE DEF y
    <2> QED BY <1>1, <1>2
  <1>4. (r + d) % INT_SIZE = (y + d) % INT_SIZE
    <2> HIDE DEF y
    <2> QED BY <1>1, <1>2, RestAbsorbed
  <1>5. Signed(x) = r - h
    BY DEF Signed
  <1> DEFINE z == r - h + d
             u == x + d
  <1>6. Signed(z) = ((z + h) % INT_SIZE) - h /\ Signed(u) = ((u + h) % INT_SIZE) - h
    BY DEF Signed
  <1>7. z + h = r + d /\ u + h = y + d
    <2>1. y = x + h
      OBVIOUS
    <2> HIDE DEF r, h, y
    <2> QED BY <1>2, <1>3, <2>1
  <1>8. Signed(z) = Signed(u)
    <2> HIDE DEF z, u, r, y, h
    <2> QED BY <1>4, <1>6, <1>7
  <1> QED BY <1>5, <1>8

\* A recorded difference moves the sum and the window by as much.
LEMMA DifferenceMoves ==
  ASSUME PolicyType, base \in Int, DifferenceSumIsChange, NEW gap \in Intervals,
         RecordDifference(gap)
  PROVE  SumWithDifference(gap) = Signed(WindowTotal(prediction_difference') - base)
  <1>1. CASE next_arrival = 0
    BY <1>1 DEF RecordDifference, SumWithDifference, DifferenceSumIsChange
  <1>2. CASE next_arrival # 0
    <2> DEFINE w == prediction_difference
               v == Signed(next_arrival - gap)
               e == w[difference_idx]
               x == WindowTotal(w) - base
    <2>1. w \in [Entries -> Int] /\ difference_idx \in Entries
      BY DEF PolicyType
    <2>2. next_arrival - gap \in Int
      BY TimesAssumption DEF PolicyType
    <2>3. v \in Int
      BY <2>2, SignedIsInt
    <2>4. e \in Int /\ WindowTotal(w) \in Int
      BY <2>1, TotalIsInt
    <2>5. x \in Int
      BY <2>4
    <2>6. prediction_difference' = [w EXCEPT ![difference_idx] = v]
      BY <1>2 DEF RecordDifference
    <2>7. WindowTotal(prediction_difference') = WindowTotal(w) - e + v
      <3> HIDE DEF v
      <3> QED BY <2>1, <2>3, <2>6, TotalAfterChange
    <2>8. SumWithDifference(gap) = Signed(Signed(x) - e + v)
      BY <1>2 DEF SumWithDifference, DifferenceSumIsChange
    <2> HIDE DEF v, e, x
    <2> DEFINE d == v - e
    <2>9. d \in Int /\ Signed(x) \in Int
      BY <2>3, <2>4, <2>5, SignedIsInt
    <2>10. Signed(x) - e + v = Signed(x) + d
      BY <2>3, <2>4, <2>9
    <2>11. WindowTotal(prediction_difference') - base = x + d
      BY <2>3, <2>4, <2>7 DEF x
    <2> HIDE DEF d
    <2>12. Signed(Signed(x) + d) = Signed(x + d)
      BY <2>5, <2>9, SignedAbsorbed
    <2> QED BY <2>8, <2>10, <2>11, <2>12
  <1> QED BY <1>1, <1>2

\* The invariant: base is what the window summed to when the period began.
ChangeInv == base \in Int /\ DifferenceSumIsChange

LEMMA ChangeStep == PolicyType /\ ChangeInv /\ [PolicyNext]_policyVars => ChangeInv'
  <1> SUFFICES ASSUME PolicyType, ChangeInv, [PolicyNext]_policyVars PROVE ChangeInv'
    OBVIOUS
  <1>1. CASE UNCHANGED <<base, cur_difference_sum, prediction_difference>>
    BY <1>1 DEF ChangeInv, DifferenceSumIsChange
  <1>2. ASSUME NEW gap \in Intervals, Receive(gap) PROVE ChangeInv'
    <2>1. RecordDifference(gap) /\ DecideTraining(gap)
      BY <1>2 DEF Receive
    <2>2. SumWithDifference(gap) = Signed(WindowTotal(prediction_difference') - base)
      BY <2>1, DifferenceMoves DEF ChangeInv
    <2>3. CASE pkt_cnt' % HEARTBEAT_N = 0
      <3> DEFINE t == WindowTotal(prediction_difference')
      <3>1. base' = t /\ cur_difference_sum' = 0
        BY <2>1, <2>3 DEF DecideTraining
      <3>2. prediction_difference' \in [Entries -> Int]
        BY <2>1, DifferencesTyped
      <3>3. t \in Int
        BY <3>2, TotalIsInt
      <3>4. t - base' = 0
        <4> HIDE DEF t
        <4> QED BY <3>1, <3>3
      <3>5. cur_difference_sum' = Signed(t - base')
        BY <3>1, <3>4, SignedZero
      <3> QED BY <3>1, <3>3, <3>5 DEF ChangeInv, DifferenceSumIsChange
    <2>4. CASE pkt_cnt' % HEARTBEAT_N # 0
      <3>1. cur_difference_sum' = SumWithDifference(gap) /\ base' = base
        BY <2>1, <2>4 DEF DecideTraining
      <3> QED BY <2>2, <3>1 DEF ChangeInv, DifferenceSumIsChange
    <2> QED BY <2>3, <2>4
  <1>3. CASE PolicyExpire
    BY <1>1, <1>3 DEF PolicyExpire
  <1>4. CASE UNCHANGED policyVars
    BY <1>1, <1>4 DEF policyVars
  <1> QED BY <1>2, <1>3, <1>4 DEF PolicyNext, PolicyReceive

\* For any period, any window and any width of an int, through every wrap of the
\* sum: what the policy compares is how far the window of differences has moved
\* since the period began, not its sum.
THEOREM SumIsChange == PolicySpec => []DifferenceSumIsChange
  <1>1. PolicyInit => ChangeInv
    <2> SUFFICES ASSUME PolicyInit PROVE ChangeInv
      OBVIOUS
    <2>1. \A i \in Entries : prediction_difference[i] = 0
      BY DEF PolicyInit
    <2>2. WindowTotal(prediction_difference) = 0 * Cardinality(Entries)
      BY <2>1, EntriesFinite, SumConstant, TotalIsSum
    <2>3. Cardinality(Entries) \in Nat
      BY EntriesFinite, FS_CardinalityType
    <2>4. WindowTotal(prediction_difference) - base = 0
      BY <2>2, <2>3 DEF PolicyInit
    <2> QED BY <2>4, SignedZero DEF PolicyInit, ChangeInv, DifferenceSumIsChange
  <1>2. ChangeInv => DifferenceSumIsChange
    BY DEF ChangeInv
  <1> QED BY <1>1, <1>2, PolicyTypeCorrect, ChangeStep, PTL DEF PolicySpec

=============================================================================
