------------------------ MODULE ArrivalStreamProofs ------------------------
(***************************************************************************)
(* The ring of receipt times implements the everlasting log, for a ring, a *)
(* request and a number of heartbeats of any size.                         *)
(***************************************************************************)
EXTENDS ArrivalStream, SequenceTheorems, TLAPS

-----------------------------------------------------------------------------
(***************************************************************************)
(* Index arithmetic.                                                       *)
(***************************************************************************)

LEMMA ModBelow == ASSUME NEW n \in Nat \ {0}, NEW x \in 0 .. n - 1 PROVE x % n = x
  OBVIOUS

LEMMA ModOnce ==
  ASSUME NEW n \in Nat \ {0}, NEW x \in n .. 2 * n - 1 PROVE x % n = x - n
  OBVIOUS

LEMMA ModRange == ASSUME NEW n \in Nat \ {0}, NEW x \in Nat PROVE x % n \in 0 .. n - 1
  OBVIOUS

\* Counting on moves the remainder on by one, or back to 0.
LEMMA ModSucc ==
  ASSUME NEW n \in Nat \ {0}, NEW x \in Nat
  PROVE  (x + 1) % n = ((x % n) + 1) % n
  <1> DEFINE q == x \div n
             r == x % n
  <1>1. q \in Nat /\ r \in 0 .. n - 1 /\ x = n * q + r
    OBVIOUS
  <1>2. CASE r + 1 < n
    <2>1. (n * q + (r + 1)) % n = r + 1
      BY <1>1, <1>2
    <2>2. x + 1 = n * q + (r + 1)
      BY <1>1
    <2>3. (r + 1) % n = r + 1
      BY <1>1, <1>2, ModBelow
    <2>4. QED
      BY <2>1, <2>2, <2>3
  <1>3. CASE r + 1 = n
    <2>1. (n * (q + 1) + 0) % n = 0
      BY <1>1
    <2>2. x + 1 = n * (q + 1) + 0
      BY <1>1, <1>3
    <2>3. (r + 1) % n = 0
      BY <1>3
    <2>4. QED
      BY <2>1, <2>2, <2>3
  <1>4. QED
    BY <1>1, <1>2, <1>3

\* The slot of the k-th newest receipt when the next one goes to slot n.
SlotOf(n, k) == (n - k + ARR_SIZE) % ARR_SIZE

LEMMA SlotOfCases ==
  ASSUME NEW n \in Slots, NEW k \in 1 .. ARR_SIZE
  PROVE  SlotOf(n, k) = IF k <= n THEN n - k ELSE n - k + ARR_SIZE
  <1>1. CASE k <= n
    <2>1. n - k + ARR_SIZE \in ARR_SIZE .. 2 * ARR_SIZE - 1
      BY <1>1, WindowSizes DEF Slots
    <2>2. QED
      BY <1>1, <2>1, ModOnce, WindowSizes DEF SlotOf, Slots
  <1>2. CASE ~(k <= n)
    <2>1. n - k + ARR_SIZE \in 0 .. ARR_SIZE - 1
      BY <1>2, WindowSizes DEF Slots
    <2>2. QED
      BY <1>2, <2>1, ModBelow, WindowSizes DEF SlotOf
  <1>3. QED
    BY <1>1, <1>2

\* The next index after n.
LEMMA NextIndex ==
  ASSUME NEW n \in Slots
  PROVE  /\ (n + 1) % ARR_SIZE = IF n + 1 = ARR_SIZE THEN 0 ELSE n + 1
         /\ (n + 1) % ARR_SIZE \in Slots
  <1>1. CASE n + 1 = ARR_SIZE
    BY <1>1, WindowSizes DEF Slots
  <1>2. CASE n + 1 < ARR_SIZE
    BY <1>2, ModBelow, WindowSizes DEF Slots
  <1>3. QED
    BY <1>1, <1>2, WindowSizes DEF Slots

\* Moving on by one slot turns the newest receipt into the slot just written
\* and every other k-th newest into the former (k - 1)-st newest.
LEMMA SlotOfNext ==
  ASSUME NEW n \in Slots, NEW k \in 1 .. ARR_SIZE
  PROVE  /\ SlotOf((n + 1) % ARR_SIZE, k) \in Slots
         /\ k = 1 => SlotOf((n + 1) % ARR_SIZE, k) = n
         /\ k > 1 => /\ SlotOf((n + 1) % ARR_SIZE, k) = SlotOf(n, k - 1)
                     /\ SlotOf((n + 1) % ARR_SIZE, k) # n
  <1>1. SlotOf((n + 1) % ARR_SIZE, k) =
          IF k <= (n + 1) % ARR_SIZE THEN ((n + 1) % ARR_SIZE) - k
          ELSE ((n + 1) % ARR_SIZE) - k + ARR_SIZE
    BY SlotOfCases, NextIndex
  <1>2. k > 1 => SlotOf(n, k - 1) = IF k - 1 <= n THEN n - (k - 1) ELSE n - (k - 1) + ARR_SIZE
    <2> SUFFICES ASSUME k > 1
                 PROVE  SlotOf(n, k - 1) =
                          IF k - 1 <= n THEN n - (k - 1) ELSE n - (k - 1) + ARR_SIZE
      OBVIOUS
    <2>1. k - 1 \in 1 .. ARR_SIZE
      BY WindowSizes
    <2>2. QED
      BY <2>1, SlotOfCases
  <1>3. QED
    BY <1>1, <1>2, NextIndex, WindowSizes DEF Slots

-----------------------------------------------------------------------------
(***************************************************************************)
(* The invariant of the stream: the ring holds the recent part of the log, *)
(* and the log is in the order of the clock.                               *)
(***************************************************************************)

\* The clock readings in the log are increasing.
LogIncreasing == \A i, j \in DOMAIN log : i < j => log[i] < log[j]

StreamInv == StreamType /\ RingHoldsRecent /\ LogIncreasing

LEMMA StreamInitInv == StreamInit => StreamInv
  <1> SUFFICES ASSUME StreamInit PROVE StreamInv
    OBVIOUS
  <1>1. arr_timestamp = [i \in Slots |-> 0] /\ next_avail = 0 /\ stored = 0 /\ log = << >>
    BY DEF StreamInit, WindowInit, EmptyRing
  <1>2. StreamType
    BY <1>1, WindowSizes, MaxHeartbeatsIsNat DEF StreamType, WindowType, Slots
  <1>3. RingHoldsRecent
    <2>1. 0 % ARR_SIZE = 0
      BY ModBelow, WindowSizes
    <2>2. ASSUME NEW k \in 1 .. ARR_SIZE
          PROVE  arr_timestamp[(0 - k + ARR_SIZE) % ARR_SIZE] = 0
      <3>1. SlotOf(0, k) = 0 - k + ARR_SIZE
        BY SlotOfCases, WindowSizes DEF Slots
      <3>2. SlotOf(0, k) \in Slots
        BY <3>1, WindowSizes DEF Slots
      <3>3. QED
        BY <1>1, <3>2 DEF SlotOf
    <2>3. QED
      BY <1>1, <2>1, <2>2 DEF RingHoldsRecent
  <1>4. LogIncreasing
    BY <1>1 DEF LogIncreasing
  <1>5. QED
    BY <1>2, <1>3, <1>4 DEF StreamInv

\* What a heartbeat does to the log, read entry by entry.
LEMMA LogAfter ==
  ASSUME StreamType, NEW t \in ReceiptTimes, Heartbeat(t)
  PROVE  /\ t \in Nat
         /\ stored \in Nat /\ stored' = stored + 1
         /\ log' \in Seq(Nat) /\ Len(log') = stored + 1
         /\ DOMAIN log' = 1 .. stored + 1 /\ DOMAIN log = 1 .. stored
         /\ log'[stored + 1] = t
         /\ \A i \in 1 .. stored : log'[i] = log[i]
  <1>1. t \in Nat
    BY ReceiptTimesArePositive
  <1>2. stored \in Nat /\ stored' = stored + 1 /\ log' = Append(log, t)
    BY MaxHeartbeatsIsNat DEF StreamType, Heartbeat
  <1>3. log \in Seq(Nat) /\ Len(log) = stored
    BY DEF StreamType
  <1>4. QED
    BY <1>1, <1>2, <1>3, AppendProperties, LenProperties

LEMMA HeartbeatKeepsType ==
  ASSUME StreamType, NEW t \in ReceiptTimes, Heartbeat(t)
  PROVE  StreamType'
  <1>1. stored' \in 0 .. MaxHeartbeats
    BY MaxHeartbeatsIsNat DEF StreamType, Heartbeat
  <1>2. WindowType'
    <2>1. next_avail \in Slots /\ arr_timestamp \in [Slots -> Nat]
      BY DEF StreamType, WindowType
    <2>2. next_avail' \in Slots
      BY <2>1, NextIndex DEF Heartbeat, Store
    <2>3. arr_timestamp' \in [Slots -> Nat]
      BY <2>1, LogAfter DEF Heartbeat, Store
    <2>4. QED
      BY <2>2, <2>3 DEF WindowType
  <1>3. QED
    BY <1>1, <1>2, LogAfter DEF StreamType

LEMMA HeartbeatKeepsRing ==
  ASSUME StreamType, RingHoldsRecent, NEW t \in ReceiptTimes, Heartbeat(t)
  PROVE  RingHoldsRecent'
  <1>1. /\ next_avail \in Slots /\ arr_timestamp \in [Slots -> Nat]
        /\ stored \in Nat /\ stored' = stored + 1
    BY LogAfter DEF StreamType, WindowType
  <1>2. /\ arr_timestamp' = [arr_timestamp EXCEPT ![next_avail] = t]
        /\ next_avail' = (next_avail + 1) % ARR_SIZE
    BY DEF Heartbeat, Store
  <1>3. next_avail' = stored' % ARR_SIZE
    BY <1>1, <1>2, ModSucc, WindowSizes DEF RingHoldsRecent
  <1>4. ASSUME NEW k \in 1 .. ARR_SIZE
        PROVE  arr_timestamp'[SlotOf(next_avail', k)] =
                 IF k <= stored' THEN log'[stored' - k + 1] ELSE 0
    <2>1. CASE k = 1
      <3>1. SlotOf(next_avail', k) = next_avail
        BY <1>1, <1>2, <2>1, SlotOfNext
      <3>2. arr_timestamp'[next_avail] = t
        BY <1>1, <1>2
      <3>3. k <= stored' /\ stored' - k + 1 = stored + 1
        BY <1>1, <2>1
      <3>4. QED
        BY <3>1, <3>2, <3>3, LogAfter
    <2>2. CASE k > 1
      <3>1. k - 1 \in 1 .. ARR_SIZE
        BY <2>2, WindowSizes
      <3>2. /\ SlotOf(next_avail', k) = SlotOf(next_avail, k - 1)
            /\ SlotOf(next_avail', k) # next_avail
            /\ SlotOf(next_avail', k) \in Slots
        BY <1>1, <1>2, <2>2, SlotOfNext
      <3>3. arr_timestamp'[SlotOf(next_avail', k)] =
              arr_timestamp[SlotOf(next_avail, k - 1)]
        BY <1>1, <1>2, <3>2
      <3>4. arr_timestamp[SlotOf(next_avail, k - 1)] =
              IF k - 1 <= stored THEN log[stored - (k - 1) + 1] ELSE 0
        BY <3>1 DEF RingHoldsRecent, SlotOf
      <3>5. k - 1 <= stored => log'[stored' - k + 1] = log[stored - (k - 1) + 1]
        <4> SUFFICES ASSUME k - 1 <= stored
                     PROVE  log'[stored' - k + 1] = log[stored - (k - 1) + 1]
          OBVIOUS
        <4>1. /\ stored' - k + 1 = stored - (k - 1) + 1
              /\ stored - (k - 1) + 1 \in 1 .. stored
          BY <1>1, <2>2, <3>1
        <4>2. QED
          BY <4>1, LogAfter
      <3>6. k <= stored' <=> k - 1 <= stored
        BY <1>1
      <3>7. QED
        BY <3>3, <3>4, <3>5, <3>6
    <2>3. QED
      BY <2>1, <2>2
  <1>5. QED
    BY <1>3, <1>4 DEF RingHoldsRecent, SlotOf

LEMMA StreamStepInv == StreamInv /\ [StreamNext]_streamVars => StreamInv'
  <1> SUFFICES ASSUME StreamInv, [StreamNext]_streamVars PROVE StreamInv'
    OBVIOUS
  <1>1. CASE StreamNext
    <2>1. PICK t \in ReceiptTimes : (\A i \in DOMAIN log : log[i] < t) /\ Heartbeat(t)
      BY <1>1 DEF StreamNext
    <2>2. StreamType'
      BY <2>1, HeartbeatKeepsType DEF StreamInv
    <2>3. RingHoldsRecent'
      BY <2>1, HeartbeatKeepsRing DEF StreamInv
    <2>4. LogIncreasing'
      <3>1. /\ DOMAIN log' = 1 .. stored + 1 /\ DOMAIN log = 1 .. stored
            /\ stored \in Nat
            /\ log'[stored + 1] = t
            /\ \A i \in 1 .. stored : log'[i] = log[i]
        BY <2>1, LogAfter DEF StreamInv
      <3>2. \A i \in 1 .. stored : log[i] < t
        BY <2>1, <3>1
      <3>3. QED
        BY <3>1, <3>2 DEF StreamInv, LogIncreasing
    <2>5. QED
      BY <2>2, <2>3, <2>4 DEF StreamInv
  <1>2. CASE UNCHANGED streamVars
    BY <1>2 DEF StreamInv, StreamType, WindowType, RingHoldsRecent, LogIncreasing, streamVars
  <1>3. QED
    BY <1>1, <1>2

LEMMA StreamInvariant == StreamSpec => []StreamInv
  BY StreamInitInv, StreamStepInv, PTL DEF StreamSpec

\* lcore_recv_heartbeat_pkt never leaves the ring with an index or an entry
\* out of range, and stored counts the receipts.
THEOREM StreamTypeCorrect == StreamSpec => []StreamType
  <1>1. StreamInv => StreamType
    BY DEF StreamInv
  <1>2. QED
    BY <1>1, StreamInvariant, PTL

\* next_avail and the ring describe the last ARR_SIZE receipts, whatever the
\* size of the ring and however often the index has wrapped.
THEOREM RingIsRecent == StreamSpec => []RingHoldsRecent
  <1>1. StreamInv => RingHoldsRecent
    BY DEF StreamInv
  <1>2. QED
    BY <1>1, StreamInvariant, PTL

-----------------------------------------------------------------------------
(***************************************************************************)
(* The two messages are the recent part of the log.                        *)
(***************************************************************************)


\* RingHoldsRecent for any ring, index, count and log.
Remembers(ring, next, cnt, lg) ==
  /\ cnt \in Nat /\ Len(lg) = cnt /\ next = cnt % ARR_SIZE
  /\ \A k \in 1 .. ARR_SIZE :
       ring[(next - k + ARR_SIZE) % ARR_SIZE] = IF k <= cnt THEN lg[cnt - k + 1] ELSE 0

\* send_to_infer sends the most recent LOOK_BACK receipts, oldest first.
LEMMA RequestIsRecent ==
  ASSUME NEW ring, NEW next, NEW cnt, NEW lg, Remembers(ring, next, cnt, lg)
  PROVE  InferWindow(ring, next) = Log!Recent(lg, LOOK_BACK)
  <1>1. cnt \in Nat /\ Len(lg) = cnt
    BY DEF Remembers
  <1>2. ASSUME NEW j \in 1 .. LOOK_BACK
        PROVE  ring[(next - (LOOK_BACK - j + 1) + ARR_SIZE) % ARR_SIZE] =
                 IF Len(lg) - LOOK_BACK + j \in 1 .. Len(lg)
                 THEN lg[Len(lg) - LOOK_BACK + j] ELSE 0
    <2> DEFINE k == LOOK_BACK - j + 1
    <2>1. k \in 1 .. ARR_SIZE
      BY WindowSizes
    <2>2. ring[(next - k + ARR_SIZE) % ARR_SIZE] =
            IF k <= cnt THEN lg[cnt - k + 1] ELSE 0
      BY <2>1 DEF Remembers
    <2>3. /\ cnt - k + 1 = cnt - LOOK_BACK + j
          /\ k <= cnt <=> cnt - LOOK_BACK + j \in 1 .. cnt
      BY <1>1, WindowSizes
    <2>4. QED
      BY <1>1, <2>2, <2>3
  <1>3. QED
    BY <1>2 DEF InferWindow, Log!Recent

\* At a training heartbeat the index is back at 0, so send_to_ml_model, which
\* sends the ring from slot 0 on, sends the last ARR_SIZE receipts in order.
LEMMA BatchIsRecent ==
  ASSUME NEW ring, NEW next, NEW cnt, NEW lg, Remembers(ring, next, cnt, lg),
         cnt % ARR_SIZE = 0
  PROVE  TrainBatch(ring) = Log!Recent(lg, ARR_SIZE)
  <1>1. cnt \in Nat /\ Len(lg) = cnt /\ next = 0
    BY DEF Remembers
  <1>2. ASSUME NEW i \in 1 .. ARR_SIZE
        PROVE  ring[i - 1] =
                 IF Len(lg) - ARR_SIZE + i \in 1 .. Len(lg)
                 THEN lg[Len(lg) - ARR_SIZE + i] ELSE 0
    <2> DEFINE k == ARR_SIZE - i + 1
    <2>1. k \in 1 .. ARR_SIZE /\ 0 \in Slots
      BY WindowSizes DEF Slots
    <2>2. SlotOf(0, k) = i - 1
      <3>1. SlotOf(0, k) = 0 - k + ARR_SIZE
        BY <2>1, SlotOfCases
      <3>2. QED
        BY <3>1, WindowSizes
    <2>3. ring[SlotOf(0, k)] = IF k <= cnt THEN lg[cnt - k + 1] ELSE 0
      BY <1>1, <2>1 DEF Remembers, SlotOf
    <2>4. /\ cnt - k + 1 = cnt - ARR_SIZE + i
          /\ k <= cnt <=> cnt - ARR_SIZE + i \in 1 .. cnt
      BY <1>1, WindowSizes
    <2>5. QED
      BY <1>1, <2>2, <2>3, <2>4
  <1>3. QED
    BY <1>2 DEF TrainBatch, Log!Recent

\* After any heartbeat the new ring still remembers the new log.
LEMMA HeartbeatRemembers ==
  ASSUME StreamType, RingHoldsRecent, NEW t \in ReceiptTimes, Heartbeat(t)
  PROVE  Remembers(arr_timestamp', next_avail', stored', log')
  <1>1. RingHoldsRecent'
    BY HeartbeatKeepsRing
  <1>2. stored' \in Nat /\ Len(log') = stored'
    BY LogAfter
  <1>3. QED
    BY <1>1, <1>2 DEF RingHoldsRecent, Remembers

LEMMA StepImplementsLog ==
  StreamInv /\ [StreamNext]_streamVars => [Log!Receive]_(Log!logVars)
  <1> SUFFICES ASSUME StreamInv, [StreamNext]_streamVars
               PROVE  [Log!Receive]_(Log!logVars)
    OBVIOUS
  <1>1. CASE StreamNext
    <2>1. PICK t \in ReceiptTimes : Heartbeat(t)
      BY <1>1 DEF StreamNext
    <2>2. Remembers(arr_timestamp', next_avail', stored', log')
      BY <2>1, HeartbeatRemembers DEF StreamInv
    <2>3. log' = Append(log, t) /\ Len(log') = stored'
      BY <2>1, <2>2 DEF Heartbeat, Remembers
    <2>4. infer_msg' = Log!Recent(log', LOOK_BACK)
      BY <2>1, <2>2, RequestIsRecent DEF Heartbeat
    <2>5. train_msg' = IF Len(log') % ARR_SIZE = 0
                       THEN Log!Recent(log', ARR_SIZE) ELSE train_msg
      BY <2>1, <2>2, <2>3, BatchIsRecent DEF Heartbeat
    <2>6. QED
      BY <2>3, <2>4, <2>5 DEF Log!Receive
  <1>2. CASE UNCHANGED streamVars
    BY <1>2 DEF streamVars, Log!logVars
  <1>3. QED
    BY <1>1, <1>2

\* The ring, the index arithmetic and the two copy loops implement a receiver
\* that forgets nothing.
THEOREM StreamImplementsLog == StreamSpec => ImplementsLog
  <1>1. StreamInit => Log!LogInit
    BY DEF StreamInit, Log!LogInit
  <1>2. QED
    BY <1>1, StepImplementsLog, StreamInvariant, PTL
       DEF StreamSpec, ImplementsLog, Log!LogSpec

-----------------------------------------------------------------------------
(***************************************************************************)
(* The order of a training message.                                        *)
(***************************************************************************)

\* An increasing log of a whole number of periods gives an increasing message.
LEMMA BatchIsIncreasing ==
  ASSUME NEW ring, NEW next, NEW cnt, NEW lg, Remembers(ring, next, cnt, lg),
         cnt % ARR_SIZE = 0, cnt > 0,
         \A a, b \in 1 .. cnt : a < b => lg[a] < lg[b]
  PROVE  /\ DOMAIN TrainBatch(ring) = 1 .. ARR_SIZE
         /\ \A i, j \in 1 .. ARR_SIZE : i < j => TrainBatch(ring)[i] < TrainBatch(ring)[j]
  <1>1. cnt \in Nat /\ Len(lg) = cnt
    BY DEF Remembers
  <1>2. cnt >= ARR_SIZE
    <2> SUFFICES ASSUME cnt < ARR_SIZE PROVE FALSE
      BY <1>1, WindowSizes
    <2>1. cnt \in 0 .. ARR_SIZE - 1
      BY <1>1, WindowSizes
    <2>2. QED
      BY <2>1, ModBelow, WindowSizes
  <1>3. TrainBatch(ring) = Log!Recent(lg, ARR_SIZE)
    BY BatchIsRecent
  <1>4. ASSUME NEW i \in 1 .. ARR_SIZE
        PROVE  /\ cnt - ARR_SIZE + i \in 1 .. cnt
               /\ TrainBatch(ring)[i] = lg[cnt - ARR_SIZE + i]
    <2>1. cnt - ARR_SIZE + i \in 1 .. cnt
      BY <1>1, <1>2, WindowSizes
    <2>2. QED
      BY <1>1, <1>3, <2>1 DEF Log!Recent
  <1>5. ASSUME NEW i \in 1 .. ARR_SIZE, NEW j \in 1 .. ARR_SIZE, i < j
        PROVE  TrainBatch(ring)[i] < TrainBatch(ring)[j]
    <2>1. cnt - ARR_SIZE + i < cnt - ARR_SIZE + j
      BY <1>1, <1>5, WindowSizes
    <2>2. QED
      BY <1>4, <2>1
  <1>6. QED
    BY <1>5 DEF TrainBatch

LEMMA StepKeepsOrder ==
  StreamInv /\ StreamInv' /\ TrainingChronological /\ [StreamNext]_streamVars
    => TrainingChronological'
  <1> SUFFICES ASSUME StreamInv, StreamInv', TrainingChronological,
                      [StreamNext]_streamVars
               PROVE  TrainingChronological'
    OBVIOUS
  <1>1. CASE StreamNext
    <2>1. PICK t \in ReceiptTimes : Heartbeat(t)
      BY <1>1 DEF StreamNext
    <2>2. CASE stored' % ARR_SIZE = 0
      <3>1. Remembers(arr_timestamp', next_avail', stored', log')
        BY <2>1, HeartbeatRemembers DEF StreamInv
      <3>2. train_msg' = TrainBatch(arr_timestamp')
        BY <2>1, <2>2 DEF Heartbeat
      <3>3. stored' > 0 /\ DOMAIN log' = 1 .. stored'
        BY <2>1, LogAfter DEF StreamInv
      <3>4. \A a, b \in 1 .. stored' : a < b => log'[a] < log'[b]
        BY <3>3 DEF StreamInv, LogIncreasing
      <3>5. QED
        BY <2>2, <3>1, <3>2, <3>3, <3>4, BatchIsIncreasing DEF TrainingChronological
    <2>3. CASE stored' % ARR_SIZE # 0
      BY <2>1, <2>3 DEF Heartbeat, TrainingChronological
    <2>4. QED
      BY <2>2, <2>3
  <1>2. CASE UNCHANGED streamVars
    BY <1>2 DEF streamVars, TrainingChronological
  <1>3. QED
    BY <1>1, <1>2

\* The training process differences neighbouring receipts; it is never sent a
\* ring rotated in memory, which would hold one large step backwards.
THEOREM TrainingInOrder == StreamSpec => []TrainingChronological
  <1>1. StreamInit => TrainingChronological
    BY DEF StreamInit, TrainingChronological
  <1>2. QED
    BY <1>1, StepKeepsOrder, StreamInvariant, PTL DEF StreamSpec

=============================================================================
