----------------------- MODULE AveragingDetectorProofs -----------------------
(***************************************************************************)
(* The averaging detectors, for every ring and window a copy may have, any *)
(* intervals between the heartbeats and any number of them: which receipt  *)
(* leaves the window, the bounds of the learnt deviation, the types (the   *)
(* clock does not run out in the life of a program), how the estimate,     *)
(* which every copy keeps up by differences, relates to the window, which  *)
(* margins keep the deadlines ahead of the clock, and how the learnt one   *)
(* settles.                                                                *)
(***************************************************************************)
EXTENDS AveragingDetector, WindowSums, SequenceTheorems, TLAPS

-----------------------------------------------------------------------------
(***************************************************************************)
(* Going round a ring.                                                     *)
(***************************************************************************)

LEMMA InRing ==
  ASSUME NEW n \in Nat \ {0}, NEW x \in Nat
  PROVE  x % n \in 0 .. n - 1
  OBVIOUS

LEMMA FirstRound ==
  ASSUME NEW n \in Nat \ {0}, NEW x \in 0 .. n - 1
  PROVE  x % n = x
  OBVIOUS

\* One slot on, whether or not that is round.
LEMMA RoundTheRing ==
  ASSUME NEW n \in Nat \ {0}, NEW x \in Nat
  PROVE  ((x % n) + 1) % n = (x + 1) % n
  <1> DEFINE q == x \div n
             r == x % n
  <1>1. q \in Nat /\ r \in 0 .. n - 1 /\ x = n * q + r
    OBVIOUS
  <1>2. CASE r + 1 = n
    <2>1. x + 1 = n * (q + 1) + 0
      BY <1>1, <1>2
    <2>2. (n * (q + 1) + 0) % n = 0
      BY <1>1
    <2>3. (r + 1) % n = 0
      BY <1>2
    <2>4. QED
      BY <2>1, <2>2, <2>3
  <1>3. CASE r + 1 < n
    <2>1. x + 1 = n * q + (r + 1)
      BY <1>1
    <2>2. (n * q + (r + 1)) % n = r + 1
      BY <1>1, <1>3
    <2>3. (r + 1) % n = r + 1
      BY <1>1, <1>3, FirstRound
    <2>4. QED
      BY <2>1, <2>2, <2>3
  <1>4. QED
    BY <1>1, <1>2, <1>3

\* Less than a round apart is not the same slot.
LEMMA OtherSlot ==
  ASSUME NEW n \in Nat \ {0}, NEW x \in Nat, NEW y \in Nat, x < y, y - x < n
  PROVE  x % n # y % n
  <1> DEFINE q == x \div n
             p == y \div n
  <1> SUFFICES ASSUME x % n = y % n PROVE FALSE
    OBVIOUS
  <1>1. /\ q \in Nat /\ x = n * q + (x % n) /\ x % n \in 0 .. n - 1
        /\ p \in Nat /\ y = n * p + (y % n) /\ y % n \in 0 .. n - 1
    <2>1. q \in Nat /\ x = n * q + (x % n) /\ x % n \in 0 .. n - 1
      OBVIOUS
    <2>2. p \in Nat /\ y = n * p + (y % n) /\ y % n \in 0 .. n - 1
      OBVIOUS
    <2>3. QED
      BY <2>1, <2>2
  <1>2. y - x = n * (p - q)
    BY <1>1
  <1>3. p - q \in Int /\ (p - q >= 1 => n * (p - q) >= n) /\ (p - q <= 0 => n * (p - q) <= 0)
    BY <1>1
  <1>4. QED
    BY <1>1, <1>2, <1>3

-----------------------------------------------------------------------------
(***************************************************************************)
(* The ring holds the last prog.ring receipts, the one of heartbeat k in   *)
(* slot k - 1, counted round.                                              *)
(***************************************************************************)

Receipts == [heartbeat_id : Nat, hb_timestamp : Nat]

RingType ==
  /\ prog \in Programs
  /\ log \in Seq(Nat) /\ pkt_cnt = Len(log)
  /\ arr_timestamp \in [Slots -> Receipts]

RingPlaces ==
  /\ next_avail = pkt_cnt % prog.ring
  /\ next_evicted = IF pkt_cnt <= prog.n THEN 0 ELSE (pkt_cnt - prog.n) % prog.ring
  /\ \A k \in 1 .. pkt_cnt : pkt_cnt - k < prog.ring =>
       arr_timestamp[(k - 1) % prog.ring] = [heartbeat_id |-> k, hb_timestamp |-> log[k]]

RingInv == RingType /\ RingPlaces

LEMMA ProgramSizes ==
  ASSUME prog \in Programs
  PROVE  /\ prog.n \in Nat \ {0} /\ prog.ring \in Nat \ {0} /\ prog.n <= prog.ring
         /\ prog.hz \in Nat /\ prog.period \in Nat /\ prog.margin \in Nat
  BY ProgramsTyped DEF ProgramType

LEMMA RingInit == AveragingInit => RingInv
  <1> SUFFICES ASSUME AveragingInit PROVE RingInv
    OBVIOUS
  <1>1. /\ prog \in Programs /\ log = << >> /\ pkt_cnt = 0
        /\ next_avail = 0 /\ next_evicted = 0
        /\ arr_timestamp = [i \in Slots |-> NoReceipt]
    BY DEF AveragingInit
  <1>2. prog.n \in Nat \ {0} /\ prog.ring \in Nat \ {0}
    BY <1>1, ProgramSizes
  <1>3. NoReceipt \in Receipts
    BY DEF NoReceipt, Receipts
  <1>4. RingType
    BY <1>1, <1>3, EmptySeq DEF RingType
  <1>5. (0 % prog.ring) = 0
    BY <1>2
  <1>6. RingPlaces
    BY <1>1, <1>2, <1>5 DEF RingPlaces
  <1>7. QED
    BY <1>4, <1>6 DEF RingInv

LEMMA RingKept ==
  RingInv /\ UNCHANGED <<prog, log, pkt_cnt, arr_timestamp, next_avail, next_evicted>>
    => RingInv'
  BY DEF RingInv, RingType, RingPlaces, Slots

\* The time of a receipt.
LEMMA ReceiptTime ==
  ASSUME RingInv
  PROVE  /\ Last + prog.period \in Nat
         /\ \A gap \in Gaps : Last + (gap * prog.period) \div 10 \in Nat
  <1>1. log \in Seq(Nat) /\ prog.period \in Nat
    BY ProgramSizes DEF RingInv, RingType
  <1>2. Last \in Nat
    <2>1. CASE log = << >>
      BY <2>1, AveragingConstants DEF Last
    <2>2. CASE log # << >>
      <3>1. Len(log) \in 1 .. Len(log)
        BY <1>1, <2>2, EmptySeq
      <3>2. log[Len(log)] \in Nat
        BY <1>1, <3>1, ElementOfSeq
      <3>3. QED
        BY <2>2, <3>2 DEF Last
    <2>3. QED
      BY <2>1, <2>2
  <1>3. ASSUME NEW gap \in Gaps PROVE Last + (gap * prog.period) \div 10 \in Nat
    <2>1. gap \in Nat
      BY AveragingConstants
    <2>2. gap * prog.period \in Nat
      BY <1>1, <2>1
    <2>3. (gap * prog.period) \div 10 \in Nat
      BY <2>2
    <2>4. QED
      BY <1>2, <2>3
  <1>4. QED
    BY <1>1, <1>2, <1>3

\* Every way the estimate is made leaves next_evicted at the same place.
LEMMA EvictedMoves ==
  ASSUME RingInv, NEW t, pkt_cnt' = pkt_cnt + 1, prog' = prog,
         EarlyEstimate(t) \/ FirstEstimate(t) \/ MovedEstimate(t)
  PROVE  next_evicted' = IF pkt_cnt' <= prog.n THEN 0 ELSE (pkt_cnt' - prog.n) % prog.ring
  <1>1. prog.n \in Nat \ {0} /\ prog.ring \in Nat \ {0} /\ pkt_cnt \in Nat
    BY ProgramSizes, LenProperties DEF RingInv, RingType
  <1>2. next_evicted = IF pkt_cnt <= prog.n THEN 0 ELSE (pkt_cnt - prog.n) % prog.ring
    BY DEF RingInv, RingPlaces
  <1>3. CASE pkt_cnt' <= prog.n
    <2>1. ~(pkt_cnt' > prog.n)
      BY <1>1, <1>3
    <2>2. ~MovedEstimate(t)
      BY <2>1 DEF MovedEstimate
    <2>3. next_evicted' = next_evicted
      BY <2>2 DEF EarlyEstimate, FirstEstimate
    <2>4. QED
      BY <1>1, <1>2, <1>3, <2>3
  <1>4. CASE pkt_cnt' > prog.n
    <2>1. ~EarlyEstimate(t) /\ ~FirstEstimate(t)
      <3>1. ~(pkt_cnt' <= prog.n) /\ ~(pkt_cnt' < prog.n) /\ pkt_cnt' # prog.n
        BY <1>1, <1>4
      <3>2. QED
        BY <3>1 DEF EarlyEstimate, FirstEstimate
    <2>2. next_evicted' = (next_evicted + 1) % prog.ring
      BY <2>1 DEF MovedEstimate
    <2>3. CASE pkt_cnt = prog.n
      <3>1. 0 % prog.ring = 0
        BY <1>1
      <3>2. next_evicted = 0 /\ pkt_cnt' - prog.n = 0 + 1
        BY <1>1, <1>2, <2>3
      <3>3. QED
        BY <1>1, <1>4, <2>2, <3>2
    <2>4. CASE pkt_cnt > prog.n
      <3>1. pkt_cnt - prog.n \in Nat /\ pkt_cnt' - prog.n = (pkt_cnt - prog.n) + 1
        BY <1>1, <2>4
      <3>2. next_evicted = (pkt_cnt - prog.n) % prog.ring
        BY <1>1, <1>2, <2>4
      <3>3. (((pkt_cnt - prog.n) % prog.ring) + 1) % prog.ring
              = ((pkt_cnt - prog.n) + 1) % prog.ring
        BY <1>1, <3>1, RoundTheRing
      <3>4. QED
        BY <1>1, <1>4, <2>2, <3>1, <3>2, <3>3
    <2>5. QED
      BY <1>1, <1>4, <2>3, <2>4
  <1>5. QED
    BY <1>1, <1>3, <1>4

LEMMA RingReceive ==
  ASSUME RingInv, NEW t \in Nat, Receive(t)
  PROVE  RingInv'
  <1>1. /\ prog \in Programs /\ log \in Seq(Nat) /\ pkt_cnt = Len(log)
        /\ arr_timestamp \in [Slots -> Receipts]
        /\ next_avail = pkt_cnt % prog.ring
    BY DEF RingInv, RingType, RingPlaces
  <1>2. /\ prog.n \in Nat \ {0} /\ prog.ring \in Nat \ {0} /\ prog.n <= prog.ring
        /\ pkt_cnt \in Nat
    BY <1>1, ProgramSizes, LenProperties
  <1>3. /\ pkt_cnt' = pkt_cnt + 1 /\ log' = Append(log, t) /\ prog' = prog
        /\ arr_timestamp' = [arr_timestamp EXCEPT ![next_avail] =
             [heartbeat_id |-> pkt_cnt + 1, hb_timestamp |-> t]]
        /\ next_avail' = (next_avail + 1) % prog.ring
    BY DEF Receive, Store
  <1>4. /\ log' \in Seq(Nat) /\ Len(log') = pkt_cnt + 1 /\ log'[pkt_cnt + 1] = t
        /\ \A k \in 1 .. pkt_cnt : log'[k] = log[k]
    BY <1>1, <1>3, AppendProperties
  <1>5. next_avail \in Slots
    BY <1>1, <1>2, InRing DEF Slots
  <1>6. [heartbeat_id |-> pkt_cnt + 1, hb_timestamp |-> t] \in Receipts
    BY <1>2 DEF Receipts
  <1>7. RingType'
    BY <1>1, <1>3, <1>4, <1>6 DEF RingType, Slots
  <1>8. next_avail' = pkt_cnt' % prog.ring
    BY <1>1, <1>2, <1>3, RoundTheRing
  <1>9. next_evicted' = IF pkt_cnt' <= prog.n THEN 0 ELSE (pkt_cnt' - prog.n) % prog.ring
    BY <1>3, EvictedMoves DEF Receive
  <1>10. ASSUME NEW k \in 1 .. pkt_cnt + 1, (pkt_cnt + 1) - k < prog.ring
         PROVE  arr_timestamp'[(k - 1) % prog.ring] =
                  [heartbeat_id |-> k, hb_timestamp |-> log'[k]]
    <2>1. CASE k = pkt_cnt + 1
      <3>1. (k - 1) % prog.ring = next_avail
        BY <1>1, <1>2, <2>1
      <3>2. QED
        BY <1>1, <1>3, <1>4, <1>5, <2>1, <3>1
    <2>2. CASE k \in 1 .. pkt_cnt
      <3>1. k - 1 \in Nat /\ k - 1 < pkt_cnt /\ pkt_cnt - (k - 1) < prog.ring
            /\ pkt_cnt - k < prog.ring
        BY <1>2, <1>10, <2>2
      <3>2. (k - 1) % prog.ring # next_avail /\ (k - 1) % prog.ring \in Slots
        BY <1>1, <1>2, <3>1, OtherSlot, InRing DEF Slots
      <3>3. arr_timestamp[(k - 1) % prog.ring] = [heartbeat_id |-> k, hb_timestamp |-> log[k]]
        BY <2>2, <3>1 DEF RingInv, RingPlaces
      <3>4. arr_timestamp'[(k - 1) % prog.ring] = arr_timestamp[(k - 1) % prog.ring]
        BY <1>1, <1>3, <3>2
      <3>5. QED
        BY <1>4, <2>2, <3>3, <3>4
    <2>3. QED
      BY <1>2, <2>1, <2>2
  <1>11. RingPlaces'
    BY <1>3, <1>8, <1>9, <1>10 DEF RingPlaces
  <1>12. QED
    BY <1>7, <1>11 DEF RingInv

LEMMA RingStep == RingInv /\ [AveragingNext]_averagingVars => RingInv'
  <1> SUFFICES ASSUME RingInv, [AveragingNext]_averagingVars PROVE RingInv'
    OBVIOUS
  <1>1. CASE Heartbeat
    BY <1>1, ReceiptTime, RingReceive DEF Heartbeat
  <1>2. CASE timer1_cb
    BY <1>2, RingKept DEF timer1_cb, ringVars, historyVars
  <1>3. CASE UNCHANGED averagingVars
    BY <1>3, RingKept DEF averagingVars, ringVars, historyVars
  <1>4. QED
    BY <1>1, <1>2, <1>3 DEF AveragingNext

LEMMA OldestFollows == RingInv => OldestIsEvicted
  <1> SUFFICES ASSUME RingInv, pkt_cnt >= prog.n
               PROVE  arr_timestamp[next_evicted] =
                        [heartbeat_id |-> pkt_cnt - prog.n + 1,
                         hb_timestamp |-> log[pkt_cnt - prog.n + 1]]
    BY DEF OldestIsEvicted
  <1> DEFINE k == pkt_cnt - prog.n + 1
  <1>1. /\ prog.n \in Nat \ {0} /\ prog.ring \in Nat \ {0} /\ prog.n <= prog.ring
        /\ pkt_cnt \in Nat
    BY ProgramSizes, LenProperties DEF RingInv, RingType
  <1>2. k \in 1 .. pkt_cnt /\ pkt_cnt - k < prog.ring /\ k - 1 = pkt_cnt - prog.n
    BY <1>1
  <1>3. arr_timestamp[(k - 1) % prog.ring] = [heartbeat_id |-> k, hb_timestamp |-> log[k]]
    BY <1>2 DEF RingInv, RingPlaces
  <1>4. next_evicted = (k - 1) % prog.ring
    <2>1. next_evicted = IF pkt_cnt <= prog.n THEN 0 ELSE (pkt_cnt - prog.n) % prog.ring
      BY DEF RingInv, RingPlaces
    <2>2. 0 % prog.ring = 0
      BY <1>1
    <2>3. CASE pkt_cnt = prog.n
      BY <1>1, <1>2, <2>1, <2>2, <2>3
    <2>4. CASE pkt_cnt > prog.n
      <3>1. ~(pkt_cnt <= prog.n)
        BY <1>1, <2>4
      <3>2. next_evicted = (pkt_cnt - prog.n) % prog.ring
        BY <2>1, <3>1
      <3>3. QED
        BY <1>2, <3>2
    <2>5. pkt_cnt = prog.n \/ pkt_cnt > prog.n
      BY <1>1
    <2>6. QED
      BY <2>3, <2>4, <2>5
  <1>5. QED
    BY <1>3, <1>4

\* The receipt that leaves the estimate is the oldest of the window, however
\* the ring and the window relate (next_evicted in every copy of the loop).
THEOREM OldestAlwaysEvicted == AveragingSpec => []OldestIsEvicted
  BY RingInit, RingStep, OldestFollows, PTL DEF AveragingSpec

-----------------------------------------------------------------------------
(***************************************************************************)
(* Jacobson's estimation in the copies that learn the margin.              *)
(***************************************************************************)

LouderIs(a, b) == IF a >= b THEN a ELSE b

LEMMA Louder == ASSUME NEW a \in Int, NEW b \in Int PROVE Max({a, b}) = LouderIs(a, b)
  <1>1. /\ LouderIs(a, b) \in {a, b} /\ \A y \in {a, b} : LouderIs(a, b) >= y
        /\ \A x \in {a, b} : (\A y \in {a, b} : x >= y) => x = LouderIs(a, b)
    BY DEF LouderIs
  <1>2. QED
    BY <1>1 DEF Max

LEMMA AbsIs == ASSUME NEW x \in Int PROVE Abs(x) \in Nat
  BY DEF Abs

\* A tenth of the way to the size of the error, rounded towards zero, does not
\* overshoot.
LEMMA TenthOfTheWay ==
  ASSUME NEW v \in Nat, NEW e \in Nat
  PROVE  /\ v + Divide(e - v, 10) \in Nat
         /\ v + Divide(e - v, 10) <= LouderIs(v, e)
  <1>1. CASE e >= v
    <2>1. e - v \in Nat /\ (e - v) \div 10 \in 0 .. e - v
      BY <1>1
    <2>2. Divide(e - v, 10) = (e - v) \div 10
      BY <2>1 DEF Divide
    <2>3. QED
      BY <1>1, <2>1, <2>2 DEF LouderIs
  <1>2. CASE e < v
    <2>1. v - e \in Nat /\ (v - e) \div 10 \in 0 .. v - e /\ e - v < 0 /\ -(e - v) = v - e
      BY <1>2
    <2>2. Divide(e - v, 10) = -((v - e) \div 10)
      BY <2>1 DEF Divide
    <2>3. QED
      BY <1>2, <2>1, <2>2 DEF LouderIs
  <1>3. QED
    BY <1>1, <1>2

LEMMA DivideIsInt == ASSUME NEW x \in Int PROVE Divide(x, 10) \in Int
  BY DEF Divide

MarginInv ==
  /\ var \in Nat /\ loudest \in Nat /\ var <= loudest
  /\ delay \in Int
  /\ prog.learns => ea \in Int /\ u_prev \in Int

LEMMA MarginInit == AveragingInit => MarginInv
  BY DEF AveragingInit, MarginInv

LEMMA MarginReceive ==
  ASSUME RingInv, RingInv', MarginInv, NEW t \in Nat, Receive(t)
  PROVE  MarginInv'
  <1>1. /\ prog' = prog /\ pkt_cnt' = pkt_cnt + 1 /\ Jacobson(t)
        /\ EarlyEstimate(t) \/ FirstEstimate(t) \/ MovedEstimate(t)
    BY DEF Receive
  <1>2. CASE ~prog.learns
    BY <1>1, <1>2 DEF Jacobson, marginVars, MarginInv
  <1>3. CASE prog.learns
    <2> DEFINE error == t - ea - delay
    <2>1. error \in Int
      BY <1>3 DEF MarginInv
    <2>2. /\ delay' = delay + Divide(error, 10)
          /\ var' = var + Divide(Abs(error) - var, 10)
          /\ loudest' = Max({loudest, Abs(error)})
      BY <1>1, <1>3 DEF Jacobson
    <2>3. Abs(error) \in Nat /\ Divide(error, 10) \in Int
      BY <2>1, AbsIs, DivideIsInt
    <2> HIDE DEF error
    <2>4. loudest' = LouderIs(loudest, Abs(error))
      BY <2>2, <2>3, Louder DEF MarginInv
    <2>5. var' \in Nat /\ var' <= LouderIs(var, Abs(error))
      BY <2>2, <2>3, TenthOfTheWay DEF MarginInv
    <2>6. loudest' \in Nat /\ var' <= loudest'
      BY <2>3, <2>4, <2>5 DEF MarginInv, LouderIs
    <2>7. delay' \in Int
      BY <2>2, <2>3 DEF MarginInv
    <2>8. ea' \in Int /\ u_prev' \in Int
      <3>1. /\ prog.n \in Nat \ {0} /\ pkt_cnt \in Nat /\ pkt_cnt' \in Nat \ {0}
            /\ WORD \in Nat \ {0} /\ ea \in Int /\ u_prev \in Int
        BY <1>1, <1>3, ProgramSizes, LenProperties, AveragingConstants
           DEF RingInv, RingType, MarginInv
      <3>2. CASE EarlyEstimate(t)
        <4>1. /\ u_prev' = t \div pkt_cnt' + ((pkt_cnt' - 1) \div pkt_cnt') * u_prev
              /\ ea' = u_prev'
          BY <1>1, <1>3, <3>2 DEF EarlyEstimate
        <4>2. t \div pkt_cnt' \in Int /\ (pkt_cnt' - 1) \div pkt_cnt' \in Int
          BY <3>1
        <4>3. ((pkt_cnt' - 1) \div pkt_cnt') * u_prev \in Int
          BY <3>1, <4>2
        <4>4. QED
          BY <4>1, <4>2, <4>3
      <3>3. CASE FirstEstimate(t)
        BY <1>3, <3>3 DEF FirstEstimate
      <3>4. CASE MovedEstimate(t)
        <4>1. ea' = MovedEa(t) /\ u_prev' = u_prev /\ pkt_cnt' > prog.n
          BY <3>4 DEF MovedEstimate
        <4>2. Evicted \in Nat
          <5>1. next_evicted \in Slots
            <6>1. prog.ring \in Nat \ {0} /\ prog.n \in Nat
              BY ProgramSizes DEF RingInv, RingType
            <6>2. next_evicted = IF pkt_cnt <= prog.n THEN 0
                                 ELSE (pkt_cnt - prog.n) % prog.ring
              BY DEF RingInv, RingPlaces
            <6>3. CASE pkt_cnt <= prog.n
              BY <6>1, <6>2, <6>3 DEF Slots
            <6>4. CASE pkt_cnt > prog.n
              <7>1. pkt_cnt - prog.n \in Nat
                BY <3>1, <6>1, <6>4
              <7>2. (pkt_cnt - prog.n) % prog.ring \in 0 .. prog.ring - 1
                BY <6>1, <7>1, InRing
              <7>3. QED
                BY <3>1, <6>1, <6>2, <6>4, <7>2 DEF Slots
            <6>5. QED
              BY <3>1, <6>1, <6>3, <6>4
          <5>2. arr_timestamp[next_evicted] \in Receipts
            BY <5>1 DEF RingInv, RingType
          <5>3. arr_timestamp' \in [Slots -> Receipts]
            BY <1>1 DEF RingInv, RingType, Slots
          <5>4. arr_timestamp'[next_evicted] \in Receipts
            BY <5>1, <5>3
          <5>5. QED
            BY <5>2, <5>4 DEF Evicted, Receipts
        <4>3. /\ (t - Evicted) % WORD \in Int /\ Evicted \div prog.n \in Int
          BY <3>1, <4>2
        <4>4. ((t - Evicted) % WORD) \div prog.n \in Int
          BY <3>1, <4>3
        <4>5. /\ (ea + ((t - Evicted) % WORD) \div prog.n) % WORD \in Int
              /\ (ea + (t - Evicted \div prog.n)) % WORD \in Int
          <5>1. /\ ea + ((t - Evicted) % WORD) \div prog.n \in Int
                /\ ea + (t - Evicted \div prog.n) \in Int
            BY <3>1, <4>3, <4>4
          <5>2. \A x \in Int : x % WORD \in Int
            BY <3>1
          <5>3. QED
            BY <5>1, <5>2
        <4>6. MovedEa(t) \in Int
          BY <4>5 DEF MovedEa
        <4>7. QED
          BY <3>1, <4>1, <4>6
      <3>5. QED
        BY <1>1, <3>2, <3>3, <3>4
    <2>9. QED
      BY <2>5, <2>6, <2>7, <2>8 DEF MarginInv
  <1>4. QED
    BY <1>2, <1>3

LEMMA MarginStep ==
  RingInv /\ RingInv' /\ MarginInv /\ [AveragingNext]_averagingVars => MarginInv'
  <1> SUFFICES ASSUME RingInv, RingInv', MarginInv, [AveragingNext]_averagingVars
               PROVE  MarginInv'
    OBVIOUS
  <1>1. CASE Heartbeat
    BY <1>1, ReceiptTime, MarginReceive DEF Heartbeat
  <1>2. CASE timer1_cb
    BY <1>2 DEF timer1_cb, ringVars, marginVars, MarginInv
  <1>3. CASE UNCHANGED averagingVars
    BY <1>3 DEF averagingVars, ringVars, marginVars, MarginInv
  <1>4. QED
    BY <1>1, <1>2, <1>3 DEF AveragingNext

\* The learnt deviation is never negative and never above the largest error
\* (var_prev in the receive loop of the Bertier copies).
THEOREM VarianceStaysBounded == AveragingSpec => []VarianceBounded
  <1>1. MarginInv => VarianceBounded
    BY DEF MarginInv, VarianceBounded
  <1>2. AveragingInit => RingInv /\ MarginInv
    BY RingInit, MarginInit
  <1>3. (RingInv /\ MarginInv) /\ [AveragingNext]_averagingVars => (RingInv /\ MarginInv)'
    BY RingStep, MarginStep
  <1>4. QED
    BY <1>1, <1>2, <1>3, PTL DEF AveragingSpec

-----------------------------------------------------------------------------
(***************************************************************************)
(* The clock: receipts are in order, and no reading is so late that the    *)
(* sum of a window of them would not fit in a word.                        *)
(***************************************************************************)

Covers(longest) ==
  /\ prog.period <= longest
  /\ \A gap \in Gaps : (gap * prog.period) \div 10 <= longest

ClockInv ==
  /\ pkt_cnt <= MaxHeartbeats
  /\ \A k \in 1 .. pkt_cnt : Boot <= log[k] /\ log[k] <= Last
  /\ \A longest \in Nat : Covers(longest) => Last <= Boot + pkt_cnt * longest

LEMMA TimesMonotone ==
  ASSUME NEW a \in Nat, NEW x \in Int, NEW y \in Int, x <= y
  PROVE  a * x <= a * y
  OBVIOUS

LEMMA LastReceipt ==
  ASSUME RingInv
  PROVE  /\ Last \in Nat /\ pkt_cnt \in Nat
         /\ \A k \in 1 .. pkt_cnt : log[k] \in Nat
         /\ pkt_cnt = 0 => Last = Boot
         /\ pkt_cnt > 0 => Last = log[pkt_cnt]
  <1>1. log \in Seq(Nat) /\ pkt_cnt = Len(log) /\ pkt_cnt \in Nat
    BY LenProperties DEF RingInv, RingType
  <1>2. \A k \in 1 .. pkt_cnt : log[k] \in Nat
    BY <1>1, ElementOfSeq
  <1>3. CASE log = << >>
    BY <1>1, <1>2, <1>3, EmptySeq, AveragingConstants DEF Last
  <1>4. CASE log # << >>
    <2>1. pkt_cnt > 0
      BY <1>1, <1>4, EmptySeq
    <2>2. Last = log[pkt_cnt]
      BY <1>1, <1>4 DEF Last
    <2> QED BY <1>1, <1>2, <2>1, <2>2
  <1> QED BY <1>3, <1>4

LEMMA ClockInit == AveragingInit => ClockInv
  <1> SUFFICES ASSUME AveragingInit PROVE ClockInv
    OBVIOUS
  <1>1. pkt_cnt = 0 /\ log = << >>
    BY DEF AveragingInit
  <1>2. Last = Boot
    BY <1>1 DEF Last
  <1>3. \A longest \in Nat : Boot <= Boot + 0 * longest
    BY AveragingConstants
  <1> QED BY <1>1, <1>2, <1>3, AveragingConstants DEF ClockInv

\* What a receipt does to the log.
LEMMA LogGrows ==
  ASSUME RingInv, NEW t \in Nat, Receive(t)
  PROVE  /\ prog' = prog /\ pkt_cnt' = pkt_cnt + 1 /\ Last' = t
         /\ log'[pkt_cnt + 1] = t
         /\ \A k \in 1 .. pkt_cnt : log'[k] = log[k]
  <1>1. /\ log \in Seq(Nat) /\ pkt_cnt = Len(log) /\ pkt_cnt \in Nat
        /\ prog' = prog /\ pkt_cnt' = pkt_cnt + 1 /\ log' = Append(log, t)
    BY LenProperties DEF RingInv, RingType, Receive
  <1>2. /\ log' \in Seq(Nat) /\ Len(log') = pkt_cnt + 1 /\ log'[pkt_cnt + 1] = t
        /\ \A k \in 1 .. pkt_cnt : log'[k] = log[k]
    BY <1>1, AppendProperties
  <1>3. log' # << >>
    BY <1>1, <1>2, EmptySeq
  <1>4. Last' = t
    BY <1>2, <1>3 DEF Last
  <1> QED BY <1>1, <1>2, <1>4

\* The time of the next receipt, for both kinds of interval.
NextReceipt(t) ==
  /\ t \in Nat /\ Last <= t
  /\ \A longest \in Nat : Covers(longest) => t <= Last + longest

LEMMA ReceiptIsNext ==
  ASSUME RingInv
  PROVE  /\ NextReceipt(Last + prog.period)
         /\ \A gap \in Gaps : NextReceipt(Last + (gap * prog.period) \div 10)
  <1>1. Last \in Nat /\ prog.period \in Nat
    BY LastReceipt, ProgramSizes DEF RingInv, RingType
  <1>2. NextReceipt(Last + prog.period)
    BY <1>1 DEF NextReceipt, Covers
  <1>3. ASSUME NEW gap \in Gaps
        PROVE  NextReceipt(Last + (gap * prog.period) \div 10)
    <2> DEFINE d == (gap * prog.period) \div 10
    <2>1. d \in Nat
      <3>1. gap * prog.period \in Nat
        BY <1>1, AveragingConstants
      <3> QED BY <3>1
    <2>2. \A longest \in Nat : Covers(longest) => d <= longest
      BY <1>3 DEF Covers
    <2> HIDE DEF d
    <2>3. NextReceipt(Last + d)
      BY <1>1, <2>1, <2>2 DEF NextReceipt
    <2> QED BY <2>3 DEF d
  <1> QED BY <1>2, <1>3

LEMMA ClockReceive ==
  ASSUME RingInv, ClockInv, NEW t, NextReceipt(t), Receive(t)
  PROVE  ClockInv'
  <1>1. t \in Nat /\ Last <= t
    BY DEF NextReceipt
  <1>2. /\ prog' = prog /\ pkt_cnt' = pkt_cnt + 1 /\ Last' = t
        /\ log'[pkt_cnt + 1] = t
        /\ \A k \in 1 .. pkt_cnt : log'[k] = log[k]
    BY <1>1, LogGrows
  <1>3. /\ Last \in Nat /\ pkt_cnt \in Nat /\ Boot \in Nat /\ MaxHeartbeats \in Nat
        /\ \A k \in 1 .. pkt_cnt : log[k] \in Nat
        /\ pkt_cnt = 0 => Last = Boot
        /\ pkt_cnt > 0 => Last = log[pkt_cnt]
    BY LastReceipt, AveragingConstants
  <1>4. pkt_cnt' <= MaxHeartbeats
    BY <1>2, <1>3 DEF Receive
  <1>5. Boot <= Last
    BY <1>3 DEF ClockInv
  <1>6. \A k \in 1 .. pkt_cnt' : Boot <= log'[k] /\ log'[k] <= Last'
    <2> SUFFICES ASSUME NEW k \in 1 .. pkt_cnt + 1 PROVE Boot <= log'[k] /\ log'[k] <= t
      BY <1>2
    <2>1. CASE k = pkt_cnt + 1
      BY <1>1, <1>2, <1>3, <1>5, <2>1
    <2>2. CASE k \in 1 .. pkt_cnt
      BY <1>1, <1>2, <1>3, <2>2 DEF ClockInv
    <2> QED BY <1>3, <2>1, <2>2
  <1>7. ASSUME NEW longest \in Nat, Covers(longest)'
        PROVE  Last' <= Boot + pkt_cnt' * longest
    <2>1. Covers(longest)
      BY <1>2, <1>7 DEF Covers
    <2>2. t <= Last + longest /\ Last <= Boot + pkt_cnt * longest
      BY <2>1 DEF ClockInv, NextReceipt
    <2>3. (pkt_cnt + 1) * longest = pkt_cnt * longest + longest /\ pkt_cnt * longest \in Nat
      BY <1>3
    <2> QED BY <1>1, <1>2, <1>3, <2>2, <2>3
  <1> QED BY <1>4, <1>6, <1>7 DEF ClockInv

LEMMA ClockStep ==
  RingInv /\ ClockInv /\ [AveragingNext]_averagingVars => ClockInv'
  <1> SUFFICES ASSUME RingInv, ClockInv, [AveragingNext]_averagingVars PROVE ClockInv'
    OBVIOUS
  <1>1. CASE Heartbeat
    BY <1>1, ReceiptIsNext, ClockReceive DEF Heartbeat
  <1>2. CASE timer1_cb
    BY <1>2 DEF timer1_cb, ringVars, historyVars, ClockInv, Last, Covers
  <1>3. CASE UNCHANGED averagingVars
    BY <1>3 DEF averagingVars, ringVars, historyVars, ClockInv, Last, Covers
  <1> QED BY <1>1, <1>2, <1>3 DEF AveragingNext

\* A window of readings, with the intervals the estimate adds, fits in a word.
WindowFits == prog.n * (Last + (prog.n + 1 + prog.from) * prog.hz) < WORD

LEMMA ReadingsFit == RingInv /\ ClockInv => WindowFits
  <1> SUFFICES ASSUME RingInv, ClockInv PROVE WindowFits
    OBVIOUS
  <1>1. /\ prog.n \in Nat /\ prog.hz \in Nat /\ prog.from \in Nat /\ prog.period \in Nat
        /\ prog \in Programs
    BY ProgramsTyped DEF ProgramType, RingInv, RingType
  <1>2. /\ Boot \in Nat /\ WORD \in Nat /\ MaxHeartbeats \in Nat
        /\ Last \in Nat /\ pkt_cnt \in Nat
    BY AveragingConstants, LastReceipt
  <1> DEFINE more == (prog.n + 1 + prog.from) * prog.hz
  <1>3. PICK longest \in 0 .. WORD :
          /\ Covers(longest)
          /\ prog.n * (Boot + MaxHeartbeats * longest + more) < WORD
    BY <1>1, ClockAssumption DEF Covers
  <1>4. longest \in Nat
    BY <1>2
  <1>5. Last <= Boot + pkt_cnt * longest /\ pkt_cnt <= MaxHeartbeats
    BY <1>3, <1>4 DEF ClockInv
  <1>6. pkt_cnt * longest <= MaxHeartbeats * longest
        /\ pkt_cnt * longest \in Nat /\ MaxHeartbeats * longest \in Nat
    BY <1>2, <1>4, <1>5
  <1>7. more \in Nat
    BY <1>1
  <1> HIDE DEF more
  <1>8. Last + more <= Boot + MaxHeartbeats * longest + more
    BY <1>2, <1>5, <1>6, <1>7
  <1> DEFINE x == Last + more
             y == Boot + MaxHeartbeats * longest + more
  <1>9. x \in Int /\ y \in Int /\ x <= y
    BY <1>2, <1>6, <1>7, <1>8
  <1>10. prog.n * y < WORD
    BY <1>3
  <1> HIDE DEF x, y
  <1>11. prog.n * x <= prog.n * y
    BY <1>1, <1>9, TimesMonotone
  <1>12. prog.n * x \in Int /\ prog.n * y \in Int
    BY <1>1, <1>9
  <1>13. prog.n * x < WORD
    BY <1>2, <1>10, <1>11, <1>12
  <1> QED BY <1>13 DEF x, more, WindowFits

-----------------------------------------------------------------------------
(***************************************************************************)
(* Type correctness.  A burst is abandoned at most once: a copy leaves it   *)
(* at STOP_TIME or at RETURN_AT, not at both, and the count of heartbeats   *)
(* equals either only once.                                                *)
(***************************************************************************)

Abandoned(cnt) == prog.stop \in 1 .. cnt \/ prog.returns \in 1 .. cnt

LeakedOnce == leaked = 0 \/ (Abandoned(pkt_cnt) /\ leaked \in 0 .. BURST_SIZE)

EstimateType == ea \in 0 .. WORD - 1 /\ u_prev \in Nat

CounterType == running \in BOOLEAN /\ false_positive_cnt \in Nat

LEMMA RingIndices == RingInv => next_avail \in Slots /\ next_evicted \in Slots
  <1> SUFFICES ASSUME RingInv PROVE next_avail \in Slots /\ next_evicted \in Slots
    OBVIOUS
  <1>1. prog.ring \in Nat \ {0} /\ prog.n \in Nat /\ pkt_cnt \in Nat
    BY ProgramSizes, LastReceipt DEF RingInv, RingType
  <1>2. next_avail \in Slots
    BY <1>1, InRing DEF RingInv, RingPlaces, Slots
  <1>3. next_evicted = IF pkt_cnt <= prog.n THEN 0 ELSE (pkt_cnt - prog.n) % prog.ring
    BY DEF RingInv, RingPlaces
  <1>4. CASE pkt_cnt <= prog.n
    BY <1>1, <1>2, <1>3, <1>4 DEF Slots
  <1>5. CASE pkt_cnt > prog.n
    <2>1. pkt_cnt - prog.n \in Nat /\ ~(pkt_cnt <= prog.n)
      BY <1>1, <1>5
    <2>2. (pkt_cnt - prog.n) % prog.ring \in 0 .. prog.ring - 1
      BY <1>1, <2>1, InRing
    <2> QED BY <1>2, <1>3, <2>1, <2>2 DEF Slots
  <1> QED BY <1>1, <1>4, <1>5

LEMMA WordMod == ASSUME NEW x \in Int PROVE x % WORD \in 0 .. WORD - 1
  BY AveragingConstants

\* The receipt that leaves the window, in either order of reading and storing.
LEMMA EvictedIsOldest ==
  ASSUME RingInv, NEW t \in Nat, Receive(t), pkt_cnt >= prog.n
  PROVE  Evicted = log[pkt_cnt - prog.n + 1]
  <1>1. arr_timestamp[next_evicted].hb_timestamp = log[pkt_cnt - prog.n + 1]
    BY OldestFollows DEF OldestIsEvicted
  <1>2. CASE prog.early
    BY <1>1, <1>2 DEF Evicted
  <1>3. CASE ~prog.early
    <2>1. /\ prog.n \in Nat \ {0} /\ prog.ring \in Nat \ {0} /\ prog.n <= prog.ring
          /\ prog.ring # prog.n /\ pkt_cnt \in Nat
      BY <1>3, ProgramsTyped, LastReceipt DEF ProgramType, RingInv, RingType
    <2> DEFINE k == pkt_cnt - prog.n
    <2>2. k \in Nat /\ k < pkt_cnt /\ pkt_cnt - k < prog.ring
      BY <2>1
    <2>3. next_evicted = k % prog.ring
      <3>1. next_evicted = IF pkt_cnt <= prog.n THEN 0 ELSE k % prog.ring
        BY DEF RingInv, RingPlaces
      <3>2. CASE pkt_cnt = prog.n
        <4>1. k = 0 /\ 0 % prog.ring = 0
          BY <2>1, <3>2
        <4> HIDE DEF k
        <4> QED BY <2>1, <3>1, <3>2, <4>1
      <3>3. CASE pkt_cnt > prog.n
        <4> HIDE DEF k
        <4> QED BY <2>1, <3>1, <3>3
      <3> QED BY <2>1, <3>2, <3>3
    <2> HIDE DEF k
    <2>4. next_avail = pkt_cnt % prog.ring
      BY DEF RingInv, RingPlaces
    <2>5. next_evicted # next_avail
      BY <2>1, <2>2, <2>3, <2>4, OtherSlot
    <2>6. /\ next_evicted \in Slots /\ next_avail \in Slots
          /\ arr_timestamp \in [Slots -> Receipts]
      BY RingIndices DEF RingInv, RingType
    <2>7. arr_timestamp'[next_evicted] = arr_timestamp[next_evicted]
      BY <2>5, <2>6 DEF Receive, Store
    <2> QED BY <1>1, <1>3, <2>7 DEF Evicted
  <1> QED BY <1>2, <1>3

\* Which of the three ways the estimate is made.
LEMMA WhichEstimate ==
  ASSUME RingInv, NEW t \in Nat, Receive(t)
  PROVE  /\ EarlyEstimate(t) \/ FirstEstimate(t) \/ MovedEstimate(t)
         /\ pkt_cnt >= prog.n => MovedEstimate(t)
         /\ pkt_cnt < prog.n => ~MovedEstimate(t)
  <1>1. prog' = prog /\ pkt_cnt' = pkt_cnt + 1 /\ pkt_cnt \in Nat /\ prog.n \in Nat
    BY LogGrows, LastReceipt, ProgramSizes DEF RingInv, RingType
  <1>2. EarlyEstimate(t) \/ FirstEstimate(t) \/ MovedEstimate(t)
    BY DEF Receive
  <1>3. ASSUME pkt_cnt >= prog.n PROVE ~EarlyEstimate(t) /\ ~FirstEstimate(t)
    <2>1. ~(pkt_cnt' <= prog.n) /\ ~(pkt_cnt' < prog.n) /\ pkt_cnt' # prog.n
      BY <1>1, <1>3
    <2> QED BY <2>1 DEF EarlyEstimate, FirstEstimate
  <1>4. ASSUME pkt_cnt < prog.n PROVE ~MovedEstimate(t)
    <2>1. ~(pkt_cnt' > prog.n)
      BY <1>1, <1>4
    <2> QED BY <2>1 DEF MovedEstimate
  <1> QED BY <1>2, <1>3, <1>4

\* The early mean forgets every receipt but the last.
LEMMA EarlyIs ==
  ASSUME RingInv, EstimateType, NEW t \in Nat, Receive(t), EarlyEstimate(t), prog.learns
  PROVE  ea' = t \div (pkt_cnt + 1) /\ u_prev' = t \div (pkt_cnt + 1)
  <1> DEFINE c == pkt_cnt + 1
  <1>1. c \in Nat \ {0} /\ (c - 1) \div c = 0 /\ pkt_cnt' = c
    BY LogGrows, LastReceipt
  <1>2. /\ u_prev' = t \div c + ((c - 1) \div c) * u_prev
        /\ ea' = u_prev'
    BY <1>1 DEF EarlyEstimate
  <1>3. u_prev \in Nat
    BY DEF EstimateType
  <1> HIDE DEF c
  <1>4. 0 * u_prev = 0
    BY <1>3
  <1>5. t \div c \in Nat
    BY <1>1
  <1> QED BY <1>1, <1>2, <1>4, <1>5 DEF c

LEMMA EstimateTyped ==
  ASSUME RingInv, RingInv', WindowFits', EstimateType, NEW t \in Nat, Receive(t)
  PROVE  EstimateType'
  <1>1. /\ prog' = prog /\ pkt_cnt' = pkt_cnt + 1 /\ Last' = t /\ pkt_cnt \in Nat
        /\ prog.n \in Nat \ {0} /\ WORD \in Nat \ {0}
    BY LogGrows, LastReceipt, ProgramSizes, AveragingConstants DEF RingInv, RingType
  <1>2. CASE MovedEstimate(t)
    <2>1. pkt_cnt >= prog.n
      BY <1>1, <1>2, WhichEstimate
    <2>2. pkt_cnt - prog.n + 1 \in 1 .. pkt_cnt
      BY <1>1, <2>1
    <2>3. Evicted \in Nat
      BY <2>1, <2>2, EvictedIsOldest, LastReceipt
    <2>4. ea' = MovedEa(t) /\ u_prev' = u_prev
      BY <1>2 DEF MovedEstimate
    <2>5. /\ (t - Evicted) % WORD \in Int /\ Evicted \div prog.n \in Int
      BY <1>1, <2>3
    <2>6. /\ ea + ((t - Evicted) % WORD) \div prog.n \in Int
          /\ ea + (t - Evicted \div prog.n) \in Int
      <3>1. ea \in Int
        BY <1>1 DEF EstimateType
      <3>2. ((t - Evicted) % WORD) \div prog.n \in Int
        BY <1>1, <2>5
      <3> QED BY <2>5, <3>1, <3>2
    <2>7. MovedEa(t) \in 0 .. WORD - 1
      BY <2>6, WordMod DEF MovedEa
    <2> QED BY <2>4, <2>7 DEF EstimateType
  <1>3. CASE FirstEstimate(t)
    <2>1. u_prev' = u_prev
      BY <1>3 DEF FirstEstimate
    <2>2. CASE prog.trains
      BY <1>3, <2>1, <2>2 DEF FirstEstimate, EstimateType
    <2>3. CASE ~prog.trains
      <3> DEFINE f == [i \in 0 .. prog.n - 1 |->
                        arr_timestamp'[i].hb_timestamp
                          - (arr_timestamp'[i].heartbeat_id - prog.from) * prog.hz]
                 sum == SumFunction(f)
      <3>1. ea' = ((sum % WORD) \div prog.n + (prog.n + 1) * prog.hz) % WORD
        BY <1>3, <2>3 DEF FirstEstimate
      <3>2. sum \in Int
        <4>1. ASSUME NEW i \in 0 .. prog.n - 1 PROVE f[i] \in Int
          <5>1. i \in Slots' /\ arr_timestamp' \in [Slots' -> Receipts]
            BY <1>1, <4>1, ProgramSizes DEF RingInv, RingType, Slots
          <5>2. arr_timestamp'[i] \in Receipts
            BY <5>1
          <5>3. arr_timestamp'[i].hb_timestamp \in Nat /\ arr_timestamp'[i].heartbeat_id \in Nat
            BY <5>2 DEF Receipts
          <5>4. prog.from \in Nat /\ prog.hz \in Nat
            BY ProgramsTyped DEF RingInv, RingType, ProgramType
          <5>5. (arr_timestamp'[i].heartbeat_id - prog.from) * prog.hz \in Int
            BY <5>3, <5>4
          <5> QED BY <5>3, <5>5
        <4>2. IsFiniteSet(0 .. prog.n - 1)
          BY <1>1, FS_Interval
        <4>3. DOMAIN f = 0 .. prog.n - 1
          OBVIOUS
        <4> HIDE DEF f
        <4>4. SumFunctionOnSet(f, 0 .. prog.n - 1) \in Int
          BY <4>1, <4>2, SumType
        <4> QED BY <4>3, <4>4 DEF SumFunction
      <3> HIDE DEF sum, f
      <3>3. (sum % WORD) \div prog.n + (prog.n + 1) * prog.hz \in Int
        <4>1. sum % WORD \in Int
          BY <1>1, <3>2
        <4>2. (sum % WORD) \div prog.n \in Int
          BY <1>1, <4>1
        <4>3. (prog.n + 1) * prog.hz \in Int
          BY <1>1, ProgramSizes DEF RingInv, RingType
        <4> QED BY <4>2, <4>3
      <3>4. ea' \in 0 .. WORD - 1
        BY <3>1, <3>3, WordMod
      <3> QED BY <2>1, <3>4 DEF EstimateType
    <2> QED BY <2>2, <2>3
  <1>4. CASE EarlyEstimate(t)
    <2>1. CASE ~prog.learns
      BY <1>4, <2>1 DEF EarlyEstimate, EstimateType
    <2>2. CASE prog.learns
      <3> DEFINE c == pkt_cnt + 1
      <3>2. c \in Nat \ {0}
        BY <1>1
      <3>4. ea' = t \div c /\ u_prev' = t \div c
        BY <1>4, <2>2, EarlyIs
      <3> HIDE DEF c
      <3>5. t \div c \in 0 .. t
        BY <3>2
      <3>6. t < WORD
        <4> DEFINE more == (prog.n + 1 + prog.from) * prog.hz
        <4>1. prog.n * (t + more) < WORD
          BY <1>1 DEF WindowFits
        <4>2. more \in Nat
          BY <1>1, ProgramsTyped DEF RingInv, RingType, ProgramType
        <4> HIDE DEF more
        <4>3. t + more \in Nat
          BY <4>2
        <4>4. t + more <= prog.n * (t + more)
          BY <1>1, <4>3
        <4>5. prog.n * (t + more) \in Nat
          BY <1>1, <4>3
        <4> QED BY <1>1, <4>1, <4>2, <4>4, <4>5
      <3> QED BY <1>1, <3>4, <3>5, <3>6 DEF EstimateType
    <2> QED BY <2>1, <2>2
  <1> QED BY <1>2, <1>3, <1>4, WhichEstimate

TypeParts == RingInv /\ MarginInv /\ ClockInv /\ EstimateType /\ CounterType /\ LeakedOnce

LEMMA TypeFromParts == TypeParts => AveragingType
  <1> SUFFICES ASSUME TypeParts PROVE AveragingType
    OBVIOUS
  <1>1. /\ prog \in Programs /\ arr_timestamp \in [Slots -> Receipts]
        /\ next_avail \in Slots /\ next_evicted \in Slots
        /\ pkt_cnt = Len(log)
    BY RingIndices DEF TypeParts, RingInv, RingType
  <1>2. delay \in Int /\ var \in Int
    BY DEF TypeParts, MarginInv
  <1>3. leaked \in 0 .. BURST_SIZE
    BY AveragingConstants DEF TypeParts, LeakedOnce
  <1> QED BY <1>1, <1>2, <1>3
      DEF TypeParts, EstimateType, CounterType, AveragingType, Receipts

LEMMA TypeInit == AveragingInit => TypeParts
  <1> SUFFICES ASSUME AveragingInit PROVE TypeParts
    OBVIOUS
  <1>1. EstimateType
    BY AveragingConstants DEF AveragingInit, EstimateType
  <1>2. CounterType /\ LeakedOnce
    BY DEF AveragingInit, CounterType, LeakedOnce
  <1> QED BY <1>1, <1>2, RingInit, MarginInit, ClockInit DEF TypeParts

LEMMA LeakedReceive ==
  ASSUME RingInv, LeakedOnce, NEW t \in Nat, Receive(t) PROVE LeakedOnce'
  <1>1. prog' = prog /\ pkt_cnt' = pkt_cnt + 1 /\ pkt_cnt \in Nat
    BY LogGrows, LastReceipt
  <1>2. Free
    BY DEF Receive
  <1>3. CASE leaked' = leaked
    <2>1. Abandoned(pkt_cnt) => Abandoned(pkt_cnt')
      BY <1>1 DEF Abandoned
    <2> QED BY <1>1, <1>3, <2>1 DEF LeakedOnce, Abandoned
  <1>4. CASE leaked' # leaked
    <2>1. pkt_cnt' = prog.returns \/ pkt_cnt' = prog.stop
      BY <1>2, <1>4 DEF Free
    <2>2. PICK rest \in 0 .. BURST_SIZE - 1 : leaked' = leaked + 1 + rest
      BY <1>2, <1>4 DEF Free
    <2>3. prog.stop = 0 \/ prog.returns = 0
      BY ProgramsTyped DEF RingInv, RingType, ProgramType
    <2>4. ~Abandoned(pkt_cnt) /\ Abandoned(pkt_cnt')
      BY <1>1, <2>1, <2>3 DEF Abandoned
    <2>5. leaked = 0
      BY <2>4 DEF LeakedOnce
    <2>6. leaked' \in 0 .. BURST_SIZE
      BY <2>2, <2>5, AveragingConstants
    <2> QED BY <1>1, <2>4, <2>6 DEF LeakedOnce, Abandoned
  <1> QED BY <1>3, <1>4

LEMMA TypeStep ==
  /\ TypeParts /\ RingInv' /\ MarginInv' /\ ClockInv' /\ WindowFits'
  /\ [AveragingNext]_averagingVars
  => TypeParts'
  <1> SUFFICES ASSUME TypeParts, RingInv', MarginInv', ClockInv', WindowFits',
                      [AveragingNext]_averagingVars
               PROVE  EstimateType' /\ CounterType' /\ LeakedOnce'
    BY DEF TypeParts
  <1> USE DEF TypeParts
  <1>1. ASSUME NEW t \in Nat, Receive(t)
        PROVE  EstimateType' /\ CounterType' /\ LeakedOnce'
    <2>1. false_positive_cnt' \in Nat /\ running' \in BOOLEAN
      BY <1>1 DEF Receive, CounterType
    <2> QED BY <1>1, <2>1, EstimateTyped, LeakedReceive DEF CounterType
  <1>2. CASE Heartbeat
    BY <1>1, <1>2, ReceiptTime DEF Heartbeat
  <1>3. CASE timer1_cb
    <2>1. /\ UNCHANGED <<prog, running, pkt_cnt, ea, u_prev, leaked>>
          /\ false_positive_cnt' = IF prog.counts THEN false_positive_cnt + 1 ELSE 0
      BY <1>3 DEF timer1_cb, ringVars
    <2>2. false_positive_cnt' \in Nat
      BY <2>1 DEF CounterType
    <2> QED BY <2>1, <2>2 DEF EstimateType, CounterType, LeakedOnce, Abandoned
  <1>4. CASE UNCHANGED averagingVars
    BY <1>4 DEF averagingVars, ringVars, EstimateType, CounterType, LeakedOnce, Abandoned
  <1> QED BY <1>2, <1>3, <1>4 DEF AveragingNext

\* The parts of the type are kept together.
LEMMA AveragingParts == AveragingSpec => []TypeParts
  <1>1. RingInv' /\ ClockInv' => WindowFits'
    BY ReadingsFit, PTL
  <1>2. TypeParts /\ [AveragingNext]_averagingVars => TypeParts'
    <2>1. TypeParts /\ [AveragingNext]_averagingVars
          => RingInv' /\ MarginInv' /\ ClockInv'
      BY RingStep, MarginStep, ClockStep DEF TypeParts
    <2> QED BY <1>1, <2>1, TypeStep
  <1> QED BY <1>2, TypeInit, PTL DEF AveragingSpec

\* Every copy keeps its types: the estimate is a word, the slots are slots of
\* the ring, and however a burst is abandoned no more than one burst is lost.
THEOREM AveragingTypeCorrect == AveragingSpec => []AveragingType
  BY AveragingParts, TypeFromParts, PTL

-----------------------------------------------------------------------------
(***************************************************************************)
(* The estimate.  Unsigned words do not wrap where ClockAssumption holds,  *)
(* so the first estimate is a sum of integers divided once, and each later *)
(* one moves by a tick-truncated share of what entered and left.           *)
(***************************************************************************)

LEMMA Sizes ==
  ASSUME RingInv
  PROVE  /\ prog.n \in Nat \ {0} /\ prog.ring \in Nat \ {0} /\ prog.n <= prog.ring
         /\ prog.hz \in Nat /\ prog.period \in Nat /\ prog.from \in Nat
         /\ prog.trains => ~prog.average
         /\ prog.n * prog.hz <= Boot
         /\ Boot \in Nat /\ WORD \in Nat \ {0} /\ pkt_cnt \in Nat
  BY ProgramsTyped, ClockAssumption, AveragingConstants, LastReceipt
     DEF ProgramType, RingInv, RingType

\* A number that its multiple keeps below a bound is below it.
LEMMA MultipleBounds ==
  ASSUME NEW n \in Nat \ {0}, NEW x \in Nat, NEW w \in Nat, n * x < w
  PROVE  x < w
  <1>1. x <= n * x /\ n * x \in Nat
    OBVIOUS
  <1> QED BY <1>1

LEMMA SmallMod ==
  ASSUME NEW w \in Nat \ {0}, NEW x \in 0 .. w - 1 PROVE x % w = x
  OBVIOUS

LEMMA FirstSlots ==
  ASSUME NEW n \in Nat \ {0}
  PROVE  IsFiniteSet(0 .. n - 1) /\ Cardinality(0 .. n - 1) = n
  <1>1. n - 1 \in Int /\ ~(0 > n - 1)
    OBVIOUS
  <1>2. IsFiniteSet(0 .. n - 1) /\ Cardinality(0 .. n - 1) = (n - 1) - 0 + 1
    BY <1>1, FS_Interval
  <1> QED BY <1>2

\* The times the first estimate averages, each less the intervals before it.
FirstTimes == [i \in 0 .. prog.n - 1 |-> log[i + 1] - (i + 1 - prog.from) * prog.hz]

\* Each lies between 0 and the latest reading, so their sum is an unsigned word.
LEMMA FirstTimesBounds ==
  ASSUME RingInv, ClockInv, pkt_cnt = prog.n
  PROVE  /\ IsFiniteSet(0 .. prog.n - 1) /\ Cardinality(0 .. prog.n - 1) = prog.n
         /\ DOMAIN FirstTimes = 0 .. prog.n - 1
         /\ \A i \in 0 .. prog.n - 1 :
              FirstTimes[i] \in Nat /\ FirstTimes[i] <= Last + prog.from * prog.hz
         /\ SumFunction(FirstTimes) \in Nat
         /\ SumFunction(FirstTimes) = SumFunctionOnSet(FirstTimes, 0 .. prog.n - 1)
         /\ SumFunction(FirstTimes) <= prog.n * (Last + prog.from * prog.hz)
  <1> DEFINE n == prog.n
             S == 0 .. n - 1
             hi == Last + prog.from * prog.hz
  <1>1. /\ n \in Nat \ {0} /\ prog.hz \in Nat /\ prog.from \in Nat /\ Last \in Nat
        /\ Boot \in Nat /\ n * prog.hz <= Boot
    BY Sizes, LastReceipt
  <1>2. hi \in Nat
    BY <1>1
  <1>3. IsFiniteSet(S) /\ Cardinality(S) = n
    BY <1>1, FirstSlots
  <1>4. DOMAIN FirstTimes = S
    BY DEF FirstTimes
  <1>5. ASSUME NEW i \in S
        PROVE  FirstTimes[i] \in Int /\ 0 <= FirstTimes[i] /\ FirstTimes[i] <= hi
    <2>1. i + 1 \in 1 .. pkt_cnt /\ i \in Nat /\ i + 1 <= n
      BY <1>1, <1>5
    <2>2. log[i + 1] \in Nat /\ Boot <= log[i + 1] /\ log[i + 1] <= Last
      BY <2>1, LastReceipt DEF ClockInv
    <2>3. FirstTimes[i] = log[i + 1] - (i + 1 - prog.from) * prog.hz
      BY <1>5 DEF FirstTimes
    <2>4. (i + 1 - prog.from) * prog.hz = (i + 1) * prog.hz - prog.from * prog.hz
      BY <1>1, <2>1
    <2>5. /\ (i + 1) * prog.hz \in Nat /\ prog.from * prog.hz \in Nat
          /\ (i + 1) * prog.hz <= n * prog.hz /\ n * prog.hz \in Nat
      BY <1>1, <2>1
    <2> QED BY <1>1, <2>2, <2>3, <2>4, <2>5
  <1> DEFINE total == SumFunctionOnSet(FirstTimes, S)
  <1>6. 0 * Cardinality(S) <= total /\ total <= hi * Cardinality(S)
    <2> DEFINE lo == 0
    <2>1. /\ lo \in Int /\ hi \in Int
          /\ \A i \in S : FirstTimes[i] \in Int /\ lo <= FirstTimes[i] /\ FirstTimes[i] <= hi
      BY <1>2, <1>5
    <2> HIDE DEF S, hi, lo
    <2>2. lo * Cardinality(S) <= total /\ total <= hi * Cardinality(S)
      BY <1>3, <2>1, SumBounds
    <2> QED BY <2>2 DEF lo
  <1>7. total \in Int
    <2> HIDE DEF S
    <2> QED BY <1>3, <1>5, SumType
  <1> HIDE DEF total, hi, S
  <1>8. total \in Nat /\ total <= n * hi
    BY <1>1, <1>2, <1>3, <1>6, <1>7
  <1>9. SumFunction(FirstTimes) = total
    BY <1>4 DEF SumFunction, total
  <1> USE DEF S, hi
  <1>10. \A i \in S : FirstTimes[i] \in Nat /\ FirstTimes[i] <= hi
    BY <1>5
  <1> QED BY <1>3, <1>4, <1>8, <1>9, <1>10 DEF total

FirstTimesFit ==
  RingInv /\ ClockInv /\ pkt_cnt = prog.n =>
    /\ SumFunction(FirstTimes) \in Nat
    /\ SumFunction(FirstTimes) <= prog.n * (Last + prog.from * prog.hz)

FirstIs ==
  ea = SumFunction(FirstTimes) \div prog.n + (prog.n + 1) * prog.hz

\* The sum the code takes over the slots of the ring is the one over the log.
LEMMA FirstEstimateIs ==
  ASSUME RingInv, RingInv', ClockInv', WindowFits',
         FirstTimesFit', NEW t \in Nat, Receive(t), FirstEstimate(t), ~prog.trains
  PROVE  FirstIs'
  <1> DEFINE n == prog.n
             f == [i \in 0 .. prog.n - 1 |->
                     arr_timestamp'[i].hb_timestamp
                       - (arr_timestamp'[i].heartbeat_id - prog.from) * prog.hz]
             sum == SumFunction(FirstTimes)'
  <1>1. prog' = prog /\ pkt_cnt' = n /\ Last' = t
    BY LogGrows DEF FirstEstimate
  <1>2. /\ n \in Nat \ {0} /\ prog.ring \in Nat \ {0} /\ n <= prog.ring
        /\ prog.hz \in Nat /\ prog.from \in Nat /\ WORD \in Nat \ {0}
    BY Sizes
  <1>3. ea' = ((SumFunction(f) % WORD) \div n + (n + 1) * prog.hz) % WORD
    BY DEF FirstEstimate
  <1>4. f = FirstTimes'
    <2>1. ASSUME NEW k \in 1 .. n
          PROVE  f[k - 1] = log'[k] - (k - prog.from) * prog.hz
      <3>1. k \in 1 .. pkt_cnt' /\ pkt_cnt' - k < prog.ring
            /\ k - 1 \in 0 .. prog.ring - 1 /\ k - 1 \in 0 .. n - 1
        BY <1>1, <1>2, <2>1
      <3>2. arr_timestamp'[(k - 1) % prog.ring] =
              [heartbeat_id |-> k, hb_timestamp |-> log'[k]]
        BY <1>1, <3>1 DEF RingInv, RingPlaces
      <3>3. (k - 1) % prog.ring = k - 1
        BY <1>2, <3>1, FirstRound
      <3> DEFINE a == arr_timestamp'[k - 1].hb_timestamp
                 b == arr_timestamp'[k - 1].heartbeat_id
      <3>4. a = log'[k] /\ b = k
        BY <3>2, <3>3
      <3>5. f[k - 1] = a - (b - prog.from) * prog.hz
        BY <3>1
      <3> HIDE DEF f, a, b
      <3> QED BY <3>4, <3>5
    <2>2. FirstTimes' = [i \in 0 .. n - 1 |-> log'[i + 1] - (i + 1 - prog.from) * prog.hz]
      BY <1>1 DEF FirstTimes
    <2> HIDE DEF n
    <2>3. DOMAIN f = 0 .. n - 1 /\ f = [i \in 0 .. n - 1 |-> f[i]]
      BY DEF n
    <2> HIDE DEF f
    <2>4. ASSUME NEW i \in 0 .. n - 1
          PROVE  f[i] = log'[i + 1] - (i + 1 - prog.from) * prog.hz
      <3>1. i + 1 \in 1 .. n /\ (i + 1) - 1 = i
        BY <1>2, <2>4 DEF n
      <3>2. f[(i + 1) - 1] = log'[i + 1] - (i + 1 - prog.from) * prog.hz
        BY <1>2, <2>1, <3>1
      <3> QED BY <3>1, <3>2, Zenon
    <2> QED BY <2>2, <2>3, <2>4
  <1> HIDE DEF f
  <1>5. sum \in Nat /\ sum <= n * (t + prog.from * prog.hz)
    BY <1>1 DEF FirstTimesFit
  <1>6. n * (t + (n + 1 + prog.from) * prog.hz) < WORD
    BY <1>1 DEF WindowFits
  <1>7. ea' = ((sum % WORD) \div n + (n + 1) * prog.hz) % WORD
    BY <1>3, <1>4
  <1> DEFINE a == t + prog.from * prog.hz
             b == (n + 1) * prog.hz
             x == sum \div n
  <1>8. a \in Nat /\ b \in Nat /\ a + b = t + (n + 1 + prog.from) * prog.hz
    <2>1. (n + 1 + prog.from) * prog.hz = (n + 1) * prog.hz + prog.from * prog.hz
      BY <1>2
    <2>2. (n + 1) * prog.hz \in Nat /\ prog.from * prog.hz \in Nat
      BY <1>2
    <2> QED BY <2>1, <2>2
  <1> HIDE DEF sum
  <1>9. n * a \in Nat /\ n * a <= n * (a + b) /\ n * (a + b) \in Nat
    <2> HIDE DEF a, b, n
    <2> QED BY <1>2, <1>8 DEF n
  <1>10. n * (a + b) < WORD /\ sum <= n * a
    BY <1>5, <1>6, <1>8
  <1> HIDE DEF a, b
  <1>11. sum \in 0 .. WORD - 1
    BY <1>2, <1>5, <1>9, <1>10
  <1>12. sum % WORD = sum
    BY <1>2, <1>11, SmallMod
  <1>13. x \in Nat /\ n * x <= sum
    BY <1>2, <1>5
  <1> HIDE DEF x
  <1>14. n * x + n * b <= n * a + n * b /\ n * (x + b) = n * x + n * b
         /\ n * (a + b) = n * a + n * b /\ n * x \in Nat /\ n * b \in Nat
    BY <1>2, <1>5, <1>8, <1>9, <1>10, <1>13
  <1>15. n * (x + b) < WORD /\ x + b \in Nat
    BY <1>2, <1>8, <1>9, <1>10, <1>13, <1>14
  <1>16. x + b < WORD
    <2> DEFINE y == x + b
    <2>1. y \in Nat /\ n * y < WORD
      BY <1>15
    <2> HIDE DEF y
    <2>2. y < WORD
      BY <1>2, <2>1, MultipleBounds
    <2> QED BY <2>2 DEF y
  <1>17. (x + b) % WORD = x + b
    <2> DEFINE y == x + b
    <2>1. y \in 0 .. WORD - 1
      BY <1>2, <1>15, <1>16
    <2> HIDE DEF y
    <2>2. y % WORD = y
      BY <1>2, <2>1, SmallMod
    <2> QED BY <2>2 DEF y
  <1>18. ea' = x + b
    BY <1>7, <1>12, <1>17 DEF x, b
  <1> QED BY <1>1, <1>18 DEF FirstIs, x, b, sum

-----------------------------------------------------------------------------
(***************************************************************************)
(* Every later estimate.                                                   *)
(***************************************************************************)

\* What the receipt moves the estimate by: the distance from the receipt that
\* leaves the window, divided and cut.
LEMMA MovedIs ==
  ASSUME RingInv, ClockInv, RingInv', WindowFits', ea \in Int,
         NEW t \in Nat, Last <= t, Receive(t), pkt_cnt >= prog.n, prog.average,
         NEW oldest, oldest = log[pkt_cnt - prog.n + 1]
  PROVE  /\ oldest \in Nat /\ t - oldest \in Nat /\ base' = base
         /\ ea + (t - oldest) \div prog.n \in 0 .. WORD - 1 =>
              ea' = ea + (t - oldest) \div prog.n
  <1>1. /\ prog' = prog /\ Last' = t /\ pkt_cnt \in Nat /\ WORD \in Nat \ {0}
        /\ prog.n \in Nat \ {0} /\ prog.hz \in Nat /\ prog.from \in Nat
    BY LogGrows, Sizes
  <1>2. pkt_cnt - prog.n + 1 \in 1 .. pkt_cnt
    BY <1>1
  <1>3. oldest \in Nat /\ oldest <= Last /\ Last \in Nat
    BY <1>2, LastReceipt DEF ClockInv
  <1>4. MovedEstimate(t) /\ Evicted = oldest
    BY WhichEstimate, EvictedIsOldest
  <1>5. ea' = (ea + ((t - oldest) % WORD) \div prog.n) % WORD /\ base' = base
    BY <1>4 DEF MovedEstimate, MovedEa
  <1>6. t < WORD
    <2> DEFINE x == t + (prog.n + 1 + prog.from) * prog.hz
    <2>1. x \in Nat /\ t <= x
      BY <1>1
    <2>2. prog.n * x < WORD
      BY <1>1 DEF WindowFits
    <2> HIDE DEF x
    <2>3. x < WORD
      BY <1>1, <2>1, <2>2, MultipleBounds
    <2> QED BY <1>1, <2>1, <2>3
  <1>7. (t - oldest) % WORD = t - oldest
    <2> DEFINE d == t - oldest
    <2>1. d \in 0 .. WORD - 1
      BY <1>1, <1>3, <1>6
    <2> HIDE DEF d
    <2>2. d % WORD = d
      BY <1>1, <2>1, SmallMod
    <2> QED BY <2>2 DEF d
  <1> DEFINE y == ea + (t - oldest) \div prog.n
  <1>8. ea' = y % WORD
    BY <1>5, <1>7
  <1>9. t - oldest \in Nat
    BY <1>3
  <1> HIDE DEF y
  <1>10. y \in 0 .. WORD - 1 => ea' = y
    BY <1>1, <1>8, SmallMod
  <1> QED BY <1>3, <1>5, <1>9, <1>10 DEF y

-----------------------------------------------------------------------------
(***************************************************************************)
(* Regular heartbeats.                                                     *)
(***************************************************************************)

RegularInv ==
  /\ irregular \in Nat
  /\ irregular = 0 => \A k \in 1 .. pkt_cnt : log[k] = Boot + k * prog.period

NextInv == RegularInv /\ EstimateIsNext

LEMMA RegularLast ==
  ASSUME RingInv, RegularInv, irregular = 0
  PROVE  Last = Boot + pkt_cnt * prog.period
  <1>1. /\ pkt_cnt \in Nat /\ prog.period \in Nat /\ Boot \in Nat
        /\ pkt_cnt = 0 => Last = Boot
        /\ pkt_cnt > 0 => Last = log[pkt_cnt]
    BY LastReceipt, Sizes
  <1>2. CASE pkt_cnt = 0
    BY <1>1, <1>2
  <1>3. CASE pkt_cnt > 0
    <2>1. pkt_cnt \in 1 .. pkt_cnt
      BY <1>1, <1>3
    <2> QED BY <1>1, <1>3, <2>1 DEF RegularInv
  <1> QED BY <1>1, <1>2, <1>3

\* A regular interval, or the count of irregular ones is positive from here on.
LEMMA RegularReceive ==
  ASSUME RingInv, RegularInv, NEW t \in Nat, Receive(t),
         \/ t = Last + prog.period /\ irregular' = irregular
         \/ irregular' = irregular + 1
  PROVE  /\ RegularInv'
         /\ irregular' = 0 => irregular = 0 /\ t = Boot + (pkt_cnt + 1) * prog.period
  <1>1. /\ prog' = prog /\ pkt_cnt' = pkt_cnt + 1 /\ log'[pkt_cnt + 1] = t
        /\ \A k \in 1 .. pkt_cnt : log'[k] = log[k]
        /\ pkt_cnt \in Nat /\ prog.period \in Nat /\ Boot \in Nat
    BY LogGrows, Sizes
  <1>2. irregular \in Nat
    BY DEF RegularInv
  <1>3. irregular' \in Nat
    BY <1>2
  <1>4. ASSUME irregular' = 0
        PROVE  irregular = 0 /\ t = Boot + (pkt_cnt + 1) * prog.period
    <2>1. irregular = 0 /\ t = Last + prog.period
      BY <1>2, <1>4
    <2>2. Last = Boot + pkt_cnt * prog.period
      BY <2>1, RegularLast
    <2>3. (pkt_cnt + 1) * prog.period = pkt_cnt * prog.period + prog.period
          /\ pkt_cnt * prog.period \in Nat
      BY <1>1
    <2> QED BY <1>1, <2>1, <2>2, <2>3
  <1>5. ASSUME irregular' = 0, NEW k \in 1 .. pkt_cnt'
        PROVE  log'[k] = Boot + k * prog'.period
    <2>1. irregular = 0 /\ t = Boot + (pkt_cnt + 1) * prog.period
      BY <1>4, <1>5
    <2>2. CASE k = pkt_cnt + 1
      BY <1>1, <2>1, <2>2
    <2>3. CASE k \in 1 .. pkt_cnt
      BY <1>1, <2>1, <2>3 DEF RegularInv
    <2> QED BY <1>1, <1>5, <2>2, <2>3
  <1> QED BY <1>3, <1>4, <1>5 DEF RegularInv

\* After regular heartbeats the first estimate is the next receipt.
LEMMA FirstIsNext ==
  ASSUME RingInv, RingInv', ClockInv', WindowFits', FirstTimesFit', NEW t \in Nat,
         Receive(t), FirstEstimate(t), ~prog.trains, prog.hz = prog.period, prog.from = 0,
         \A k \in 1 .. pkt_cnt' : log'[k] = Boot + k * prog.period
  PROVE  ea' = t + prog.period
  <1> DEFINE n == prog.n
             S == 0 .. n - 1
             f == FirstTimes'
  <1>1. /\ prog' = prog /\ pkt_cnt' = n /\ pkt_cnt' = pkt_cnt + 1 /\ Last' = t
        /\ log'[pkt_cnt + 1] = t
    BY LogGrows DEF FirstEstimate
  <1>2. n \in Nat \ {0} /\ prog.hz \in Nat /\ Boot \in Nat /\ pkt_cnt \in Nat
    BY Sizes
  <1>3. IsFiniteSet(S) /\ Cardinality(S) = n
    BY <1>2, FirstSlots
  <1>4. ASSUME NEW i \in S PROVE f[i] = Boot
    <2>1. i + 1 \in 1 .. pkt_cnt' /\ i + 1 \in Nat
      BY <1>1, <1>2, <1>4
    <2>2. log'[i + 1] = Boot + (i + 1) * prog.hz
      BY <2>1
    <2>3. f[i] = log'[i + 1] - (i + 1 - prog.from) * prog.hz
      BY <1>1, <1>4 DEF FirstTimes
    <2>4. (i + 1 - prog.from) * prog.hz = (i + 1) * prog.hz /\ (i + 1) * prog.hz \in Nat
      BY <1>2, <2>1
    <2> QED BY <1>2, <2>2, <2>3, <2>4
  <1>5. DOMAIN f = S
    BY <1>1 DEF FirstTimes
  <1>6. ea' = SumFunction(f) \div n + (n + 1) * prog.hz
    BY <1>1, FirstEstimateIs DEF FirstIs
  <1> HIDE DEF f, S
  <1>7. SumFunctionOnSet(f, S) = Boot * n
    BY <1>2, <1>3, <1>4, SumConstant
  <1>8. SumFunction(f) = Boot * n
    BY <1>5, <1>7 DEF SumFunction
  <1>9. (Boot * n) \div n = Boot
    BY <1>2
  <1>10. t = Boot + n * prog.period
    <2>1. pkt_cnt + 1 \in 1 .. pkt_cnt' /\ pkt_cnt + 1 = n
      BY <1>1, <1>2
    <2> QED BY <1>1, <2>1
  <1>11. (n + 1) * prog.hz = n * prog.hz + prog.hz /\ n * prog.hz \in Nat
    BY <1>2
  <1> HIDE DEF n
  <1>12. ea' = Boot + (n + 1) * prog.hz
    BY <1>6, <1>8, <1>9
  <1> QED BY <1>2, <1>10, <1>11, <1>12

\* And every later one moves by one period.
LEMMA MovedIsNext ==
  ASSUME RingInv, ClockInv, RingInv', WindowFits', NEW t \in Nat, Last <= t, Receive(t),
         pkt_cnt >= prog.n, prog.average, prog.hz = prog.period, prog.from = 0,
         \A k \in 1 .. pkt_cnt : log[k] = Boot + k * prog.period,
         t = Last + prog.period, Last = Boot + pkt_cnt * prog.period, ea = t
  PROVE  ea' = t + prog.period
  <1> DEFINE n == prog.n
             h == prog.hz
             oldest == log[pkt_cnt - n + 1]
  <1>1. /\ n \in Nat \ {0} /\ h \in Nat /\ Boot \in Nat /\ pkt_cnt \in Nat
        /\ prog' = prog /\ Last' = t /\ WORD \in Nat \ {0}
    BY Sizes, LogGrows
  <1>2. pkt_cnt - n + 1 \in 1 .. pkt_cnt
    BY <1>1
  <1>3. oldest = Boot + (pkt_cnt - n + 1) * h
    BY <1>2
  <1>4. /\ (pkt_cnt - n + 1) * h = pkt_cnt * h - n * h + h
        /\ pkt_cnt * h \in Nat /\ n * h \in Nat
    BY <1>1
  <1>5. t - oldest = n * h
    <2> HIDE DEF oldest, n, h
    <2>1. t = Boot + pkt_cnt * h + h
      BY DEF h
    <2> QED BY <1>1, <1>3, <1>4, <2>1
  <1>6. (n * h) \div n = h
    BY <1>1
  <1>7. t + h \in 0 .. WORD - 1
    <2> DEFINE x == t + (n + 1) * h
    <2>1. (n + 1) * h = n * h + h
      BY <1>1
    <2>2. x \in Nat /\ t + h <= x /\ t + h \in Nat
      BY <1>1, <1>4, <2>1
    <2>3. n * x < WORD
      <3>1. n * (t + (n + 1 + 0) * h) < WORD
        BY <1>1 DEF WindowFits
      <3>2. n + 1 + 0 = n + 1
        BY <1>1
      <3> QED BY <3>1, <3>2
    <2> HIDE DEF x, n
    <2>4. x < WORD
      BY <1>1, <2>2, <2>3, MultipleBounds
    <2> QED BY <1>1, <2>2, <2>4
  <1>8. ea \in Int
    BY <1>1
  <1> HIDE DEF oldest
  <1>9. ea + (t - oldest) \div prog.n \in 0 .. WORD - 1 =>
          ea' = ea + (t - oldest) \div prog.n
    BY <1>8, MovedIs DEF oldest
  <1> QED BY <1>5, <1>6, <1>7, <1>9

LEMMA NextReceive ==
  ASSUME RingInv, ClockInv, NextInv, RingInv', ClockInv', WindowFits', FirstTimesFit',
         NEW t \in Nat, Last <= t, Receive(t),
         \/ t = Last + prog.period /\ irregular' = irregular
         \/ irregular' = irregular + 1
  PROVE  NextInv'
  <1>1. /\ RegularInv'
        /\ irregular' = 0 => irregular = 0 /\ t = Boot + (pkt_cnt + 1) * prog.period
    BY RegularReceive DEF NextInv
  <1>2. /\ prog' = prog /\ pkt_cnt' = pkt_cnt + 1 /\ Last' = t
        /\ prog.n \in Nat \ {0} /\ pkt_cnt \in Nat /\ irregular \in Nat
        /\ prog.trains => ~prog.average
    BY LogGrows, Sizes DEF NextInv, RegularInv
  <1>3. ASSUME irregular' = 0, pkt_cnt' >= prog.n, prog.hz = prog.period, prog.from = 0,
               prog.average, ~prog.learns
        PROVE  ea' = t + prog.period
    <2>1. irregular = 0 /\ t = Last + prog.period
      BY <1>1, <1>2, <1>3
    <2>2. CASE pkt_cnt' = prog.n
      <3>1. ~EarlyEstimate(t) /\ ~MovedEstimate(t)
        BY <1>2, <1>3, <2>2 DEF EarlyEstimate, MovedEstimate
      <3>2. FirstEstimate(t)
        BY <3>1, WhichEstimate
      <3>3. \A k \in 1 .. pkt_cnt' : log'[k] = Boot + k * prog.period
        BY <1>1, <1>2, <1>3 DEF RegularInv
      <3> QED BY <1>2, <1>3, <3>2, <3>3, FirstIsNext
    <2>3. CASE pkt_cnt' > prog.n
      <3>1. pkt_cnt >= prog.n
        BY <1>2, <2>3
      <3>2. \A k \in 1 .. pkt_cnt : log[k] = Boot + k * prog.period
        BY <2>1 DEF NextInv, RegularInv
      <3>3. ea = t
        BY <1>3, <2>1, <3>1 DEF NextInv, EstimateIsNext
      <3>4. Last = Boot + pkt_cnt * prog.period
        BY <2>1, RegularLast DEF NextInv
      <3> QED BY <1>3, <2>1, <3>1, <3>2, <3>3, <3>4, MovedIsNext
    <2> QED BY <1>2, <1>3, <2>2, <2>3
  <1>4. EstimateIsNext'
    BY <1>2, <1>3 DEF EstimateIsNext
  <1> QED BY <1>1, <1>4 DEF NextInv

LEMMA NextStep ==
  /\ RingInv /\ ClockInv /\ NextInv /\ RingInv' /\ ClockInv' /\ WindowFits' /\ FirstTimesFit'
  /\ [AveragingNext]_averagingVars
  => NextInv'
  <1> SUFFICES ASSUME RingInv, ClockInv, NextInv, RingInv', ClockInv', WindowFits',
                      FirstTimesFit', [AveragingNext]_averagingVars
               PROVE  NextInv'
    OBVIOUS
  <1>1. CASE Heartbeat
    <2>1. CASE Receive(Last + prog.period) /\ UNCHANGED irregular
      <3> DEFINE t == Last + prog.period
      <3>1. t \in Nat /\ Last <= t
        BY ReceiptIsNext DEF NextReceipt
      <3>2. Receive(t) /\ t = Last + prog.period /\ irregular' = irregular
        BY <2>1
      <3> HIDE DEF t
      <3> QED BY <3>1, <3>2, NextReceive
    <2>2. CASE /\ \E gap \in Gaps : Receive(Last + (gap * prog.period) \div 10)
               /\ irregular' = irregular + 1
      <3>1. PICK gap \in Gaps : Receive(Last + (gap * prog.period) \div 10)
        BY <2>2
      <3> DEFINE t == Last + (gap * prog.period) \div 10
      <3>2. t \in Nat /\ Last <= t
        BY ReceiptIsNext DEF NextReceipt
      <3>3. Receive(t)
        BY <3>1
      <3> HIDE DEF t
      <3> QED BY <2>2, <3>2, <3>3, NextReceive
    <2> QED BY <1>1, <2>1, <2>2 DEF Heartbeat
  <1>2. CASE timer1_cb
    BY <1>2 DEF timer1_cb, ringVars, historyVars, NextInv, RegularInv, EstimateIsNext, Last
  <1>3. CASE UNCHANGED averagingVars
    BY <1>3 DEF averagingVars, ringVars, historyVars, NextInv, RegularInv, EstimateIsNext, Last
  <1> QED BY <1>1, <1>2, <1>3 DEF AveragingNext

\* Regular heartbeats are expected exactly when they come, in every copy whose
\* interval is its sender's, for any window, ring, period and number of them
\* (the estimate ea in the receive loop).
THEOREM RegularIsExpected == AveragingSpec => []EstimateIsNext
  <1>1. RingInv' /\ ClockInv' => WindowFits'
    BY ReadingsFit, PTL
  <1>2. FirstTimesFit
    BY FirstTimesBounds DEF FirstTimesFit
  <1>3. FirstTimesFit'
    BY <1>2, PTL
  <1>4. AveragingInit => RingInv /\ ClockInv /\ NextInv
    <2>1. AveragingInit => NextInv
      <3> SUFFICES ASSUME AveragingInit PROVE NextInv
        OBVIOUS
      <3>1. pkt_cnt = 0 /\ irregular = 0 /\ prog.n \in Nat \ {0}
        BY ProgramSizes DEF AveragingInit
      <3> QED BY <3>1 DEF NextInv, RegularInv, EstimateIsNext
    <2> QED BY <2>1, RingInit, ClockInit
  <1>5. (RingInv /\ ClockInv /\ NextInv) /\ [AveragingNext]_averagingVars
        => (RingInv /\ ClockInv /\ NextInv)'
    BY <1>1, <1>3, RingStep, ClockStep, NextStep
  <1>6. NextInv => EstimateIsNext
    BY DEF NextInv
  <1> QED BY <1>4, <1>5, <1>6, PTL DEF AveragingSpec

-----------------------------------------------------------------------------
(***************************************************************************)
(* The estimate and the mean over the window.  That the estimate does not  *)
(* wrap needs a bound on base, which the first estimate sets and nothing   *)
(* changes.                                                                *)
(***************************************************************************)

Allowance == prog.n * ((prog.n + 1 + prog.from) * prog.hz)

BaseFits == base \in Int /\ base <= Allowance

TrackInv ==
  /\ pkt_cnt >= prog.n /\ prog.average => BaseFits
  /\ EstimateTracksWindow

RangeSum(f, a, b) == SumFunctionOnSet(f, a .. b)

LEMMA RangeSlides ==
  ASSUME NEW a \in Int, NEW b \in Int, a <= b, NEW f, NEW g,
         \A i \in a .. b : f[i] \in Int,
         \A i \in a + 1 .. b : g[i] = f[i],
         NEW c \in Int, c = a + 1, NEW d \in Int, d = b + 1, g[d] \in Int
  PROVE  RangeSum(g, c, d) = RangeSum(f, a, b) - f[a] + g[d]
  <1>1. SumFunctionOnSet(g, a + 1 .. b + 1)
          = SumFunctionOnSet(f, a .. b) - f[a] + g[b + 1]
    BY WindowSlides
  <1> QED BY <1>1, Zenon DEF RangeSum

LEMMA WindowTyped ==
  ASSUME RingInv, ClockInv, pkt_cnt >= prog.n
  PROVE  /\ WindowSum(log, pkt_cnt) \in Int
         /\ WindowSum(log, pkt_cnt) <= prog.n * Last
  <1> DEFINE S == pkt_cnt - prog.n + 1 .. pkt_cnt
             hi == Last
             lo == 0
  <1>1. prog.n \in Nat \ {0} /\ pkt_cnt \in Nat /\ Last \in Nat
    BY Sizes, LastReceipt
  <1>2. IsFiniteSet(S) /\ Cardinality(S) = prog.n
    <2> DEFINE a == pkt_cnt - prog.n + 1
    <2>1. a \in Int /\ pkt_cnt \in Int /\ ~(a > pkt_cnt) /\ pkt_cnt - a + 1 = prog.n
      BY <1>1
    <2> HIDE DEF a
    <2>2. IsFiniteSet(a .. pkt_cnt) /\ Cardinality(a .. pkt_cnt) = pkt_cnt - a + 1
      BY <2>1, FS_Interval
    <2> QED BY <2>1, <2>2 DEF a
  <1>3. ASSUME NEW k \in S PROVE log[k] \in Int /\ lo <= log[k] /\ log[k] <= hi
    <2>1. k \in 1 .. pkt_cnt
      BY <1>1, <1>3
    <2> QED BY <2>1, LastReceipt DEF ClockInv
  <1>4. lo \in Int /\ hi \in Int
    BY <1>1
  <1> HIDE DEF S, lo, hi
  <1>5. SumFunctionOnSet(log, S) \in Int
    BY <1>2, <1>3, SumType
  <1>6. SumFunctionOnSet(log, S) <= hi * Cardinality(S)
    BY <1>2, <1>3, <1>4, SumBounds
  <1>7. hi * Cardinality(S) = prog.n * hi
    BY <1>1, <1>2, <1>4
  <1>8. WindowSum(log, pkt_cnt) = SumFunctionOnSet(log, S)
    BY DEF WindowSum, S
  <1> QED BY <1>5, <1>6, <1>7, <1>8 DEF hi

\* The window follows the receipt.
LEMMA WindowMoves ==
  ASSUME RingInv, NEW t \in Nat, Receive(t), pkt_cnt >= prog.n
  PROVE  WindowSum(log, pkt_cnt)'
           = WindowSum(log, pkt_cnt) - log[pkt_cnt - prog.n + 1] + t
  <1> DEFINE a == pkt_cnt - prog.n + 1
             b == pkt_cnt
             c == a + 1
             d == b + 1
             g == log'
  <1>1. /\ prog.n \in Nat \ {0} /\ pkt_cnt \in Nat /\ prog' = prog /\ pkt_cnt' = pkt_cnt + 1
        /\ log'[pkt_cnt + 1] = t /\ \A k \in 1 .. pkt_cnt : log'[k] = log[k]
        /\ \A k \in 1 .. pkt_cnt : log[k] \in Nat
    BY Sizes, LastReceipt, LogGrows
  <1>2. a \in Int /\ b \in Int /\ a <= b /\ c \in Int /\ d \in Int
    BY <1>1
  <1>3. (\A i \in a .. b : log[i] \in Int) /\ (\A i \in a + 1 .. b : g[i] = log[i])
        /\ g[d] \in Int
    BY <1>1
  <1>4. WindowSum(log, pkt_cnt)' = RangeSum(g, c, d) /\ g[d] = t
    <2>1. pkt_cnt' - prog'.n + 1 = c /\ d = pkt_cnt'
      BY <1>1
    <2> QED BY <1>1, <2>1 DEF WindowSum, RangeSum
  <1>5. WindowSum(log, pkt_cnt) = RangeSum(log, a, b)
    BY DEF WindowSum, RangeSum
  <1>6. c = a + 1 /\ d = b + 1
    OBVIOUS
  <1> HIDE DEF a, b, c, d, g
  <1>7. RangeSum(g, c, d) = RangeSum(log, a, b) - log[a] + g[d]
    BY <1>2, <1>3, <1>6, RangeSlides, Z3
  <1> QED BY <1>3, <1>4, <1>5, <1>7 DEF a

\* The arithmetic of one move: the remainder of the division is what the
\* estimate falls behind by.
LEMMA MoveFallsBehind ==
  ASSUME NEW n \in Nat \ {0}, NEW d \in Nat, NEW e \in Int, NEW w \in Int, NEW b \in Int,
         NEW late \in Nat, 0 <= w + b - n * e, w + b - n * e <= n * late
  PROVE  LET moved == e + d \div n
         IN /\ moved \in Int
            /\ n * moved <= w + d + b
            /\ 0 <= w + d + b - n * moved
            /\ w + d + b - n * moved <= n * (late + 1)
            /\ e <= moved
  <1> DEFINE q == d \div n
             r == d % n
  <1>1. q \in Nat /\ r \in 0 .. n - 1 /\ d = n * q + r
    <2>1. q \in Nat
      OBVIOUS
    <2> QED BY <2>1, QuotientAndRest
  <1> HIDE DEF q, r
  <1>2. n * (e + q) = n * e + n * q /\ n * e \in Int /\ n * q \in Nat
        /\ n * (late + 1) = n * late + n /\ n * late \in Nat /\ e + q \in Int
    BY <1>1
  <1>3. w + d + b - n * (e + q) = (w + b - n * e) + r
    BY <1>1, <1>2
  <1>4. 0 <= (w + b - n * e) + r /\ (w + b - n * e) + r <= n * (late + 1)
    BY <1>1, <1>2
  <1>5. n * (e + q) <= w + d + b
    BY <1>1, <1>2, <1>3, <1>4
  <1>6. e <= e + q
    BY <1>1
  <1> QED BY <1>2, <1>3, <1>4, <1>5, <1>6 DEF q

\* The window that has just filled holds the receipt that filled it.
LEMMA FirstWindow ==
  ASSUME RingInv, ClockInv, NEW t \in Nat, Receive(t), pkt_cnt' = prog.n, Last <= t
  PROVE  /\ WindowSum(log, pkt_cnt)' = SumFunctionOnSet(log', 1 .. prog.n)
         /\ WindowSum(log, pkt_cnt)' \in Int
         /\ t <= WindowSum(log, pkt_cnt)'
  <1> DEFINE b == pkt_cnt
             g == log'
             S == 1 .. b
             lo == 0
  <1>1. /\ prog.n \in Nat \ {0} /\ pkt_cnt \in Nat /\ prog' = prog /\ pkt_cnt' = pkt_cnt + 1
        /\ log'[pkt_cnt + 1] = t /\ \A k \in 1 .. pkt_cnt : log'[k] = log[k]
        /\ \A k \in 1 .. pkt_cnt : log[k] \in Nat
    BY Sizes, LastReceipt, LogGrows
  <1>2. WindowSum(log, pkt_cnt)' = SumFunctionOnSet(g, 1 .. prog.n)
    <2>1. prog'.n - prog'.n + 1 = 1 /\ pkt_cnt' = prog'.n
      BY <1>1
    <2> QED BY <1>1, <2>1 DEF WindowSum
  <1>3. ASSUME NEW k \in S PROVE g[k] \in Int /\ lo <= g[k] /\ g[k] <= t
    <2>1. log[k] <= Last /\ log[k] \in Nat /\ log'[k] = log[k] /\ Last \in Nat
      BY <1>1, <1>3, LastReceipt DEF ClockInv
    <2> QED BY <2>1
  <1>4. IsFiniteSet(S) /\ Cardinality(S) \in Nat
    <2>1. IsFiniteSet(S)
      BY <1>1, FS_Interval
    <2> HIDE DEF S
    <2> QED BY <2>1, FS_CardinalityType
  <1>5. b \in Int /\ 1 <= b + 1 /\ lo \in Int /\ t \in Int /\ g[b + 1] = t /\ b + 1 = prog.n
    BY <1>1
  <1>6. \A k \in 1 .. b + 1 : g[k] \in Int
    <2> SUFFICES ASSUME NEW k \in 1 .. b + 1 PROVE g[k] \in Int
      OBVIOUS
    <2>1. k \in S \/ k = b + 1
      BY <1>1
    <2> HIDE DEF g, b, S
    <2> QED BY <1>3, <1>5, <2>1
  <1> DEFINE rest == SumFunctionOnSet(g, S)
  <1>7. rest \in Int /\ 0 <= rest
    <2> HIDE DEF S, g, b, lo
    <2>1. rest \in Int
      BY <1>3, <1>4, SumType
    <2>2. lo * Cardinality(S) <= rest
      BY <1>3, <1>4, <1>5, SumBounds
    <2>3. lo * Cardinality(S) = 0
      BY <1>4 DEF lo
    <2> QED BY <2>1, <2>2, <2>3
  <1>8. SumFunctionOnSet(g, 1 .. b + 1) = SumFunctionOnSet(g, 1 .. b) + g[b + 1]
    <2> HIDE DEF g, b
    <2>1. 1 \in Int
      OBVIOUS
    <2> QED BY <1>5, <1>6, <2>1, SumUpTo
  <1>9. SumFunctionOnSet(g, 1 .. prog.n) = rest + t
    <2> HIDE DEF g
    <2> QED BY <1>5, <1>8, Zenon
  <1> HIDE DEF rest
  <1>10. rest + t \in Int /\ t <= rest + t
    BY <1>7
  <1> QED BY <1>2, <1>9, <1>10

\* Chen's distance, times the window: n * h * ((n + 1) / 2 + from), doubled.
Chen == prog.hz * prog.n * ((prog.n + 1) + 2 * prog.from)

\* The sum of the shifted receipts and that of the receipts, doubled.
LEMMA FirstSum ==
  ASSUME RingInv, NEW t \in Nat, Receive(t), pkt_cnt' = prog.n
  PROVE  2 * SumFunctionOnSet(FirstTimes', 0 .. prog.n - 1)
           = 2 * SumFunctionOnSet(log', 1 .. prog.n)
               - prog.hz * (prog.n * (prog.n + 1) - 2 * prog.n * prog.from)
  <1> DEFINE n == prog.n
             f == FirstTimes'
             g == log'
  <1>1. /\ n \in Nat \ {0} /\ prog.hz \in Nat /\ prog.from \in Nat /\ pkt_cnt \in Nat
        /\ prog' = prog /\ pkt_cnt' = pkt_cnt + 1 /\ log'[pkt_cnt + 1] = t
        /\ \A k \in 1 .. pkt_cnt : log'[k] = log[k]
        /\ \A k \in 1 .. pkt_cnt : log[k] \in Nat
    BY Sizes, LastReceipt, LogGrows
  <1>2. \A k \in 1 .. n : g[k] \in Int
    BY <1>1
  <1>3. IsShifted(f, g, n, prog.hz, prog.from)
    BY <1>1 DEF FirstTimes, IsShifted
  <1>4. n \in Nat /\ prog.hz \in Int /\ prog.from \in Int
    BY <1>1
  <1> HIDE DEF n, f, g
  <1>5. 2 * SumFunctionOnSet(f, 0 .. n - 1)
          = 2 * SumFunctionOnSet(g, 1 .. n)
              - prog.hz * (n * (n + 1) - 2 * n * prog.from)
    BY <1>2, <1>3, <1>4, ShiftedSum
  <1> QED BY <1>5, Zenon DEF n, f, g

\* What the tracking invariant says of an estimate with the window's sum.
Tracks(sum) ==
  /\ 0 <= sum + base - prog.n * ea
  /\ sum + base - prog.n * ea <= prog.n * (pkt_cnt - prog.n)

ChenBase == 2 * base \in Chen - 2 * (prog.n - 1) .. Chen

TracksMeans ==
  EstimateTracksWindow <=>
    (pkt_cnt >= prog.n /\ prog.average =>
       Tracks(WindowSum(log, pkt_cnt)) /\ (~prog.learns => ChenBase))

LEMMA TracksIs == TracksMeans
  BY DEF TracksMeans, EstimateTracksWindow, Tracks, ChenBase, Chen

\* When the window fills nothing has been lost yet.
LEMMA FilledTracks ==
  ASSUME NEW n \in Nat \ {0}, NEW e \in Int, NEW w \in Int, NEW b, b = n * e - w
  PROVE  /\ b \in Int /\ 0 <= w + b - n * e /\ w + b - n * e <= n * (n - n)
  <1>1. n * e \in Int /\ n * (n - n) = 0
    OBVIOUS
  <1> QED BY <1>1

\* Bertier's early estimate is behind, so it never gets ahead of the mean.
LEMMA EarlyTracks ==
  ASSUME RingInv, ClockInv, EstimateType, NEW t \in Nat, Last <= t, Receive(t),
         EarlyEstimate(t), prog.learns, pkt_cnt' = prog.n
  PROVE  Tracks(WindowSum(log, pkt_cnt))' /\ BaseFits' /\ ea' \in Int
  <1> DEFINE n == prog.n
             w == WindowSum(log, pkt_cnt)'
             e == t \div n
  <1>1. /\ prog' = prog /\ pkt_cnt' = n /\ pkt_cnt + 1 = n
        /\ n \in Nat \ {0} /\ prog.hz \in Nat /\ prog.from \in Nat
    BY Sizes, LogGrows
  <1>2. ea' = e /\ base' = n * e - w
    <2>1. ea' = t \div n
      BY <1>1, EarlyIs
    <2>2. base' = n * ea' - WindowSum(log', n)
      BY <1>1 DEF EarlyEstimate
    <2>3. w = WindowSum(log', n)
      BY <1>1 DEF WindowSum
    <2> QED BY <2>1, <2>2, <2>3
  <1>3. w \in Int /\ t <= w
    BY FirstWindow
  <1>4. e \in Nat /\ n * e <= t /\ n * e \in Nat
    BY <1>1
  <1> HIDE DEF w, e
  <1>5. base' \in Int /\ base' <= 0
    BY <1>2, <1>3, <1>4
  <1>6. Allowance' \in Nat
    <2>1. (n + 1 + prog.from) * prog.hz \in Nat
      BY <1>1
    <2> QED BY <1>1, <2>1 DEF Allowance
  <1>7. 0 <= w + base' - n * ea' /\ w + base' - n * ea' <= n * (n - n)
    <2>1. e \in Int
      BY <1>4
    <2> HIDE DEF n
    <2> QED BY <1>1, <1>2, <1>3, <2>1, FilledTracks
  <1>8. Tracks(WindowSum(log, pkt_cnt))'
    BY <1>1, <1>7 DEF Tracks, w
  <1>9. BaseFits'
    BY <1>5, <1>6 DEF BaseFits
  <1> QED BY <1>2, <1>4, <1>8, <1>9

\* The arithmetic of the first estimate: what the division cuts off is all
\* that separates twice the base from Chen's distance.
LEMMA FirstBase ==
  ASSUME NEW n \in Nat \ {0}, NEW h \in Nat, NEW d \in Nat, NEW w \in Int, NEW s \in Int,
         2 * s = 2 * w - h * (n * (n + 1) - 2 * n * d)
  PROVE  LET b == n * (s \div n + (n + 1) * h) - w
             chen == h * n * ((n + 1) + 2 * d)
         IN /\ b \in Int
            /\ 2 * b \in chen - 2 * (n - 1) .. chen
            /\ b <= n * ((n + 1 + d) * h)
  <1> DEFINE x == s \div n
             r == s % n
             m == n * (n + 1) * h
             k == n * d * h
             b == n * (x + (n + 1) * h) - w
             chen == h * n * ((n + 1) + 2 * d)
  <1>1. x \in Int /\ r \in 0 .. n - 1 /\ s = n * x + r
    BY QuotientAndRest
  <1>2. m \in Nat /\ k \in Nat
    OBVIOUS
  <1>3. h * (n * (n + 1) - 2 * n * d) = m - 2 * k
    OBVIOUS
  <1>4. chen = m + 2 * k
    OBVIOUS
  <1>5. n * ((n + 1 + d) * h) = m + k
    OBVIOUS
  <1> HIDE DEF x, r
  <1>6. n * (x + (n + 1) * h) = n * x + m /\ n * x \in Int
    BY <1>1
  <1>7. b = s - r + m - w
    BY <1>1, <1>2, <1>6
  <1> HIDE DEF b, m, k, chen
  <1>8. b \in Int /\ 2 * b = m + 2 * k - 2 * r
    BY <1>1, <1>2, <1>3, <1>7
  <1>9. 2 * b \in chen - 2 * (n - 1) .. chen
    BY <1>1, <1>2, <1>4, <1>8
  <1>10. b <= m + k
    BY <1>1, <1>2, <1>8
  <1> QED BY <1>5, <1>8, <1>9, <1>10 DEF b, chen, x

LEMMA FirstTracks ==
  ASSUME RingInv, ClockInv, RingInv', ClockInv', WindowFits', FirstTimesFit',
         NEW t \in Nat, Last <= t, Receive(t), FirstEstimate(t), ~prog.trains
  PROVE  Tracks(WindowSum(log, pkt_cnt))' /\ BaseFits' /\ ChenBase' /\ ea' \in Int
  <1> DEFINE n == prog.n
             h == prog.hz
             d == prog.from
             w == WindowSum(log, pkt_cnt)'
             s == SumFunctionOnSet(FirstTimes', 0 .. n - 1)
             b == n * (s \div n + (n + 1) * h) - w
             chen == h * n * ((n + 1) + 2 * d)
  <1>1. /\ prog' = prog /\ pkt_cnt' = n
        /\ n \in Nat \ {0} /\ h \in Nat /\ d \in Nat
    BY Sizes, LogGrows DEF FirstEstimate
  <1>2. s = SumFunction(FirstTimes')
    <2>1. DOMAIN FirstTimes' = 0 .. n - 1
      BY <1>1 DEF FirstTimes
    <2> QED BY <2>1, Zenon DEF SumFunction
  <1>3. ea' = s \div n + (n + 1) * h
    BY <1>1, <1>2, FirstEstimateIs DEF FirstIs
  <1>4. base' = n * ea' - w
    <2>1. base' = n * ea' - WindowSum(log', n)
      BY DEF FirstEstimate
    <2>2. w = WindowSum(log', n)
      BY <1>1 DEF WindowSum
    <2> QED BY <2>1, <2>2
  <1>5. w \in Int /\ w = SumFunctionOnSet(log', 1 .. n)
    BY <1>1, FirstWindow
  <1>6. 2 * s = 2 * w - h * (n * (n + 1) - 2 * n * d)
    BY <1>1, <1>5, FirstSum
  <1>7. s \in Int
    BY <1>1, <1>2 DEF FirstTimesFit
  <1>8. ea' \in Int
    <2> HIDE DEF s
    <2>1. s \div n \in Int /\ (n + 1) * h \in Int
      BY <1>1, <1>7
    <2> QED BY <1>3, <2>1
  <1>9. base' = b
    BY <1>3, <1>4
  <1> HIDE DEF w, s, n, h, d
  <1>10. /\ b \in Int
         /\ 2 * b \in chen - 2 * (n - 1) .. chen
         /\ b <= n * ((n + 1 + d) * h)
    BY <1>1, <1>5, <1>6, <1>7, FirstBase
  <1> HIDE DEF b, chen
  <1>11. BaseFits'
    BY <1>1, <1>9, <1>10 DEF BaseFits, Allowance, n, h, d
  <1>12. ChenBase'
    BY <1>1, <1>9, <1>10 DEF ChenBase, Chen, chen, n, h, d
  <1>13. 0 <= w + base' - n * ea' /\ w + base' - n * ea' <= n * (n - n)
    BY <1>1, <1>4, <1>5, <1>8, FilledTracks
  <1>14. Tracks(WindowSum(log, pkt_cnt))'
    BY <1>1, <1>13 DEF Tracks, w, n
  <1> QED BY <1>8, <1>11, <1>12, <1>14

SumFits ==
  RingInv /\ ClockInv /\ pkt_cnt >= prog.n =>
    /\ WindowSum(log, pkt_cnt) \in Int
    /\ WindowSum(log, pkt_cnt) <= prog.n * Last

LEMMA MovedTracks ==
  ASSUME RingInv, ClockInv, EstimateType, TrackInv, RingInv', ClockInv', WindowFits', SumFits',
         NEW t \in Nat, Last <= t, Receive(t), pkt_cnt >= prog.n, prog.average
  PROVE  /\ Tracks(WindowSum(log, pkt_cnt))' /\ BaseFits' /\ base' = base
         /\ ea' = ea + (t - log[pkt_cnt - prog.n + 1]) \div prog.n
  <1> DEFINE n == prog.n
             w == WindowSum(log, pkt_cnt)
             v == WindowSum(log, pkt_cnt)'
             oldest == log[pkt_cnt - n + 1]
             d == t - oldest
             late == pkt_cnt - n
             more == (n + 1 + prog.from) * prog.hz
             moved == ea + d \div n
  <1>1. /\ prog' = prog /\ pkt_cnt' = pkt_cnt + 1 /\ Last' = t /\ WORD \in Nat \ {0}
        /\ n \in Nat \ {0} /\ prog.hz \in Nat /\ prog.from \in Nat /\ pkt_cnt \in Nat
    BY Sizes, LogGrows
  <1>2. ea \in Nat
    BY <1>1 DEF EstimateType
  <1>3. /\ oldest \in Nat /\ d \in Nat /\ base' = base
        /\ moved \in 0 .. WORD - 1 => ea' = moved
    <2> HIDE DEF oldest
    <2> QED BY <1>2, MovedIs DEF oldest
  <1>4. w \in Int
    BY WindowTyped
  <1>5. v = w - oldest + t
    BY WindowMoves
  <1>6. Tracks(w) /\ base \in Int /\ base <= n * more
    BY TracksIs DEF TracksMeans, TrackInv, BaseFits, Allowance
  <1>7. more \in Nat
    BY <1>1
  <1>8. v \in Int /\ v <= n * t
    BY <1>1 DEF SumFits
  <1>9. n * (t + more) < WORD
    BY <1>1 DEF WindowFits
  <1>10. late \in Nat /\ pkt_cnt' - n = late + 1
    BY <1>1
  <1>11. 0 <= w + base - n * ea /\ w + base - n * ea <= n * late
    BY <1>6 DEF Tracks
  <1> HIDE DEF n, w, v, oldest, d, late, more
  <1>12. /\ moved \in Int
         /\ n * moved <= w + d + base
         /\ 0 <= w + d + base - n * moved
         /\ w + d + base - n * moved <= n * (late + 1)
         /\ ea <= moved
    <2>1. ea \in Int
      BY <1>2
    <2> QED BY <1>1, <1>3, <1>4, <1>6, <1>10, <1>11, <2>1, MoveFallsBehind
  <1> HIDE DEF moved
  <1>13. w + d + base = v + base
    BY <1>3, <1>4, <1>5, <1>6 DEF d
  <1>14. moved \in 0 .. WORD - 1
    <2>1. moved \in Nat
      BY <1>2, <1>12
    <2>2. n * (t + more) = n * t + n * more /\ n * t \in Nat /\ n * more \in Nat
      BY <1>1, <1>7
    <2>3. n * moved \in Nat
      BY <1>1, <2>1
    <2>4. n * moved < WORD
      BY <1>1, <1>6, <1>8, <1>9, <1>12, <1>13, <2>2, <2>3
    <2>5. moved < WORD
      BY <1>1, <2>1, <2>4, MultipleBounds
    <2> QED BY <1>1, <2>1, <2>5
  <1>15. ea' = moved
    BY <1>3, <1>14
  <1>16. 0 <= v + base' - n * ea' /\ v + base' - n * ea' <= n * (late + 1)
    <2>1. v + base' = w + d + base
      BY <1>3, <1>4, <1>6, <1>8, <1>13
    <2> QED BY <1>1, <1>3, <1>4, <1>6, <1>8, <1>12, <1>15, <2>1
  <1>17. Tracks(WindowSum(log, pkt_cnt))'
    <2>1. prog'.n = n /\ pkt_cnt' - n = late + 1
      BY <1>1, <1>10 DEF n
    <2> QED BY <1>16, <2>1 DEF Tracks, v
  <1>18. BaseFits'
    BY <1>1, <1>3, <1>6 DEF BaseFits, Allowance, more, n
  <1> QED BY <1>3, <1>15, <1>17, <1>18 DEF moved, d, oldest, n

LEMMA TrackReceive ==
  ASSUME RingInv, ClockInv, EstimateType, TrackInv, RingInv', ClockInv', WindowFits',
         SumFits', FirstTimesFit', TracksMeans', NEW t \in Nat, Last <= t, Receive(t)
  PROVE  TrackInv'
  <1>1. /\ prog' = prog /\ pkt_cnt' = pkt_cnt + 1 /\ pkt_cnt \in Nat /\ prog.n \in Nat \ {0}
        /\ prog.trains => ~prog.average
    BY Sizes, LogGrows
  <1>2. ASSUME pkt_cnt' >= prog.n, prog.average
        PROVE  /\ Tracks(WindowSum(log, pkt_cnt))' /\ BaseFits'
               /\ ~prog.learns => ChenBase'
    <2>1. CASE pkt_cnt >= prog.n
      <3>1. Tracks(WindowSum(log, pkt_cnt))' /\ BaseFits' /\ base' = base
        BY <1>2, <2>1, MovedTracks
      <3>2. ~prog.learns => ChenBase
        BY <1>2, <2>1, TracksIs DEF TracksMeans, TrackInv
      <3>3. ~prog.learns => ChenBase'
        BY <1>1, <3>1, <3>2 DEF ChenBase, Chen
      <3> QED BY <3>1, <3>3
    <2>2. CASE pkt_cnt' = prog.n
      <3>1. ~MovedEstimate(t)
        BY <1>1, <2>2 DEF MovedEstimate
      <3>2. CASE EarlyEstimate(t)
        <4>1. prog.learns
          BY <1>1, <2>2, <3>2 DEF EarlyEstimate
        <4> QED BY <2>2, <3>2, <4>1, EarlyTracks
      <3>3. CASE FirstEstimate(t)
        BY <1>1, <1>2, <3>3, FirstTracks
      <3> QED BY <3>1, <3>2, <3>3, WhichEstimate
    <2> QED BY <1>1, <1>2, <2>1, <2>2
  <1>3. EstimateTracksWindow'
    BY <1>1, <1>2 DEF TracksMeans
  <1>4. pkt_cnt' >= prog'.n /\ prog'.average => BaseFits'
    BY <1>1, <1>2
  <1> QED BY <1>3, <1>4 DEF TrackInv

LEMMA TrackStep ==
  /\ RingInv /\ ClockInv /\ EstimateType /\ TrackInv /\ RingInv' /\ ClockInv'
  /\ WindowFits' /\ SumFits' /\ FirstTimesFit' /\ TracksMeans'
  /\ [AveragingNext]_averagingVars
  => TrackInv'
  <1> SUFFICES ASSUME RingInv, ClockInv, EstimateType, TrackInv, RingInv', ClockInv',
                      WindowFits', SumFits', FirstTimesFit', TracksMeans',
                      [AveragingNext]_averagingVars
               PROVE  TrackInv'
    OBVIOUS
  <1>1. CASE Heartbeat
    <2>1. CASE Receive(Last + prog.period)
      <3> DEFINE t == Last + prog.period
      <3>1. t \in Nat /\ Last <= t
        BY ReceiptIsNext DEF NextReceipt
      <3>2. Receive(t)
        BY <2>1
      <3> HIDE DEF t
      <3> QED BY <3>1, <3>2, TrackReceive
    <2>2. CASE \E gap \in Gaps : Receive(Last + (gap * prog.period) \div 10)
      <3>1. PICK gap \in Gaps : Receive(Last + (gap * prog.period) \div 10)
        BY <2>2
      <3> DEFINE t == Last + (gap * prog.period) \div 10
      <3>2. t \in Nat /\ Last <= t
        BY ReceiptIsNext DEF NextReceipt
      <3>3. Receive(t)
        BY <3>1
      <3> HIDE DEF t
      <3> QED BY <3>2, <3>3, TrackReceive
    <2> QED BY <1>1, <2>1, <2>2 DEF Heartbeat
  <1>2. CASE UNCHANGED <<prog, ringVars, historyVars>>
    BY <1>2 DEF ringVars, historyVars, TrackInv, EstimateTracksWindow, BaseFits, Allowance,
                WindowSum
  <1>3. CASE timer1_cb
    BY <1>2, <1>3 DEF timer1_cb
  <1>4. CASE UNCHANGED averagingVars
    BY <1>2, <1>4 DEF averagingVars
  <1> QED BY <1>1, <1>3, <1>4 DEF AveragingNext

TrackParts == TypeParts /\ TrackInv

\* The estimate never gets ahead of the mean over the window and falls behind
\* it by less than a tick per heartbeat, at Chen's distance from it in his
\* copies: for every window, ring and sequence of intervals (the moves of ea in
\* the receive loop, which add a quotient cut to whole ticks each time).
THEOREM EstimateAlwaysTracks == AveragingSpec => []EstimateTracksWindow
  <1>1. RingInv' /\ ClockInv' => WindowFits'
    BY ReadingsFit, PTL
  <1>2. FirstTimesFit /\ SumFits
    BY FirstTimesBounds, WindowTyped DEF FirstTimesFit, SumFits
  <1>3. FirstTimesFit' /\ SumFits' /\ TracksMeans'
    BY <1>2, TracksIs, PTL
  <1>4. AveragingInit => TrackParts
    <2> SUFFICES ASSUME AveragingInit PROVE TrackParts
      OBVIOUS
    <2>1. pkt_cnt = 0 /\ prog.n \in Nat \ {0}
      BY ProgramSizes DEF AveragingInit
    <2>2. TrackInv
      BY <2>1 DEF TrackInv, EstimateTracksWindow
    <2> QED BY <2>2, TypeInit DEF TrackParts
  <1>5. TrackParts /\ [AveragingNext]_averagingVars => TrackParts'
    <2>1. TrackParts /\ [AveragingNext]_averagingVars => RingInv' /\ MarginInv' /\ ClockInv'
      BY RingStep, MarginStep, ClockStep DEF TrackParts, TypeParts
    <2>2. TrackParts /\ [AveragingNext]_averagingVars => TypeParts'
      BY <1>1, <2>1, TypeStep DEF TrackParts
    <2>3. TrackParts /\ [AveragingNext]_averagingVars => TrackInv'
      BY <1>1, <1>3, <2>1, TrackStep DEF TrackParts, TypeParts
    <2> QED BY <2>2, <2>3 DEF TrackParts
  <1>6. TrackParts => EstimateTracksWindow
    BY DEF TrackParts, TrackInv
  <1> QED BY <1>4, <1>5, <1>6, PTL DEF AveragingSpec

-----------------------------------------------------------------------------
(***************************************************************************)
(* Late heartbeats, and the margin that covers them.  Two more facts about *)
(* the log are needed.  No receipt is further behind the last one than the *)
(* periods between them and what the irregular ones are late by.  And the  *)
(* estimate loses to the truncating division only while an irregular       *)
(* interval is in the window: quiet counts the regular ones since, and     *)
(* each irregular one has n moves to cost less than a tick.                *)
(***************************************************************************)

LateBy(late) == \A gap \in Gaps : (gap * prog.period) \div 10 <= prog.period + late

PaceInv ==
  /\ irregular \in 0 .. MaxIrregular
  /\ \A late \in Nat : LateBy(late) =>
       \A k \in 1 .. pkt_cnt :
         Last - log[k] <= (pkt_cnt - k) * prog.period + irregular * late

\* The two kinds of interval before a receipt.
Regular(t) == t = Last + prog.period /\ irregular' = irregular
Irregular(t) ==
  /\ irregular < MaxIrregular /\ irregular' = irregular + 1
  /\ \A late \in Nat : LateBy(late) => t <= Last + prog.period + late

LEMMA PaceReceive ==
  ASSUME RingInv, PaceInv, NEW t \in Nat, Last <= t, Receive(t), Regular(t) \/ Irregular(t)
  PROVE  PaceInv'
  <1>1. /\ prog' = prog /\ pkt_cnt' = pkt_cnt + 1 /\ Last' = t
        /\ log'[pkt_cnt + 1] = t /\ \A k \in 1 .. pkt_cnt : log'[k] = log[k]
        /\ pkt_cnt \in Nat /\ prog.period \in Nat /\ Last \in Nat
        /\ \A k \in 1 .. pkt_cnt : log[k] \in Nat
    BY LogGrows, LastReceipt, Sizes
  <1>2. irregular \in Nat /\ irregular <= MaxIrregular /\ MaxIrregular \in Nat
    BY AveragingConstants DEF PaceInv
  <1>3. irregular' \in 0 .. MaxIrregular
    BY <1>2 DEF Regular, Irregular
  <1>4. ASSUME NEW late \in Nat, LateBy(late)', NEW k \in 1 .. pkt_cnt'
        PROVE  t - log'[k] <= (pkt_cnt' - k) * prog.period + irregular' * late
    <2>1. LateBy(late)
      BY <1>1, <1>4 DEF LateBy
    <2>2. irregular' * late = irregular * late + (IF Regular(t) THEN 0 ELSE late)
          /\ t <= Last + prog.period + (IF Regular(t) THEN 0 ELSE late)
          /\ irregular' \in Nat /\ irregular * late \in Nat
      <3>1. CASE Regular(t)
        BY <1>1, <1>2, <3>1 DEF Regular
      <3>2. CASE ~Regular(t)
        <4>1. irregular' = irregular + 1 /\ t <= Last + prog.period + late
          BY <2>1, <3>2 DEF Irregular
        <4>2. (irregular + 1) * late = irregular * late + late
          BY <1>2
        <4> QED BY <1>2, <3>2, <4>1, <4>2
      <3> QED BY <3>1, <3>2
    <2>3. CASE k = pkt_cnt + 1
      <3>1. (pkt_cnt' - k) * prog.period = 0 /\ t - log'[k] = 0
        BY <1>1, <2>3
      <3>2. irregular' * late \in Nat
        <4> DEFINE i == irregular'
        <4>1. i \in Nat
          BY <2>2
        <4> HIDE DEF i
        <4>2. i * late \in Nat
          BY <4>1
        <4> QED BY <4>2 DEF i
      <3> DEFINE x == (pkt_cnt' - k) * prog.period
                 y == irregular' * late
                 z == t - log'[k]
      <3>3. x = 0 /\ z = 0 /\ y \in Nat
        BY <3>1, <3>2
      <3> HIDE DEF x, y, z
      <3>4. z <= x + y
        BY <3>3
      <3> QED BY <3>4 DEF x, y, z
    <2>4. CASE k \in 1 .. pkt_cnt
      <3>1. Last - log[k] <= (pkt_cnt - k) * prog.period + irregular * late
        BY <2>1, <2>4 DEF PaceInv
      <3>2. (pkt_cnt' - k) * prog.period = (pkt_cnt - k) * prog.period + prog.period
            /\ (pkt_cnt - k) * prog.period \in Nat
        BY <1>1, <2>4
      <3>3. log'[k] = log[k] /\ log[k] \in Nat
        BY <1>1, <2>4
      <3> DEFINE x == (pkt_cnt - k) * prog.period
                 y == irregular * late
                 z == IF Regular(t) THEN 0 ELSE late
      <3>4. z \in Nat
        OBVIOUS
      <3>5. /\ Last - log[k] <= x + y /\ t <= Last + prog.period + z
            /\ x \in Nat /\ y \in Nat
            /\ (pkt_cnt' - k) * prog.period = x + prog.period /\ irregular' * late = y + z
        BY <2>2, <3>1, <3>2
      <3> HIDE DEF x, y, z
      <3> QED BY <1>1, <3>3, <3>4, <3>5
    <2> QED BY <1>1, <1>4, <2>3, <2>4
  <1> QED BY <1>1, <1>3, <1>4 DEF PaceInv

Behind == WindowSum(log, pkt_cnt) + base - prog.n * ea

\* The moves an irregular interval still has in the window.
Pending(quiet) == IF quiet < prog.n - 1 THEN prog.n - 1 - quiet ELSE 0

QuietFor(quiet) ==
  \A k \in 1 .. pkt_cnt :
    k >= pkt_cnt - quiet => Last - log[k] = (pkt_cnt - k) * prog.period

LossBound(quiet) ==
  /\ Pending(quiet) <= prog.n * irregular
  /\ pkt_cnt >= prog.n /\ prog.average =>
       Behind + (prog.n - 1) * Pending(quiet) <= (prog.n - 1) * (prog.n * irregular)

LossInv == \E quiet \in Nat : QuietFor(quiet) /\ LossBound(quiet)

LEMMA QuietReceive ==
  ASSUME RingInv, NEW t \in Nat, Last <= t, Receive(t), NEW quiet \in Nat, QuietFor(quiet)
  PROVE  /\ QuietFor(0)'
         /\ Regular(t) => QuietFor(quiet + 1)'
  <1>1. /\ prog' = prog /\ pkt_cnt' = pkt_cnt + 1 /\ Last' = t
        /\ log'[pkt_cnt + 1] = t /\ \A k \in 1 .. pkt_cnt : log'[k] = log[k]
        /\ pkt_cnt \in Nat /\ prog.period \in Nat /\ Last \in Nat
        /\ \A k \in 1 .. pkt_cnt : log[k] \in Nat
    BY LogGrows, LastReceipt, Sizes
  <1>2. ASSUME NEW k \in 1 .. pkt_cnt', k = pkt_cnt'
        PROVE  t - log'[k] = (pkt_cnt' - k) * prog.period
    <2>1. log'[k] = t /\ pkt_cnt' - k = 0
      BY <1>1, <1>2
    <2> QED BY <1>1, <2>1
  <1>3. QuietFor(0)'
    <2>1. \A k \in 1 .. pkt_cnt' : k >= pkt_cnt' - 0 => k = pkt_cnt'
      BY <1>1
    <2> QED BY <1>1, <1>2, <2>1 DEF QuietFor
  <1>4. ASSUME Regular(t), NEW k \in 1 .. pkt_cnt', k >= pkt_cnt' - (quiet + 1)
        PROVE  t - log'[k] = (pkt_cnt' - k) * prog.period
    <2>1. CASE k = pkt_cnt'
      BY <1>2, <2>1
    <2>2. CASE k \in 1 .. pkt_cnt
      <3>1. k >= pkt_cnt - quiet
        BY <1>1, <1>4
      <3>2. Last - log[k] = (pkt_cnt - k) * prog.period
        BY <2>2, <3>1 DEF QuietFor
      <3>3. (pkt_cnt' - k) * prog.period = (pkt_cnt - k) * prog.period + prog.period
        BY <1>1, <2>2
      <3>4. t = Last + prog.period /\ log'[k] = log[k] /\ log[k] \in Nat
        BY <1>1, <1>4, <2>2 DEF Regular
      <3> HIDE DEF Regular
      <3> QED BY <1>1, <3>2, <3>3, <3>4
    <2> QED BY <1>1, <2>1, <2>2
  <1> QED BY <1>1, <1>3, <1>4 DEF QuietFor

\* What a move loses is the remainder of its division.
LEMMA BehindMoves ==
  ASSUME RingInv, ClockInv, EstimateType, TrackInv, RingInv', ClockInv', WindowFits', SumFits',
         NEW t \in Nat, Last <= t, Receive(t), pkt_cnt >= prog.n, prog.average
  PROVE  LET d == t - log[pkt_cnt - prog.n + 1]
         IN d \in Nat /\ Behind \in Int /\ Behind' = Behind + (d % prog.n)
  <1> DEFINE n == prog.n
             w == WindowSum(log, pkt_cnt)
             oldest == log[pkt_cnt - n + 1]
             d == t - oldest
             q == d \div n
             r == d % n
  <1>1. n \in Nat \ {0} /\ prog' = prog /\ pkt_cnt \in Nat
    BY Sizes, LogGrows
  <1>2. ea \in Int /\ base \in Int /\ w \in Int
    <2>1. ea \in Int
      BY Sizes DEF EstimateType
    <2>2. base \in Int
      BY DEF TrackInv, BaseFits
    <2>3. w \in Int
      BY WindowTyped
    <2> QED BY <2>1, <2>2, <2>3
  <1>3. base' = base /\ ea' = ea + q
    BY MovedTracks
  <1>4. WindowSum(log, pkt_cnt)' = w - oldest + t
    BY WindowMoves
  <1>5. oldest \in Nat /\ oldest <= t
    <2>1. pkt_cnt - n + 1 \in 1 .. pkt_cnt /\ Last \in Nat
      BY <1>1, LastReceipt
    <2>2. oldest \in Nat /\ oldest <= Last
      BY <2>1, LastReceipt DEF ClockInv
    <2> HIDE DEF oldest
    <2> QED BY <2>1, <2>2
  <1> HIDE DEF w, oldest
  <1>6. d \in Nat
    BY <1>5
  <1> HIDE DEF d
  <1>7. q \in Int /\ r \in 0 .. n - 1 /\ d = n * q + r
    <2> HIDE DEF n
    <2> QED BY <1>1, <1>6, QuotientAndRest
  <1> HIDE DEF q, r
  <1>8. n * (ea + q) = n * ea + n * q /\ n * ea \in Int /\ n * q \in Int
    BY <1>1, <1>2, <1>7
  <1>9. Behind' = (w - oldest + t) + base - n * (ea + q)
    BY <1>1, <1>3, <1>4 DEF Behind
  <1>10. Behind = w + base - n * ea
    BY DEF Behind, w
  <1> HIDE DEF n
  <1>11. Behind \in Int
    BY <1>2, <1>8, <1>10
  <1>12. Behind' = Behind + r
    BY <1>2, <1>5, <1>7, <1>8, <1>9, <1>10 DEF d
  <1> QED BY <1>6, <1>11, <1>12 DEF d, r, n, oldest

\* A window of regular intervals is divided without a remainder.
LEMMA QuietWindow ==
  ASSUME RingInv, NEW t \in Nat, Regular(t), NEW quiet \in Nat, QuietFor(quiet),
         pkt_cnt >= prog.n, quiet >= prog.n - 1
  PROVE  (t - log[pkt_cnt - prog.n + 1]) % prog.n = 0
  <1> DEFINE n == prog.n
             k == pkt_cnt - n + 1
  <1>1. n \in Nat \ {0} /\ pkt_cnt \in Nat /\ prog.period \in Nat /\ Last \in Nat
    BY Sizes, LastReceipt
  <1>2. k \in 1 .. pkt_cnt /\ k >= pkt_cnt - quiet /\ pkt_cnt - k = n - 1
    BY <1>1
  <1>3. Last - log[k] = (n - 1) * prog.period /\ log[k] \in Nat
    BY <1>2, LastReceipt DEF QuietFor
  <1> HIDE DEF k
  <1>4. t - log[k] = n * prog.period + 0
    <2>1. (n - 1) * prog.period = n * prog.period - prog.period /\ n * prog.period \in Nat
      BY <1>1
    <2>2. t = Last + prog.period
      BY DEF Regular
    <2> HIDE DEF n
    <2> QED BY <1>1, <1>3, <2>1, <2>2
  <1>5. (n * prog.period + 0) % n = 0
    <2>1. prog.period \in Int /\ 0 \in 0 .. n - 1
      BY <1>1
    <2> HIDE DEF n
    <2> QED BY <1>1, <2>1, RestOfSum
  <1> QED BY <1>4, <1>5 DEF k, n

\* Nothing is lost when the window fills.
LEMMA NothingLostYet ==
  ASSUME RingInv, ClockInv, RingInv', WindowFits', EstimateType, NEW t \in Nat, Last <= t,
         Receive(t), pkt_cnt' = prog.n
  PROVE  Behind' = 0
  <1> DEFINE w == WindowSum(log, pkt_cnt)'
             n == prog.n
  <1>1. prog' = prog /\ pkt_cnt' = n /\ pkt_cnt' = pkt_cnt + 1 /\ pkt_cnt \in Nat
        /\ n \in Nat \ {0} /\ WORD \in Nat \ {0}
    BY LogGrows, Sizes
  <1>2. w \in Int /\ w = WindowSum(log', n)
    <2>1. w \in Int
      BY FirstWindow
    <2> QED BY <1>1, <2>1 DEF WindowSum
  <1>3. ea' \in Int
    BY <1>1, EstimateTyped DEF EstimateType
  <1>4. base' = n * ea' - w
    <2>1. ~MovedEstimate(t)
      BY <1>1, WhichEstimate
    <2>2. base' = n * ea' - WindowSum(log', n)
      BY <1>1, <2>1, WhichEstimate DEF EarlyEstimate, FirstEstimate
    <2> QED BY <1>2, <2>2
  <1>5. Behind' = w + base' - n * ea'
    BY <1>1 DEF Behind
  <1>6. n * ea' \in Int
    BY <1>1, <1>3
  <1> HIDE DEF w, n
  <1> QED BY <1>2, <1>4, <1>5, <1>6

\* The arithmetic of what a receipt may cost: p moves are pending before it,
\* s after it, and i irregular intervals are allowed for, n moves each.
LEMMA LossArithmetic ==
  ASSUME NEW n \in Nat \ {0}, NEW b \in Int, NEW c \in Int, NEW p \in Nat, NEW s \in Nat,
         NEW i \in Nat, NEW j \in Nat,
         b + (n - 1) * p <= (n - 1) * (n * i),
         \/ c = b /\ s <= p /\ j = i
         \/ c <= b + (n - 1) /\ p = s + 1 /\ j = i
         \/ c <= b + (n - 1) /\ s = n - 1 /\ j = i + 1
  PROVE  c + (n - 1) * s <= (n - 1) * (n * j)
  <1> DEFINE m == n - 1
  <1>1. m \in Nat /\ n = m + 1
    OBVIOUS
  <1>2. CASE c = b /\ s <= p /\ j = i
    <2>1. m * s <= m * p /\ m * s \in Nat /\ m * p \in Nat /\ m * (n * i) \in Nat
      BY <1>1, <1>2, TimesMonotone
    <2> HIDE DEF m
    <2>2. b + m * p <= m * (n * i)
      BY DEF m
    <2>3. c + m * s <= m * (n * j)
      BY <1>2, <2>1, <2>2
    <2> QED BY <2>3 DEF m
  <1>3. CASE c <= b + (n - 1) /\ p = s + 1 /\ j = i
    <2>1. m * p = m * s + m /\ m * s \in Nat /\ m * (n * i) \in Nat
      BY <1>1, <1>3
    <2>2. b + m * p <= m * (n * i) /\ c <= b + m
      BY <1>3
    <2> HIDE DEF m
    <2>3. c + m * s <= m * (n * j)
      BY <1>1, <1>3, <2>1, <2>2
    <2> QED BY <2>3 DEF m
  <1>4. CASE c <= b + (n - 1) /\ s = n - 1 /\ j = i + 1
    <2>1. m * (n * j) = m * (n * i) + m * n /\ m * n = m * s + m
          /\ m * (n * i) \in Nat /\ m * s \in Nat /\ m * p \in Nat
      BY <1>1, <1>4
    <2>2. b + m * p <= m * (n * i) /\ c <= b + m
      BY <1>4
    <2> HIDE DEF m
    <2>3. c + m * s <= m * (n * j)
      BY <1>1, <1>4, <2>1, <2>2
    <2> QED BY <2>3 DEF m
  <1> QED BY <1>2, <1>3, <1>4

LEMMA PendingBounds ==
  ASSUME RingInv, NEW quiet \in Nat
  PROVE  /\ Pending(quiet) \in 0 .. prog.n - 1 /\ Pending(0) = prog.n - 1
         /\ \/ quiet >= prog.n - 1 /\ Pending(quiet) = 0 /\ Pending(quiet + 1) = 0
            \/ Pending(quiet) = Pending(quiet + 1) + 1
  BY Sizes DEF Pending

LEMMA LossBoundMoves ==
  ASSUME RingInv, ClockInv, EstimateType, RingInv', ClockInv', WindowFits', TrackInv, SumFits',
         PaceInv, NEW t \in Nat, Last <= t, Receive(t),
         NEW quiet \in Nat, LossBound(quiet), NEW after \in Nat,
         irregular' \in Nat, Pending(after)' \in Nat,
         Pending(after)' <= prog.n * irregular',
         pkt_cnt >= prog.n /\ prog.average =>
           \/ Behind' = Behind /\ Pending(after)' <= Pending(quiet) /\ irregular' = irregular
           \/ Pending(quiet) = Pending(after)' + 1 /\ irregular' = irregular
           \/ Pending(after)' = prog.n - 1 /\ irregular' = irregular + 1
  PROVE  LossBound(after)'
  <1> DEFINE n == prog.n
             s == Pending(after)'
             p == Pending(quiet)
             j == irregular'
             c == Behind'
             d == t - log[pkt_cnt - prog.n + 1]
  <1>1. /\ prog' = prog /\ pkt_cnt' = pkt_cnt + 1 /\ pkt_cnt \in Nat /\ n \in Nat \ {0}
        /\ irregular \in Nat
    BY LogGrows, Sizes, AveragingConstants DEF PaceInv
  <1>2. p \in Nat
    BY PendingBounds, <1>1
  <1>3. s \in Nat /\ j \in Nat /\ s <= n * j
    OBVIOUS
  <1>4. ASSUME pkt_cnt' >= n, prog.average
        PROVE  c + (n - 1) * s <= (n - 1) * (n * j)
    <2>1. CASE pkt_cnt' = n
      <3>1. c = 0
        BY <2>1, NothingLostYet
      <3>2. n * j \in Nat /\ n - 1 \in Nat
        BY <1>1, <1>3
      <3> HIDE DEF n, s, j, c
      <3>3. (n - 1) * s <= (n - 1) * (n * j) /\ (n - 1) * s \in Nat
        BY <1>3, <3>2, TimesMonotone
      <3> QED BY <3>1, <3>3
    <2>2. CASE pkt_cnt >= n
      <3>1. d \in Nat /\ Behind \in Int /\ c = Behind + (d % n)
        BY <1>4, <2>2, BehindMoves
      <3> HIDE DEF d
      <3>2. d % n \in 0 .. n - 1
        <4> HIDE DEF n
        <4> QED BY <1>1, <3>1, QuotientAndRest
      <3>3. Behind + (n - 1) * p <= (n - 1) * (n * irregular)
        BY <1>4, <2>2 DEF LossBound
      <3>4. \/ c = Behind /\ s <= p /\ j = irregular
            \/ p = s + 1 /\ j = irregular
            \/ s = n - 1 /\ j = irregular + 1
        BY <1>4, <2>2
      <3> HIDE DEF n, s, p, j, c
      <3>5. c \in Int /\ c <= Behind + (n - 1)
        BY <1>1, <3>1, <3>2
      <3> QED BY <1>1, <1>2, <1>3, <3>1, <3>3, <3>4, <3>5, LossArithmetic
    <2>3. pkt_cnt' = n \/ pkt_cnt >= n
      BY <1>1, <1>4
    <2> QED BY <2>1, <2>2, <2>3
  <1>5. s <= prog'.n * j
    BY <1>1, <1>3
  <1>6. pkt_cnt' >= prog'.n /\ prog'.average =>
          c + (prog'.n - 1) * s <= (prog'.n - 1) * (prog'.n * j)
    <2> HIDE DEF s, j, c
    <2> QED BY <1>1, <1>4
  <1> QED BY <1>5, <1>6 DEF LossBound

LEMMA LossReceive ==
  ASSUME RingInv, ClockInv, EstimateType, RingInv', ClockInv', WindowFits', TrackInv, SumFits',
         PaceInv, LossInv, NEW t \in Nat, Last <= t, Receive(t), Regular(t) \/ Irregular(t)
  PROVE  LossInv'
  <1>1. PICK quiet \in Nat : QuietFor(quiet) /\ LossBound(quiet)
    BY DEF LossInv
  <1>2. /\ prog' = prog /\ pkt_cnt \in Nat /\ prog.n \in Nat \ {0} /\ irregular \in Nat
    BY LogGrows, Sizes, AveragingConstants DEF PaceInv
  <1>3. \A after \in Nat : Pending(after)' = Pending(after)
    BY <1>2 DEF Pending
  <1>4. Pending(quiet) \in Nat /\ Pending(quiet) <= prog.n * irregular
    BY <1>1, <1>2, PendingBounds DEF LossBound
  <1>5. CASE Regular(t)
    <2>1. QuietFor(quiet + 1)' /\ quiet + 1 \in Nat
      BY <1>1, <1>5, QuietReceive
    <2>2. irregular' = irregular
      BY <1>5 DEF Regular
    <2>3. Pending(quiet + 1) \in Nat /\ Pending(quiet + 1) <= Pending(quiet)
      BY <1>2, PendingBounds, quiet + 1 \in Nat
    <2>4. Pending(quiet + 1) <= prog.n * irregular
      <3> DEFINE x == prog.n * irregular
                 y == Pending(quiet)
                 z == Pending(quiet + 1)
      <3>1. x \in Int /\ y \in Nat /\ z \in Nat /\ y <= x /\ z <= y
        BY <1>2, <1>4, <2>3
      <3> HIDE DEF x, y, z
      <3>2. z <= x
        BY <3>1
      <3> QED BY <3>2 DEF x, z
    <2>5. ASSUME pkt_cnt >= prog.n, prog.average
          PROVE  \/ Behind' = Behind /\ Pending(quiet + 1) <= Pending(quiet)
                 \/ Pending(quiet) = Pending(quiet + 1) + 1
      <3>1. CASE quiet >= prog.n - 1
        <4> DEFINE d == t - log[pkt_cnt - prog.n + 1]
        <4>1. d % prog.n = 0
          BY <1>1, <1>5, <2>5, <3>1, QuietWindow
        <4>2. Behind' = Behind + (d % prog.n) /\ Behind \in Int
          BY <2>5, BehindMoves
        <4> HIDE DEF d
        <4>3. Behind' = Behind
          BY <4>1, <4>2
        <4> QED BY <2>3, <4>3
      <3>2. CASE ~(quiet >= prog.n - 1)
        BY <3>2, PendingBounds
      <3> QED BY <3>1, <3>2
    <2>6. LossBound(quiet + 1)'
      <3>1. Pending(quiet + 1)' = Pending(quiet + 1)
        BY <1>3, <2>1
      <3>2. irregular' \in Nat /\ Pending(quiet + 1)' \in Nat
            /\ Pending(quiet + 1)' <= prog.n * irregular'
        BY <1>2, <2>2, <2>3, <2>4, <3>1
      <3>3. pkt_cnt >= prog.n /\ prog.average =>
              \/ Behind' = Behind /\ Pending(quiet + 1)' <= Pending(quiet)
                 /\ irregular' = irregular
              \/ Pending(quiet) = Pending(quiet + 1)' + 1 /\ irregular' = irregular
        BY <2>2, <2>5, <3>1
      <3> QED BY <1>1, <2>1, <3>2, <3>3, LossBoundMoves
    <2> QED BY <2>1, <2>6 DEF LossInv
  <1>6. CASE Irregular(t)
    <2>1. QuietFor(0)'
      BY <1>1, QuietReceive
    <2>2. irregular' = irregular + 1
      BY <1>6 DEF Irregular
    <2>3. Pending(0)' = prog.n - 1
      BY <1>3, PendingBounds
    <2>4. prog.n - 1 <= prog.n * (irregular + 1)
      <3>1. prog.n * (irregular + 1) = prog.n * irregular + prog.n /\ prog.n * irregular \in Nat
        BY <1>2
      <3> DEFINE x == prog.n * irregular
      <3>2. prog.n * (irregular + 1) = x + prog.n /\ x \in Nat
        BY <3>1
      <3> HIDE DEF x
      <3> QED BY <1>2, <3>2
    <2>5. irregular' \in Nat /\ Pending(0)' \in Nat /\ Pending(0)' <= prog.n * irregular'
      BY <1>2, <2>2, <2>3, <2>4
    <2>6. LossBound(0)'
      BY <1>1, <2>2, <2>3, <2>5, LossBoundMoves
    <2> QED BY <2>1, <2>6 DEF LossInv
  <1> QED BY <1>5, <1>6

\* What a heartbeat is to these facts.
LEMMA HeartbeatPace ==
  ASSUME RingInv, ClockInv, Heartbeat
  PROVE  \E t \in Nat : Last <= t /\ Receive(t) /\ (Regular(t) \/ Irregular(t))
  <1>1. CASE Receive(Last + prog.period) /\ UNCHANGED irregular
    <2> DEFINE t == Last + prog.period
    <2>1. t \in Nat /\ Last <= t
      BY ReceiptIsNext DEF NextReceipt
    <2>2. Receive(t) /\ Regular(t)
      BY <1>1 DEF Regular
    <2> HIDE DEF t
    <2> QED BY <2>1, <2>2
  <1>2. CASE /\ irregular < MaxIrregular
             /\ \E gap \in Gaps : Receive(Last + (gap * prog.period) \div 10)
             /\ irregular' = irregular + 1
    <2>1. PICK gap \in Gaps : Receive(Last + (gap * prog.period) \div 10)
      BY <1>2
    <2> DEFINE more == (gap * prog.period) \div 10
               t == Last + more
    <2>2. t \in Nat /\ Last <= t
      BY ReceiptIsNext DEF NextReceipt
    <2>3. more \in Nat /\ prog.period \in Nat /\ Last \in Nat
      <3>1. gap \in Nat /\ prog.period \in Nat
        BY Sizes, AveragingConstants
      <3>2. gap * prog.period \in Nat
        BY <3>1
      <3> DEFINE x == gap * prog.period
      <3> HIDE DEF x
      <3>3. x \div 10 \in Nat
        BY <3>2 DEF x
      <3> QED BY <3>1, <3>3, LastReceipt DEF x
    <2>4. Receive(t)
      BY <2>1
    <2>5. ASSUME NEW late \in Nat, LateBy(late)
          PROVE  t <= Last + prog.period + late
      <3>1. more <= prog.period + late
        BY <2>5 DEF LateBy
      <3> HIDE DEF more
      <3> QED BY <2>3, <2>5, <3>1
    <2> HIDE DEF t
    <2>6. Irregular(t)
      BY <1>2, <2>5 DEF Irregular
    <2> QED BY <2>2, <2>4, <2>6
  <1> QED BY <1>1, <1>2 DEF Heartbeat

LEMMA PaceStep == RingInv /\ ClockInv /\ PaceInv /\ [AveragingNext]_averagingVars => PaceInv'
  <1> SUFFICES ASSUME RingInv, ClockInv, PaceInv, [AveragingNext]_averagingVars
               PROVE  PaceInv'
    OBVIOUS
  <1>1. CASE Heartbeat
    BY <1>1, HeartbeatPace, PaceReceive
  <1>2. CASE UNCHANGED <<prog, ringVars, irregular, historyVars>>
    BY <1>2 DEF ringVars, historyVars, PaceInv, LateBy, Last
  <1>3. CASE timer1_cb
    BY <1>2, <1>3 DEF timer1_cb
  <1>4. CASE UNCHANGED averagingVars
    BY <1>2, <1>4 DEF averagingVars
  <1> QED BY <1>1, <1>3, <1>4 DEF AveragingNext

LEMMA LossStep ==
  /\ RingInv /\ ClockInv /\ EstimateType /\ TrackInv /\ RingInv' /\ ClockInv'
  /\ WindowFits' /\ SumFits' /\ PaceInv /\ LossInv /\ [AveragingNext]_averagingVars
  => LossInv'
  <1> SUFFICES ASSUME RingInv, ClockInv, EstimateType, TrackInv, RingInv', ClockInv',
                      WindowFits', SumFits', PaceInv, LossInv, [AveragingNext]_averagingVars
               PROVE  LossInv'
    OBVIOUS
  <1>1. CASE Heartbeat
    BY <1>1, HeartbeatPace, LossReceive
  <1>2. CASE UNCHANGED <<prog, ringVars, irregular, historyVars>>
    <2>1. /\ prog' = prog /\ pkt_cnt' = pkt_cnt /\ irregular' = irregular /\ log' = log
          /\ ea' = ea /\ base' = base
      BY <1>2 DEF ringVars, historyVars
    <2>2. Behind' = Behind /\ Last' = Last
      BY <2>1 DEF Behind, WindowSum, Last
    <2>3. \A quiet \in Nat : QuietFor(quiet)' = QuietFor(quiet)
      BY <2>1, <2>2 DEF QuietFor
    <2>4. \A quiet \in Nat : LossBound(quiet)' = LossBound(quiet)
      BY <2>1, <2>2 DEF LossBound, Pending
    <2> QED BY <2>3, <2>4 DEF LossInv
  <1>3. CASE timer1_cb
    BY <1>2, <1>3 DEF timer1_cb
  <1>4. CASE UNCHANGED averagingVars
    BY <1>2, <1>4 DEF averagingVars
  <1> QED BY <1>1, <1>3, <1>4 DEF AveragingNext

LEMMA PaceInit == AveragingInit => PaceInv /\ LossInv
  <1> SUFFICES ASSUME AveragingInit PROVE PaceInv /\ LossInv
    OBVIOUS
  <1>1. pkt_cnt = 0 /\ irregular = 0 /\ prog.n \in Nat \ {0} /\ MaxIrregular \in Nat
    BY ProgramSizes, AveragingConstants DEF AveragingInit
  <1>2. PaceInv
    BY <1>1 DEF PaceInv
  <1>3. QuietFor(prog.n) /\ LossBound(prog.n)
    BY <1>1 DEF QuietFor, LossBound, Pending
  <1> QED BY <1>1, <1>2, <1>3 DEF LossInv

\* An estimate behind the mean is at most half its offset ahead of the last
\* receipt, and one that has lost little is not behind it by more than that.
LEMMA MeanAhead ==
  ASSUME NEW n \in Nat \ {0}, NEW e \in Int, NEW last \in Int, NEW s \in Int, NEW b \in Int,
         NEW h \in Int, 0 <= s + b - n * e, s <= n * last, 2 * b <= n * h
  PROVE  2 * (e - last) <= h
  <1> SUFFICES ASSUME h + 1 <= 2 * (e - last) PROVE FALSE
    OBVIOUS
  <1> DEFINE x == 2 * (e - last)
  <1>1. n * (h + 1) <= n * x
    BY TimesMonotone
  <1>2. n * (h + 1) = n * h + n /\ n * x = 2 * (n * e) - 2 * (n * last)
        /\ n * h \in Int /\ n * e \in Int /\ n * last \in Int
    OBVIOUS
  <1> DEFINE nh == n * h
             ne == n * e
             nl == n * last
  <1>3. nh + n <= 2 * ne - 2 * nl /\ nh \in Int /\ ne \in Int /\ nl \in Int
        /\ 0 <= s + b - ne /\ s <= nl /\ 2 * b <= nh
    BY <1>1, <1>2
  <1> HIDE DEF nh, ne, nl, x
  <1> QED BY <1>3

LEMMA MeanBehind ==
  ASSUME NEW n \in Nat \ {0}, NEW e \in Int, NEW last \in Int, NEW s \in Int, NEW b \in Int,
         NEW h \in Int, NEW m \in Int, NEW p \in Nat, NEW l \in Nat, NEW i \in Nat,
         s + b - n * e <= (n - 1) * (n * i),
         2 * (n * (last - l - n * p)) + p * (n * (n + 1)) <= 2 * s,
         n * h - 2 * (n - 1) <= 2 * b,
         (n - 1) * p + 2 * (l + (n - 1) * i) <= h + 2 * m
  PROVE  0 <= e - last + m
  <1> SUFFICES ASSUME e - last + m <= -1 PROVE FALSE
    OBVIOUS
  <1> DEFINE ne == n * e
             nh == n * h
             nm == n * m
             nlast == n * last
             nl == n * l
             np == n * p
             nnp == n * np
             k == (n - 1) * (n * i)
  <1>1. /\ ne \in Int /\ nh \in Int /\ nm \in Int /\ nlast \in Int /\ nl \in Int
        /\ np \in Int /\ k \in Int
    OBVIOUS
  <1>2. nnp \in Int
    BY <1>1
  <1>3. s + b - ne <= k /\ nh - 2 * (n - 1) <= 2 * b
    OBVIOUS
  <1>4. 2 * (nlast - nl - nnp) + (nnp + np) <= 2 * s
    <2>1. n * (last - l - np) = nlast - nl - nnp
      BY <1>1
    <2>2. p * (n * (n + 1)) = nnp + np
      OBVIOUS
    <2> QED BY <2>1, <2>2
  <1>5. (nnp - np) + 2 * (nl + k) <= nh + 2 * nm
    <2> DEFINE x == (n - 1) * p + 2 * (l + (n - 1) * i)
               y == h + 2 * m
    <2>1. x \in Int /\ y \in Int /\ x <= y
      OBVIOUS
    <2>2. n * x <= n * y
      <3> HIDE DEF x, y
      <3> QED BY <2>1, TimesMonotone
    <2>3. n * y = nh + 2 * nm
      OBVIOUS
    <2>4. n * ((n - 1) * p) = nnp - np /\ n * ((n - 1) * i) = k
      OBVIOUS
    <2>5. n * x = n * ((n - 1) * p) + 2 * (nl + n * ((n - 1) * i))
      OBVIOUS
    <2> QED BY <2>2, <2>3, <2>4, <2>5
  <1>6. ne - nlast + nm <= -n
    <2> DEFINE z == e - last + m
    <2>1. n * z <= n * (-1) /\ n * z = ne - nlast + nm
      BY TimesMonotone
    <2> QED BY <2>1
  <1> HIDE DEF ne, nh, nm, nlast, nl, np, nnp, k
  <1> QED BY <1>1, <1>2, <1>3, <1>4, <1>5, <1>6

\* A margin that suffices keeps the estimate ahead of the last receipt, by less
\* than half a word.
LEMMA MarginCovers ==
  ASSUME RingInv, ClockInv, EstimateType, TrackInv, PaceInv, LossInv,
         pkt_cnt >= prog.n, ~prog.learns, MarginSuffices(prog)
  PROVE  ea - Last + prog.margin \in 0 .. (WORD \div 2) - 1
  <1> DEFINE n == prog.n
             h == prog.hz * (n + 1 + 2 * prog.from)
             m == prog.margin
             p == prog.period
             s == WindowSum(log, pkt_cnt)
  <1>1. /\ n \in Nat \ {0} /\ m \in Nat /\ p \in Nat /\ pkt_cnt \in Nat
        /\ Last \in Nat /\ ea \in Int /\ prog.hz \in Nat /\ prog.from \in Nat
        /\ irregular \in 0 .. MaxIrregular /\ MaxIrregular \in Nat
        /\ WORD \in Nat \ {0} /\ prog.average
    BY Sizes, LastReceipt, ProgramSizes, AveragingConstants
       DEF RingInv, RingType, EstimateType, PaceInv, MarginSuffices
  <1>2. h \in Nat
    BY <1>1
  <1>3. s \in Int /\ s <= n * Last
    BY WindowTyped
  <1>4. Tracks(s) /\ ChenBase /\ base \in Int
    BY <1>1, TracksIs DEF TracksMeans, TrackInv, BaseFits
  <1>5. Chen = n * h
    <2>1. prog.hz * n * ((n + 1) + 2 * prog.from) = n * (prog.hz * ((n + 1) + 2 * prog.from))
      BY <1>1
    <2> QED BY <2>1 DEF Chen
  <1>6. n * h - 2 * (n - 1) <= 2 * base /\ 2 * base <= n * h
    <2> DEFINE x == 2 * base
               y == n * h
               z == 2 * (n - 1)
    <2>1. x \in y - z .. y
      BY <1>4, <1>5 DEF ChenBase
    <2>2. x \in Int /\ y \in Int /\ z \in Int
      BY <1>1, <1>2, <1>4
    <2> HIDE DEF x, y, z
    <2>3. y - z <= x /\ x <= y
      BY <2>1, <2>2
    <2> QED BY <2>3 DEF x, y, z
  <1>7. PICK late \in 0 .. WORD :
          /\ LateBy(late)
          /\ (n - 1) * p + 2 * MaxIrregular * (late + n - 1) <= h + 2 * m
    BY <1>1 DEF MarginSuffices, LateBy
  <1>8. late \in Nat
    BY <1>1
  <1> DEFINE i == irregular
             l == i * late
  <1>9. i \in Nat /\ l \in Nat
    BY <1>1, <1>8
  <1>10. h + 2 * m < 2 * (WORD \div 2)
    BY DEF MarginSuffices
  <1> HIDE DEF s, h
  <1>11. 2 * (ea - Last) <= h
    <2>1. 0 <= s + base - n * ea
      BY <1>4 DEF Tracks
    <2> HIDE DEF n
    <2> QED BY <1>1, <1>2, <1>3, <1>4, <1>6, <2>1, MeanAhead
  <1>12. s + base - n * ea <= (n - 1) * (n * i)
    <2>1. PICK quiet \in Nat : LossBound(quiet)
      BY DEF LossInv
    <2>2. Behind + (n - 1) * Pending(quiet) <= (n - 1) * (n * i)
      BY <1>1, <2>1 DEF LossBound
    <2>3. Behind = s + base - n * ea
      BY DEF Behind, s
    <2>4. n - 1 \in Nat /\ Pending(quiet) \in Nat
      BY <1>1, PendingBounds
    <2> DEFINE x == (n - 1) * Pending(quiet)
               y == (n - 1) * (n * i)
               z == n * ea
    <2>5. x \in Nat /\ y \in Int /\ z \in Int /\ Behind + x <= y
      BY <1>1, <1>9, <2>2, <2>4
    <2>6. Behind = s + base - z
      BY <2>3
    <2> HIDE DEF x, y, z
    <2>7. s + base - z <= y
      BY <1>3, <1>4, <2>5, <2>6
    <2> QED BY <2>7 DEF y, z
  <1>13. (n - 1) * p + 2 * (l + (n - 1) * i) <= h + 2 * m
    <2> DEFINE c == late + (n - 1)
               k == MaxIrregular
    <2>1. c \in Nat /\ k \in Nat /\ i <= k /\ late + n - 1 = c
      BY <1>1, <1>8
    <2>2. l + (n - 1) * i = i * c
      BY <1>1, <1>8
    <2>3. 2 * MaxIrregular * (late + n - 1) = 2 * (k * c)
      <3>1. 2 * MaxIrregular * (late + n - 1) = 2 * k * c
        BY <2>1
      <3> HIDE DEF c, k
      <3>2. 2 * k * c = 2 * (k * c)
        BY <2>1
      <3> QED BY <3>1, <3>2
    <2> HIDE DEF c, k, i, l
    <2>4. i * c <= k * c /\ i * c \in Nat /\ k * c \in Nat
      <3>1. c * i <= c * k
        BY <1>9, <2>1, TimesMonotone
      <3> QED BY <1>9, <2>1, <3>1
    <2> DEFINE x == (n - 1) * p
               y == i * c
               z == k * c
    <2>5. x \in Int /\ x + 2 * z <= h + 2 * m
      BY <1>1, <1>7, <2>3
    <2> HIDE DEF n, m, x, y, z
    <2>6. x + 2 * y <= h + 2 * m
      BY <1>1, <1>2, <2>4, <2>5 DEF y, z
    <2> QED BY <2>2, <2>6 DEF x, y
  <1>14. 2 * (n * (Last - l - n * p)) + p * (n * (n + 1)) <= 2 * s
    <2> DEFINE a == pkt_cnt - n
               lo == Last - l - n * p
    <2>1. a \in Nat /\ lo \in Int
      BY <1>1, <1>9
    <2>2. ASSUME NEW j \in a + 1 .. a + n
          PROVE  log[j] \in Int /\ lo + (j - a) * p <= log[j]
      <3>1. j \in 1 .. pkt_cnt /\ a + n = pkt_cnt
        BY <1>1, <2>1, <2>2
      <3>2. Last - log[j] <= (pkt_cnt - j) * p + l /\ log[j] \in Nat
        BY <1>7, <1>8, <3>1, LastReceipt DEF PaceInv
      <3>3. (pkt_cnt - j) * p = n * p - (j - a) * p /\ (j - a) * p \in Int /\ n * p \in Int
        <4>1. pkt_cnt - j = n - (j - a) /\ j - a \in Int
          BY <1>1, <2>1, <3>1
        <4> DEFINE u == j - a
        <4>2. u \in Int /\ n \in Int /\ p \in Int
          BY <1>1, <4>1
        <4> HIDE DEF u, n, p
        <4>3. (n - u) * p = n * p - u * p /\ u * p \in Int /\ n * p \in Int
          BY <4>2
        <4> QED BY <4>1, <4>3 DEF u
      <3> DEFINE x == (j - a) * p
                 y == n * p
      <3>4. Last - log[j] <= y - x + l /\ x \in Int /\ y \in Int /\ lo = Last - l - y
        BY <3>2, <3>3
      <3> HIDE DEF x, y, l, a, lo
      <3>5. lo + x <= log[j]
        BY <1>1, <1>9, <3>2, <3>4
      <3> QED BY <3>2, <3>5 DEF x
    <2>3. a + n = pkt_cnt /\ a + 1 = pkt_cnt - n + 1
      BY <1>1
    <2>4. s = SumFunctionOnSet(log, a + 1 .. a + n)
      BY <2>3 DEF s, WindowSum
    <2> HIDE DEF a, lo
    <2>5. 2 * (n * lo) + p * (n * (n + 1)) <= 2 * SumFunctionOnSet(log, a + 1 .. a + n)
      <3>1. n \in Nat /\ a \in Int /\ lo \in Int /\ p \in Int
        BY <1>1, <2>1
      <3>2. \A j \in a + 1 .. a + n : log[j] \in Int /\ lo + (j - a) * p <= log[j]
        BY <2>2
      <3> HIDE DEF n, p
      <3> QED BY <3>1, <3>2, SumAboveLine
    <2> QED BY <2>4, <2>5 DEF lo
  <1>15. 0 <= ea - Last + m
    <2> DEFINE b == base
               e == ea
               last == Last
    <2>1. /\ n \in Nat \ {0} /\ e \in Int /\ last \in Int /\ s \in Int /\ b \in Int
          /\ h \in Int /\ m \in Int /\ p \in Nat /\ l \in Nat /\ i \in Nat
      BY <1>1, <1>2, <1>3, <1>4, <1>9
    <2> HIDE DEF n, m, p, i, l
    <2>2. /\ s + b - n * e <= (n - 1) * (n * i)
          /\ 2 * (n * (last - l - n * p)) + p * (n * (n + 1)) <= 2 * s
          /\ n * h - 2 * (n - 1) <= 2 * b
          /\ (n - 1) * p + 2 * (l + (n - 1) * i) <= h + 2 * m
      BY <1>6, <1>12, <1>13, <1>14
    <2> HIDE DEF b, e, last
    <2>3. 0 <= e - last + m
      BY <2>1, <2>2, MeanBehind
    <2> QED BY <2>3 DEF e, last
  <1>16. WORD \div 2 \in Nat
    BY <1>1
  <1> HIDE DEF m
  <1> DEFINE half == WORD \div 2
  <1>17. half \in Nat /\ h + 2 * m < 2 * half
    BY <1>10, <1>16 DEF m
  <1> HIDE DEF half
  <1>18. ea - Last + m \in 0 .. half - 1
    BY <1>1, <1>2, <1>11, <1>15, <1>17
  <1> QED BY <1>18 DEF m, half

-----------------------------------------------------------------------------
(***************************************************************************)
(* The learnt margin, with one irregular heartbeat at most.  While the     *)
(* heartbeats are regular it covers what is left of the error; the         *)
(* irregular one is covered by four tenths of its error, which the margin  *)
(* takes at once.  That the margin is large enough when the window fills   *)
(* follows from bounds on the estimates made before, wherever in the       *)
(* window the irregular one comes.                                         *)
(***************************************************************************)

LEMMA DivideNear ==
  ASSUME NEW x \in Int
  PROVE  /\ Divide(x, 10) \in Int
         /\ x - 9 <= 10 * Divide(x, 10) /\ 10 * Divide(x, 10) <= x + 9
         /\ x >= 0 => 0 <= Divide(x, 10) /\ 10 * Divide(x, 10) <= x
         /\ x <= 0 => Divide(x, 10) <= 0 /\ x <= 10 * Divide(x, 10)
  BY DEF Divide

\* Between two readings given in thousandths of the clock at the start and of
\* the period, up to what the divisions have cut off.
Between(x, clock, period, low, high, cut) ==
  /\ low[1] * clock + low[2] * period - cut <= 1000 * x
  /\ 1000 * x <= high[1] * clock + high[2] * period + cut

EarlyDelay(x, clock, period, low, high) == Between(x, clock, period, low, high, 10000)
AtLeast(x, clock, period, low) == low[1] * clock + low[2] * period - 20000 <= 1000 * x

\* delay and, from below, var after the first k heartbeats, one of them irregular.
LateBounds(k, clock, period, d, v) ==
  /\ k = 0 => d = 0 /\ v = 0
  /\ k = 1 => /\ EarlyDelay(d, clock, period, <<100, 0>>, <<100, 300>>)
              /\ AtLeast(v, clock, period, <<100, 0>>)
  /\ k = 2 => /\ EarlyDelay(d, clock, period, <<90, -200>>, <<90, 670>>)
              /\ AtLeast(v, clock, period, <<90, 0>>)
  /\ k = 3 => /\ EarlyDelay(d, clock, period, <<131, -180>>, <<131, 1053>>)
              /\ AtLeast(v, clock, period, <<122, -67>>)
  /\ k = 4 => /\ EarlyDelay(d, clock, period, <<184, -29>>, <<185, 1482>>)
              /\ AtLeast(v, clock, period, <<163, -33>>)
  /\ k = 5 => /\ EarlyDelay(d, clock, period, <<240, 223>>, <<242, 1959>>)
              /\ AtLeast(v, clock, period, <<203, 72>>)
  /\ k = 6 => /\ EarlyDelay(d, clock, period, <<296, 560>>, <<298, 2484>>)
              /\ AtLeast(v, clock, period, <<238, 228>>)
  /\ k = 7 => /\ EarlyDelay(d, clock, period, <<349, 970>>, <<352, 3053>>)
              /\ AtLeast(v, clock, period, <<267, 423>>)
  /\ k = 8 => /\ EarlyDelay(d, clock, period, <<399, 1444>>, <<403, 3662>>)
              /\ AtLeast(v, clock, period, <<290, 646>>)
  /\ k = 9 => /\ EarlyDelay(d, clock, period, <<446, 1974>>, <<451, 4309>>)
              /\ AtLeast(v, clock, period, <<308, 890>>)
  /\ k = 10 => /\ EarlyDelay(d, clock, period, <<490, 2554>>, <<495, 4990>>)
               /\ AtLeast(v, clock, period, <<320, 1147>>)

\* One of the first ten heartbeats: the estimate is the receipt before it,
\* divided by its number.
LEMMA LateBoundsMove ==
  ASSUME NEW k \in 0 .. 9, NEW B \in Nat, NEW P \in Nat, P >= 100,
         NEW d \in Int, NEW v \in Nat, LateBounds(k, B, P, d, v),
         NEW last \in Nat, B + (k - 1) * P <= last, last <= B + (k + 2) * P,
         NEW e \in Nat, k = 0 => e = 0, k > 0 => e = last \div k,
         NEW t \in Nat, B + k * P <= t, t <= B + (k + 3) * P,
         NEW error \in Int, error = t - e - d
  PROVE  LateBounds(k + 1, B, P, d + Divide(error, 10), v + Divide(Abs(error) - v, 10))
  <1> DEFINE a == Abs(error)
             f == Divide(error, 10)
             g == Divide(a - v, 10)
  <1>1. a \in Nat /\ error <= a
    BY DEF Abs
  <1>2. f \in Int /\ error - 9 <= 10 * f /\ 10 * f <= error + 9
    BY DivideNear
  <1>3. g \in Int /\ a - v - 9 <= 10 * g
    <2>1. a - v \in Int
      BY <1>1
    <2> HIDE DEF a
    <2> QED BY <2>1, DivideNear
  <1> HIDE DEF a, f, g
  <1> USE DEF LateBounds, EarlyDelay, Between, AtLeast
  <1>10. CASE k = 0
    <2>1. e = 0 /\ d = 0 /\ v = 0 /\ B <= t /\ t <= B + 3 * P /\ error = t
      BY <1>10
    <2> QED BY <1>1, <1>2, <1>3, <1>10, <2>1 DEF a, f, g
  <1>11. CASE k = 1
    <2>1. /\ B <= last /\ last <= B + 3 * P
          /\ B + 1 * P <= t /\ t <= B + 4 * P
          /\ e = last
      BY <1>11, last \div 1 = last
    <2>2. /\ 100 * B + 0 * P - 10000 <= 1000 * d
          /\ 1000 * d <= 100 * B + 300 * P + 10000
          /\ 100 * B + 0 * P - 20000 <= 1000 * v
      BY <1>11
    <2>3. /\ 90 * B - 200 * P - 10000 <= 1000 * (d + f)
          /\ 1000 * (d + f) <= 90 * B + 670 * P + 10000
      BY <1>2, <2>1, <2>2
    <2>4. 90 * B + 0 * P - 20000 <= 1000 * (v + g)
      BY <1>1, <1>3, <2>1, <2>2
    <2> QED BY <1>11, <2>3, <2>4 DEF a, f, g
  <1>12. CASE k = 2
    <2>1. /\ B + 1 * P <= last /\ last <= B + 4 * P
          /\ B + 2 * P <= t /\ t <= B + 5 * P
          /\ 2 * e <= last /\ last < 2 * e + 2
      BY <1>12
    <2>2. /\ 90 * B - 200 * P - 10000 <= 1000 * d
          /\ 1000 * d <= 90 * B + 670 * P + 10000
          /\ 90 * B + 0 * P - 20000 <= 1000 * v
      BY <1>12
    <2>3. /\ 131 * B - 180 * P - 10000 <= 1000 * (d + f)
          /\ 1000 * (d + f) <= 131 * B + 1053 * P + 10000
      BY <1>2, <2>1, <2>2
    <2>4. 122 * B - 67 * P - 20000 <= 1000 * (v + g)
      BY <1>1, <1>3, <2>1, <2>2
    <2> QED BY <1>12, <2>3, <2>4 DEF a, f, g
  <1>13. CASE k = 3
    <2>1. /\ B + 2 * P <= last /\ last <= B + 5 * P
          /\ B + 3 * P <= t /\ t <= B + 6 * P
          /\ 3 * e <= last /\ last < 3 * e + 3
      BY <1>13
    <2>2. /\ 131 * B - 180 * P - 10000 <= 1000 * d
          /\ 1000 * d <= 131 * B + 1053 * P + 10000
          /\ 122 * B - 67 * P - 20000 <= 1000 * v
      BY <1>13
    <2>3. /\ 184 * B - 29 * P - 10000 <= 1000 * (d + f)
          /\ 1000 * (d + f) <= 185 * B + 1482 * P + 10000
      BY <1>2, <2>1, <2>2
    <2>4. 163 * B - 33 * P - 20000 <= 1000 * (v + g)
      BY <1>1, <1>3, <2>1, <2>2
    <2> QED BY <1>13, <2>3, <2>4 DEF a, f, g
  <1>14. CASE k = 4
    <2>1. /\ B + 3 * P <= last /\ last <= B + 6 * P
          /\ B + 4 * P <= t /\ t <= B + 7 * P
          /\ 4 * e <= last /\ last < 4 * e + 4
      BY <1>14
    <2>2. /\ 184 * B - 29 * P - 10000 <= 1000 * d
          /\ 1000 * d <= 185 * B + 1482 * P + 10000
          /\ 163 * B - 33 * P - 20000 <= 1000 * v
      BY <1>14
    <2>3. /\ 240 * B + 223 * P - 10000 <= 1000 * (d + f)
          /\ 1000 * (d + f) <= 242 * B + 1959 * P + 10000
      BY <1>2, <2>1, <2>2
    <2>4. 203 * B + 72 * P - 20000 <= 1000 * (v + g)
      BY <1>1, <1>3, <2>1, <2>2
    <2> QED BY <1>14, <2>3, <2>4 DEF a, f, g
  <1>15. CASE k = 5
    <2>1. /\ B + 4 * P <= last /\ last <= B + 7 * P
          /\ B + 5 * P <= t /\ t <= B + 8 * P
          /\ 5 * e <= last /\ last < 5 * e + 5
      BY <1>15
    <2>2. /\ 240 * B + 223 * P - 10000 <= 1000 * d
          /\ 1000 * d <= 242 * B + 1959 * P + 10000
          /\ 203 * B + 72 * P - 20000 <= 1000 * v
      BY <1>15
    <2>3. /\ 296 * B + 560 * P - 10000 <= 1000 * (d + f)
          /\ 1000 * (d + f) <= 298 * B + 2484 * P + 10000
      BY <1>2, <2>1, <2>2
    <2>4. 238 * B + 228 * P - 20000 <= 1000 * (v + g)
      BY <1>1, <1>3, <2>1, <2>2
    <2> QED BY <1>15, <2>3, <2>4 DEF a, f, g
  <1>16. CASE k = 6
    <2>1. /\ B + 5 * P <= last /\ last <= B + 8 * P
          /\ B + 6 * P <= t /\ t <= B + 9 * P
          /\ 6 * e <= last /\ last < 6 * e + 6
      BY <1>16
    <2>2. /\ 296 * B + 560 * P - 10000 <= 1000 * d
          /\ 1000 * d <= 298 * B + 2484 * P + 10000
          /\ 238 * B + 228 * P - 20000 <= 1000 * v
      BY <1>16
    <2>3. /\ 349 * B + 970 * P - 10000 <= 1000 * (d + f)
          /\ 1000 * (d + f) <= 352 * B + 3053 * P + 10000
      BY <1>2, <2>1, <2>2
    <2>4. 267 * B + 423 * P - 20000 <= 1000 * (v + g)
      BY <1>1, <1>3, <2>1, <2>2
    <2> QED BY <1>16, <2>3, <2>4 DEF a, f, g
  <1>17. CASE k = 7
    <2>1. /\ B + 6 * P <= last /\ last <= B + 9 * P
          /\ B + 7 * P <= t /\ t <= B + 10 * P
          /\ 7 * e <= last /\ last < 7 * e + 7
      BY <1>17
    <2>2. /\ 349 * B + 970 * P - 10000 <= 1000 * d
          /\ 1000 * d <= 352 * B + 3053 * P + 10000
          /\ 267 * B + 423 * P - 20000 <= 1000 * v
      BY <1>17
    <2>3. /\ 399 * B + 1444 * P - 10000 <= 1000 * (d + f)
          /\ 1000 * (d + f) <= 403 * B + 3662 * P + 10000
      BY <1>2, <2>1, <2>2
    <2>4. 290 * B + 646 * P - 20000 <= 1000 * (v + g)
      BY <1>1, <1>3, <2>1, <2>2
    <2> QED BY <1>17, <2>3, <2>4 DEF a, f, g
  <1>18. CASE k = 8
    <2>1. /\ B + 7 * P <= last /\ last <= B + 10 * P
          /\ B + 8 * P <= t /\ t <= B + 11 * P
          /\ 8 * e <= last /\ last < 8 * e + 8
      BY <1>18
    <2>2. /\ 399 * B + 1444 * P - 10000 <= 1000 * d
          /\ 1000 * d <= 403 * B + 3662 * P + 10000
          /\ 290 * B + 646 * P - 20000 <= 1000 * v
      BY <1>18
    <2>3. /\ 446 * B + 1974 * P - 10000 <= 1000 * (d + f)
          /\ 1000 * (d + f) <= 451 * B + 4309 * P + 10000
      BY <1>2, <2>1, <2>2
    <2>4. 308 * B + 890 * P - 20000 <= 1000 * (v + g)
      BY <1>1, <1>3, <2>1, <2>2
    <2> QED BY <1>18, <2>3, <2>4 DEF a, f, g
  <1>19. CASE k = 9
    <2>1. /\ B + 8 * P <= last /\ last <= B + 11 * P
          /\ B + 9 * P <= t /\ t <= B + 12 * P
          /\ 9 * e <= last /\ last < 9 * e + 9
      BY <1>19
    <2>2. /\ 446 * B + 1974 * P - 10000 <= 1000 * d
          /\ 1000 * d <= 451 * B + 4309 * P + 10000
          /\ 308 * B + 890 * P - 20000 <= 1000 * v
      BY <1>19
    <2>3. /\ 490 * B + 2554 * P - 10000 <= 1000 * (d + f)
          /\ 1000 * (d + f) <= 495 * B + 4990 * P + 10000
      BY <1>2, <2>1, <2>2
    <2>4. 320 * B + 1147 * P - 20000 <= 1000 * (v + g)
      BY <1>1, <1>3, <2>1, <2>2
    <2> QED BY <1>19, <2>3, <2>4 DEF a, f, g
  <1> HIDE DEF LateBounds, EarlyDelay, Between, AtLeast
  <1>20. \/ k = 0 \/ k = 1 \/ k = 2 \/ k = 3 \/ k = 4
         \/ k = 5 \/ k = 6 \/ k = 7 \/ k = 8 \/ k = 9
    OBVIOUS
  <1> HIDE DEF a, f, g
  <1> QED BY <1>10, <1>11, <1>12, <1>13, <1>14, <1>15, <1>16, <1>17, <1>18, <1>19, <1>20
          DEF a, f, g

\* What is left of the error of the next regular heartbeat, beyond the delay.
Left == Last + prog.period - ea - delay

\* When the window fills, the margin covers what is left of the error.
LEMMA LateBoundsEnd ==
  ASSUME NEW B \in Nat, NEW P \in Nat, P >= 100, 10 * P <= B,
         NEW d \in Int, NEW v \in Nat, LateBounds(10, B, P, d, v),
         NEW last \in Nat, B + 9 * P <= last, last <= B + 12 * P,
         NEW e \in Nat, e = last \div 10
  PROVE  /\ last - e - d <= 4 * v
         /\ last = B + 10 * P => last + P - e - d \in 0 .. 4 * v
  <1>1. /\ 490 * B + 2554 * P - 10000 <= 1000 * d
        /\ 1000 * d <= 495 * B + 4990 * P + 10000
        /\ 320 * B + 1147 * P - 20000 <= 1000 * v
    BY DEF LateBounds, EarlyDelay, AtLeast, Between
  <1>2. 10 * e <= last /\ last < 10 * e + 10
    OBVIOUS
  <1>3. last + P - e - d <= 4 * v
    BY <1>1, <1>2
  <1>4. last = B + 10 * P => 0 <= last + P - e - d
    BY <1>1, <1>2
  <1> QED BY <1>3, <1>4

\* A heartbeat of a full window: u is what the estimate, with the delay, is
\* behind the receipt before, m what it moves by.
LEMMA LateMoves ==
  ASSUME NEW P \in Nat, P >= 100, NEW u \in Int, NEW v \in Nat, u <= 4 * v,
         NEW gap \in Nat, NEW m \in Int, NEW e \in Int, e = u + gap,
         \/ gap = P /\ 9 * P - 9 <= 10 * m
         \/ gap <= 3 * P /\ gap + 9 * P - 9 <= 10 * m /\ u + P \in 0 .. 4 * v
  PROVE  e - m - Divide(e, 10) <= 4 * (v + Divide(Abs(e) - v, 10))
  <1> DEFINE a == Abs(e)
             f == Divide(e, 10)
             g == Divide(a - v, 10)
  <1>1. a \in Nat /\ (e >= 0 => a = e)
    BY DEF Abs
  <1>2. /\ f \in Int /\ e - 9 <= 10 * f /\ 10 * f <= e + 9
        /\ e >= 0 => 0 <= f /\ 10 * f <= e
        /\ e <= 0 => f <= 0 /\ e <= 10 * f
    BY DivideNear
  <1>3. /\ g \in Int /\ a - v - 9 <= 10 * g /\ 0 <= v + g
    <2> DEFINE x == a - v
    <2>1. x \in Int /\ x >= -v
      BY <1>1
    <2> HIDE DEF x
    <2>2. /\ Divide(x, 10) \in Int /\ x - 9 <= 10 * Divide(x, 10)
          /\ x >= 0 => 0 <= Divide(x, 10)
          /\ x <= 0 => x <= 10 * Divide(x, 10) /\ Divide(x, 10) <= 0
      BY <2>1, DivideNear
    <2>3. 0 <= v + Divide(x, 10)
      BY <2>1, <2>2
    <2> QED BY <2>2, <2>3 DEF x
  <1> HIDE DEF a, f, g
  <1>4. 0 <= m
    OBVIOUS
  <1>5. e <= 0 => e - m - f <= 4 * (v + g)
    BY <1>2, <1>3, <1>4
  <1>6. ASSUME e > 0, gap = P, 9 * P - 9 <= 10 * m
        PROVE  e - m - f <= 4 * (v + g)
    <2>1. 10 * (e - m - f) <= 9 * u + 18
      BY <1>2, <1>6
    <2>2. 40 * (v + g) >= 36 * v + 4 * e - 36
      BY <1>1, <1>3, <1>6
    <2>3. e >= 14 => e - m - f <= 4 * (v + g)
      BY <1>2, <1>3, <2>1, <2>2
    <2>4. e < 14 => e - m - f <= 4 * (v + g)
      BY <1>2, <1>3, <1>6
    <2> QED BY <2>3, <2>4
  <1>7. ASSUME e > 0, gap <= 3 * P, gap + 9 * P - 9 <= 10 * m, u + P \in 0 .. 4 * v
        PROVE  e - m - f <= 4 * (v + g)
    <2>1. 10 * (e - m - f) <= 9 * e + 18 - gap - 9 * P
      BY <1>2, <1>7
    <2>2. 40 * (v + g) >= 36 * v + 4 * e - 36
      BY <1>1, <1>3, <1>7
    <2> QED BY <1>2, <1>3, <1>7, <2>1, <2>2
  <1>8. e - m - f <= 4 * (v + g)
    BY <1>5, <1>6, <1>7
  <1> QED BY <1>8 DEF a, f, g

\* While the heartbeats are regular.
LEMMA LeftMoves ==
  ASSUME NEW left \in Nat, NEW v \in Nat, left <= 4 * v
  PROVE  left - Divide(left, 10) \in 0 .. 4 * (v + Divide(Abs(left) - v, 10))
  <1> DEFINE f == Divide(left, 10)
             g == Divide(left - v, 10)
  <1>1. Abs(left) = left
    BY DEF Abs
  <1>2. f \in Int /\ left - 9 <= 10 * f /\ 10 * f <= left /\ 0 <= f
    BY DivideNear
  <1>3. /\ g \in Int /\ left - v - 9 <= 10 * g
        /\ left - v >= 0 => 0 <= g
        /\ left - v <= 0 => left - v <= 10 * g
    BY DivideNear
  <1> HIDE DEF f, g
  <1>4. left - f \in Nat
    BY <1>2
  <1>5. left - f <= 4 * (v + g)
    BY <1>2, <1>3
  <1>6. 4 * (v + g) \in Int
    BY <1>3
  <1>7. left - f \in 0 .. 4 * (v + g)
    BY <1>4, <1>5, <1>6
  <1> QED BY <1>1, <1>7 DEF f, g

\* What is known of a copy that learns its margin.
LEMMA LateSizes ==
  ASSUME RingInv, PaceInv, LatenessLearnt(prog)
  PROVE  /\ prog.n = 10 /\ prog.average /\ prog.hz = prog.period
         /\ prog.period \in Nat /\ 100 <= prog.period
         /\ Boot \in Nat /\ 10 * prog.period <= Boot /\ WORD \in Nat \ {0}
         /\ pkt_cnt \in Nat /\ Last \in Nat /\ irregular \in 0 .. 1
         /\ LateBy(2 * prog.period)
  <1>1. irregular \in 0 .. 1
    BY AveragingConstants DEF PaceInv, LatenessLearnt
  <1>2. prog.n = 10 /\ prog.average /\ prog.hz = prog.period /\ 100 <= prog.period
    BY DEF LatenessLearnt
  <1>3. prog.period \in Nat /\ prog.n * prog.hz <= Boot
    BY Sizes
  <1>4. LateBy(2 * prog.period)
    <2>1. prog.period + 2 * prog.period = 3 * prog.period
      BY <1>3
    <2> QED BY <2>1 DEF LateBy, LatenessLearnt
  <1> QED BY <1>1, <1>2, <1>3, <1>4, Sizes, LastReceipt

\* How far the receipts are from the start and from each other.
SpanInv ==
  LatenessLearnt(prog) =>
    /\ Boot + (pkt_cnt - 1) * prog.period <= Last
    /\ Last <= Boot + (pkt_cnt + 2) * prog.period
    /\ \A k \in 1 .. pkt_cnt : (pkt_cnt - k - 1) * prog.period <= Last - log[k]

LEMMA SpanReceive ==
  ASSUME RingInv, PaceInv, RegularInv, SpanInv, NEW t \in Nat, Last <= t, Receive(t),
         Regular(t) \/ Irregular(t)
  PROVE  SpanInv'
  <1> SUFFICES ASSUME LatenessLearnt(prog)'
               PROVE  /\ Boot + (pkt_cnt' - 1) * prog'.period <= Last'
                      /\ Last' <= Boot + (pkt_cnt' + 2) * prog'.period
                      /\ \A k \in 1 .. pkt_cnt' :
                           (pkt_cnt' - k - 1) * prog'.period <= Last' - log'[k]
    BY DEF SpanInv
  <1> DEFINE c == pkt_cnt
             P == prog.period
  <1>1. /\ prog' = prog /\ pkt_cnt' = c + 1 /\ Last' = t
        /\ log'[c + 1] = t /\ \A k \in 1 .. c : log'[k] = log[k]
        /\ \A k \in 1 .. c : log[k] \in Nat
    BY LogGrows, LastReceipt
  <1>2. LatenessLearnt(prog)
    BY <1>1 DEF LatenessLearnt
  <1>3. P \in Nat /\ c \in Nat /\ Boot \in Nat /\ Last \in Nat /\ irregular \in 0 .. 1
    BY <1>2, LateSizes
  <1>4. \/ t = Last + P
        \/ irregular = 0 /\ t <= Last + 3 * P
    <2>1. CASE Regular(t)
      BY <2>1 DEF Regular
    <2>2. CASE Irregular(t)
      <3>1. irregular = 0
        <4>1. MaxIrregular <= 1
          BY <1>2 DEF LatenessLearnt
        <4> QED BY <1>3, <2>2, <4>1, AveragingConstants DEF Irregular
      <3>2. t <= Last + P + 2 * P
        BY <1>2, <1>3, <2>2, LateSizes DEF Irregular
      <3> QED BY <1>3, <3>1, <3>2
    <2> QED BY <2>1, <2>2
  <1>5. /\ Boot + (c - 1) * P <= Last /\ Last <= Boot + (c + 2) * P
        /\ \A k \in 1 .. c : (c - k - 1) * P <= Last - log[k]
    BY <1>2 DEF SpanInv
  <1>6. irregular = 0 => Last = Boot + c * P /\ \A k \in 1 .. c : log[k] = Boot + k * P
    BY RegularLast DEF RegularInv
  <1> HIDE DEF c, P
  <1>7. /\ (c + 1 - 1) * P = c * P /\ (c - 1) * P = c * P - P
        /\ (c + 2) * P = c * P + 2 * P /\ (c + 1 + 2) * P = c * P + 3 * P
        /\ c * P \in Nat
    BY <1>3
  <1>8. Boot + (c + 1 - 1) * P <= t /\ t <= Boot + (c + 1 + 2) * P
    <2> DEFINE x == c * P
               low == (c - 1) * P
               high == (c + 2) * P
               low2 == (c + 1 - 1) * P
               high2 == (c + 1 + 2) * P
    <2>1. /\ low2 = x /\ low = x - P /\ high = x + 2 * P /\ high2 = x + 3 * P /\ x \in Nat
          /\ Boot + low <= Last /\ Last <= Boot + high
          /\ irregular = 0 => Last = Boot + x
      BY <1>5, <1>6, <1>7
    <2> HIDE DEF x, low, high, low2, high2
    <2>2. Boot + low2 <= t /\ t <= Boot + high2
      BY <1>3, <1>4, <2>1
    <2> QED BY <2>2 DEF low2, high2
  <1>9. ASSUME NEW k \in 1 .. c + 1
        PROVE  (c + 1 - k - 1) * P <= t - log'[k]
    <2>1. CASE k = c + 1
      <3>1. (c + 1 - k - 1) * P = -P /\ t - log'[k] = 0
        BY <1>1, <1>3, <2>1
      <3> QED BY <1>3, <3>1
    <2>2. CASE k \in 1 .. c
      <3> DEFINE x == (c - k) * P
      <3>1. (c + 1 - k - 1) * P = x /\ (c - k - 1) * P = x - P /\ x \in Nat
        BY <1>3, <2>2
      <3>2. log'[k] = log[k] /\ log[k] \in Nat
        BY <1>1, <2>2 DEF c
      <3>3. x - P <= Last - log[k]
        BY <1>5, <2>2, <3>1
      <3>4. irregular = 0 => Last - log[k] = x
        <4>1. c * P = x + k * P /\ k * P \in Nat
          BY <1>3, <2>2
        <4>2. irregular = 0 => Last = Boot + c * P /\ log[k] = Boot + k * P
          BY <1>6, <2>2
        <4> HIDE DEF x
        <4> QED BY <1>3, <3>1, <4>1, <4>2
      <3> HIDE DEF x
      <3>5. x <= t - log[k]
        BY <1>3, <1>4, <3>1, <3>2, <3>3, <3>4
      <3> QED BY <3>1, <3>2, <3>5
    <2> QED BY <1>3, <2>1, <2>2
  <1>10. prog'.period = P
    BY <1>1 DEF P
  <1>11. Boot + (pkt_cnt' - 1) * prog'.period <= Last'
    <2>1. pkt_cnt' - 1 = c + 1 - 1
      BY <1>1, <1>3
    <2>2. (pkt_cnt' - 1) * prog'.period = (c + 1 - 1) * P
      BY <1>10, <2>1
    <2> QED BY <1>1, <1>8, <2>2
  <1>12. Last' <= Boot + (pkt_cnt' + 2) * prog'.period
    <2>1. pkt_cnt' + 2 = c + 1 + 2
      BY <1>1, <1>3
    <2>2. (pkt_cnt' + 2) * prog'.period = (c + 1 + 2) * P
      BY <1>10, <2>1
    <2> QED BY <1>1, <1>8, <2>2
  <1>13. ASSUME NEW k \in 1 .. pkt_cnt'
         PROVE  (pkt_cnt' - k - 1) * prog'.period <= Last' - log'[k]
    <2>1. k \in 1 .. c + 1
      BY <1>1, <1>13
    <2>2. (c + 1 - k - 1) * P <= t - log'[k]
      BY <1>9, <2>1
    <2>3. pkt_cnt' - k - 1 = c + 1 - k - 1 /\ pkt_cnt' - k - 1 \in Int
      BY <1>1, <1>3, <2>1
    <2>4. (pkt_cnt' - k - 1) * prog'.period = (c + 1 - k - 1) * P
      BY <1>10, <2>3
    <2> QED BY <1>1, <2>2, <2>4
  <1> QED BY <1>11, <1>12, <1>13

MarginCoversLeft ==
  /\ Last - ea - delay <= 4 * var
  /\ irregular = 0 => Left \in 0 .. 4 * var

EarlyLate ==
  /\ LateBounds(pkt_cnt, Boot, prog.period, delay, var)
  /\ pkt_cnt = 0 => ea = 0
  /\ pkt_cnt > 0 => ea = Last \div pkt_cnt

AheadInv ==
  prog.learns /\ LatenessLearnt(prog) =>
    /\ delay \in 0 .. Last /\ var <= Last
    /\ pkt_cnt <= 10 => EarlyLate
    /\ pkt_cnt >= 10 => base <= 0 /\ MarginCoversLeft

\* The estimate is behind the mean over the window by what base is below 0.
LEMMA LearntBehind ==
  ASSUME RingInv, ClockInv, EstimateType, TrackInv, PaceInv, AheadInv,
         prog.learns, LatenessLearnt(prog)
  PROVE  ea \in 0 .. Last
  <1> DEFINE s == WindowSum(log, pkt_cnt)
  <1>1. /\ prog.n = 10 /\ prog.average /\ pkt_cnt \in Nat /\ Last \in Nat
        /\ WORD \in Nat \ {0}
    BY LateSizes
  <1>2. ea \in Nat
    BY <1>1 DEF EstimateType
  <1>3. CASE pkt_cnt = 0
    BY <1>1, <1>3 DEF AheadInv, EarlyLate
  <1>4. CASE pkt_cnt \in 1 .. 10
    <2>1. ea = Last \div pkt_cnt
      BY <1>4 DEF AheadInv, EarlyLate
    <2>2. Last \div pkt_cnt <= Last
      <3> DEFINE c == pkt_cnt
                 l == Last
      <3>1. c \in 1 .. 10 /\ l \in Nat
        BY <1>1, <1>4
      <3> HIDE DEF c, l
      <3>2. \/ c = 1 \/ c = 2 \/ c = 3 \/ c = 4 \/ c = 5
            \/ c = 6 \/ c = 7 \/ c = 8 \/ c = 9 \/ c = 10
        BY <3>1
      <3>3. l \div c <= l
        BY <3>1, <3>2
      <3> QED BY <3>3 DEF c, l
    <2> QED BY <1>1, <1>2, <2>1, <2>2
  <1>5. CASE pkt_cnt >= 10
    <2>1. s \in Int /\ s <= 10 * Last
      BY <1>1, <1>5, WindowTyped
    <2>2. base \in Int /\ base <= 0 /\ 0 <= s + base - 10 * ea
      BY <1>1, <1>5, TracksIs DEF TrackInv, BaseFits, TracksMeans, Tracks, AheadInv
    <2> HIDE DEF s
    <2> QED BY <1>1, <1>2, <2>1, <2>2
  <1> QED BY <1>1, <1>3, <1>4, <1>5

\* delay and var move by a tenth of the way to errors no larger than the clock.
LEMMA LearntAmounts ==
  ASSUME RingInv, ClockInv, MarginInv, EstimateType, TrackInv, PaceInv, AheadInv, MarginInv',
         prog.learns, LatenessLearnt(prog), NEW t \in Nat, Last <= t, Receive(t)
  PROVE  delay' \in 0 .. t /\ var' <= t
  <1> DEFINE y == t - ea
             error == t - ea - delay
             a == Abs(error)
  <1>1. Last \in Nat /\ ea \in 0 .. Last /\ delay \in 0 .. Last /\ var \in Nat /\ var <= Last
    BY LateSizes, LearntBehind DEF AheadInv, MarginInv
  <1>2. y \in Nat /\ y <= t /\ delay \in Nat /\ delay <= t /\ var <= t
    BY <1>1
  <1>3. error = y - delay
    OBVIOUS
  <1>4. /\ delay' = delay + Divide(error, 10)
        /\ var' = var + Divide(a - var, 10)
    BY DEF Receive, Jacobson
  <1> HIDE DEF y, error
  <1>5. a \in Nat /\ a <= t
    BY <1>2, <1>3 DEF Abs
  <1> HIDE DEF a
  <1>6. delay' \in Nat /\ delay' <= LouderIs(delay, y)
    BY <1>2, <1>3, <1>4, TenthOfTheWay
  <1>7. var' \in Nat /\ var' <= LouderIs(var, a)
    BY <1>1, <1>4, <1>5, TenthOfTheWay
  <1>8. LouderIs(delay, y) <= t /\ LouderIs(var, a) <= t
    BY <1>2, <1>5 DEF LouderIs
  <1>9. LouderIs(delay, y) \in Nat /\ LouderIs(var, a) \in Nat
    BY <1>1, <1>2, <1>5 DEF LouderIs
  <1> QED BY <1>6, <1>7, <1>8, <1>9

\* One of the first ten heartbeats.
LEMMA LateEarlyReceive ==
  ASSUME RingInv, ClockInv, MarginInv, EstimateType, TrackInv, PaceInv, RegularInv, SpanInv,
         AheadInv, PaceInv', SpanInv', prog.learns, LatenessLearnt(prog), pkt_cnt < 10,
         NEW t \in Nat, Last <= t, Receive(t)
  PROVE  EarlyLate'
  <1> DEFINE k == pkt_cnt
             B == Boot
             P == prog.period
             last == Last
             error == t - ea - delay
  <1>1. /\ k \in 0 .. 9 /\ k \in Nat /\ B \in Nat /\ P \in Nat /\ P >= 100 /\ last \in Nat
        /\ prog.n = 10
    BY LateSizes
  <1>2. delay \in Int /\ var \in Nat /\ ea \in Nat
    BY <1>1, Sizes DEF MarginInv, EstimateType
  <1>3. /\ LateBounds(k, B, P, delay, var)
        /\ k = 0 => ea = 0
        /\ k > 0 => ea = last \div k
    BY <1>1 DEF AheadInv, EarlyLate
  <1>4. B + (k - 1) * P <= last /\ last <= B + (k + 2) * P
    BY DEF SpanInv
  <1>5. /\ prog' = prog /\ pkt_cnt' = k + 1 /\ Last' = t
    BY LogGrows
  <1>6. B + k * P <= t /\ t <= B + (k + 3) * P
    <2>1. B + (pkt_cnt' - 1) * P <= t /\ t <= B + (pkt_cnt' + 2) * P
      BY <1>5 DEF SpanInv, LatenessLearnt
    <2>2. pkt_cnt' - 1 = k /\ pkt_cnt' + 2 = k + 3
      BY <1>1, <1>5
    <2> QED BY <2>1, <2>2
  <1>7. /\ delay' = delay + Divide(error, 10)
        /\ var' = var + Divide(Abs(error) - var, 10)
    BY DEF Receive, Jacobson
  <1>8. error \in Int /\ error = t - ea - delay
    BY <1>2
  <1> HIDE DEF k, B, P, last, error
  <1>9. LateBounds(k + 1, B, P, delay + Divide(error, 10), var + Divide(Abs(error) - var, 10))
    BY <1>1, <1>2, <1>3, <1>4, <1>6, <1>8, LateBoundsMove
  <1>10. LateBounds(pkt_cnt', Boot, prog.period, delay', var')
    BY <1>5, <1>7, <1>9 DEF B, P
  <1>11. EarlyEstimate(t)
    BY <1>1, WhichEstimate DEF FirstEstimate, k
  <1>12. ea' = t \div (k + 1)
    BY <1>11, EarlyIs DEF k
  <1>13. pkt_cnt' # 0
    BY <1>1, <1>5
  <1> QED BY <1>5, <1>10, <1>12, <1>13 DEF EarlyLate

\* The tenth of them fills the window.
LEMMA LateTenth ==
  ASSUME RingInv, ClockInv, EstimateType, PaceInv, RegularInv, RingInv', WindowFits',
         MarginInv', EstimateType', TrackInv', SpanInv', EarlyLate',
         prog.learns, LatenessLearnt(prog), pkt_cnt' = 10,
         NEW t \in Nat, Last <= t, Receive(t),
         irregular' = 0 => t = Boot + (pkt_cnt + 1) * prog.period
  PROVE  base' <= 0 /\ MarginCoversLeft'
  <1> DEFINE B == Boot
             P == prog.period
             d == delay'
             v == var'
             e == ea'
  <1>1. /\ B \in Nat /\ P \in Nat /\ P >= 100 /\ 10 * P <= B /\ prog.n = 10 /\ prog.average
        /\ prog' = prog /\ Last' = t /\ pkt_cnt' = pkt_cnt + 1 /\ pkt_cnt \in Nat
        /\ WORD \in Nat \ {0}
    BY LateSizes, LogGrows
  <1>2. d \in Int /\ v \in Nat /\ e \in Nat
    BY <1>1 DEF MarginInv, EstimateType
  <1>3. LateBounds(10, B, P, d, v) /\ e = t \div 10
    BY <1>1 DEF EarlyLate
  <1>4. B + 9 * P <= t /\ t <= B + 12 * P
    <2>1. B + (pkt_cnt' - 1) * P <= t /\ t <= B + (pkt_cnt' + 2) * P
      BY <1>1 DEF SpanInv, LatenessLearnt
    <2>2. pkt_cnt' - 1 = 9 /\ pkt_cnt' + 2 = 12
      OBVIOUS
    <2> QED BY <2>1, <2>2
  <1>5. irregular' = 0 => t = B + 10 * P
    BY <1>1
  <1>6. Left' = t + P - e - d
    BY <1>1 DEF Left
  <1>7. base' <= 0
    <2> DEFINE w == WindowSum(log, pkt_cnt)'
               b == base'
    <2>1. w \in Int /\ t <= w
      BY <1>1, FirstWindow
    <2>2. b \in Int
      BY <1>1 DEF TrackInv, BaseFits
    <2>3. Behind' = 0
      BY <1>1, NothingLostYet
    <2>4. Behind' = w + b - 10 * e
      BY <1>1 DEF Behind
    <2>5. 10 * e <= t
      BY <1>3
    <2> HIDE DEF w, b, e
    <2>6. b <= 0
      BY <1>2, <2>1, <2>2, <2>3, <2>4, <2>5
    <2> QED BY <2>6 DEF b
  <1> HIDE DEF B, P, d, v, e
  <1>8. /\ t - e - d <= 4 * v
        /\ t = B + 10 * P => t + P - e - d \in 0 .. 4 * v
    BY <1>1, <1>2, <1>3, <1>4, LateBoundsEnd
  <1>9. Last' - e - d <= 4 * v /\ (irregular' = 0 => Left' \in 0 .. 4 * v)
    BY <1>1, <1>5, <1>6, <1>8
  <1> QED BY <1>7, <1>9 DEF MarginCoversLeft, d, v, e

\* A heartbeat of a full window.
LEMMA LateFullReceive ==
  ASSUME RingInv, ClockInv, MarginInv, EstimateType, TrackInv, PaceInv, RegularInv, SpanInv,
         AheadInv, RingInv', ClockInv', WindowFits', SumFits',
         prog.learns, LatenessLearnt(prog), pkt_cnt >= 10,
         NEW t \in Nat, Last <= t, Receive(t), Regular(t) \/ Irregular(t)
  PROVE  base' <= 0 /\ MarginCoversLeft'
  <1> DEFINE P == prog.period
             c == pkt_cnt
             oldest == log[c - 9]
             d == t - oldest
             m == d \div 10
             u == Last - ea - delay
             gap == t - Last
             error == t - ea - delay
  <1>1. /\ P \in Nat /\ P >= 100 /\ prog.n = 10 /\ prog.average /\ c \in Nat /\ c >= 10
        /\ Boot \in Nat /\ Last \in Nat /\ irregular \in 0 .. 1 /\ WORD \in Nat \ {0}
        /\ prog' = prog /\ Last' = t
    BY LateSizes, LogGrows
  <1>2. delay \in Int /\ var \in Nat /\ ea \in Nat
    BY <1>1 DEF MarginInv, EstimateType
  <1>3. base' = base /\ ea' = ea + m
    <2>1. pkt_cnt - prog.n + 1 = c - 9
      BY <1>1
    <2> QED BY <1>1, <2>1, MovedTracks
  <1>4. base <= 0 /\ u <= 4 * var /\ (irregular = 0 => u + P \in 0 .. 4 * var)
    <2>1. base <= 0 /\ u <= 4 * var /\ (irregular = 0 => Left \in 0 .. 4 * var)
      BY <1>1 DEF AheadInv, MarginCoversLeft
    <2>2. Left = u + P
      BY <1>1, <1>2 DEF Left
    <2> QED BY <2>1, <2>2
  <1>5. oldest \in Nat /\ 8 * P <= Last - oldest
    <2>1. c - 9 \in 1 .. pkt_cnt /\ pkt_cnt - (c - 9) - 1 = 8
      BY <1>1
    <2>2. (pkt_cnt - (c - 9) - 1) * P <= Last - oldest
      BY <2>1 DEF SpanInv
    <2>3. oldest \in Nat
      BY <2>1, LastReceipt
    <2> QED BY <2>1, <2>2, <2>3
  <1>6. irregular = 0 => Last - oldest = 9 * P
    <2> SUFFICES ASSUME irregular = 0 PROVE Last - oldest = 9 * P
      OBVIOUS
    <2>1. c - 9 \in 1 .. pkt_cnt
      BY <1>1
    <2>2. oldest = Boot + (c - 9) * P /\ Last = Boot + c * P
      BY <2>1, RegularLast DEF RegularInv
    <2>3. (c - 9) * P = c * P - 9 * P /\ c * P \in Nat
      BY <1>1
    <2> DEFINE x == c * P
               y == (c - 9) * P
    <2>4. x \in Nat /\ y = x - 9 * P /\ oldest = Boot + y /\ Last = Boot + x
      BY <2>2, <2>3
    <2> HIDE DEF x, y, oldest
    <2> QED BY <1>1, <2>4
  <1>7. \/ t = Last + P /\ irregular' = irregular
        \/ irregular = 0 /\ irregular' = 1 /\ t <= Last + 3 * P
    <2>1. CASE Regular(t)
      BY <2>1 DEF Regular
    <2>2. CASE Irregular(t)
      <3>1. irregular = 0
        <4>1. MaxIrregular <= 1
          BY DEF LatenessLearnt
        <4> QED BY <1>1, <2>2, <4>1, AveragingConstants DEF Irregular
      <3>2. t <= Last + P + 2 * P
        BY <1>1, <2>2, LateSizes DEF Irregular
      <3> QED BY <1>1, <2>2, <3>1, <3>2 DEF Irregular
    <2> QED BY <2>1, <2>2
  <1>8. /\ delay' = delay + Divide(error, 10)
        /\ var' = var + Divide(Abs(error) - var, 10)
    BY DEF Receive, Jacobson
  <1>9. error = u + gap /\ error \in Int /\ u \in Int /\ gap \in Nat
    BY <1>1, <1>2
  <1>10. /\ gap = P /\ 9 * P <= d /\ irregular' = irregular /\ (irregular = 0 => d = 10 * P)
         \/ /\ gap <= 3 * P /\ gap + 9 * P = d /\ irregular = 0 /\ irregular' = 1
    <2> HIDE DEF P, oldest
    <2>1. CASE t = Last + P /\ irregular' = irregular
      BY <1>1, <1>5, <1>6, <2>1
    <2>2. CASE irregular = 0 /\ irregular' = 1 /\ t <= Last + 3 * P
      BY <1>1, <1>5, <1>6, <2>2
    <2> QED BY <1>7, <2>1, <2>2
  <1>11. d \in Nat
    BY <1>1, <1>5
  <1>12. Divide(error, 10) \in Int
    BY <1>9, DivideIsInt
  <1>13. Last' - ea' - delay' = error - m - Divide(error, 10)
    <2>1. m \in Int
      <3> HIDE DEF d
      <3> QED BY <1>11
    <2> HIDE DEF m
    <2> QED BY <1>1, <1>2, <1>3, <1>8, <1>12, <2>1
  <1>14. Left' = Last' - ea' - delay' + P
    <2>1. ea' \in Int /\ delay' \in Int
      <3>1. m \in Int
        <4> HIDE DEF d
        <4> QED BY <1>11
      <3> HIDE DEF m
      <3> QED BY <1>2, <1>3, <1>8, <1>12, <3>1
    <2> QED BY <1>1, <2>1 DEF Left
  <1> HIDE DEF P, c, oldest, u, gap, error, d
  <1>15. m \in Int /\ d - 9 <= 10 * m /\ 10 * m <= d
    BY <1>11
  <1> HIDE DEF m
  <1>16. error - m - Divide(error, 10) <= 4 * var'
    <2>1. \/ gap = P /\ 9 * P - 9 <= 10 * m
          \/ gap <= 3 * P /\ gap + 9 * P - 9 <= 10 * m /\ u + P \in 0 .. 4 * var
      BY <1>1, <1>4, <1>9, <1>10, <1>11, <1>15
    <2>2. error - m - Divide(error, 10) <= 4 * (var + Divide(Abs(error) - var, 10))
      BY <1>1, <1>2, <1>4, <1>9, <1>15, <2>1, LateMoves
    <2> QED BY <1>8, <2>2
  <1>17. irregular' = 0 => Left' \in 0 .. 4 * var'
    <2> SUFFICES ASSUME irregular' = 0 PROVE Left' \in 0 .. 4 * var'
      OBVIOUS
    <2>1. irregular = 0 /\ gap = P /\ d = 10 * P
      BY <1>10
    <2>2. m = P
      BY <1>1, <1>15, <2>1
    <2>3. error \in Nat /\ error <= 4 * var
      BY <1>1, <1>2, <1>4, <1>9, <2>1
    <2>4. error - Divide(error, 10) \in 0 .. 4 * (var + Divide(Abs(error) - var, 10))
      BY <1>2, <2>3, LeftMoves
    <2>5. Left' = error - Divide(error, 10)
      BY <1>1, <1>9, <1>12, <1>13, <1>14, <2>2
    <2> QED BY <1>8, <2>4, <2>5
  <1> QED BY <1>3, <1>4, <1>13, <1>16, <1>17 DEF MarginCoversLeft

LEMMA AheadReceive ==
  ASSUME RingInv, ClockInv, MarginInv, EstimateType, TrackInv, PaceInv, RegularInv, SpanInv,
         AheadInv, RingInv', ClockInv', WindowFits', SumFits', MarginInv', EstimateType',
         TrackInv', PaceInv', SpanInv',
         NEW t \in Nat, Last <= t, Receive(t), Regular(t) \/ Irregular(t)
  PROVE  AheadInv'
  <1> SUFFICES ASSUME prog'.learns, LatenessLearnt(prog)'
               PROVE  /\ delay' \in 0 .. Last' /\ var' <= Last'
                      /\ pkt_cnt' <= 10 => EarlyLate'
                      /\ pkt_cnt' >= 10 => base' <= 0 /\ MarginCoversLeft'
    BY DEF AheadInv
  <1>1. /\ prog' = prog /\ Last' = t /\ pkt_cnt' = pkt_cnt + 1 /\ pkt_cnt \in Nat
    BY LogGrows, LastReceipt
  <1>2. prog.learns /\ LatenessLearnt(prog)
    BY <1>1 DEF LatenessLearnt
  <1>3. delay' \in 0 .. t /\ var' <= t
    BY <1>2, LearntAmounts
  <1>4. CASE pkt_cnt < 10
    <2>1. EarlyLate'
      BY <1>2, <1>4, LateEarlyReceive
    <2>2. pkt_cnt' >= 10 => pkt_cnt' = 10
      BY <1>1, <1>4
    <2>3. \/ t = Last + prog.period /\ irregular' = irregular
          \/ irregular' = irregular + 1
      BY DEF Regular, Irregular
    <2>4. irregular' = 0 => t = Boot + (pkt_cnt + 1) * prog.period
      BY <2>3, RegularReceive
    <2>5. pkt_cnt' = 10 => base' <= 0 /\ MarginCoversLeft'
      BY <1>2, <2>1, <2>4, LateTenth
    <2> QED BY <1>1, <1>3, <2>1, <2>2, <2>5
  <1>5. CASE pkt_cnt >= 10
    <2>1. ~(pkt_cnt' <= 10)
      BY <1>1, <1>5
    <2>2. base' <= 0 /\ MarginCoversLeft'
      BY <1>2, <1>5, LateFullReceive
    <2> QED BY <1>1, <1>3, <2>1, <2>2
  <1> QED BY <1>1, <1>4, <1>5

LEMMA AheadKept ==
  ASSUME SpanInv, AheadInv, timer1_cb \/ UNCHANGED averagingVars
  PROVE  SpanInv' /\ AheadInv'
  <1>1. /\ prog' = prog /\ irregular' = irregular /\ pkt_cnt' = pkt_cnt /\ ea' = ea
        /\ delay' = delay /\ var' = var /\ log' = log /\ base' = base /\ Last' = Last
    BY DEF timer1_cb, averagingVars, ringVars, marginVars, historyVars, Last
  <1>2. LatenessLearnt(prog)' <=> LatenessLearnt(prog)
    BY <1>1 DEF LatenessLearnt
  <1>3. SpanInv'
    BY <1>1, <1>2 DEF SpanInv
  <1>4. EarlyLate' <=> EarlyLate
    BY <1>1 DEF EarlyLate
  <1>5. MarginCoversLeft' <=> MarginCoversLeft
    BY <1>1 DEF MarginCoversLeft, Left
  <1>6. AheadInv'
    BY <1>1, <1>2, <1>4, <1>5 DEF AheadInv
  <1> QED BY <1>3, <1>6

LEMMA AheadInit == AveragingInit => SpanInv /\ AheadInv
  <1> SUFFICES ASSUME AveragingInit PROVE SpanInv /\ AheadInv
    OBVIOUS
  <1>1. /\ pkt_cnt = 0 /\ ea = 0 /\ delay = 0 /\ var = 0 /\ Last = Boot
        /\ Boot \in Nat /\ prog.period \in Nat
    BY ProgramSizes, AveragingConstants DEF AveragingInit, Last
  <1>2. SpanInv
    BY <1>1 DEF SpanInv
  <1>3. EarlyLate
    <2>1. LateBounds(0, Boot, prog.period, 0, 0)
      BY DEF LateBounds
    <2> QED BY <1>1, <2>1 DEF EarlyLate
  <1>4. delay \in 0 .. Last /\ var <= Last /\ ~(pkt_cnt >= 10)
    BY <1>1
  <1> QED BY <1>2, <1>3, <1>4 DEF AheadInv

\* The margin the estimate was armed with last.
Margin == IF prog.learns THEN delay + 4 * var ELSE prog.margin

\* Five times the clock is within half a word, since ten times is within a word.
LEMMA LearntCovers ==
  ASSUME RingInv, ClockInv, MarginInv, EstimateType, TrackInv, PaceInv, AheadInv,
         pkt_cnt >= 10, prog.learns, LatenessLearnt(prog)
  PROVE  ea - Last + Margin \in 0 .. (WORD \div 2) - 1
  <1> DEFINE half == WORD \div 2
             h == (prog.n + 1 + prog.from) * prog.hz
  <1>1. /\ prog.n = 10 /\ WORD \in Nat \ {0} /\ Last \in Nat /\ prog.hz = prog.period
        /\ 100 <= prog.hz /\ prog.hz \in Nat /\ prog.from \in Nat
    BY LateSizes, Sizes
  <1>2. ea \in 0 .. Last /\ delay \in 0 .. Last /\ var \in Nat /\ var <= Last
    BY LearntBehind DEF AheadInv, MarginInv
  <1>3. Last - ea - delay <= 4 * var
    BY DEF AheadInv, MarginCoversLeft
  <1>4. Margin = delay + 4 * var
    BY DEF Margin
  <1>5. h \in Nat /\ 1 <= h
    <2>1. prog.n + 1 + prog.from \in Nat /\ 1 <= prog.n + 1 + prog.from
      BY <1>1
    <2> DEFINE k == prog.n + 1 + prog.from
               z == prog.hz
    <2>2. k \in Nat /\ 1 <= k /\ z \in Nat /\ 100 <= z
      BY <1>1, <2>1
    <2> HIDE DEF k, z
    <2>3. z * 1 <= z * k /\ z * k = k * z /\ z * 1 = z /\ k * z \in Nat
      BY <2>2, TimesMonotone
    <2>4. k * z \in Nat /\ 1 <= k * z
      BY <2>2, <2>3
    <2> QED BY <2>4 DEF k, z
  <1>6. 10 * (Last + h) < WORD
    BY <1>1, ReadingsFit DEF WindowFits
  <1>7. half \in Nat /\ WORD <= 2 * half + 1
    BY <1>1
  <1> HIDE DEF h, half
  <1>8. ea - Last + (delay + 4 * var) \in 0 .. half - 1
    BY <1>1, <1>2, <1>3, <1>5, <1>6, <1>7
  <1> QED BY <1>4, <1>8 DEF half

MarginsSuffice ==
  \A p \in Programs :
    /\ p.margin > 0 /\ ~p.learns => MarginSuffices(p)
    /\ p.learns => LatenessLearnt(p)

\* The callback arms the timer with the argument it was armed with before, so
\* the argument is kept as well as the deadline.
ArgInv ==
  /\ "armed" \in DOMAIN timer
  /\ timer.armed /\ (prog.margin > 0 \/ prog.learns) => timer.arg \in 0 .. (WORD \div 2) - 1

LEMMA ArmedKeeps ==
  ASSUME NEW amount \in 0 .. (WORD \div 2) - 1
  PROVE  amount % WORD = amount /\ amount \in 0 .. (WORD \div 2) - 1
  <1>1. WORD \in Nat \ {0} /\ (WORD \div 2) \in Nat /\ WORD \div 2 <= WORD
    BY AveragingConstants
  <1>2. amount \in 0 .. WORD - 1
    <2> DEFINE half == WORD \div 2
    <2>1. amount \in 0 .. half - 1 /\ half \in Nat /\ half <= WORD
      BY <1>1
    <2> HIDE DEF half
    <2> QED BY <1>1, <2>1
  <1> QED BY <1>1, <1>2, SmallMod

LEMMA ArmedFields ==
  ASSUME NEW amount
  PROVE  "armed" \in DOMAIN ArmedFor(amount) /\ ArmedFor(amount).arg = amount % WORD
  BY DEF ArmedFor

\* What MarginCovers and LearntCovers say of a state.
Covered ==
  pkt_cnt >= prog.n /\ (prog.margin > 0 \/ prog.learns) =>
    ea - Last + Margin \in 0 .. (WORD \div 2) - 1

LEMMA CoveredFrom ==
  ASSUME MarginsSuffice
  PROVE  /\ RingInv /\ ClockInv /\ MarginInv /\ EstimateType /\ TrackInv /\ PaceInv
         /\ LossInv /\ AheadInv
         => Covered
  <1> SUFFICES ASSUME RingInv, ClockInv, MarginInv, EstimateType, TrackInv, PaceInv, LossInv,
                      AheadInv, pkt_cnt >= prog.n, prog.margin > 0 \/ prog.learns
               PROVE  ea - Last + Margin \in 0 .. (WORD \div 2) - 1
    BY DEF Covered
  <1>1. prog \in Programs
    BY DEF RingInv, RingType
  <1>2. CASE prog.learns
    <2>1. LatenessLearnt(prog)
      BY <1>1, <1>2 DEF MarginsSuffice
    <2>2. pkt_cnt >= 10
      BY <2>1 DEF LatenessLearnt
    <2> QED BY <1>2, <2>1, <2>2, LearntCovers
  <1>3. CASE ~prog.learns
    <2>1. MarginSuffices(prog)
      BY <1>1, <1>3 DEF MarginsSuffice
    <2>2. Margin = prog.margin
      BY <1>3 DEF Margin
    <2> QED BY <1>3, <2>1, <2>2, MarginCovers
  <1> QED BY <1>2, <1>3

\* A reset in the receive loop is for an estimate ahead of the receipt.
LEMMA ArgReceive ==
  ASSUME RingInv, ArgInv, Covered', NEW t \in Nat, Last <= t, Receive(t)
  PROVE  ArgInv'
  <1>1. prog' = prog /\ Last' = t /\ prog \in Programs
    BY LogGrows DEF RingInv, RingType
  <1>2. CASE UNCHANGED timer
    BY <1>1, <1>2 DEF ArgInv
  <1>3. CASE /\ timer' = ArmedFor(ea' - t + safety_margin)
             /\ pkt_cnt' >= prog.n
    <2>1. "armed" \in DOMAIN timer' /\ timer'.arg = (ea' - t + safety_margin) % WORD
      BY <1>3, ArmedFields
    <2>2. ASSUME prog.margin > 0 \/ prog.learns
          PROVE  timer'.arg \in 0 .. (WORD \div 2) - 1
      <3>1. (ea - Last + Margin)' \in 0 .. (WORD \div 2) - 1
        BY <1>1, <1>3, <2>2 DEF Covered
      <3>2. safety_margin = Margin'
        BY <1>1 DEF safety_margin, Margin
      <3>3. ea' - t + safety_margin \in 0 .. (WORD \div 2) - 1
        BY <1>1, <3>1, <3>2
      <3> QED BY <2>1, <3>3, ArmedKeeps
    <2> QED BY <1>1, <2>1, <2>2 DEF ArgInv
  <1>4. /\ pkt_cnt' = pkt_cnt + 1 /\ pkt_cnt \in Nat /\ prog.n \in Nat
    BY LogGrows, Sizes
  <1>5. UNCHANGED timer \/ (timer' = ArmedFor(ea' - t + safety_margin) /\ pkt_cnt' >= prog.n)
    <2>1. CASE EarlyEstimate(t)
      BY <2>1 DEF EarlyEstimate
    <2>2. CASE FirstEstimate(t)
      BY <1>4, <2>2 DEF FirstEstimate
    <2>3. CASE MovedEstimate(t)
      BY <1>4, <2>3 DEF MovedEstimate
    <2> QED BY <2>1, <2>2, <2>3, WhichEstimate
  <1> QED BY <1>2, <1>3, <1>5

LEMMA ArgCallback ==
  ASSUME RingInv, ArgInv, timer1_cb
  PROVE  ArgInv'
  <1>1. prog' = prog /\ timer.armed
    BY DEF timer1_cb
  <1>2. CASE timer' = ArmedFor(timer.arg)
    <2>1. "armed" \in DOMAIN timer' /\ timer'.arg = timer.arg % WORD
      BY <1>2, ArmedFields
    <2>2. ASSUME prog.margin > 0 \/ prog.learns
          PROVE  timer'.arg \in 0 .. (WORD \div 2) - 1
      <3>1. timer.arg \in 0 .. (WORD \div 2) - 1
        BY <1>1, <2>2 DEF ArgInv
      <3> QED BY <2>1, <3>1, ArmedKeeps
    <2> QED BY <1>1, <2>1, <2>2 DEF ArgInv
  <1>3. CASE timer' = [timer EXCEPT !.armed = FALSE]
    <2>1. "armed" \in DOMAIN timer' /\ timer'.armed = FALSE
      BY <1>3 DEF ArgInv
    <2> QED BY <2>1 DEF ArgInv
  <1> QED BY <1>2, <1>3 DEF timer1_cb

LEMMA ArgStep ==
  RingInv /\ ClockInv /\ ArgInv /\ Covered' /\ [AveragingNext]_averagingVars => ArgInv'
  <1> SUFFICES ASSUME RingInv, ClockInv, ArgInv, Covered', [AveragingNext]_averagingVars
               PROVE  ArgInv'
    OBVIOUS
  <1>1. CASE Heartbeat
    BY <1>1, HeartbeatPace, ArgReceive
  <1>2. CASE timer1_cb
    BY <1>2, ArgCallback
  <1>3. CASE UNCHANGED averagingVars
    BY <1>3 DEF averagingVars, ArgInv
  <1> QED BY <1>1, <1>2, <1>3 DEF AveragingNext

\* Invariants of the spans and of the learnt margin, together.
LEMMA AheadStep ==
  /\ RingInv /\ ClockInv /\ MarginInv /\ EstimateType /\ TrackInv /\ PaceInv /\ RegularInv
  /\ SpanInv /\ AheadInv
  /\ RingInv' /\ ClockInv' /\ WindowFits' /\ SumFits' /\ MarginInv' /\ EstimateType'
  /\ TrackInv' /\ PaceInv'
  /\ [AveragingNext]_averagingVars
  => SpanInv' /\ AheadInv'
  <1> SUFFICES ASSUME RingInv, ClockInv, MarginInv, EstimateType, TrackInv, PaceInv, RegularInv,
                      SpanInv, AheadInv, RingInv', ClockInv', WindowFits', SumFits', MarginInv',
                      EstimateType', TrackInv', PaceInv', [AveragingNext]_averagingVars
               PROVE  SpanInv' /\ AheadInv'
    OBVIOUS
  <1>1. CASE Heartbeat
    <2>1. PICK t \in Nat : Last <= t /\ Receive(t) /\ (Regular(t) \/ Irregular(t))
      BY <1>1, HeartbeatPace
    <2>2. SpanInv'
      BY <2>1, SpanReceive
    <2> QED BY <2>1, <2>2, AheadReceive
  <1>2. CASE timer1_cb
    BY <1>2, AheadKept
  <1>3. CASE UNCHANGED averagingVars
    BY <1>3, AheadKept
  <1> QED BY <1>1, <1>2, <1>3 DEF AveragingNext

CoveredParts ==
  /\ TrackParts /\ NextInv /\ PaceInv /\ LossInv
  /\ SpanInv /\ AheadInv /\ ArgInv

\* With a margin, fixed or learnt, no deadline is centuries away: in every copy,
\* for every ring, window and sequence of intervals, when the margin suffices for
\* as many irregular heartbeats, and as late ones, as the network brings (the
\* resets of the timer in the receive loop, of an unsigned difference, and in
\* timer1_cb; the updates of delay and var).
THEOREM DeadlineStaysAhead == MarginsSuffice /\ AveragingSpec => []DeadlineAhead
  <1> SUFFICES ASSUME MarginsSuffice
               PROVE  AveragingSpec => []DeadlineAhead
    OBVIOUS
  <1>1. RingInv' /\ ClockInv' => WindowFits'
    BY ReadingsFit, PTL
  <1>2. FirstTimesFit /\ SumFits
    BY FirstTimesBounds, WindowTyped DEF FirstTimesFit, SumFits
  <1>3. FirstTimesFit' /\ SumFits' /\ TracksMeans'
    BY <1>2, TracksIs, PTL
  <1>4. AveragingInit => CoveredParts
    <2> SUFFICES ASSUME AveragingInit PROVE CoveredParts
      OBVIOUS
    <2>1. pkt_cnt = 0 /\ irregular = 0 /\ prog.n \in Nat \ {0}
      BY ProgramSizes DEF AveragingInit
    <2>2. TrackInv
      BY <2>1 DEF TrackInv, EstimateTracksWindow
    <2>3. ArgInv
      BY DEF AveragingInit, ArgInv
    <2>4. NextInv
      BY <2>1 DEF NextInv, RegularInv, EstimateIsNext
    <2> QED BY <2>2, <2>3, <2>4, TypeInit, PaceInit, AheadInit DEF CoveredParts, TrackParts
  <1>5. /\ RingInv /\ ClockInv /\ MarginInv /\ EstimateType /\ TrackInv /\ PaceInv
        /\ LossInv /\ AheadInv
        => Covered
    BY CoveredFrom
  <1>6. /\ RingInv' /\ ClockInv' /\ MarginInv' /\ EstimateType' /\ TrackInv' /\ PaceInv'
        /\ LossInv' /\ AheadInv'
        => Covered'
    BY <1>5, PTL
  <1>7. CoveredParts /\ [AveragingNext]_averagingVars => CoveredParts'
    <2> USE DEF CoveredParts, TrackParts, TypeParts
    <2>1. CoveredParts /\ [AveragingNext]_averagingVars => RingInv' /\ MarginInv' /\ ClockInv'
      BY RingStep, MarginStep, ClockStep
    <2>2. CoveredParts /\ [AveragingNext]_averagingVars => TypeParts'
      BY <1>1, <2>1, TypeStep
    <2>3. CoveredParts /\ [AveragingNext]_averagingVars => TrackInv' /\ NextInv'
      BY <1>1, <1>3, <2>1, TrackStep, NextStep
    <2>4. CoveredParts /\ [AveragingNext]_averagingVars => PaceInv' /\ LossInv'
      BY <1>1, <1>3, <2>1, PaceStep, LossStep
    <2>5. CoveredParts /\ [AveragingNext]_averagingVars => SpanInv' /\ AheadInv'
      BY <1>1, <1>3, <2>1, <2>2, <2>3, <2>4, AheadStep DEF NextInv
    <2>6. CoveredParts /\ [AveragingNext]_averagingVars => Covered'
      BY <1>6, <2>2, <2>3, <2>4, <2>5
    <2>7. CoveredParts /\ [AveragingNext]_averagingVars => ArgInv'
      BY <2>6, ArgStep
    <2> QED BY <2>2, <2>3, <2>4, <2>5, <2>7
  <1>8. CoveredParts => DeadlineAhead
    <2> SUFFICES ASSUME CoveredParts, timer.armed, prog.margin > 0 \/ prog.learns
                 PROVE  timer.arg < WORD \div 2
      BY DEF DeadlineAhead
    <2>1. timer.arg \in 0 .. (WORD \div 2) - 1
      BY DEF CoveredParts, ArgInv
    <2>2. (WORD \div 2) \in Nat
      BY AveragingConstants
    <2> QED BY <2>1, <2>2
  <1> QED BY <1>4, <1>7, <1>8, PTL DEF AveragingSpec

-----------------------------------------------------------------------------
(***************************************************************************)
(* The learnt margin, while every heartbeat is regular.  It starts from    *)
(* the wrong estimates made before the window is full, which delay and var *)
(* chase; then the error of the estimate stays the same, delay approaches  *)
(* it by a tenth per heartbeat and var follows what is left of it.         *)
(*                                                                         *)
(* The property is not inductive.  That the deadline is never within a     *)
(* period needs what is left never to exceed the margin, for which the     *)
(* first ten heartbeats are followed one by one; that it ends up within    *)
(* three needs how large both are after each number of heartbeats.  How    *)
(* large is a matter of the clock at the start: with twenty periods both   *)
(* are small after 65 heartbeats, and every ten heartbeats more make up    *)
(* for a clock twice as far.                                               *)
(***************************************************************************)

\* A set of numbers that is not empty has a least one.
LEMMA LeastNumber ==
  ASSUME NEW T \in SUBSET Nat, T # {}
  PROVE  \E m \in T : \A k \in 0 .. m - 1 : k \notin T
  <1>1. PICK m \in T : \A k \in T : ~(<<k, m>> \in OpToRel(<, Nat))
    BY NatLessThanWellFounded, WFMin
  <1>2. \A k \in 0 .. m - 1 : <<k, m>> \in OpToRel(<, Nat)
    BY DEF OpToRel
  <1> QED BY <1>1, <1>2

\* The powers of two up to the n-th.
PowersUpTo(n, g) ==
  g \in [0 .. n -> Nat \ {0}] /\ g[0] = 1 /\ \A i \in 1 .. n : g[i] = 2 * g[i - 1]

LEMMA PowersExist == \A n \in Nat : \E g : PowersUpTo(n, g)
  <1> DEFINE Without == {n \in Nat : ~ \E g : PowersUpTo(n, g)}
  <1>1. SUFFICES ASSUME Without # {} PROVE FALSE
    OBVIOUS
  <1>2. Without \in SUBSET Nat
    OBVIOUS
  <1> HIDE DEF Without
  <1>3. PICK m \in Without : \A k \in 0 .. m - 1 : k \notin Without
    BY <1>1, <1>2, LeastNumber
  <1>4. m \in Nat /\ ~ \E g : PowersUpTo(m, g)
    BY <1>3 DEF Without
  <1>5. CASE m = 0
    <2>1. PowersUpTo(0, [i \in 0 .. 0 |-> 1])
      BY DEF PowersUpTo
    <2> QED BY <1>4, <1>5, <2>1
  <1>6. CASE m # 0
    <2>1. m - 1 \in Nat /\ m - 1 \in 0 .. m - 1
      BY <1>4, <1>6
    <2>2. PICK g : PowersUpTo(m - 1, g)
      BY <1>3, <2>1 DEF Without
    <2> DEFINE h == [i \in 0 .. m |-> IF i = m THEN 2 * g[m - 1] ELSE g[i]]
    <2>3. \A i \in 0 .. m - 1 : g[i] \in Nat \ {0} /\ h[i] = g[i]
      BY <1>4, <2>1, <2>2 DEF PowersUpTo
    <2>4. h[m] = 2 * g[m - 1] /\ g[m - 1] \in Nat \ {0}
      <3>1. m \in 0 .. m
        BY <1>4
      <3> QED BY <2>1, <2>3, <3>1
    <2>5. h \in [0 .. m -> Nat \ {0}]
      <3>1. ASSUME NEW i \in 0 .. m PROVE h[i] \in Nat \ {0}
        <4>1. i = m \/ i \in 0 .. m - 1
          BY <1>4
        <4>2. h[m] \in Nat \ {0}
          <5> HIDE DEF h
          <5> QED BY <2>4
        <4> HIDE DEF h
        <4> QED BY <2>3, <4>1, <4>2
      <3>2. h = [i \in 0 .. m |-> h[i]]
        OBVIOUS
      <3> HIDE DEF h
      <3> QED BY <3>1, <3>2
    <2>6. h[0] = 1
      BY <1>4, <1>6, <2>2, <2>3 DEF PowersUpTo
    <2>7. ASSUME NEW i \in 1 .. m PROVE h[i] = 2 * h[i - 1]
      <3>1. i - 1 \in 0 .. m - 1
        BY <1>4
      <3>2. CASE i = m
        BY <2>3, <2>4, <3>1, <3>2
      <3>3. CASE i # m
        <4>1. i \in 1 .. m - 1 /\ i \in 0 .. m - 1
          BY <1>4, <3>3
        <4>2. g[i] = 2 * g[i - 1]
          BY <2>2, <4>1 DEF PowersUpTo
        <4> QED BY <2>3, <3>1, <4>1, <4>2
      <3> QED BY <3>2, <3>3
    <2> HIDE DEF h
    <2>8. PowersUpTo(m, h)
      BY <2>5, <2>6, <2>7 DEF PowersUpTo
    <2> QED BY <1>4, <2>8
  <1> QED BY <1>5, <1>6

LEMMA PowersAgree ==
  ASSUME NEW n \in Nat, NEW m \in Nat, m <= n,
         NEW g, PowersUpTo(n, g), NEW h, PowersUpTo(m, h)
  PROVE  g[m] = h[m]
  <1> DEFINE Differ == {i \in 0 .. m : g[i] # h[i]}
  <1>1. SUFFICES ASSUME Differ # {} PROVE FALSE
    OBVIOUS
  <1>2. Differ \in SUBSET Nat
    OBVIOUS
  <1> HIDE DEF Differ
  <1>3. PICK i \in Differ : \A k \in 0 .. i - 1 : k \notin Differ
    BY <1>1, <1>2, LeastNumber
  <1>4. i \in 0 .. m /\ g[i] # h[i]
    BY <1>3 DEF Differ
  <1>5. CASE i = 0
    BY <1>4, <1>5 DEF PowersUpTo
  <1>6. CASE i # 0
    <2>1. i \in 1 .. m /\ i \in 1 .. n /\ i - 1 \in 0 .. m /\ i - 1 \in 0 .. i - 1
      BY <1>4, <1>6
    <2>2. g[i - 1] = h[i - 1]
      BY <1>3, <2>1 DEF Differ
    <2>3. g[i] = 2 * g[i - 1] /\ h[i] = 2 * h[i - 1]
      BY <2>1 DEF PowersUpTo
    <2> QED BY <1>4, <2>2, <2>3
  <1> QED BY <1>5, <1>6

\* What the recursive function is.
LEMMA DoubledIs ==
  /\ Doubled[0] = 1
  /\ \A d \in Nat : Doubled[d] \in Nat \ {0} /\ Doubled[d + 1] = 2 * Doubled[d]
  <1> DEFINE Powers(n) == CHOOSE g : PowersUpTo(n, g)
             h == [n \in Nat |-> Powers(n)[n]]
  <1>1. \A n \in Nat : PowersUpTo(n, Powers(n))
    BY PowersExist
  <1> HIDE DEF Powers
  <1>2. h[0] = 1
    BY <1>1 DEF PowersUpTo
  <1>3. ASSUME NEW n \in Nat, n # 0 PROVE h[n] = 2 * h[n - 1]
    <2>1. n - 1 \in Nat /\ n - 1 <= n /\ n \in 1 .. n
      BY <1>3
    <2>2. PowersUpTo(n, Powers(n)) /\ PowersUpTo(n - 1, Powers(n - 1))
      BY <1>1, <2>1
    <2>3. Powers(n)[n - 1] = Powers(n - 1)[n - 1]
      BY <2>1, <2>2, PowersAgree
    <2>4. Powers(n)[n] = 2 * Powers(n)[n - 1]
      BY <2>1, <2>2 DEF PowersUpTo
    <2> QED BY <2>1, <2>3, <2>4
  <1>4. \A n \in Nat : h[n] \in Nat \ {0}
    BY <1>1 DEF PowersUpTo
  <1>5. \A n \in Nat : h[n] = IF n = 0 THEN 1 ELSE 2 * h[n - 1]
    BY <1>2, <1>3
  <1>6. h = [n \in Nat |-> IF n = 0 THEN 1 ELSE 2 * h[n - 1]]
    <2>1. h = [n \in Nat |-> h[n]]
      OBVIOUS
    <2> HIDE DEF h
    <2> QED BY <1>5, <2>1
  <1> HIDE DEF h
  <1>7. Doubled = [n \in Nat |-> IF n = 0 THEN 1 ELSE 2 * Doubled[n - 1]]
    BY <1>6 DEF Doubled
  <1>8. Doubled[0] = 1
    BY <1>7
  <1> DEFINE Odd == {n \in Nat : Doubled[n] \notin Nat \ {0}}
  <1>9. Odd = {}
    <2>1. SUFFICES ASSUME Odd # {} PROVE FALSE
      OBVIOUS
    <2>2. Odd \in SUBSET Nat
      OBVIOUS
    <2> HIDE DEF Odd
    <2>3. PICK n \in Odd : \A k \in 0 .. n - 1 : k \notin Odd
      BY <2>1, <2>2, LeastNumber
    <2>4. n \in Nat /\ Doubled[n] \notin Nat \ {0}
      BY <2>3 DEF Odd
    <2>5. n # 0
      BY <1>8, <2>4
    <2>6. n - 1 \in Nat /\ n - 1 \in 0 .. n - 1
      BY <2>4, <2>5
    <2>7. Doubled[n - 1] \in Nat \ {0}
      BY <2>3, <2>6 DEF Odd
    <2>8. Doubled[n] = 2 * Doubled[n - 1]
      BY <1>7, <2>4, <2>5
    <2> QED BY <2>4, <2>7, <2>8
  <1>10. \A d \in Nat : Doubled[d + 1] = 2 * Doubled[d]
    <2> SUFFICES ASSUME NEW d \in Nat PROVE Doubled[d + 1] = 2 * Doubled[d]
      OBVIOUS
    <2>1. d + 1 \in Nat /\ d + 1 # 0 /\ (d + 1) - 1 = d
      OBVIOUS
    <2> QED BY <1>7, <2>1
  <1> QED BY <1>8, <1>9, <1>10

\* A period, doubled d times.
Scale(d, P) == Doubled[d] * P

LEMMA ScaleIs ==
  ASSUME NEW P \in Nat
  PROVE  /\ Scale(0, P) = P
         /\ \A d \in Nat : Scale(d, P) \in Nat /\ P <= Scale(d, P)
         /\ \A d \in Nat : Scale(d + 1, P) = 2 * Scale(d, P)
         /\ \A d \in Nat : 20 * Doubled[d] * P = 20 * Scale(d, P)
  <1>1. Scale(0, P) = P
    BY DoubledIs DEF Scale
  <1>2. ASSUME NEW d \in Nat
        PROVE  /\ Scale(d, P) \in Nat /\ P <= Scale(d, P)
               /\ Scale(d + 1, P) = 2 * Scale(d, P)
               /\ 20 * Doubled[d] * P = 20 * Scale(d, P)
    <2>1. PICK c \in Nat \ {0} : Doubled[d] = c /\ Doubled[d + 1] = 2 * c
      BY DoubledIs
    <2>2. c * P \in Nat /\ (2 * c) * P = 2 * (c * P) /\ (20 * c) * P = 20 * (c * P)
      OBVIOUS
    <2>3. P * 1 <= P * c /\ P * c = c * P
      BY TimesMonotone
    <2> QED BY <2>1, <2>2, <2>3 DEF Scale
  <1> QED BY <1>1, <1>2

SettlingLearners == \A p \in Programs : p.learns => MarginSettles(p)

EarlyDeviation(x, clock, period, low, high) == Between(x, clock, period, low, high, 20000)

\* delay and var after the first k heartbeats.
EarlyBounds(k, clock, period, d, v) ==
  /\ k = 0 => d = 0 /\ v = 0
  /\ k = 1 => /\ EarlyDelay(d, clock, period, <<100, 100>>, <<100, 100>>)
              /\ EarlyDeviation(v, clock, period, <<100, 100>>, <<100, 100>>)
  /\ k = 2 => /\ EarlyDelay(d, clock, period, <<90, 190>>, <<90, 190>>)
              /\ EarlyDeviation(v, clock, period, <<90, 90>>, <<100, 180>>)
  /\ k = 3 => /\ EarlyDelay(d, clock, period, <<131, 371>>, <<131, 371>>)
              /\ EarlyDeviation(v, clock, period, <<122, 262>>, <<131, 343>>)
  /\ k = 4 => /\ EarlyDelay(d, clock, period, <<184, 633>>, <<185, 634>>)
              /\ EarlyDeviation(v, clock, period, <<163, 498>>, <<172, 572>>)
  /\ k = 5 => /\ EarlyDelay(d, clock, period, <<240, 969>>, <<242, 971>>)
              /\ EarlyDeviation(v, clock, period, <<203, 784>>, <<212, 852>>)
  /\ k = 6 => /\ EarlyDelay(d, clock, period, <<296, 1372>>, <<298, 1374>>)
              /\ EarlyDeviation(v, clock, period, <<238, 1108>>, <<247, 1170>>)
  /\ k = 7 => /\ EarlyDelay(d, clock, period, <<349, 1834>>, <<352, 1837>>)
              /\ EarlyDeviation(v, clock, period, <<267, 1459>>, <<277, 1516>>)
  /\ k = 8 => /\ EarlyDelay(d, clock, period, <<399, 2350>>, <<403, 2354>>)
              /\ EarlyDeviation(v, clock, period, <<290, 1829>>, <<301, 1881>>)
  /\ k = 9 => /\ EarlyDelay(d, clock, period, <<446, 2915>>, <<451, 2919>>)
              /\ EarlyDeviation(v, clock, period, <<308, 2210>>, <<319, 2258>>)
  /\ k = 10 => /\ EarlyDelay(d, clock, period, <<490, 3523>>, <<495, 3528>>)
               /\ EarlyDeviation(v, clock, period, <<320, 2597>>, <<332, 2641>>)

\* What is left of the error after 10, 11, ... 65 regular heartbeats, and the
\* deviation, in thousandths of the period.
LeftTable ==
  <<14697, 13228, 11906, 10716, 9645, 8681, 7813, 7032, 6329, 5697, 5128,
    4616, 4155, 3740, 3366, 3030, 2727, 2455, 2210, 1989, 1791, 1612, 1451,
    1306, 1176, 1059, 954, 859, 774, 697, 628, 566, 510, 459, 414, 373, 336,
    303, 273, 246, 222, 200, 180, 162, 146, 132, 119, 108, 98, 89, 81, 73,
    66, 60, 54, 49>>

DeviationTable ==
  <<9301, 9841, 10180, 10353, 10390, 10316, 10153, 9919, 9631, 9301, 8941,
    8560, 8166, 7765, 7363, 6964, 6571, 6187, 5814, 5454, 5108, 4777, 4461,
    4160, 3875, 3606, 3352, 3113, 2888, 2677, 2479, 2294, 2122, 1961, 1811,
    1672, 1543, 1423, 1311, 1208, 1112, 1023, 941, 865, 795, 731, 672, 617,
    567, 521, 478, 439, 403, 370, 339, 311>>

LEMMA TablesTyped == \A i \in 1 .. 56 : LeftTable[i] \in Nat /\ DeviationTable[i] \in Nat
  BY DEF LeftTable, DeviationTable

\* Neither table falls faster than what it bounds.
LEMMA TablesFollow ==
  \A i \in 1 .. 55 :
    /\ 9 * LeftTable[i] <= 10 * LeftTable[i + 1]
    /\ 9 * DeviationTable[i] + LeftTable[i] <= 10 * DeviationTable[i + 1]
  <1>1. \A i \in 1 .. 55 : 9 * LeftTable[i] <= 10 * LeftTable[i + 1]
    BY DEF LeftTable
  <1>2. \A i \in 1 .. 55 : 9 * DeviationTable[i] + LeftTable[i] <= 10 * DeviationTable[i + 1]
    BY DEF LeftTable, DeviationTable
  <1> QED BY <1>1, <1>2

LEMMA TableEnds ==
  /\ LeftTable[1] = 14697 /\ DeviationTable[1] = 9301
  /\ LeftTable[56] = 49 /\ DeviationTable[56] = 311
  BY DEF LeftTable, DeviationTable

\* How they go on in the ten heartbeats after that, and that they are halved.
WornLeft == <<49, 45, 41, 37, 34, 31, 28, 26, 24, 22, 20>>

WornDeviation == <<311, 285, 261, 239, 219, 201, 184, 169, 155, 142, 130>>

LEMMA WornTyped == \A i \in 1 .. 11 : WornLeft[i] \in Nat /\ WornDeviation[i] \in Nat
  BY DEF WornLeft, WornDeviation

LEMMA WornFollow ==
  \A i \in 1 .. 10 :
    /\ 9 * WornLeft[i] <= 10 * WornLeft[i + 1]
    /\ 9 * WornDeviation[i] + WornLeft[i] <= 10 * WornDeviation[i + 1]
  BY DEF WornLeft, WornDeviation

LEMMA WornEnds ==
  /\ WornLeft[1] = 49 /\ WornDeviation[1] = 311
  /\ WornLeft[11] = 20 /\ WornDeviation[11] = 130
  BY DEF WornLeft, WornDeviation

\* One of the first ten heartbeats: the estimate is the receipt before it,
\* divided by its number.
LEMMA EarlyMoves ==
  ASSUME NEW k \in 0 .. 9, NEW B \in Nat, NEW P \in Nat, P >= 100,
         NEW d \in Int, NEW v \in Nat, EarlyBounds(k, B, P, d, v),
         NEW e \in Nat, k = 0 => e = 0, k > 0 => e = (B + k * P) \div k,
         NEW error \in Int, error = B + (k + 1) * P - e - d
  PROVE  EarlyBounds(k + 1, B, P, d + Divide(error, 10), v + Divide(Abs(error) - v, 10))
  <1> DEFINE a == Abs(error)
             f == Divide(error, 10)
             g == Divide(a - v, 10)
  <1>1. a \in Nat /\ (error >= 0 => a = error) /\ (error < 0 => a = -error)
    BY DEF Abs
  <1>2. f \in Int /\ error - 9 <= 10 * f /\ 10 * f <= error + 9
    BY DivideNear
  <1>3. g \in Int /\ a - v - 9 <= 10 * g /\ 10 * g <= a - v + 9
    <2>1. a - v \in Int
      BY <1>1
    <2> HIDE DEF a
    <2> QED BY <2>1, DivideNear
  <1> HIDE DEF a, f, g
  <1> USE DEF EarlyBounds, EarlyDelay, EarlyDeviation, Between
  <1>10. CASE k = 0
    <2>1. error = B + P /\ d = 0 /\ v = 0
      BY <1>10
    <2> QED BY <1>1, <1>2, <1>3, <1>10, <2>1 DEF a, f, g
  <1>11. CASE k = 1
    <2>1. error = B + 2 * P - e - d /\ e = B + P
      BY <1>11
    <2>2. /\ 100 * B + 100 * P - 10000 <= 1000 * d
          /\ 1000 * d <= 100 * B + 100 * P + 10000
          /\ 100 * B + 100 * P - 20000 <= 1000 * v
          /\ 1000 * v <= 100 * B + 100 * P + 20000
      BY <1>11
    <2>3. /\ 90 * B + 190 * P - 10000 <= 1000 * (d + f)
          /\ 1000 * (d + f) <= 90 * B + 190 * P + 10000
      BY <1>2, <2>1, <2>2
    <2>4. /\ 90 * B + 90 * P - 20000 <= 1000 * (v + g)
          /\ 1000 * (v + g) <= 100 * B + 180 * P + 20000
      BY <1>1, <1>3, <2>1, <2>2
    <2> QED BY <1>11, <2>3, <2>4 DEF a, f, g
  <1>12. CASE k = 2
    <2>1. error = B + 3 * P - e - d /\ 2 * e <= B + 2 * P /\ B + 2 * P < 2 * e + 2
      BY <1>12
    <2>2. /\ 90 * B + 190 * P - 10000 <= 1000 * d
          /\ 1000 * d <= 90 * B + 190 * P + 10000
          /\ 90 * B + 90 * P - 20000 <= 1000 * v
          /\ 1000 * v <= 100 * B + 180 * P + 20000
      BY <1>12
    <2>3. /\ 131 * B + 371 * P - 10000 <= 1000 * (d + f)
          /\ 1000 * (d + f) <= 131 * B + 371 * P + 10000
      BY <1>2, <2>1, <2>2
    <2>4. /\ 122 * B + 262 * P - 20000 <= 1000 * (v + g)
          /\ 1000 * (v + g) <= 131 * B + 343 * P + 20000
      BY <1>1, <1>3, <2>1, <2>2
    <2> QED BY <1>12, <2>3, <2>4 DEF a, f, g
  <1>13. CASE k = 3
    <2>1. error = B + 4 * P - e - d /\ 3 * e <= B + 3 * P /\ B + 3 * P < 3 * e + 3
      BY <1>13
    <2>2. /\ 131 * B + 371 * P - 10000 <= 1000 * d
          /\ 1000 * d <= 131 * B + 371 * P + 10000
          /\ 122 * B + 262 * P - 20000 <= 1000 * v
          /\ 1000 * v <= 131 * B + 343 * P + 20000
      BY <1>13
    <2>3. /\ 184 * B + 633 * P - 10000 <= 1000 * (d + f)
          /\ 1000 * (d + f) <= 185 * B + 634 * P + 10000
      BY <1>2, <2>1, <2>2
    <2>4. /\ 163 * B + 498 * P - 20000 <= 1000 * (v + g)
          /\ 1000 * (v + g) <= 172 * B + 572 * P + 20000
      BY <1>1, <1>3, <2>1, <2>2
    <2> QED BY <1>13, <2>3, <2>4 DEF a, f, g
  <1>14. CASE k = 4
    <2>1. error = B + 5 * P - e - d /\ 4 * e <= B + 4 * P /\ B + 4 * P < 4 * e + 4
      BY <1>14
    <2>2. /\ 184 * B + 633 * P - 10000 <= 1000 * d
          /\ 1000 * d <= 185 * B + 634 * P + 10000
          /\ 163 * B + 498 * P - 20000 <= 1000 * v
          /\ 1000 * v <= 172 * B + 572 * P + 20000
      BY <1>14
    <2>3. /\ 240 * B + 969 * P - 10000 <= 1000 * (d + f)
          /\ 1000 * (d + f) <= 242 * B + 971 * P + 10000
      BY <1>2, <2>1, <2>2
    <2>4. /\ 203 * B + 784 * P - 20000 <= 1000 * (v + g)
          /\ 1000 * (v + g) <= 212 * B + 852 * P + 20000
      BY <1>1, <1>3, <2>1, <2>2
    <2> QED BY <1>14, <2>3, <2>4 DEF a, f, g
  <1>15. CASE k = 5
    <2>1. error = B + 6 * P - e - d /\ 5 * e <= B + 5 * P /\ B + 5 * P < 5 * e + 5
      BY <1>15
    <2>2. /\ 240 * B + 969 * P - 10000 <= 1000 * d
          /\ 1000 * d <= 242 * B + 971 * P + 10000
          /\ 203 * B + 784 * P - 20000 <= 1000 * v
          /\ 1000 * v <= 212 * B + 852 * P + 20000
      BY <1>15
    <2>3. /\ 296 * B + 1372 * P - 10000 <= 1000 * (d + f)
          /\ 1000 * (d + f) <= 298 * B + 1374 * P + 10000
      BY <1>2, <2>1, <2>2
    <2>4. /\ 238 * B + 1108 * P - 20000 <= 1000 * (v + g)
          /\ 1000 * (v + g) <= 247 * B + 1170 * P + 20000
      BY <1>1, <1>3, <2>1, <2>2
    <2> QED BY <1>15, <2>3, <2>4 DEF a, f, g
  <1>16. CASE k = 6
    <2>1. error = B + 7 * P - e - d /\ 6 * e <= B + 6 * P /\ B + 6 * P < 6 * e + 6
      BY <1>16
    <2>2. /\ 296 * B + 1372 * P - 10000 <= 1000 * d
          /\ 1000 * d <= 298 * B + 1374 * P + 10000
          /\ 238 * B + 1108 * P - 20000 <= 1000 * v
          /\ 1000 * v <= 247 * B + 1170 * P + 20000
      BY <1>16
    <2>3. /\ 349 * B + 1834 * P - 10000 <= 1000 * (d + f)
          /\ 1000 * (d + f) <= 352 * B + 1837 * P + 10000
      BY <1>2, <2>1, <2>2
    <2>4. /\ 267 * B + 1459 * P - 20000 <= 1000 * (v + g)
          /\ 1000 * (v + g) <= 277 * B + 1516 * P + 20000
      BY <1>1, <1>3, <2>1, <2>2
    <2> QED BY <1>16, <2>3, <2>4 DEF a, f, g
  <1>17. CASE k = 7
    <2>1. error = B + 8 * P - e - d /\ 7 * e <= B + 7 * P /\ B + 7 * P < 7 * e + 7
      BY <1>17
    <2>2. /\ 349 * B + 1834 * P - 10000 <= 1000 * d
          /\ 1000 * d <= 352 * B + 1837 * P + 10000
          /\ 267 * B + 1459 * P - 20000 <= 1000 * v
          /\ 1000 * v <= 277 * B + 1516 * P + 20000
      BY <1>17
    <2>3. /\ 399 * B + 2350 * P - 10000 <= 1000 * (d + f)
          /\ 1000 * (d + f) <= 403 * B + 2354 * P + 10000
      BY <1>2, <2>1, <2>2
    <2>4. /\ 290 * B + 1829 * P - 20000 <= 1000 * (v + g)
          /\ 1000 * (v + g) <= 301 * B + 1881 * P + 20000
      BY <1>1, <1>3, <2>1, <2>2
    <2> QED BY <1>17, <2>3, <2>4 DEF a, f, g
  <1>18. CASE k = 8
    <2>1. error = B + 9 * P - e - d /\ 8 * e <= B + 8 * P /\ B + 8 * P < 8 * e + 8
      BY <1>18
    <2>2. /\ 399 * B + 2350 * P - 10000 <= 1000 * d
          /\ 1000 * d <= 403 * B + 2354 * P + 10000
          /\ 290 * B + 1829 * P - 20000 <= 1000 * v
          /\ 1000 * v <= 301 * B + 1881 * P + 20000
      BY <1>18
    <2>3. /\ 446 * B + 2915 * P - 10000 <= 1000 * (d + f)
          /\ 1000 * (d + f) <= 451 * B + 2919 * P + 10000
      BY <1>2, <2>1, <2>2
    <2>4. /\ 308 * B + 2210 * P - 20000 <= 1000 * (v + g)
          /\ 1000 * (v + g) <= 319 * B + 2258 * P + 20000
      BY <1>1, <1>3, <2>1, <2>2
    <2> QED BY <1>18, <2>3, <2>4 DEF a, f, g
  <1>19. CASE k = 9
    <2>1. error = B + 10 * P - e - d /\ 9 * e <= B + 9 * P /\ B + 9 * P < 9 * e + 9
      BY <1>19
    <2>2. /\ 446 * B + 2915 * P - 10000 <= 1000 * d
          /\ 1000 * d <= 451 * B + 2919 * P + 10000
          /\ 308 * B + 2210 * P - 20000 <= 1000 * v
          /\ 1000 * v <= 319 * B + 2258 * P + 20000
      BY <1>19
    <2>3. /\ 490 * B + 3523 * P - 10000 <= 1000 * (d + f)
          /\ 1000 * (d + f) <= 495 * B + 3528 * P + 10000
      BY <1>2, <2>1, <2>2
    <2>4. /\ 320 * B + 2597 * P - 20000 <= 1000 * (v + g)
          /\ 1000 * (v + g) <= 332 * B + 2641 * P + 20000
      BY <1>1, <1>3, <2>1, <2>2
    <2> QED BY <1>19, <2>3, <2>4 DEF a, f, g
  <1> HIDE DEF EarlyBounds, EarlyDelay, EarlyDeviation, Between
  <1>20. \/ k = 0 \/ k = 1 \/ k = 2 \/ k = 3 \/ k = 4
         \/ k = 5 \/ k = 6 \/ k = 7 \/ k = 8 \/ k = 9
    OBVIOUS
  <1> HIDE DEF a, f, g
  <1> QED BY <1>10, <1>11, <1>12, <1>13, <1>14, <1>15, <1>16, <1>17, <1>18, <1>19, <1>20
          DEF a, f, g

\* a and c thousandths of Q, and what the divisions have cut off.
Within(a, c, Q, left, v) == 1000 * left <= a * Q + 9000 /\ 1000 * v <= c * Q + 18000

\* How the two wear off where the clock is twenty periods, doubled d times, or
\* less: by the first tables up to the 65th heartbeat; then by the others, which
\* make up for one doubling each time they are gone through; and then kept.
WearsOff(k, B, P, left, v) ==
  \A d \in Nat : B <= 20 * Scale(d, P) =>
    /\ k <= 65 => Within(LeftTable[k - 9], DeviationTable[k - 9], Scale(d, P), left, v)
    /\ \A e \in 0 .. d, i \in 0 .. 10 :
         k = 65 + 10 * e + i =>
           Within(WornLeft[i + 1], WornDeviation[i + 1], Scale(d - e, P), left, v)
    /\ k >= 65 + 10 * d => 2 * left <= P /\ 2 * v <= P

\* Once the window is full: what is left of the error never exceeds the margin,
\* both wear off, and neither outgrows what the first ten heartbeats made of it.
Settling(k, B, P, left, v) ==
  /\ left \in Nat /\ v \in Nat /\ left <= 4 * v
  /\ left <= B + 7 * P /\ v <= B + 7 * P
  /\ WearsOff(k, B, P, left, v)

LEMMA SettlingBounds ==
  ASSUME NEW k, NEW B, NEW P, NEW left, NEW v, Settling(k, B, P, left, v)
  PROVE  left \in Nat /\ v \in Nat /\ left <= 4 * v /\ v <= B + 7 * P
  BY Zenon DEF Settling

LEMMA SettlingStarts ==
  ASSUME NEW B \in Nat, NEW P \in Nat, P >= 100,
         NEW d \in Int, NEW v \in Nat, EarlyBounds(10, B, P, d, v),
         NEW e \in Nat, e = (B + 10 * P) \div 10,
         NEW left \in Int, left = B + 11 * P - e - d
  PROVE  Settling(10, B, P, left, v)
  <1>1. /\ 490 * B + 3523 * P - 10000 <= 1000 * d
        /\ 1000 * d <= 495 * B + 3528 * P + 10000
        /\ 320 * B + 2597 * P - 20000 <= 1000 * v
        /\ 1000 * v <= 332 * B + 2641 * P + 20000
    BY DEF EarlyBounds, EarlyDelay, EarlyDeviation, Between
  <1>2. 10 * e <= B + 10 * P /\ B + 10 * P < 10 * e + 10
    OBVIOUS
  <1>3. left \in Nat /\ left <= 4 * v /\ left <= B + 7 * P /\ v <= B + 7 * P
    BY <1>1, <1>2
  <1>4. ASSUME NEW n \in Nat, B <= 20 * Scale(n, P)
        PROVE  Within(LeftTable[10 - 9], DeviationTable[10 - 9], Scale(n, P), left, v)
    <2>1. PICK Q \in Nat : Q = Scale(n, P) /\ P <= Q /\ B <= 20 * Q
      BY <1>4, ScaleIs
    <2>2. /\ 1000 * left <= 14697 * Q + 9000
          /\ 1000 * v <= 9301 * Q + 18000
      BY <1>1, <1>2, <2>1
    <2>3. 10 - 9 = 1
      OBVIOUS
    <2> QED BY <2>1, <2>2, <2>3, TableEnds DEF Within
  <1>5. \A n \in Nat : ~(10 >= 65 + 10 * n) /\ \A i \in 0 .. 10 : 10 # 65 + 10 * n + i
    OBVIOUS
  <1>6. WearsOff(10, B, P, left, v)
    <2> SUFFICES ASSUME NEW n \in Nat, B <= 20 * Scale(n, P)
                 PROVE  \A h \in 0 .. n, i \in 0 .. 10 : 10 # 65 + 10 * h + i
      BY <1>4, <1>5 DEF WearsOff
    <2> QED BY <1>5
  <1> QED BY <1>3, <1>6 DEF Settling

\* One heartbeat takes both from one line of a table to the next.
LEMMA WithinMoves ==
  ASSUME NEW a \in Nat, NEW c \in Nat, NEW a2 \in Nat, NEW c2 \in Nat,
         9 * a <= 10 * a2, 9 * c + a <= 10 * c2, NEW Q \in Nat,
         NEW left \in Nat, NEW v \in Nat, Within(a, c, Q, left, v),
         NEW left2 \in Nat, NEW v2 \in Nat,
         10 * left2 <= 9 * left + 9, 10 * v2 <= 9 * v + left + 9
  PROVE  Within(a2, c2, Q, left2, v2)
  <1>1. PICK x \in Nat, y \in Nat, x2 \in Nat, y2 \in Nat :
          x = a * Q /\ y = c * Q /\ x2 = a2 * Q /\ y2 = c2 * Q
    OBVIOUS
  <1>2. 9 * x <= 10 * x2 /\ 9 * y + x <= 10 * y2
    <2>1. Q * (9 * a) <= Q * (10 * a2) /\ Q * (9 * c + a) <= Q * (10 * c2)
      <3>1. 9 * a \in Int /\ 10 * a2 \in Int /\ 9 * c + a \in Int /\ 10 * c2 \in Int
        OBVIOUS
      <3> QED BY <3>1, TimesMonotone
    <2>2. /\ Q * (9 * a) = 9 * (a * Q) /\ Q * (10 * a2) = 10 * (a2 * Q)
          /\ Q * (9 * c + a) = 9 * (c * Q) + a * Q /\ Q * (10 * c2) = 10 * (c2 * Q)
      OBVIOUS
    <2> QED BY <1>1, <2>1, <2>2
  <1>3. 1000 * left <= x + 9000 /\ 1000 * v <= y + 18000
    BY <1>1 DEF Within
  <1>4. 1000 * left2 <= x2 + 9000 /\ 1000 * v2 <= y2 + 18000
    BY <1>2, <1>3
  <1> QED BY <1>1, <1>4 DEF Within

\* The second tables are gone through: half the scale, from their first line.
LEMMA WithinHalves ==
  ASSUME NEW Q \in Nat, NEW left \in Nat, NEW v \in Nat,
         Within(WornLeft[11], WornDeviation[11], 2 * Q, left, v)
  PROVE  Within(WornLeft[1], WornDeviation[1], Q, left, v)
  BY WornEnds DEF Within

LEMMA WearingOff ==
  ASSUME NEW B \in Nat, NEW P \in Nat, P >= 100, NEW k \in Nat, k >= 10,
         NEW left \in Nat, NEW v \in Nat, WearsOff(k, B, P, left, v),
         NEW left2 \in Nat, NEW v2 \in Nat, left2 <= left, v2 <= v \/ v2 <= left,
         10 * left2 <= 9 * left + 9, 10 * v2 <= 9 * v + left + 9
  PROVE  WearsOff(k + 1, B, P, left2, v2)
  <1> SUFFICES ASSUME NEW d \in Nat, B <= 20 * Scale(d, P)
               PROVE  /\ k + 1 <= 65 =>
                           Within(LeftTable[(k + 1) - 9], DeviationTable[(k + 1) - 9],
                                  Scale(d, P), left2, v2)
                      /\ \A e \in 0 .. d, i \in 0 .. 10 :
                           k + 1 = 65 + 10 * e + i =>
                             Within(WornLeft[i + 1], WornDeviation[i + 1],
                                    Scale(d - e, P), left2, v2)
                      /\ k + 1 >= 65 + 10 * d => 2 * left2 <= P /\ 2 * v2 <= P
    BY DEF WearsOff
  <1>0. \A a, c, a2, c2, Q \in Nat :
          /\ 9 * a <= 10 * a2 /\ 9 * c + a <= 10 * c2 /\ Within(a, c, Q, left, v)
          => Within(a2, c2, Q, left2, v2)
    BY WithinMoves
  <1>1. /\ k <= 65 => Within(LeftTable[k - 9], DeviationTable[k - 9], Scale(d, P), left, v)
        /\ \A e \in 0 .. d, i \in 0 .. 10 :
             k = 65 + 10 * e + i =>
               Within(WornLeft[i + 1], WornDeviation[i + 1], Scale(d - e, P), left, v)
        /\ k >= 65 + 10 * d => 2 * left <= P /\ 2 * v <= P
    BY DEF WearsOff
  <1>2. ASSUME k + 1 <= 65
        PROVE  Within(LeftTable[(k + 1) - 9], DeviationTable[(k + 1) - 9],
                      Scale(d, P), left2, v2)
    <2> DEFINE i == k - 9
    <2>1. i \in 1 .. 55 /\ i \in 1 .. 56 /\ i + 1 \in 1 .. 56 /\ (k + 1) - 9 = i + 1
      BY <1>2
    <2>2. Within(LeftTable[i], DeviationTable[i], Scale(d, P), left, v)
      BY <1>1, <1>2
    <2> HIDE DEF i
    <2>3. /\ LeftTable[i] \in Nat /\ DeviationTable[i] \in Nat
          /\ LeftTable[i + 1] \in Nat /\ DeviationTable[i + 1] \in Nat
          /\ 9 * LeftTable[i] <= 10 * LeftTable[i + 1]
          /\ 9 * DeviationTable[i] + LeftTable[i] <= 10 * DeviationTable[i + 1]
          /\ Scale(d, P) \in Nat
      BY <2>1, TablesTyped, TablesFollow, ScaleIs
    <2>4. Within(LeftTable[i + 1], DeviationTable[i + 1], Scale(d, P), left2, v2)
      BY <1>0, <2>2, <2>3
    <2> QED BY <2>1, <2>4
  <1>3. ASSUME NEW e \in 0 .. d, NEW i \in 1 .. 10, k + 1 = 65 + 10 * e + i
        PROVE  Within(WornLeft[i + 1], WornDeviation[i + 1], Scale(d - e, P), left2, v2)
    <2>1. PICK j \in 0 .. 9 : j + 1 = i
      <3>1. i - 1 \in 0 .. 9 /\ (i - 1) + 1 = i
        OBVIOUS
      <3> QED BY <3>1
    <2>2. k = 65 + 10 * e + j /\ j \in 0 .. 10 /\ d - e \in Nat
      BY <1>3, <2>1
    <2>3. Within(WornLeft[i], WornDeviation[i], Scale(d - e, P), left, v)
      BY <1>1, <2>1, <2>2
    <2>4. /\ WornLeft[i] \in Nat /\ WornDeviation[i] \in Nat
          /\ WornLeft[i + 1] \in Nat /\ WornDeviation[i + 1] \in Nat
          /\ 9 * WornLeft[i] <= 10 * WornLeft[i + 1]
          /\ 9 * WornDeviation[i] + WornLeft[i] <= 10 * WornDeviation[i + 1]
          /\ Scale(d - e, P) \in Nat
      <3>1. i \in 1 .. 10 /\ i \in 1 .. 11 /\ i + 1 \in 1 .. 11
        OBVIOUS
      <3> QED BY <2>2, <3>1, WornTyped, WornFollow, ScaleIs
    <2> QED BY <1>0, <2>3, <2>4
  <1>4. ASSUME NEW e \in 0 .. d, k + 1 = 65 + 10 * e
        PROVE  Within(WornLeft[1], WornDeviation[1], Scale(d - e, P), left2, v2)
    <2>1. CASE e = 0
      <3>1. k + 1 <= 65 /\ (k + 1) - 9 = 56 /\ d - e = d
        BY <1>4, <2>1
      <3>2. Within(LeftTable[56], DeviationTable[56], Scale(d, P), left2, v2)
        BY <1>2, <3>1
      <3> QED BY <3>1, <3>2, TableEnds, WornEnds
    <2>2. CASE e # 0
      <3>1. PICK f \in 0 .. d : f + 1 = e
        <4>1. e - 1 \in 0 .. d /\ (e - 1) + 1 = e
          BY <2>2
        <4> QED BY <4>1
      <3>2. k + 1 = 65 + 10 * f + 10 /\ 10 \in 1 .. 10 /\ d - f = (d - e) + 1 /\ d - e \in Nat
        BY <1>4, <3>1
      <3>3. Within(WornLeft[10 + 1], WornDeviation[10 + 1], Scale(d - f, P), left2, v2)
        BY <1>3, <3>1, <3>2
      <3>4. Scale(d - f, P) = 2 * Scale(d - e, P) /\ Scale(d - e, P) \in Nat
        BY <3>2, ScaleIs
      <3>5. 10 + 1 = 11
        OBVIOUS
      <3> QED BY <3>3, <3>4, <3>5, WithinHalves
    <2> QED BY <2>1, <2>2
  <1>5. ASSUME k + 1 >= 65 + 10 * d
        PROVE  2 * left2 <= P /\ 2 * v2 <= P
    <2>1. CASE k >= 65 + 10 * d
      BY <1>1, <2>1
    <2>2. CASE k + 1 = 65 + 10 * d
      <3>1. d \in 0 .. d /\ d - d = 0
        OBVIOUS
      <3>2. Within(WornLeft[1], WornDeviation[1], Scale(d - d, P), left2, v2)
        BY <1>4, <2>2, <3>1
      <3>3. Within(49, 311, P, left2, v2)
        BY <3>1, <3>2, ScaleIs, WornEnds
      <3> QED BY <3>3 DEF Within
    <2> QED BY <1>5, <2>1, <2>2
  <1>6. ASSUME NEW e \in 0 .. d, NEW i \in 0 .. 10, k + 1 = 65 + 10 * e + i
        PROVE  Within(WornLeft[i + 1], WornDeviation[i + 1], Scale(d - e, P), left2, v2)
    <2>1. CASE i = 0
      <3>1. k + 1 = 65 + 10 * e /\ i + 1 = 1
        BY <1>6, <2>1
      <3> QED BY <1>4, <3>1
    <2>2. CASE i # 0
      <3>1. i \in 1 .. 10
        BY <2>2
      <3> QED BY <1>3, <1>6, <3>1
    <2> QED BY <2>1, <2>2
  <1> QED BY <1>2, <1>5, <1>6

LEMMA SettlingMoves ==
  ASSUME NEW B \in Nat, NEW P \in Nat, P >= 100, NEW k \in Nat, k >= 10,
         NEW left, NEW v, Settling(k, B, P, left, v)
  PROVE  Settling(k + 1, B, P, left - Divide(left, 10), v + Divide(Abs(left) - v, 10))
  <1> DEFINE f == Divide(left, 10)
             g == Divide(left - v, 10)
             left2 == left - f
             v2 == v + g
  <1>1. /\ left \in Nat /\ v \in Nat /\ left <= 4 * v
        /\ left <= B + 7 * P /\ v <= B + 7 * P
        /\ WearsOff(k, B, P, left, v)
    BY DEF Settling
  <1>2. Abs(left) = left
    BY <1>1 DEF Abs
  <1>3. /\ f \in Int /\ left - 9 <= 10 * f /\ 10 * f <= left /\ 0 <= f
    BY <1>1, DivideNear
  <1>4. /\ g \in Int /\ left - v - 9 <= 10 * g /\ 10 * g <= left - v + 9
        /\ left - v >= 0 => 0 <= g /\ 10 * g <= left - v
        /\ left - v <= 0 => g <= 0 /\ left - v <= 10 * g
    <2> DEFINE x == left - v
    <2>1. x \in Int
      BY <1>1
    <2> HIDE DEF x
    <2>2. /\ Divide(x, 10) \in Int /\ x - 9 <= 10 * Divide(x, 10)
          /\ 10 * Divide(x, 10) <= x + 9
          /\ x >= 0 => 0 <= Divide(x, 10) /\ 10 * Divide(x, 10) <= x
          /\ x <= 0 => Divide(x, 10) <= 0 /\ x <= 10 * Divide(x, 10)
      BY <2>1, DivideNear
    <2> QED BY <2>2 DEF x
  <1> HIDE DEF f, g
  <1>5. left2 \in Nat /\ v2 \in Nat /\ left2 <= left
    BY <1>1, <1>3, <1>4
  <1>6. left2 <= 4 * v2 /\ (v2 <= v \/ v2 <= left)
    BY <1>1, <1>3, <1>4
  <1>7. 10 * left2 <= 9 * left + 9 /\ 10 * v2 <= 9 * v + left + 9
    BY <1>1, <1>3, <1>4
  <1> HIDE DEF left2, v2
  <1>8. left2 <= B + 7 * P /\ v2 <= B + 7 * P
    BY <1>1, <1>5, <1>6
  <1>9. WearsOff(k + 1, B, P, left2, v2)
    BY <1>1, <1>5, <1>6, <1>7, WearingOff
  <1>10. Settling(k + 1, B, P, left2, v2)
    BY <1>5, <1>6, <1>8, <1>9 DEF Settling
  <1> QED BY <1>2, <1>10 DEF left2, v2, f, g

EarlyInv ==
  /\ EarlyBounds(pkt_cnt, Boot, prog.period, delay, var)
  /\ pkt_cnt = 0 => ea = 0
  /\ pkt_cnt > 0 => ea = Last \div pkt_cnt

SettlingInv ==
  /\ Settling(pkt_cnt, Boot, prog.period, Left, var)
  /\ ea <= Last

DueAfterMargin ==
  timer.armed => pkt_cnt > 10 /\ timer.at = Last + prog.period - Left + 4 * var

LearntInv ==
  /\ "armed" \in DOMAIN timer
  /\ irregular = 0 /\ prog.learns =>
       /\ pkt_cnt <= 10 => EarlyInv
       /\ pkt_cnt >= 10 => SettlingInv
       /\ DueAfterMargin

\* The copies the theorem is about.
LEMMA Learner ==
  ASSUME SettlingLearners, RingInv, prog.learns
  PROVE  /\ prog.n = 10 /\ prog.average /\ prog.stop = 0 /\ ~prog.rewires
         /\ 100 <= prog.period
         /\ prog.period \in Nat /\ Boot \in Nat /\ WORD \in Nat \ {0}
         /\ pkt_cnt \in Nat /\ Last \in Nat /\ prog.hz \in Nat /\ prog.from \in Nat
  <1>1. MarginSettles(prog)
    BY DEF SettlingLearners, RingInv, RingType
  <1> QED BY <1>1, Sizes, LastReceipt DEF MarginSettles

\* One of the first ten heartbeats.
LEMMA EarlyReceive ==
  ASSUME SettlingLearners, RingInv, MarginInv, EstimateType, RegularInv, LearntInv,
         irregular = 0, prog.learns, pkt_cnt < 10,
         NEW t \in Nat, t = Last + prog.period, Receive(t)
  PROVE  EarlyInv' /\ UNCHANGED timer
  <1> DEFINE k == pkt_cnt
             B == Boot
             P == prog.period
             error == t - ea - delay
  <1>1. /\ k \in 0 .. 9 /\ B \in Nat /\ P \in Nat /\ P >= 100 /\ prog.n = 10
        /\ Last \in Nat /\ k \in Nat
    BY Learner
  <1>2. delay \in Int /\ var \in Nat /\ ea \in Nat
    BY DEF MarginInv, EstimateType
  <1>3. /\ EarlyBounds(k, B, P, delay, var)
        /\ k = 0 => ea = 0
        /\ k > 0 => ea = Last \div k
    BY <1>1 DEF LearntInv, EarlyInv
  <1>4. Last = B + k * P
    BY RegularLast
  <1>5. k > 0 => ea = (B + k * P) \div k
    BY <1>3, <1>4
  <1>6. error \in Int /\ error = B + (k + 1) * P - ea - delay
    <2> DEFINE x == k * P
               y == (k + 1) * P
    <2>1. y = x + P /\ x \in Nat
      BY <1>1
    <2>2. t = Last + P /\ Last = B + x
      BY <1>4
    <2> HIDE DEF x, y
    <2>3. t \in Int /\ t - ea - delay = B + y - ea - delay /\ t - ea - delay \in Int
      BY <1>1, <1>2, <2>1, <2>2
    <2> QED BY <2>3 DEF y
  <1>7. /\ delay' = delay + Divide(error, 10)
        /\ var' = var + Divide(Abs(error) - var, 10)
    BY DEF Receive, Jacobson
  <1>8. /\ prog' = prog /\ pkt_cnt' = k + 1 /\ Last' = t
    BY LogGrows
  <1> HIDE DEF k, B, P, error
  <1>9. EarlyBounds(k + 1, B, P, delay + Divide(error, 10), var + Divide(Abs(error) - var, 10))
    BY <1>1, <1>2, <1>3, <1>5, <1>6, EarlyMoves
  <1>10. EarlyBounds(pkt_cnt', Boot, prog.period, delay', var')
    BY <1>7, <1>8, <1>9 DEF B, P
  <1>11. EarlyEstimate(t)
    BY <1>1, WhichEstimate DEF FirstEstimate, k
  <1>12. ea' = t \div (k + 1)
    BY <1>11, EarlyIs DEF k
  <1>13. pkt_cnt' # 0
    BY <1>1, <1>8
  <1>14. UNCHANGED timer
    BY <1>11 DEF EarlyEstimate
  <1> QED BY <1>8, <1>10, <1>12, <1>13, <1>14 DEF EarlyInv

\* The estimate of a full window that learns moves by one period.
LEMMA LearntMoves ==
  ASSUME SettlingLearners, RingInv, ClockInv, RingInv', WindowFits', EstimateType,
         RegularInv, irregular = 0, prog.learns, pkt_cnt >= 10, ea <= Last,
         NEW t \in Nat, t = Last + prog.period, Receive(t)
  PROVE  ea' = ea + prog.period
  <1> DEFINE P == prog.period
             oldest == log[pkt_cnt - prog.n + 1]
             x == t + (prog.n + 1 + prog.from) * prog.hz
  <1>1. /\ prog.n = 10 /\ prog.average /\ P \in Nat /\ Boot \in Nat /\ WORD \in Nat \ {0}
        /\ pkt_cnt \in Nat /\ Last \in Nat /\ prog.hz \in Nat /\ prog.from \in Nat
        /\ ea \in Nat /\ prog' = prog /\ Last' = t
    BY Learner, LogGrows DEF EstimateType
  <1>2. pkt_cnt - prog.n + 1 = pkt_cnt - 9 /\ pkt_cnt - 9 \in 1 .. pkt_cnt
    BY <1>1
  <1>3. oldest = Boot + (pkt_cnt - 9) * P
    BY <1>2 DEF RegularInv
  <1>4. Last = Boot + pkt_cnt * P
    BY RegularLast
  <1>5. (pkt_cnt - 9) * P = pkt_cnt * P - 9 * P /\ pkt_cnt * P \in Nat
    BY <1>1
  <1> HIDE DEF P, oldest
  <1>6. t - oldest = 10 * P
    <2>1. t = Last + P
      BY DEF P
    <2> QED BY <1>1, <1>3, <1>4, <1>5, <2>1
  <1>7. (10 * P) \div 10 = P
    BY <1>1
  <1>8. x \in Nat /\ t <= x
    BY <1>1
  <1>9. prog.n * x < WORD
    BY <1>1 DEF WindowFits
  <1> HIDE DEF x
  <1>10. x < WORD
    BY <1>1, <1>8, <1>9
  <1>11. ea + P \in 0 .. WORD - 1
    <2>1. ea + P <= t
      BY <1>1 DEF P
    <2> QED BY <1>1, <1>8, <1>10, <2>1
  <1>12. ea \in Int /\ Last <= t /\ pkt_cnt >= prog.n /\ prog.average
    BY <1>1 DEF P
  <1>13. ea + (t - oldest) \div prog.n \in 0 .. WORD - 1 =>
           ea' = ea + (t - oldest) \div prog.n
    BY <1>12, MovedIs DEF oldest
  <1> QED BY <1>1, <1>6, <1>7, <1>11, <1>13 DEF P

\* A deadline that is set: the difference of words does not wrap.
LEMMA LearntDeadline ==
  ASSUME SettlingLearners, RingInv, RingInv', WindowFits', MarginInv', EstimateType',
         RegularInv, irregular = 0, prog.learns, pkt_cnt >= 10, SettlingInv',
         NEW t \in Nat, t = Last + prog.period, Receive(t),
         timer' = ArmedFor(ea' - t + safety_margin)
  PROVE  timer'.at = (Last + prog.period - Left + 4 * var)'
  <1> DEFINE P == prog.period
             amount == ea' - t + safety_margin
             x == t + (prog.n + 1 + prog.from) * prog.hz
  <1>1. /\ prog.n = 10 /\ P \in Nat /\ Boot \in Nat /\ WORD \in Nat \ {0} /\ P >= 100
        /\ pkt_cnt \in Nat /\ Last \in Nat /\ prog.hz \in Nat /\ prog.from \in Nat
        /\ prog' = prog /\ Last' = t /\ now' = t
    BY Learner, LogGrows DEF Receive
  <1>2. delay' \in Int /\ var' \in Nat /\ ea' \in Nat
    BY DEF MarginInv, EstimateType
  <1>3. safety_margin = delay' + 4 * var'
    BY DEF safety_margin
  <1>4. Left' = t + P - ea' - delay'
    BY <1>1 DEF Left
  <1>5. /\ Left' \in Nat /\ Left' <= 4 * var' /\ var' <= Boot + 7 * P
    <2>1. Settling(pkt_cnt', Boot, prog'.period, Left', var')
      BY DEF SettlingInv
    <2>2. Settling(pkt_cnt', Boot, P, Left', var')
      BY <1>1, <2>1
    <2> HIDE DEF P
    <2>3. /\ Left' \in Nat /\ var' \in Nat /\ Left' <= 4 * var'
          /\ var' <= Boot + 7 * P
      BY <2>2, SettlingBounds
    <2> QED BY <2>3
  <1> HIDE DEF P
  <1>6. amount = P - Left' + 4 * var'
    BY <1>1, <1>2, <1>3, <1>4
  <1>7. t >= Boot + 11 * P
    <2>1. Last = Boot + pkt_cnt * P
      BY RegularLast DEF P
    <2>2. P * 10 <= P * pkt_cnt
      BY <1>1, TimesMonotone
    <2>3. P * 10 = 10 * P /\ P * pkt_cnt = pkt_cnt * P /\ pkt_cnt * P \in Nat
      BY <1>1
    <2>4. t = Last + P
      BY DEF P
    <2> QED BY <1>1, <2>1, <2>2, <2>3, <2>4
  <1>8. x \in Nat /\ t <= x
    BY <1>1
  <1>9. 10 * x < WORD
    BY <1>1 DEF WindowFits
  <1> HIDE DEF x, amount
  <1>10. amount \in 0 .. WORD - 1
    <2> DEFINE left == Left'
               v == var'
    <2>1. /\ left \in Nat /\ v \in Nat /\ left <= 4 * v /\ v <= Boot + 7 * P
          /\ amount = P - left + 4 * v
      BY <1>2, <1>5, <1>6
    <2> HIDE DEF left, v
    <2> QED BY <1>1, <1>7, <1>8, <1>9, <2>1
  <1>11. amount % WORD = amount
    BY <1>1, <1>10, SmallMod
  <1>12. timer'.at = t + amount
    BY <1>1, <1>11 DEF ArmedFor, amount
  <1> QED BY <1>1, <1>2, <1>5, <1>6, <1>12 DEF P

\* A heartbeat of a full window.
LEMMA SettlingReceive ==
  ASSUME SettlingLearners, RingInv, ClockInv, MarginInv, EstimateType, RegularInv, LearntInv,
         RingInv', WindowFits', MarginInv', EstimateType',
         irregular = 0, prog.learns, pkt_cnt >= 10,
         NEW t \in Nat, t = Last + prog.period, Receive(t)
  PROVE  SettlingInv' /\ DueAfterMargin'
  <1> DEFINE k == pkt_cnt
             B == Boot
             P == prog.period
             left == Left
  <1>1. /\ prog.n = 10 /\ k \in Nat /\ B \in Nat /\ P \in Nat /\ P >= 100 /\ Last \in Nat
        /\ prog.stop = 0
    BY Learner
  <1>2. /\ prog' = prog /\ pkt_cnt' = k + 1 /\ Last' = t
    BY LogGrows
  <1>3. /\ Settling(k, B, P, left, var) /\ ea <= Last
    BY DEF LearntInv, SettlingInv
  <1>4. ea' = ea + P
    BY <1>3, LearntMoves
  <1>5. left \in Nat /\ delay \in Int /\ var \in Nat /\ ea \in Nat
    BY <1>3 DEF Settling, MarginInv, EstimateType
  <1>6. left = t - ea - delay
    BY <1>1, <1>5 DEF Left
  <1>7. /\ delay' = delay + Divide(left, 10)
        /\ var' = var + Divide(Abs(left) - var, 10)
    BY <1>6 DEF Receive, Jacobson
  <1>8. Left' = t + P - ea' - delay'
    BY <1>2 DEF Left
  <1> HIDE DEF k, B, P, left
  <1>9. Left' = left - Divide(left, 10)
    <2>1. Divide(left, 10) \in Int
      BY <1>5, DivideIsInt
    <2> QED BY <1>1, <1>4, <1>5, <1>6, <1>7, <1>8, <2>1
  <1>10. Settling(k + 1, B, P, left - Divide(left, 10), var + Divide(Abs(left) - var, 10))
    <2>1. k >= 10
      BY DEF k
    <2> QED BY <1>1, <1>3, <2>1, SettlingMoves
  <1>11. Settling(pkt_cnt', Boot, prog.period, Left', var')
    BY <1>2, <1>7, <1>9, <1>10 DEF B, P
  <1>12. ea' <= t
    BY <1>1, <1>3, <1>4, <1>5 DEF P
  <1>13. SettlingInv'
    BY <1>2, <1>11, <1>12 DEF SettlingInv
  <1>14. timer' = ArmedFor(ea' - t + safety_margin)
    <2>1. MovedEstimate(t) /\ pkt_cnt' # prog.stop
      BY <1>1, <1>2, WhichEstimate DEF k
    <2> QED BY <2>1 DEF MovedEstimate
  <1>15. timer'.at = (Last + prog.period - Left + 4 * var)'
    BY <1>13, <1>14, LearntDeadline
  <1>16. pkt_cnt' > 10
    BY <1>1, <1>2 DEF k
  <1> QED BY <1>13, <1>15, <1>16 DEF DueAfterMargin

\* The tenth heartbeat ends the first phase.
EarlySettles == irregular = 0 /\ prog.learns /\ pkt_cnt = 10 /\ EarlyInv => SettlingInv

LEMMA EarlyEnds ==
  ASSUME SettlingLearners
  PROVE  RingInv /\ MarginInv /\ EstimateType /\ RegularInv => EarlySettles
  <1> SUFFICES ASSUME RingInv, MarginInv, EstimateType, RegularInv,
                      irregular = 0, prog.learns, pkt_cnt = 10, EarlyInv
               PROVE  SettlingInv
    BY DEF EarlySettles
  <1> DEFINE B == Boot
             P == prog.period
             left == Left
  <1>1. /\ B \in Nat /\ P \in Nat /\ P >= 100 /\ Last \in Nat
    BY Learner
  <1>2. delay \in Int /\ var \in Nat /\ ea \in Nat
    BY DEF MarginInv, EstimateType
  <1>3. Last = B + 10 * P
    BY RegularLast
  <1>4. EarlyBounds(10, B, P, delay, var) /\ ea = Last \div 10
    BY DEF EarlyInv
  <1>5. ea = (B + 10 * P) \div 10
    BY <1>3, <1>4
  <1>6. left = B + 11 * P - ea - delay /\ left \in Int
    BY <1>1, <1>2, <1>3 DEF Left
  <1> HIDE DEF B, P, left
  <1>7. Settling(10, B, P, left, var)
    BY <1>1, <1>2, <1>4, <1>5, <1>6, SettlingStarts
  <1>8. Settling(pkt_cnt, Boot, prog.period, Left, var)
    BY <1>7 DEF B, P, left
  <1>9. ea <= Last
    BY <1>1, <1>4
  <1> QED BY <1>8, <1>9 DEF SettlingInv

\* A heartbeat, with the timer as it is or armed again.
LEMMA LearntReceive ==
  ASSUME SettlingLearners, RingInv, ClockInv, MarginInv, EstimateType, RegularInv, LearntInv,
         RingInv', WindowFits', MarginInv', EstimateType', EarlySettles',
         NEW t \in Nat, Receive(t),
         \/ t = Last + prog.period /\ irregular' = irregular
         \/ irregular' = irregular + 1
  PROVE  LearntInv'
  <1>1. irregular' = 0 => irregular = 0 /\ t = Last + prog.period
    BY DEF RegularInv
  <1>2. "armed" \in DOMAIN timer'
    <2>1. UNCHANGED timer \/ timer' = ArmedFor(ea' - t + safety_margin)
      BY WhichEstimate DEF EarlyEstimate, FirstEstimate, MovedEstimate
    <2> QED BY <2>1, ArmedFields DEF LearntInv
  <1>3. ASSUME irregular' = 0, prog'.learns
        PROVE  /\ pkt_cnt' <= 10 => EarlyInv'
               /\ pkt_cnt' >= 10 => SettlingInv'
               /\ DueAfterMargin'
    <2>1. /\ irregular = 0 /\ t = Last + prog.period
          /\ prog' = prog /\ prog.learns
          /\ pkt_cnt' = pkt_cnt + 1 /\ pkt_cnt \in Nat
      BY <1>1, <1>3, LogGrows, LastReceipt
    <2>2. CASE pkt_cnt < 10
      <3>1. EarlyInv' /\ timer' = timer
        BY <2>1, <2>2, EarlyReceive
      <3>2. ~timer.armed
        BY <2>1, <2>2 DEF LearntInv, DueAfterMargin
      <3>3. DueAfterMargin'
        BY <3>1, <3>2 DEF DueAfterMargin
      <3>4. pkt_cnt' >= 10 => SettlingInv'
        <4>1. pkt_cnt' >= 10 => pkt_cnt' = 10
          BY <2>1, <2>2
        <4> QED BY <1>3, <3>1, <4>1 DEF EarlySettles
      <3> QED BY <3>1, <3>3, <3>4
    <2>3. CASE pkt_cnt >= 10
      <3>1. SettlingInv' /\ DueAfterMargin'
        BY <2>1, <2>3, SettlingReceive
      <3>2. ~(pkt_cnt' <= 10)
        BY <2>1, <2>3
      <3> QED BY <3>1, <3>2
    <2> QED BY <2>1, <2>2, <2>3
  <1> QED BY <1>2, <1>3 DEF LearntInv

\* The callback does not arm the timer of these copies again.
LEMMA LearntCallback ==
  ASSUME SettlingLearners, RingInv, LearntInv, timer1_cb
  PROVE  LearntInv'
  <1>1. /\ prog' = prog /\ irregular' = irregular /\ pkt_cnt' = pkt_cnt /\ ea' = ea
        /\ delay' = delay /\ var' = var /\ Last' = Last
    BY DEF timer1_cb, ringVars, marginVars, historyVars, Last
  <1>2. "armed" \in DOMAIN timer'
    <2>1. CASE timer' = ArmedFor(timer.arg)
      BY <2>1, ArmedFields
    <2>2. CASE timer' = [timer EXCEPT !.armed = FALSE]
      BY <2>2 DEF LearntInv
    <2> QED BY <2>1, <2>2 DEF timer1_cb
  <1>3. ASSUME prog.learns PROVE ~timer'.armed
    <2>1. timer' = [timer EXCEPT !.armed = FALSE]
      BY <1>3, Learner DEF timer1_cb
    <2> QED BY <2>1 DEF LearntInv
  <1>4. ASSUME irregular' = 0, prog'.learns
        PROVE  /\ pkt_cnt' <= 10 => EarlyInv'
               /\ pkt_cnt' >= 10 => SettlingInv'
               /\ DueAfterMargin'
    <2>1. /\ pkt_cnt <= 10 => EarlyInv
          /\ pkt_cnt >= 10 => SettlingInv
      BY <1>1, <1>4 DEF LearntInv
    <2>2. EarlyInv => EarlyInv'
      BY <1>1 DEF EarlyInv
    <2>3. SettlingInv => SettlingInv'
      BY <1>1 DEF SettlingInv, Left
    <2>4. DueAfterMargin'
      BY <1>1, <1>3, <1>4 DEF DueAfterMargin
    <2> QED BY <1>1, <2>1, <2>2, <2>3, <2>4
  <1> QED BY <1>2, <1>4 DEF LearntInv

LEMMA LearntStep ==
  ASSUME SettlingLearners
  PROVE  /\ RingInv /\ ClockInv /\ MarginInv /\ EstimateType /\ RegularInv /\ LearntInv
         /\ RingInv' /\ WindowFits' /\ MarginInv' /\ EstimateType' /\ EarlySettles'
         /\ [AveragingNext]_averagingVars
         => LearntInv'
  <1> SUFFICES ASSUME RingInv, ClockInv, MarginInv, EstimateType, RegularInv, LearntInv,
                      RingInv', WindowFits', MarginInv', EstimateType', EarlySettles',
                      [AveragingNext]_averagingVars
               PROVE  LearntInv'
    OBVIOUS
  <1>1. CASE Heartbeat
    <2>1. PICK t \in Nat : Receive(t) /\ (Regular(t) \/ Irregular(t))
      BY <1>1, HeartbeatPace
    <2>2. \/ t = Last + prog.period /\ irregular' = irregular
          \/ irregular' = irregular + 1
      BY <2>1 DEF Regular, Irregular
    <2> QED BY <2>1, <2>2, LearntReceive
  <1>2. CASE timer1_cb
    BY <1>2, LearntCallback
  <1>3. CASE UNCHANGED averagingVars
    <2>1. /\ prog' = prog /\ irregular' = irregular /\ pkt_cnt' = pkt_cnt /\ ea' = ea
          /\ delay' = delay /\ var' = var /\ Last' = Last /\ timer' = timer
      BY <1>3 DEF averagingVars, ringVars, marginVars, historyVars, Last
    <2> QED BY <2>1 DEF LearntInv, EarlyInv, SettlingInv, DueAfterMargin, Left
  <1> QED BY <1>1, <1>2, <1>3 DEF AveragingNext

LEMMA LearntInit == AveragingInit => LearntInv
  <1> SUFFICES ASSUME AveragingInit PROVE LearntInv
    OBVIOUS
  <1>1. /\ pkt_cnt = 0 /\ ea = 0 /\ delay = 0 /\ var = 0
        /\ timer = [armed |-> FALSE, at |-> 0, arg |-> 0]
    BY DEF AveragingInit
  <1>2. EarlyInv
    <2>1. EarlyBounds(0, Boot, prog.period, 0, 0)
      BY DEF EarlyBounds
    <2> QED BY <1>1, <2>1 DEF EarlyInv
  <1>3. "armed" \in DOMAIN timer /\ ~timer.armed
    BY <1>1
  <1>4. ~(pkt_cnt >= 10)
    BY <1>1
  <1> QED BY <1>2, <1>3, <1>4 DEF LearntInv, DueAfterMargin

\* What is left of the error is between nothing and the margin, so the deadline
\* is between a period and a period with the margin after the last receipt.
LEMMA LearntSettles ==
  ASSUME SettlingLearners
  PROVE  RingInv /\ LearntInv => SettlesWhenRegular
  <1> SUFFICES ASSUME RingInv, LearntInv, irregular = 0, prog.learns, timer.armed
               PROVE  /\ timer.at >= Last + prog.period
                      /\ \A d \in 0 .. DOUBLINGS :
                           Boot <= 20 * Doubled[d] * prog.period /\ pkt_cnt >= Settled + 10 * d
                             => timer.at <= Last + 3 * prog.period
    BY DEF SettlesWhenRegular
  <1> DEFINE P == prog.period
             left == Left
  <1>1. P \in Nat /\ Last \in Nat /\ pkt_cnt \in Nat /\ Boot \in Nat
    BY Learner
  <1>2. pkt_cnt > 10 /\ timer.at = Last + P - left + 4 * var
    BY DEF LearntInv, DueAfterMargin
  <1>3. Settling(pkt_cnt, Boot, P, left, var)
    BY <1>1, <1>2 DEF LearntInv, SettlingInv
  <1> HIDE DEF P, left
  <1>4. left \in Nat /\ var \in Nat /\ left <= 4 * var
    BY <1>3, SettlingBounds
  <1>5. timer.at >= Last + P
    BY <1>1, <1>2, <1>4
  <1>6. ASSUME NEW d \in 0 .. DOUBLINGS,
               Boot <= 20 * Doubled[d] * P, pkt_cnt >= Settled + 10 * d
        PROVE  timer.at <= Last + 3 * P
    <2>1. d \in Nat
      BY AveragingConstants
    <2>2. pkt_cnt >= 65 + 10 * d
      BY <1>6 DEF Settled
    <2>3. Boot <= 20 * Scale(d, P)
      BY <1>1, <1>6, <2>1, ScaleIs
    <2>4. WearsOff(pkt_cnt, Boot, P, left, var)
      BY <1>3 DEF Settling
    <2>5. 2 * var <= P
      BY <2>1, <2>2, <2>3, <2>4 DEF WearsOff
    <2> QED BY <1>1, <1>2, <1>4, <2>5
  <1> QED BY <1>5, <1>6 DEF P

LearntParts == TypeParts /\ NextInv /\ LearntInv

\* With a learnt margin and every heartbeat regular, the deadline is never
\* within a period of the last receipt, and within three from the 65th heartbeat
\* on, or ten later for every time the clock at the start is twenty periods
\* doubled: in every copy with that window, for every sender's period of a
\* hundred ticks or more, every reading of the clock at the start and every
\* number of heartbeats (the updates of delay and var in the receive loop, from
\* the estimates made before the window is full on).
THEOREM LearntMarginSettles == SettlingLearners /\ AveragingSpec => []SettlesWhenRegular
  <1> SUFFICES ASSUME SettlingLearners
               PROVE  AveragingSpec => []SettlesWhenRegular
    OBVIOUS
  <1>1. RingInv' /\ ClockInv' => WindowFits'
    BY ReadingsFit, PTL
  <1>2. FirstTimesFit
    BY FirstTimesBounds DEF FirstTimesFit
  <1>3. FirstTimesFit'
    BY <1>2, PTL
  <1>4. AveragingInit => LearntParts
    <2> SUFFICES ASSUME AveragingInit PROVE LearntParts
      OBVIOUS
    <2>1. pkt_cnt = 0 /\ irregular = 0 /\ prog.n \in Nat \ {0}
      BY ProgramSizes DEF AveragingInit
    <2>2. NextInv
      BY <2>1 DEF NextInv, RegularInv, EstimateIsNext
    <2> QED BY <2>2, TypeInit, LearntInit DEF LearntParts
  <1>5. RingInv /\ MarginInv /\ EstimateType /\ RegularInv => EarlySettles
    BY EarlyEnds
  <1>6. RingInv' /\ MarginInv' /\ EstimateType' /\ RegularInv' => EarlySettles'
    BY <1>5, PTL
  <1>7. LearntParts /\ [AveragingNext]_averagingVars => LearntParts'
    <2>1. LearntParts /\ [AveragingNext]_averagingVars => RingInv' /\ MarginInv' /\ ClockInv'
      BY RingStep, MarginStep, ClockStep DEF LearntParts, TypeParts
    <2>2. LearntParts /\ [AveragingNext]_averagingVars => TypeParts'
      BY <1>1, <2>1, TypeStep DEF LearntParts
    <2>3. LearntParts /\ [AveragingNext]_averagingVars => NextInv'
      BY <1>1, <1>3, <2>1, NextStep DEF LearntParts, TypeParts
    <2>4. LearntParts /\ [AveragingNext]_averagingVars => EarlySettles'
      BY <1>6, <2>2, <2>3 DEF TypeParts, NextInv
    <2>5. LearntParts /\ [AveragingNext]_averagingVars => LearntInv'
      BY <1>1, <2>1, <2>2, <2>4, LearntStep DEF LearntParts, TypeParts, NextInv
    <2> QED BY <2>2, <2>3, <2>5 DEF LearntParts
  <1>8. LearntParts => SettlesWhenRegular
    BY LearntSettles DEF LearntParts, TypeParts
  <1> QED BY <1>4, <1>7, <1>8, PTL DEF AveragingSpec

=============================================================================
