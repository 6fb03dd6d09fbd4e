------------------------- MODULE AveragingDetector -------------------------
(***************************************************************************)
(* The receive loop of the detectors that expect the next heartbeat at a   *)
(* moved mean of the last ones: after Chen in chen_fd, 107chen_fd,         *)
(* 110chen_fd, chen_fd_nyu_server, updated_chen_fd_nyu_server and          *)
(* perf_eval/chen_eval, after Bertier (with Jacobson's learnt margin) in   *)
(* perf_eval/bertier and perf_eval/bertier_profile, and, with the same     *)
(* update of the estimate, in fd_lstm.  They are copies of one function    *)
(* with other parameters; prog holds the parameters of the copy that runs. *)
(*                                                                         *)
(* Every heartbeat is one step: the loop is sequential and nothing else    *)
(* touches its state.  log, base and loudest exist for the properties.     *)
(***************************************************************************)
EXTENDS Integers, Sequences, FiniteSetsExt

CONSTANTS
  Programs,       \* the copies considered
  WORD,           \* modulus of uint64_t
  Boot,           \* clock reading before the first heartbeat
  BURST_SIZE,     \* packets a burst holds at most
  STOP_TIME,      \* heartbeat that ends an evaluation, 1500 in the code
  RETURN_AT,      \* heartbeat at which the profiled copy returns, 100000
  StatsPeriod,    \* heartbeats between two reports, 1000 in the code
  Gaps,           \* irregular intervals, in tenths of the sender's period
  DOUBLINGS,      \* bound on the uptimes SettlesWhenRegular tells apart
  MaxIrregular,   \* bound on irregular intervals in a behaviour
  MaxSuspicions,  \* bound on expiries between two heartbeats
  MaxHeartbeats   \* bound

\* n         HEARTBEAT_N
\* ring      ARR_SIZE, and the literal both indices wrap at
\* early     the evicted receipt is read before the new one is stored
\* from      the first estimate takes heartbeat number id - from for id
\* hz        ticks the program takes for one heartbeat interval
\* period    ticks the sender of the same directory sleeps
\* margin    SAFETY_MARGIN in ticks
\* learns    the margin is Jacobson's, and estimates are made from the start
\* stop      heartbeat at which the burst is abandoned, 0 for never
\* returns   heartbeat at which the loop returns, 0 for never
\* counts    suspicions are counted and reported
\* rewires   the callback arms the timer again
\* trains    the first estimate is replaced by training a model
\* average   the receipts are subtracted before the division
ProgramType(p) ==
  /\ p.n \in Nat \ {0} /\ p.ring \in Nat \ {0} /\ p.n <= p.ring
  /\ p.ring = p.n => p.early
  /\ p.hz \in Nat /\ p.period \in Nat /\ p.margin \in Nat /\ p.from \in Nat
  /\ p.trains => ~p.average
  /\ p.stop = 0 \/ p.returns = 0

ASSUME ProgramsTyped == \A p \in Programs : ProgramType(p)
ASSUME AveragingConstants ==
  /\ WORD \in Nat \ {0} /\ Boot \in Nat /\ BURST_SIZE \in Nat \ {0}
  /\ StatsPeriod \in Nat \ {0} /\ Gaps \subseteq Nat
  /\ DOUBLINGS \in Nat /\ MaxIrregular \in Nat /\ MaxSuspicions \in Nat /\ MaxHeartbeats \in Nat

\* The clock, a 64-bit counter that starts with the machine, has run for a
\* window before the program hears anything, and neither it nor the sum of a
\* window of its readings reaches the end of a word: years, at its 2^64 ticks.
ASSUME ClockAssumption ==
  \A p \in Programs :
    /\ p.n * p.hz <= Boot
    /\ \E longest \in 0 .. WORD :
         /\ p.period <= longest
         /\ \A gap \in Gaps : (gap * p.period) \div 10 <= longest
         /\ p.n * (Boot + MaxHeartbeats * longest + (p.n + 1 + p.from) * p.hz) < WORD

\* A tick is 10 ms.  One second is taken for an interval of 100 ms.
chen_fd ==
  [n |-> 10, ring |-> 12, early |-> FALSE, from |-> 0, hz |-> 100, period |-> 10,
   margin |-> 0, learns |-> FALSE, stop |-> 0, returns |-> 0, counts |-> FALSE,
   rewires |-> FALSE, trains |-> FALSE, average |-> TRUE]

\* These two senders sleep DELTA_I * 10000 microseconds, which is the second.
chen_fd_107 == [chen_fd EXCEPT !.period = 100, !.rewires = TRUE]

chen_fd_110 == [chen_fd EXCEPT !.period = 100, !.rewires = TRUE]

chen_fd_nyu_server == [chen_fd EXCEPT !.hz = 10]

updated_chen_fd_nyu_server ==
  [chen_fd_nyu_server EXCEPT !.n = 50, !.ring = 50, !.early = TRUE, !.from = 1,
   !.margin = 70, !.stop = STOP_TIME]

chen_eval ==
  [updated_chen_fd_nyu_server EXCEPT !.n = 10, !.ring = 10, !.margin = 20,
   !.stop = 0, !.counts = TRUE]

\* A tick is 1 ms here, for the margin to be learnt in steps of a tenth.
bertier == [chen_eval EXCEPT !.hz = 100, !.period = 100, !.margin = 0, !.learns = TRUE]

bertier_profile == [bertier EXCEPT !.returns = RETURN_AT]

fd_lstm ==
  [chen_fd_nyu_server EXCEPT !.n = 32, !.ring = 32, !.early = TRUE,
   !.trains = TRUE, !.average = FALSE]

VARIABLES
  prog, running,
  arr_timestamp, next_avail, next_evicted, ea, pkt_cnt,  \* struct fd_info
  u_prev,             \* U(k), the early mean
  delay, var,         \* Jacobson's estimation; var is var_prev
  timer,              \* the rte_timer: armed or not, when it is due, its argument
  false_positive_cnt,
  leaked,             \* mbufs never freed
  now,                \* the clock
  irregular,          \* irregular intervals so far
  suspicions,         \* expiries since the last heartbeat
  log,                \* every receipt time
  loudest,            \* largest absolute error so far
  base                \* n * ea minus the sum of the window, when it first fills

ringVars == <<arr_timestamp, next_avail, next_evicted, ea, pkt_cnt, u_prev>>
marginVars == <<delay, var, loudest>>
historyVars == <<log, base>>
averagingVars ==
  <<prog, running, ringVars, marginVars, timer, false_positive_cnt, leaked, now,
    irregular, suspicions, historyVars>>

Slots == 0 .. prog.ring - 1
NoReceipt == [heartbeat_id |-> 0, hb_timestamp |-> 0]
Last == IF log = << >> THEN Boot ELSE log[Len(log)]
Abs(x) == IF x < 0 THEN -x ELSE x

\* Division of int64_t rounds towards zero.
Divide(x, d) == IF x < 0 THEN -((-x) \div d) ELSE x \div d

WindowSum(receipts, k) == SumFunctionOnSet(receipts, k - prog.n + 1 .. k)

AveragingInit ==
  /\ prog \in Programs /\ running = TRUE
  /\ arr_timestamp = [i \in Slots |-> NoReceipt]
  /\ next_avail = 0 /\ next_evicted = 0 /\ ea = 0 /\ pkt_cnt = 0 /\ u_prev = 0
  /\ delay = 0 /\ var = 0 /\ loudest = 0
  /\ timer = [armed |-> FALSE, at |-> 0, arg |-> 0]
  /\ false_positive_cnt = 0 /\ leaked = 0
  /\ now = Boot /\ irregular = 0 /\ suspicions = 0 /\ log = << >> /\ base = 0

-----------------------------------------------------------------------------

\* Mutant: the literal is one more than the size of the ring.
StoreWrapsLate(t) ==
  /\ arr_timestamp' = [arr_timestamp EXCEPT ![next_avail] =
       [heartbeat_id |-> pkt_cnt', hb_timestamp |-> t]]
  /\ next_avail' = (next_avail + 1) % (prog.ring + 1)

Store(t) ==
  /\ arr_timestamp' = [arr_timestamp EXCEPT ![next_avail] =
       [heartbeat_id |-> pkt_cnt', hb_timestamp |-> t]]
  /\ next_avail' = (next_avail + 1) % prog.ring

\* Mutant: the deviation is not made positive.
JacobsonSigned(t) ==
  IF prog.learns
  THEN LET error == t - ea - delay
       IN /\ delay' = delay + Divide(error, 10)
          /\ var' = var + Divide(error - var, 10)
          /\ loudest' = Max({loudest, Abs(error)})
  ELSE UNCHANGED marginVars

\* Mutant: the error leaves out the delay that has been learnt.
JacobsonWithoutDelay(t) ==
  IF prog.learns
  THEN LET error == t - ea
       IN /\ delay' = delay + Divide(error, 10)
          /\ var' = var + Divide(Abs(error) - var, 10)
          /\ loudest' = Max({loudest, Abs(error)})
  ELSE UNCHANGED marginVars

\* The error is that of the estimate made before this heartbeat, which before
\* the first one is 0; GAMMA_INVERSE is 10.
Jacobson(t) ==
  IF prog.learns
  THEN LET error == t - ea - delay
       IN /\ delay' = delay + Divide(error, 10)
          /\ var' = var + Divide(Abs(error) - var, 10)
          /\ loudest' = Max({loudest, Abs(error)})
  ELSE UNCHANGED marginVars

\* Mutant: the deviation is left out of the margin, and the fixed one too.
MarginOfDelay == IF prog.learns THEN delay' ELSE 0

\* alpha with BETA = 1 and THETA = 4, or the fixed margin.
safety_margin == IF prog.learns THEN delay' + 4 * var' ELSE prog.margin

\* rte_timer_reset(tim, amount, SINGLE, ...): amount is an unsigned word.
ArmedFor(amount) ==
  [armed |-> TRUE, at |-> now' + (amount % WORD), arg |-> amount % WORD]

\* Before the window is full only the copies that learn have an estimate.  The
\* integer quotient (pkt_cnt - 1) / pkt_cnt is 0, so their early mean forgets
\* all receipts but the last; the DELTA_I milliseconds it adds to ticks are
\* nothing on the scale of a tick of this model.
EarlyEstimate(t) ==
  /\ IF prog.learns THEN pkt_cnt' <= prog.n ELSE pkt_cnt' < prog.n
  /\ IF prog.learns
     THEN /\ u_prev' = t \div pkt_cnt' + ((pkt_cnt' - 1) \div pkt_cnt') * u_prev
          /\ ea' = u_prev'
     ELSE UNCHANGED <<u_prev, ea>>
  /\ base' = IF pkt_cnt' = prog.n THEN prog.n * ea' - WindowSum(log', prog.n) ELSE base
  /\ UNCHANGED <<next_evicted, timer>>

\* Mutant: the estimate is for the heartbeat just received.
FirstEstimateOfThis(t) ==
  /\ pkt_cnt' = prog.n /\ ~prog.learns
  /\ IF prog.trains THEN UNCHANGED <<ea, timer>>
     ELSE LET shifted == [i \in 0 .. prog.n - 1 |->
                arr_timestamp'[i].hb_timestamp
                  - (arr_timestamp'[i].heartbeat_id - prog.from) * prog.hz]
              moving_sum == SumFunction(shifted) % WORD
          IN /\ ea' = (moving_sum \div prog.n + prog.n * prog.hz) % WORD
             /\ timer' = ArmedFor(ea' - t + safety_margin)
  /\ base' = prog.n * ea' - WindowSum(log', prog.n)
  /\ UNCHANGED <<u_prev, next_evicted>>

\* The sums are of unsigned words.  The copy with the model trains it here and
\* leaves estimate and timer alone.
FirstEstimate(t) ==
  /\ pkt_cnt' = prog.n /\ ~prog.learns
  /\ IF prog.trains THEN UNCHANGED <<ea, timer>>
     ELSE LET shifted == [i \in 0 .. prog.n - 1 |->
                arr_timestamp'[i].hb_timestamp
                  - (arr_timestamp'[i].heartbeat_id - prog.from) * prog.hz]
              moving_sum == SumFunction(shifted) % WORD
          IN /\ ea' = (moving_sum \div prog.n + (prog.n + 1) * prog.hz) % WORD
             /\ timer' = ArmedFor(ea' - t + safety_margin)
  /\ base' = prog.n * ea' - WindowSum(log', prog.n)
  /\ UNCHANGED <<u_prev, next_evicted>>

\* Mutant: the evicted receipt is read after the new one is stored everywhere.
EvictedAfterStore == arr_timestamp'[next_evicted].hb_timestamp

Evicted ==
  IF prog.early THEN arr_timestamp[next_evicted].hb_timestamp
  ELSE arr_timestamp'[next_evicted].hb_timestamp

MovedEa(t) ==
  IF prog.average
  THEN (ea + ((t - Evicted) % WORD) \div prog.n) % WORD
  ELSE (ea + (t - Evicted \div prog.n)) % WORD

\* Mutant: next_evicted is not moved on when the burst is abandoned.
MovedEstimateStopsFirst(t) ==
  /\ pkt_cnt' > prog.n
  /\ ea' = MovedEa(t)
  /\ IF pkt_cnt' = prog.stop
     THEN UNCHANGED <<timer, next_evicted>>
     ELSE /\ timer' = ArmedFor(ea' - t + safety_margin)
          /\ next_evicted' = (next_evicted + 1) % prog.ring
  /\ UNCHANGED <<u_prev, base>>

\* At STOP_TIME the timer keeps the deadline of the heartbeat before.
MovedEstimate(t) ==
  /\ pkt_cnt' > prog.n
  /\ ea' = MovedEa(t)
  /\ next_evicted' = (next_evicted + 1) % prog.ring
  /\ IF pkt_cnt' = prog.stop THEN UNCHANGED timer
     ELSE timer' = ArmedFor(ea' - t + safety_margin)
  /\ UNCHANGED <<u_prev, base>>

\* The break at STOP_TIME leaves the loop over the burst and the return at
\* RETURN_AT the function, both before the mbuf is freed: this one and the rest
\* of the burst are lost.
Free ==
  IF pkt_cnt' = prog.returns \/ (pkt_cnt' = prog.stop /\ pkt_cnt' > prog.n)
  THEN \E rest \in 0 .. BURST_SIZE - 1 : leaked' = leaked + 1 + rest
  ELSE UNCHANGED leaked

\* A heartbeat whose receipt is timed at t; rte_timer_manage has run before.
Receive(t) ==
  /\ running
  /\ now <= t
  /\ timer.armed => t <= timer.at
  /\ pkt_cnt < MaxHeartbeats
  /\ now' = t
  /\ pkt_cnt' = pkt_cnt + 1
  /\ log' = Append(log, t)
  /\ Store(t)
  /\ Jacobson(t)
  /\ EarlyEstimate(t) \/ FirstEstimate(t) \/ MovedEstimate(t)
  /\ false_positive_cnt' = IF pkt_cnt' % StatsPeriod = 0 THEN 0 ELSE false_positive_cnt
  /\ running' = (pkt_cnt' # prog.returns)
  /\ Free
  /\ suspicions' = 0
  /\ UNCHANGED prog

\* The network delivers the heartbeats a period apart, but for some.
Heartbeat ==
  \/ Receive(Last + prog.period) /\ UNCHANGED irregular
  \/ /\ irregular < MaxIrregular
     /\ \E gap \in Gaps : Receive(Last + (gap * prog.period) \div 10)
     /\ irregular' = irregular + 1

\* The deadline passes with no heartbeat and the callback reports the peer.
timer1_cb ==
  /\ running
  /\ timer.armed /\ timer.at >= now
  /\ suspicions < MaxSuspicions
  /\ now' = timer.at
  /\ timer' = IF prog.rewires THEN ArmedFor(timer.arg) ELSE [timer EXCEPT !.armed = FALSE]
  /\ false_positive_cnt' = IF prog.counts THEN false_positive_cnt + 1 ELSE 0
  /\ suspicions' = suspicions + 1
  /\ UNCHANGED <<prog, running, ringVars, marginVars, leaked, irregular, historyVars>>

AveragingNext == Heartbeat \/ timer1_cb

AveragingSpec == AveragingInit /\ [][AveragingNext]_averagingVars

-----------------------------------------------------------------------------

AveragingType ==
  /\ prog \in Programs /\ running \in BOOLEAN
  /\ arr_timestamp \in [Slots -> [heartbeat_id : Nat, hb_timestamp : Nat]]
  /\ next_avail \in Slots /\ next_evicted \in Slots
  /\ ea \in 0 .. WORD - 1 /\ u_prev \in Nat
  /\ pkt_cnt = Len(log)
  /\ delay \in Int /\ var \in Int
  /\ false_positive_cnt \in Nat /\ leaked \in 0 .. BURST_SIZE

\* next_evicted follows next_avail at a distance that is never stored anywhere:
\* from a full window on it points to the oldest of the last HEARTBEAT_N
\* receipts, in rings of HEARTBEAT_N and of HEARTBEAT_N + 2 slots, across their
\* wraps and after an abandoned burst, so the move subtracts the receipt that
\* leaves.
OldestIsEvicted ==
  pkt_cnt >= prog.n =>
    LET oldest == pkt_cnt - prog.n + 1
    IN arr_timestamp[next_evicted] =
         [heartbeat_id |-> oldest, hb_timestamp |-> log[oldest]]

\* The estimate is computed once and then moved by a division that truncates:
\* it moves with the mean over the window, never gets ahead of it and falls
\* behind by less than a tick per heartbeat.  In Chen's copies the distance
\* from the mean is the one of his definition; in Bertier's it is the error of
\* the early estimate, which is neither forgotten nor increased.
EstimateTracksWindow ==
  pkt_cnt >= prog.n /\ prog.average =>
    LET receipts == WindowSum(log, pkt_cnt)
        behind == receipts + base - prog.n * ea
        chen == prog.hz * prog.n * ((prog.n + 1) + 2 * prog.from)
    IN /\ 0 <= behind /\ behind <= prog.n * (pkt_cnt - prog.n)
       /\ ~prog.learns => 2 * base \in chen - 2 * (prog.n - 1) .. chen

\* ea is the "estimated arrival time for the next heartbeat": in the copies
\* whose interval is that of their sender and whose count starts where the
\* estimate assumes it, regular heartbeats are expected exactly when they come.
EstimateIsNext ==
  /\ irregular = 0 /\ pkt_cnt >= prog.n
  /\ prog.hz = prog.period /\ prog.from = 0 /\ prog.average /\ ~prog.learns
  => ea = Last + prog.period

\* The deviation is moved by a signed difference divided with rounding towards
\* zero: it never becomes negative, which would shrink the margin below the
\* delay, and never exceeds the largest error seen.
VarianceBounded == 0 <= var /\ var <= loudest

\* "rewire the timer to the next estimation of the arrival time": with a margin,
\* fixed or learnt, one heartbeat that comes up to three periods after the one
\* before leaves the estimate ahead of the clock.  Where it does not, the
\* unsigned difference puts the deadline centuries away.
DeadlineAhead ==
  timer.armed /\ (prog.margin > 0 \/ prog.learns) => timer.arg < WORD \div 2

\* How late the irregular heartbeats of a behaviour may be for the fixed margin
\* of p, on top of what the estimate is ahead of the mean, to cover them: each
\* is late by the same number of ticks at most, and costs the estimate another
\* tick, cut off by the division, at every move but one while it is in the
\* window.  Nothing is due later than half a word ahead.
MarginSuffices(p) ==
  LET ahead == p.hz * (p.n + 1 + 2 * p.from) + 2 * p.margin
  IN /\ p.average
     /\ ahead < 2 * (WORD \div 2)
     /\ \E late \in 0 .. WORD :
          /\ \A gap \in Gaps : (gap * p.period) \div 10 <= p.period + late
          /\ (p.n - 1) * p.period + 2 * MaxIrregular * (late + p.n - 1) <= ahead

\* What the learnt margin of p covers, settled or not: one irregular heartbeat,
\* three periods after the one before at most.  From three and a half on, the
\* estimate is in the past once the deviation has worn off: of a heartbeat late
\* by l periods the estimate takes a tenth, the delay a tenth and the margin
\* four tenths, and only one period was ahead.
LatenessLearnt(p) ==
  /\ p.n = 10 /\ p.average /\ p.hz = p.period /\ 100 <= p.period
  /\ MaxIrregular <= 1
  /\ \A gap \in Gaps : (gap * p.period) \div 10 <= 3 * p.period

\* What the margin settles for: the window and the timer of Bertier's copies, in
\* ticks fine enough for a tenth of the margin.
MarginSettles(p) ==
  p.n = 10 /\ p.average /\ p.stop = 0 /\ ~p.rewires /\ 100 <= p.period

\* Powers of two.
Doubled[d \in Nat] == IF d = 0 THEN 1 ELSE 2 * Doubled[d - 1]

\* Bertier's margin is learnt from an early estimate that is wrong by nine
\* tenths of the clock's reading, and that error wears off at a pace of its own.
\* While heartbeats are regular silence is never reported within a period; it
\* is within three from the 65th on where the machine had been up for twenty
\* periods, and from ten heartbeats later for each time that is doubled.
Settled == 65
SettlesWhenRegular ==
  irregular = 0 /\ prog.learns /\ timer.armed =>
    /\ timer.at >= Last + prog.period
    /\ \A d \in 0 .. DOUBLINGS :
         Boot <= 20 * Doubled[d] * prog.period /\ pkt_cnt >= Settled + 10 * d
           => timer.at <= Last + 3 * prog.period

=============================================================================
