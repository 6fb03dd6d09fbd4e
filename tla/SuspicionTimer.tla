--------------------------- MODULE SuspicionTimer ---------------------------
(***************************************************************************)
(* The suspicion timer of the machine-learning detector and its callback   *)
(* timer1_cb (tensroflow_dpdk/recv_heartbeat.c), with the window of the    *)
(* last ERROR_CONSIDERED suspected intervals and its running sum.          *)
(*                                                                         *)
(* Time is relative: the code only ever hands differences of clock         *)
(* readings to rte_timer_reset, so the timer holds the ticks left until it *)
(* expires and Tick counts them down.  An expired timer stays armed with   *)
(* nothing left until the receive loop calls rte_timer_manage.             *)
(***************************************************************************)
EXTENDS Integers, Functions

CONSTANTS
  ERROR_CONSIDERED,  \* length of the window of suspected intervals
  WORD               \* 2^64, the modulus of the uint64_t arithmetic

ASSUME TimerConstants ==
  /\ ERROR_CONSIDERED \in Nat \ {0}
  /\ WORD \in Nat \ {0}

VARIABLES
  timer,      \* the rte_timer: armed or not, ticks left, callback argument
  errors,     \* the last ERROR_CONSIDERED suspected intervals
  error_idx,  \* the entry the next suspicion overwrites
  error_sum,  \* running sum of errors
  suspected   \* the callback has reported the peer and no deadline was set since

timerVars == <<timer, errors, error_idx, error_sum, suspected>>

Ticks == 0 .. WORD - 1

ErrorSlots == 0 .. ERROR_CONSIDERED - 1

Stopped == [armed |-> FALSE, left |-> 0, arg |-> 0]

TimerType ==
  /\ timer \in [armed : BOOLEAN, left : Ticks, arg : Ticks]
  /\ errors \in [ErrorSlots -> Ticks]
  /\ error_idx \in ErrorSlots
  /\ error_sum \in Ticks
  /\ suspected \in BOOLEAN

NoErrors == [i \in ErrorSlots |-> 0]

TimerInit ==
  /\ timer = Stopped
  /\ errors = NoErrors
  /\ error_idx = 0
  /\ error_sum = 0
  /\ suspected = FALSE

\* The state of a freshly started process.
ClearTimer ==
  /\ timer' = Stopped
  /\ errors' = NoErrors
  /\ error_idx' = 0
  /\ error_sum' = 0
  /\ suspected' = FALSE

\* rte_timer_reset(tim, ticks, SINGLE, lcore_id, timer1_cb, arg): (re)arms the
\* timer whether or not it was pending.
Reset(ticks, arg) ==
  /\ timer' = [armed |-> TRUE, left |-> ticks, arg |-> arg]
  /\ suspected' = FALSE
  /\ UNCHANGED <<errors, error_idx, error_sum>>

\* The two calls of the receive loop: the first prediction ever used adds the
\* mean suspected interval, every later one does not.
ArmWithMargin(delay) ==
  Reset((delay + error_sum \div ERROR_CONSIDERED) % WORD, delay)

Arm(delay) == Reset(delay, delay)

\* Mutant of timer1_cb: the entry is overwritten before it is subtracted.
timer1_cb_NoSubtract ==
  /\ error_sum' = (error_sum + timer.arg) % WORD
  /\ errors' = [errors EXCEPT ![error_idx] = timer.arg]
  /\ error_idx' = (error_idx + 1) % ERROR_CONSIDERED
  /\ timer' = Stopped
  /\ suspected' = TRUE

\* The callback.  The call that would re-arm the timer is commented out, and a
\* SINGLE timer stops when it expires.
timer1_cb ==
  /\ error_sum' = (error_sum - errors[error_idx] + timer.arg) % WORD
  /\ errors' = [errors EXCEPT ![error_idx] = timer.arg]
  /\ error_idx' = (error_idx + 1) % ERROR_CONSIDERED
  /\ timer' = Stopped
  /\ suspected' = TRUE

Due == timer.armed /\ timer.left = 0

\* rte_timer_manage(), called once per poll of the NIC.
TimerManage == IF Due THEN timer1_cb ELSE UNCHANGED timerVars

CountingDown == timer.armed /\ timer.left > 0

\* One tick of the clock on the timer.
TimerAfterTick ==
  IF CountingDown THEN [timer EXCEPT !.left = @ - 1] ELSE timer

-----------------------------------------------------------------------------
(***************************************************************************)
(* The timer on its own: armed with any delay by either call, at any time. *)
(***************************************************************************)

TimerNext ==
  \/ \E delay \in Ticks : ArmWithMargin(delay) \/ Arm(delay)
  \/ Due /\ timer1_cb
  \/ /\ CountingDown
     /\ timer' = TimerAfterTick
     /\ UNCHANGED <<errors, error_idx, error_sum, suspected>>

TimerSpec == TimerInit /\ [][TimerNext]_timerVars

-----------------------------------------------------------------------------

\* The running sum is updated by one subtraction and one addition per
\* suspicion and never recomputed.  It stays the sum of the window, also when
\* the 64-bit sum of intervals has wrapped and when the window is overwritten
\* for the second time.
ErrorSumIsSumOfWindow ==
  error_sum = SumFunction(errors) % WORD

=============================================================================
