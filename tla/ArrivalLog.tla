----------------------------- MODULE ArrivalLog -----------------------------
(***************************************************************************)
(* What the ring of ArrivalWindow promises, without a ring: the receiver   *)
(* remembers every receipt time for ever.  The inference process is sent   *)
(* the most recent LOOK_BACK of them and, at every HEARTBEAT_N-th          *)
(* heartbeat, the training process is sent the most recent HEARTBEAT_N,    *)
(* both oldest first.                                                      *)
(***************************************************************************)
EXTENDS Integers, Sequences

CONSTANTS HEARTBEAT_N, LOOK_BACK, ReceiptTimes

VARIABLES
  log,        \* every receipt time, oldest first
  train_msg,  \* the last message to the training process
  infer_msg   \* the last message to the inference process

logVars == <<log, train_msg, infer_msg>>

\* The most recent n entries of s, oldest first; 0 for a receipt that has not
\* happened.
Recent(s, n) ==
  [j \in 1 .. n |->
     IF Len(s) - n + j \in 1 .. Len(s) THEN s[Len(s) - n + j] ELSE 0]

LogInit ==
  /\ log = << >>
  /\ train_msg = << >>
  /\ infer_msg = << >>

Receive ==
  /\ \E t \in ReceiptTimes : log' = Append(log, t)
  /\ infer_msg' = Recent(log', LOOK_BACK)
  /\ train_msg' = IF Len(log') % HEARTBEAT_N = 0
                  THEN Recent(log', HEARTBEAT_N)
                  ELSE train_msg

LogSpec == LogInit /\ [][Receive]_logVars

=============================================================================
