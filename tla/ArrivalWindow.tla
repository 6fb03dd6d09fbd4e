--------------------------- MODULE ArrivalWindow ---------------------------
(***************************************************************************)
(* The ring of receipt times that the receive loop of the detector keeps   *)
(* (struct fd_info of tensroflow_dpdk/common.h) and the two messages cut   *)
(* out of it: the whole ring, sent to the training process, and the last   *)
(* LOOK_BACK receipts, sent to the inference process.                      *)
(*                                                                         *)
(* The module has no Spec of its own: ArrivalStream drives it with         *)
(* receipt times and MLDetector with the rest of the detector.             *)
(***************************************************************************)
EXTENDS Integers

CONSTANTS
  ARR_SIZE,     \* slots of the ring; the code also uses it (HEARTBEAT_N) as
                \* the training period and wraps the index at the same number
  LOOK_BACK     \* receipts in an inference request

ASSUME WindowSizes ==
  /\ ARR_SIZE \in Nat \ {0}
  /\ LOOK_BACK \in 1 .. ARR_SIZE

VARIABLES
  arr_timestamp,  \* the ring itself, 0 in a slot that was never written
  next_avail      \* the slot the next receipt goes to

windowVars == <<arr_timestamp, next_avail>>

Slots == 0 .. ARR_SIZE - 1

\* A receipt time is a clock reading; 0 stands for "never written".
WindowType ==
  /\ arr_timestamp \in [Slots -> Nat]
  /\ next_avail \in Slots

EmptyRing == [i \in Slots |-> 0]

WindowInit ==
  /\ arr_timestamp = EmptyRing
  /\ next_avail = 0

ClearWindow ==
  /\ arr_timestamp' = EmptyRing
  /\ next_avail' = 0

\* Mutant of Store: the index wraps one slot early, as it would if the literal
\* 200 at the increment had not followed a change of HEARTBEAT_N.
StoreShortWrap(receipt_time) ==
  /\ arr_timestamp' = [arr_timestamp EXCEPT ![next_avail] = receipt_time]
  /\ next_avail' = (next_avail + 1) % (ARR_SIZE - 1)

\* Mutant of Store: the index is wrapped one slot late.
StoreLongWrap(receipt_time) ==
  /\ arr_timestamp' = [arr_timestamp EXCEPT ![next_avail] = receipt_time]
  /\ next_avail' = (next_avail + 1) % (ARR_SIZE + 1)

\* next_avail is incremented modulo a literal 200, the value of ARR_SIZE.
Store(receipt_time) ==
  /\ arr_timestamp' = [arr_timestamp EXCEPT ![next_avail] = receipt_time]
  /\ next_avail' = (next_avail + 1) % ARR_SIZE

\* The training message is the ring as it lies in memory, slot 0 first.
TrainBatch(ring) == [i \in 1 .. ARR_SIZE |-> ring[i - 1]]

\* Mutant of InferWindow: the slot about to be overwritten is taken for the
\* newest receipt.
InferWindowOffByOne(ring, next) ==
  [j \in 1 .. LOOK_BACK |->
     ring[(next - (LOOK_BACK - j) + ARR_SIZE) % ARR_SIZE]]

\* The request copies ring slots next_avail - LOOK_BACK .. next_avail - 1,
\* modulo the ring: position j of the message is loop index LOOK_BACK - j + 1.
InferWindow(ring, next) ==
  [j \in 1 .. LOOK_BACK |->
     ring[(next - (LOOK_BACK - j + 1) + ARR_SIZE) % ARR_SIZE]]

=============================================================================
