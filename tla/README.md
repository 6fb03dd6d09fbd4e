# Verification of the failure detector

TLA+ models of the failure detector in this repository, checked with TLC and
partly proved with TLAPS. The program: one machine sends heartbeats over UDP
with DPDK; another receives them on a polling core, asks a learnt model when the
next one should arrive, and suspects its peer when that time passes. The model
is trained and served by two Python processes on the same machine, reached
through POSIX message queues.

## 1. Inventory

The repository keeps every stage of the work. The main program is
`tensroflow_dpdk/`; most of the rest are earlier detectors, evaluation copies
and experiments. Each part, its state and what makes it correct:

| part | source | state | operations | correct when |
|---|---|---|---|---|
| ring of receipt times | `tensroflow_dpdk/recv_heartbeat.c` 44-98, 243-262; `common.h` 48-99 | `arr_timestamp[200]`, `next_avail`, `pkt_cnt` | store a receipt, cut out a training message or a request | messages hold the latest receipts, in order |
| suspicion timer | `recv_heartbeat.c` 6-8, 101-116, 216, 288, 311 | one `rte_timer`, `errors[20]`, `error_idx`, `error_sum` | arm, expire, record | the sum is the sum of the window; one deadline gives one suspicion |
| receive loop | `recv_heartbeat.c` 118-321 | the burst, `ready_to_infer`, four queue descriptors | poll, drop, count, train, ask, wait, arm, exit | it never waits for ever and never uses an answer to another question |
| training process | `new_train.py` 147-247 | data collected, `first_train`, the model | create queues, collect, fit, publish weights | every set of weights is published once, in order |
| inference process | `new_train.py` 47-133 | the model, the request in hand | create queues, first weights, announce, refresh, serve, predict | it announces itself before it is needed, answers each request once |
| heartbeat sender | `send_heartbeat.c`, `send_pkt.c` of every program | one mbuf or one per heartbeat, `hb_id`, the pool it shares with the receive core | allocate, write, send, free | an mbuf has one owner; what goes out is a heartbeat, in order |
| program start | `main.c`, `port_init.c` | ports, mempool, `recv_arg` | launch two cores | arguments outlive the launch |
| retraining policy | `perf_eval/mlfd_perf_eval/recv_heartbeat.c` 121-165, 280-415 | false positives, differences, their sums | record, decide about a training message, expire, report | a model that got worse is retrained |
| signal-driven backend | `async_signal_train.py`, `async_signal_inference.py` | notification, handler depth, weights | handle a signal, consume weights | no message stays behind unnoticed |
| streaming backend | `perf_eval/mlfd_perf_eval/recv_heartbeat_messed_up.c`, `optimized.py`, and the same files in `mlfd_profile` | one receipt per message; data for the next fit, receipts kept for a prediction | send, collect, fit, announce, answer | the loop waits only for a reply that comes; a fitted model is announced |
| Chen detectors | `chen_fd`, `107chen_fd`, `110chen_fd`, `chen_fd_nyu_server`, `updated_chen_fd_nyu_server`, `perf_eval/chen_eval` | ring, `ea`, timer | first estimate, moved estimate | the moved estimate stays near the estimate of the window |
| Bertier detectors | `perf_eval/bertier`, `perf_eval/bertier_profile` | as Chen, `delay`, `var`, margin | dynamic margin | the margin follows the error |
| evaluation senders | `perf_eval/dpdk_send`, `perf_eval/dpdk_send_trace` | `hb_id` | send, lose, crash | ids tell lost heartbeats |
| RDMA echo | `rdma_send_recv` | queue pairs, buffers | handshake, post, poll | both are up before either starts, no buffer is reposted in use, both end |
| embedded LSTM detector | `fd_lstm` | as Chen, and a model in the process | as Chen, train once | as Chen |
| demonstrations | `send_recv*`, `ipc_demo_v1`, `misc`, `devinfo`, `bare_lstm`, `torch_c_example` | | | not part of the detector |

How the parts of the main program interact:

    NIC --burst--> receive loop --/train_data--> training process
                      |   ^                           | multiprocessing queue
                      |   +------/ctrl_msg-----+      v
                      +----/infer_data----> inference process
                      +<---/result_mq-----------+

`/ctrl_msg` is read without blocking; all the other sends and receives block.
The queues are created by the Python programs, opened (not created) by the
receiver, and never unlinked, so they and their messages survive both.

What is hard here: three processes blocking on each other through bounded
queues; a single-threaded loop that also has to serve its timer; a start-up and
restart order nobody enforces; replies that are matched by a number which starts
again at 1 with the receiver; ring arithmetic with a literal that has to agree
with two macros; running sums in unsigned words. In the experiments around it:
notifications that fire once and only on an empty queue, signal handlers that
interrupt one another; an estimate that is computed once and then only moved, in
integer arithmetic; mbufs that driver, sender and receive core pass round; two
queue pairs that each side brings up on its own, and whose acknowledgements come
when they come. `PROJECT.json` lists these
hazards line by line, with the properties that cover them.

## 2. Modules

| module | models | runs and proofs |
|---|---|---|
| `ArrivalWindow` | the ring and the two messages cut out of it; no behaviour of its own | used by the next two |
| `ArrivalLog` | abstract: a receiver that remembers every receipt | |
| `ArrivalStream` | the per-heartbeat path over the ring, arbitrary increasing clock readings | `parts`; `ArrivalStreamProofs` |
| `SuspicionTimer` | the timer, its callback, the window of suspected intervals, word arithmetic | `parts`; `MLDetectorProofs` |
| `SuspicionService` | abstract: heartbeats, one question each, one suspicion per deadline | |
| `MLDetector` | receive loop, both Python processes, all queues, the clock, restarts | `detector*` and three findings; `MLDetectorProofs` |
| `RetrainPolicy` | when the evaluated detector asks for training | `parts`; `RetrainPolicyProofs` |
| `SignalBackend` | its receive loop, the two signal-driven Python programs, queues, notifications, signals | `parts`, `signal_lost`; `SignalBackendProofs` |
| `StreamingBackend` | the other protocol tried out for that detector: receive loop, training and inference process | `parts`, `stream_stuck`, `stream_stops`; `SignalBackendProofs` |
| `AveragingDetector` | the receive loops after Chen and Bertier, and the one of `fd_lstm` | `averaging`, `averaging_blind`; `AveragingDetectorProofs` |
| `HeartbeatSender` | every sender, the pool, the rings of the NIC, the receive core as the pool's other user | `parts`; `HeartbeatSenderProofs` |
| `RdmaEcho` | handshake, posting, workloads and completions of the RDMA echo | `parts`; `RdmaEchoProofs` |
| `WindowSums` | nothing of the code: lemmas about sums over windows and about remainders | used by the proofs of every running sum |

`MLDetector` EXTENDS `ArrivalWindow` and `SuspicionTimer` and is the composition
of all parts of the main program. The modules that start with `MC` instantiate
the others for TLC. `MCParts` checks seven parts that do not interact in one run
(the ring, the timer, and five of the experiments): `part` is chosen in the initial
state, only the part it names takes steps, the others keep their initial state, and
fairness is asked for of the part that runs.

### MLDetector against the code

The receive loop is a program counter `pc`. A step goes from one call that may
block, or whose effect another process can see, to the next:

| `pc` | action | code |
|---|---|---|
| `open` | `OpenQueue` | the four `mq_open`, in order; a failed one is only missing from `opened` |
| `poll` | `Poll` | `rte_eth_rx_burst` |
| `manage` | `ManageTimer` | `rte_timer_manage`, before the burst is looked at |
| `packet` | `DropPacket`, `StoreHeartbeat` | the header filter; count, store, decide about training |
| `train` | `SendTrain` | `send_to_ml_model`, blocking, `exit(1)` on a bad descriptor |
| `control` | `ReadControl`, `SkipControl` | the non-blocking receive, or the branch of a ready model |
| `infer` | `SendInfer` | `send_to_infer`, blocking, `exit(1)` on a bad descriptor or a long message |
| `await` | `SkipReply`, `UsePrediction`, `ExitOnResult` | `recv_prediction` and the loop around it, then the timer |
| `exited` | | after `exit(1)` |

The training process is `TrainerCreates`, `Collect`, `Fit`; the inference
process `InferenceCreates`, `FirstParams`, `Announce`, `Refresh`, `Serve`,
`Predict`. `Refresh` may find nothing although weights were put: the feeder
thread of `multiprocessing.Queue` may not have written them.

Data is abstracted to what the properties tell apart. A receipt time is the
ordinal of the heartbeat. Weights are their version. A prediction is the number
of ticks it lies ahead, or `Late`, `Zero` (what `recv_prediction` also returns for
a mismatch) or `Negative` (`struct.pack` raises and the process ends). Time is
relative: `Tick` counts the armed timer and the unread predictions down together,
so the comparison with the clock at the receive loop sees the time that has
passed while the reply lay in the queue. A heartbeat's id is never read by the
receiver, so loss, duplication and reordering on the network are fewer, more, or
the same arrivals.

`SuspicionTimer` has the modulus `WORD` (2^64 in the code) as a constant, so that
TLC takes the unsigned sums through their wrap.

### AveragingDetector against the code

Nine directories hold copies of one receive loop that differ in a few literals
and lines. Each copy is a record of those differences, named like its directory
and mapped to that directory's loop; `prog` is the copy that runs, and the
operators read the fields of `prog` where the copies differ. `Receive` is one
turn of the loop over a burst, everything it assigns included: `Store`,
`Jacobson` (the two copies after Bertier), then one of `EarlyEstimate`,
`FirstEstimate` and `MovedEstimate`, which set estimate and timer, and `Free`: the
break at `STOP_TIME` and the return of `bertier_profile` leave the rest of the burst
behind, which `leaked` counts. A tick is 10 ms, and 1 ms in the two copies after
Bertier, so the constants of the code are kept in proportion. The words are of
26 bits, which leaves room for the uptime of the machine: the cycle counter is read
`Boot` ticks after it started.

The records keep what each directory really does: `chen_fd` takes a second for an
interval in which its sender sends ten heartbeats; `updated_chen_fd_nyu_server`
and `chen_eval` shift the count by one (`from`), and so expect every heartbeat a
period late; Bertier's early mean multiplies by the integer quotient
`(k - 1) / k`, which is 0; `fd_lstm` divides the evicted receipt alone, for want of
parentheses, so nothing is claimed of its estimate.

### RetrainPolicy, SignalBackend

The evaluated detector is split in two. `RetrainPolicy` has the decision: one step
per heartbeat (`Receive`) and one per expiry (`PolicyExpire`), times relative to the
last receipt. `SignalBackend` has the protocol: its receive loop does what the
one of `MLDetector` does from one blocking call to the next, and leaves open
whether a heartbeat comes with a training message, which is what `RetrainPolicy`
decides. A reply holds the number of its request and whether it is 0:
`recv_prediction` returns the prediction itself, and 0 for a number that does not
match, so that a matching prediction of 0 sends the loop back to receive
(`AwaitReply` leads to `again`), where no further reply will come. `frames` is the call stack of the signal handlers of the inference
program: CPython runs a handler between any two bytecodes of the main thread,
also of a handler. A notification is a flag of the queue that a message to the
empty queue clears and turns into a pending signal. The program asks for a second
notification while it still holds the first one; it is modelled as the same
request, since a program the call failed in would never have served anything.

What RetrainPolicy shows of the code besides its properties: the sum of
differences is reset at the end of a period while the window it is maintained
from is not; a late prediction counts as a false positive in the report but not
in the counter that decides; `cur_difference_sum > 4000000000` compares an `int`
and is never true; the counter starts at 200, so the first period always trains.

### StreamingBackend

`recv_heartbeat_messed_up.c` sends every receipt to the training and to the
inference process, which keep the past themselves in `optimized.py`. No Makefile
builds the receiver, but the two fit each other and nothing else. A step goes
from one blocking call to the next, as in `MLDetector`; the three processes are
`StreamLoop`, `Learner`, `Predictor`. What predicting may come to is a constant,
`AnswerKinds`: a time, a 0 (which the loop takes for somebody else's reply), or an
exception.

The sizes of the code, 50 receipts for a prediction, 200 for a fit, and queues of
300, 50 and 100, are divided by 50 for TLC. Two things come out. The inference
process answers before there is a model and nobody reads: `stream_stuck` fills the
queue of replies and blocks the process that has to announce the model, which is
what the note at line 203 of the receiver complains of. And where the announcement
gets through, the second fit calls `reshape` on a list, so the training process
ends there, and the receive loop stops with the queue of receipts full: of a second
round that is collected, `stream_stops` shows that it is never fitted.

### HeartbeatSender, RdmaEcho

`HeartbeatSender` has one record per sender, as `AveragingDetector` has. The mbufs
of the pool move between the sequences `pool`, `rx_ring`, `filled`, `polled`,
`held`, `tx_ring` and `sent`; the driver's part (`Burst` frees what was sent,
`PollPacket` refills the ring) and the NIC's (`Transmit`, `FillMbuf`) are modelled
from how the code uses them. The copies that write one mbuf again and again have
given it away at the first send: it can be in two places at once, and then the
properties say what is left. The demonstrations send bursts of up to 64 mbufs,
modelled as one.

`RdmaEcho` has a program counter per peer (`peer`), the stream of bytes each wrote
to the socket, and per adapter the posted receives, the sends on their way (`wire`)
and not acknowledged (`unacked`), and the completions. A call on the socket may find
the other end closed. A poll takes all completions there are (`PollCq` moves `cq` to
`wc`), which frees their places, and they are handled one at a time; a loop that is
left leaves the rest. `modify_qp_to_rts` may fail: with the attributes the code gives
(those for RTR are commented out) a driver refuses it, and the model leaves the
outcome open.

What the adapters do is external, and no more is assumed of it than a reliable
connection promises: messages are received in the order they were posted, each
once. When the sender learns of it is open (`Acknowledge`): after messages that
answer it, or never, when the other program has ended and destroyed its queue pair
first (`GiveUp`, a completion with an error). `Post` refuses what does not fit, and
the loops, which do not look, go on.

## 3. Runs

| run | question | answer and bounds |
|---|---|---|
| `detector` | do the safety invariants hold for every kind of prediction and every start order? | ring of 2, bursts of 2, all queues of 1, 7 packets, foreign packets mixed in, no restart |
| `detector_restart` | what survives restarts, and is it a `SuspicionService`? | one restart of each program at any point, request and reply queues of 2, 6 packets |
| `detector_live` | does anybody wait for ever? does the ready flag say the truth? | no restarts, backend started first, usable predictions, 7 packets; deadlock is checked |
| `averaging` | which receipt leaves the window, what does the moved estimate mean, when is silence noticed? | all nine copies, window, margin and interval of the code; 150 heartbeats, one irregular interval of 0, 0.9, 1.3 or 3 periods at any place; the machine up for 512 s, which is 20 * 2^8 periods of Bertier's senders; `STOP_TIME` 70 and a return at 148 instead of 1500 and 100000 |
| `parts` | do ring and copy loops send what a receiver with perfect memory would? does the running sum stay the sum of the window? | ring of 3, requests of 2, 7 heartbeats at increasing times from 1..9: the ring wraps twice, two training messages. Window of 2, word of 8, every delay with both ways of arming: window and word wrap |
| | when is training asked for? can a signal be missed or an inference be interrupted? what does the streaming loop wait for? who owns an mbuf? do the RDMA peers agree, keep their buffers and end? | period of 2, `int` of 8 values, 6 heartbeats; queues of 2, 4 heartbeats; the sizes of the code divided by 50, 16 heartbeats; 4 mbufs, rings of 1, 4 numbers, all 17 senders; 1 concurrent message, 2 work requests (both the values of the code), 4 operations |
| `stale_ready` | finding: `ready_to_infer` says whether the model is ready | a restarted backend makes it false for ever |
| `lost_announcement` | finding: "tell the DPDK process that I am ready" | a restarted receiver is never told |
| `readme_backend` | finding: the start-up command of the repository's README | the receiver exits at its first request |
| `averaging_blind` | finding: "rewire the timer to the next estimation of the arrival time" | one outage of twelve periods and the unsigned difference sets the timer centuries ahead |
| `signal_lost` | finding: the process "that train[s] the machine learning model" | a training message that arrives during a fit is never trained on, nor is any after it |
| `stream_stuck` | finding: "the dpdk program cannot get the signal that it can now send inference data" | unread replies block the process that should announce the model; every prediction is a time, sizes divided by 50 |
| `stream_stops` | finding: "one process to keep training" | the second round is collected and never fitted; the same sizes |

Why the bounds are enough. A ring of 2 or 3 with 6 or 7 heartbeats wraps two or
three times; a period of 2 gives three training messages, hence refits while
requests are being served. Queues of one message are full after one send, so
every blocking send does block in some behaviour. Bursts of two put a second
packet behind a blocked first. Words of 4 and 8 make every sum overflow. In
`averaging` every ring wraps at least twice, the longest window is filled once and
replaced twice, the irregular interval falls before, in and after the first window,
and the error that the uptime puts into Bertier's early estimate wears off before
the run ends (`LearnersSettle`). In `parts` a trainer has two messages waiting while it fits,
handlers nest three deep, the streaming loop is told of a model in some behaviours
and stopped by the second fit in others, both rings of the NIC are full while the
sender sends, and of the two places of a send queue both are taken by sends that
came long ago, so that an echo is refused, in some behaviours the second one already.
Most of the properties proved (section 5) hold without these bounds. The hypotheses
of the two theorems about margins are evaluated in `averaging` and
`averaging_blind` (`MarginsCover`, `LearnersSettle` in `MCAveragingDetector`): all
copies with the values of their directory meet them in the first, none in the
second.

`CHECK_DEADLOCK FALSE` is set where the system really may stop: the receiver may
exit, the inference process may die of a negative prediction, an evaluation
sender ends, an RDMA peer fails or is done, and arrivals are bounded.
`detector_live` keeps the deadlock check: with arrivals exhausted the receiver
still polls.

What the properties say, in short:

* `InFlightBounded`, `InFlightIsCurrent`: at most one question is open per life
  of the receiver, and without restarts everything in the request and reply
  queues is about the heartbeat in hand. With restarts the second is not claimed:
  numbers start again at 1 and an old reply may match.
* `ReadyMeansModelReady`, `AnnouncementReachesReceiver`: the control message
  connects the two programs; each half breaks when the other program restarts,
  which is what two findings show. The first says that somebody is there to answer
  (`Serving`), which takes more: a negative prediction ends the inference process in
  `struct.pack` and leaves the flag as it is. It is checked in `detector_live`, where
  predictions can be packed.
* `FullWindowRequested`, `BatchesConsecutive`: no request holds a slot that was
  never written, and each training message starts where one ended.
* `WeightsInOrder`: between the fit and the prediction nothing is lost.
* `MarginIsVoid`: the learnt safety margin is added in a branch that runs once,
  before any suspicion, so it is always 0 there.
* `ImplementsService`: in `SuspicionService` the deadline moves only with the
  answer to the heartbeat in hand, suspicion comes only between heartbeats, and
  one deadline gives one suspicion.
* `OldestIsEvicted`: two indices into the ring that are never compared keep the
  distance at which the move of the estimate subtracts the receipt that leaves.
* `EstimateTracksWindow`: the estimate, computed once and then moved by truncated
  quotients, stays behind the estimate of the window by less than a tick per
  heartbeat; `EstimateIsNext`: where interval and count are those of the sender it
  is exactly the next arrival of regular heartbeats.
* `SettlesWhenRegular`: Bertier's early estimate is wrong by nine tenths of the
  clock's reading (the integer division in `bertier` line 210), the learnt margin
  with it, and both wear off by a tenth per heartbeat. So when a silent peer is
  noticed depends on how long the machine has been up. While heartbeats are regular a
  deadline is always at least a period ahead; it is at most three ahead from the 65th
  heartbeat on if the uptime was twenty periods, and from ten heartbeats later for
  each time that is doubled. In the run the uptime is 2^8 times that, so 145
  heartbeats it is; with heartbeats every 100 ms, a week takes 255.
* `VarianceBounded`, `DeadlineAhead`: Bertier's margin stays
  a margin, and with one heartbeat that comes up to three periods after
  the one before no copy with a margin sets a deadline in the past. With a longer
  outage `updated_chen_fd_nyu_server` does (`averaging_blind`). So do Bertier's
  copies from three and a half periods on, once the deviation has worn off: of a
  heartbeat late by *l* periods the estimate takes a tenth, the learnt delay
  another and the margin four, and only one period was ahead. The ticks of the run
  are too coarse to show that (a deviation of a few ticks is never rounded to 0);
  with ticks ten times finer a heartbeat four periods after the one before does it
  at the 86th, and one three and a half periods after it does not.
* `DifferenceSumIsChange`: what the policy compares is how far the window moved
  since the period began, neither the sum of the window nor that of the period.
  `OneSuspicionPerHeartbeat`, `RetrainsWhenWorse`: what the counters may reach and
  when a period ends with a training message whatever the differences do.
* `RequestNoticed`, `OneInference`, `EmptyQueueWatched`: no waiting request
  depends on the poll once a second; a handler that interrupts an inference
  finds nothing to serve; a sleeping trainer over an empty queue is woken.
  `EveryBatchTrained` fails: the queue need not be empty when the notification is
  requested again.
* `RequestAnswered`: the loop that waits gets its reply, unless an inference raised. A
  prediction of 0 is a reply and not an end of the waiting: the loop is sent back to
  receive again, and stays there.
* `AwaitedIsComing`: a streaming loop that waits does so for a reply that is under
  way, behind whatever backlog, as long as predictions are times.
* `MbufHasOneOwner`: in the copies that allocate, every mbuf is in one place, so the
  unchecked allocation never fails. `SendsHeartbeats`: what the other copies keep.
* `PeersAgree`, `BuffersKept`: no RDMA peer works before both queue pairs are up; a
  receive always fits its queue, and no buffer is received into that has still to
  go out, however late acknowledgements are.
* `RefusedEchoIsOver`, `EchoEnds`: a send does not always fit. The queue has two
  places, and the answer to a message may come before its acknowledgement, so that
  an echo can be refused (`server.c` 92, `client.c` 127) and nobody looks. The first
  says what follows: no message is left in either direction, so nothing is echoed
  after a gap, and both programs poll on for ever (or the server fails, if it was the
  order to stop that did not fit). The second, that without a refusal
  both loops end, with the same count; the server with an error if the client was
  gone before the acknowledgement of its order to stop came (`server.c` 113-121).
* `BurstDrained`, `SilenceSuspected`, `ModelAnnounced`, `RequestAnswered`,
  `EchoEnds`: see the fairness below.

## 4. Fairness

`FairSpec` assumes weak fairness of the receive loop as a whole, of the training
process, of the inference process and of the clock. The receive loop busy-polls
on a core of its own. The Python processes are scheduled by the kernel, and a
process blocked on a queue is woken when the queue has what it waits for. Each is
sequential, so fairness of the disjunction of its steps is fairness of the
process: where two steps are enabled together (`Refresh` with and without
weights) no choice is forced. Nothing is assumed of the network, of restarts or
of what the model predicts; that predictions are never 0 or negative is a
constant of the run (`UsablePredictions`), not a fairness assumption, because the
code does hang otherwise.

`SilenceSuspected` starts from an armed timer. A receiver whose first predictions
are all late arms nothing, and a peer that crashes then is never suspected: the
code's completeness depends on one usable prediction.

`SignalFairness` assumes the same of the programs of `SignalBackend`: the receive
loop, the trainer, and in the inference program the delivery of a pending signal,
the poll of the main thread, the handler on top of the stack and the loader
thread, which the kernel and the interpreter schedule each on its own. Heartbeats
and the exception of an inference are not assumed to happen. `EchoFairness`
assumes that each RDMA program goes on and that the adapters do something as long
as they can, which is what a reliable connection with unlimited retries for a missing
receive does: it is fairness of their steps together, so that neither an early nor a
late acknowledgement is forced. `StreamingSpec` assumes that heartbeats keep coming and that each of the
three processes goes on as long as it can.

## 5. Proofs

`MLDetectorProofs` proves for every value of the constants under the named
assumptions `WindowSizes`, `TimerConstants` and `DetectorConstants`:

| theorem | property | argument |
|---|---|---|
| `TypeCorrect` | `TypeOK` | inductive; per action, with the conjunct `pc \in HandlingSteps => burst # << >>` that lets `FinishPacket` take the tail |
| `AtMostOneInFlightPerLife` | `InFlightBounded` | `FlightInv`: in-flight messages plus one for a receiver that may still send are bounded by its lives. The plain bound is not inductive: a receiver that is waiting must be known to account for one |
| `WeightsArriveInOrder` | `WeightsInOrder` | inductive with `TypeOK`; needs only what `Head` and `Tail` do to a consecutive sequence |
| `ReadyIsTruthful` | `ReadyMeansModelReady` if the backend is never restarted and no prediction is negative | `ReadyInv`: a waiting control message, too, implies that the inference process is past its announcement; with predictions that can be packed nothing ends it there |
| `AnnouncementIsKept` | `AnnouncementReachesReceiver` if the receiver is never restarted | inductive: only `ReadControl` removes the message, and it sets the flag |
| `MarginNeverApplied` | `MarginIsVoid` | `NoDeadlineYet`: until the flag is set, or in the heartbeat that sets it, the timer is stopped and the window is empty |
| `DetectorImplementsService` | `ImplementsService` | every step maps to a step of `SuspicionService` or to a stutter, by cases on the actions |
| `BatchesAreRounds` | `BatchesConsecutive` | `BatchInv`: the ring holds the latest heartbeats of this life at their count, taken round the ring, and a message is sent where the count has come round (`RoundStarts`); messages of earlier lives stay as they are |
| `RepliesAreCurrent` | `InFlightIsCurrent` if the receiver is never restarted | with `FlightInv`: the count moves, and a request is made, only when nothing is in flight (`NothingOpen`); `OnlyAnswersArise`: every other step carries numbers on |
| `RequestsAreFull` | `FullWindowRequested` if the receiver is never restarted | `RoundBeforeModel`: batch, fit, weights, announcement and flag each come after the one before, and the first after a whole round of heartbeats; `SlotBack` is the index arithmetic of the copy loop |
| `TimerSumIsExact`, `DetectorSumIsExact` | `ErrorSumIsSumOfWindow` | inductive with the type, of the timer on its own and in the whole detector. The callback subtracts the entry it overwrites; that reducing the running sum modulo `WORD` at every step is the same as reducing the whole sum once is `RestAbsorbed` |
| `ReceiverNeverEnds` | `ReceiverKeepsRunning`, which `readme_backend` refutes where a request does not fit | if the backend is started first (`DocumentedStart`) and a request fits its queue, through any restarts: the queues are opened in order and all exist (`OpenedInOrder`), so no `mq_open` and no `mq_send` fails |
| `ReceiverWaitsForAReason` | none of a run: the safety content of `BurstDrained` | with one life of both programs and usable predictions, below |

`BurstDrained` says that every burst is handled to its last packet, and needs
fairness. What fairness does not give is proved by `ReceiverWaitsForAReason`. Its
first half (`NobodyWaitsInVain`) goes through the blocking calls: where the receive
loop waits for room for a training message, the trainer is up and will make some
(`TrainerIsUp`); where it sends a request there is room; where it waits for a
reply, the matching one and usable is in the queue, or the inference process holds
the request and is not blocked itself (`AnswerOnItsWay`, with `ReadyInv` and
`RepliesAreCurrent`: exactly one message is in flight while the loop waits). Its
second half (`RoundTripShortens`) says that until the answer is taken every step of
the inference process brings it nearer, so there are three of them at most, and
taking it removes the packet from the burst.

`ArrivalStreamProofs` proves for every ring size, request length and number of
heartbeats, under `WindowSizes`, `ReceiptTimesArePositive` and `MaxHeartbeatsIsNat`:

| theorem | property | argument |
|---|---|---|
| `StreamTypeCorrect` | `StreamType` | part of `StreamInv` |
| `RingIsRecent` | `RingHoldsRecent` | part of `StreamInv`. Its heart is `SlotOfNext`: moving the index by one turns the newest place into the slot just written and shifts all the others |
| `StreamImplementsLog` | `ImplementsLog` | `RequestIsRecent` and `BatchIsRecent` turn the two copy loops into the recent part of the log |
| `TrainingInOrder` | `TrainingChronological` | the log is increasing and a training message is a whole piece of it |

`AveragingDetectorProofs` proves for every set of copies whose parameters are
typed as `ProgramsTyped` says (a ring no shorter than the window, and the evicted
receipt read early where they are equal), any gaps, suspicions and heartbeats:

| theorem | property | argument |
|---|---|---|
| `OldestAlwaysEvicted` | `OldestIsEvicted` | `RingInv`: both indices are the number of receipts stored and evicted, modulo the ring, and the last ring of receipts lie at their number modulo the ring. `RoundTheRing` and `OtherSlot`: no receipt of the window is overwritten by the one just stored, unless it was read before |
| `VarianceStaysBounded` | `VarianceBounded` | `MarginInv`; `TenthOfTheWay`: a tenth, rounded towards zero, of the way from one value to another stays between them |
| `AveragingTypeCorrect` | `AveragingType` | with `LeakedOnce` (a copy abandons a burst at `STOP_TIME` or at `RETURN_AT`, not at both, and the count equals either once) and `ClockInv`: the latest receipt is at most one longest interval per heartbeat after `Boot`, which keeps the early mean of Bertier's copies inside a word |
| `RegularIsExpected` | `EstimateIsNext` | `RegularInv`: the log is an arithmetic progression. The first sum shifts every receipt to the same value (`ShiftedSum`), and each move is then by exactly one period, since the receipt that leaves is a whole window older (`RingInv`) |
| `DeadlineStaysAhead` | `DeadlineAhead` if `MarginsSuffice` | below |
| `LearntMarginSettles` | `SettlesWhenRegular` if `SettlingLearners` | below |
| `EstimateAlwaysTracks` | `EstimateTracksWindow` | `TrackInv`: the window's sum moves by the difference of the receipts that enter and leave (`WindowSlides`), the estimate by its quotient, so the distance grows by a remainder smaller than the window. The plain property is inductive only with `BaseFits`, the bound of the initial distance that keeps the sums inside a word |

`ClockAssumption` is what the last three need and the unsigned arithmetic of the
code takes for granted: the cycle counter starts with the machine and has run for
a window when the program hears its first heartbeat (otherwise the first estimate
subtracts more than a receipt time from it), and a window of its readings, added
up, does not exceed 2^64. TLC evaluates the assumption with the values of each
run.

`DeadlineAhead` is false for long outages, so its theorem has a hypothesis for each
kind of margin. A fixed margin has to satisfy `MarginSuffices`: an inequality between
window, period, margin, how late a heartbeat may come and how many may be late. The
argument (`TrackInv`, `PaceInv`, `LossInv`) bounds how far the mean of the window lags
behind the last receipt: receipts are at most a period apart but for the lateness
lost, so that their sum is above that of a line through the last
(`SumAboveLine`), and the estimate is behind the mean by less than a tick per
heartbeat. The timer's argument is carried along (`ArgInv`), because the callback arms
it again with the one it was armed with.

A learnt margin has to satisfy `LatenessLearnt`: a window of 10, a period of 100 ticks
or more, one irregular heartbeat up to three periods after the one before; the
reading of the clock at the start is not bounded except by `ClockAssumption`. The
plain property is not inductive because margin, delay and estimate have to be known
together. `AheadInv` follows what is left of the error of the estimate and the
deviation: through the first ten heartbeats one by one, with the irregular one anywhere
among them (`LateBounds`), and after that by `MarginCoversLeft`, which says that what is
left never exceeds four times the deviation while heartbeats are regular, and that
an irregular one is covered by the four tenths of its own error which the margin
takes at once. `SpanInv` bounds the distance between the receipts of the window, and
`base <= 0` keeps the estimate behind the mean, so that no value leaves the half of
the word a difference is read in.

`LearntMarginSettles` follows the same two values with every heartbeat regular, from a
clock at the start that is bounded by `ClockAssumption` only; `SettlingLearners` is about
the copy, a window of 10 and a period of 100 ticks or more. `EarlyInv` gives both values
after each of the first ten heartbeats, as multiples of period and start
(`EarlyBounds`). From then on a heartbeat takes a tenth of what is left and of the
difference from the deviation, rounded. `WearsOff` says this for every *d* with a
start of at most twenty periods doubled *d* times, in units of the doubled period
(`Scale`): a table of what both have come to at each heartbeat up to the 65th, and a
second one of ten lines (`WornLeft`, `WornDeviation`) whose last is half of its first
(`WithinHalves`), so that it is gone through once for each halving, until the unit is
the period itself; after that both stay under half a period (`SettlingInv`). An
induction over the roundings is not needed, since the line of the table is known from
the number of the heartbeat and *d*, and each line follows from the one before
(`WithinMoves`). `DoubledIs` gives the powers of two their equation: the recursive
function exists because there is no least number up to which there is none
(`LeastNumber`, from the library's theorem that the numbers are well-founded).
`DueAfterMargin` is the deadline in terms of the two values.

`RetrainPolicyProofs`, under the five assumptions of `RetrainPolicy`:

| theorem | property | argument |
|---|---|---|
| `PolicyTypeCorrect` | `PolicyType` | part of `PolicyInv` |
| `SuspicionsBounded` | `OneSuspicionPerHeartbeat` | inductive with the type: only a heartbeat arms the timer, only an expiry disarms it; `OneMore` is the arithmetic of the place in the period |
| `WorsePeriodsRetrain` | `RetrainsWhenWorse` | `CountersCount`: the counters of the code are the suspicions of this period and of the one before, but for the initial value in the first period. `FirstEnds`, `EndsAreEnds`: which heartbeat ends the first and the second |
| `SumIsChange` | `DifferenceSumIsChange` | inductive with the type: recording a difference moves sum and window by the same amount (`DifferenceMoves`), and the end of a period takes the window as the new base. `SignedAbsorbed`: an `int` wrapped at every step is the sum wrapped once |

`SignalBackendProofs`, for queues of any capacity and handlers nested to any depth,
of the specification without fairness:

| theorem | property | argument |
|---|---|---|
| `SleepingTrainerWatches` | `EmptyQueueWatched` | `TrainingInv` |
| `InferenceNotInterrupted` | `OneInference` | `FlowInv`: there is one token, held by the receiver, by the request, by the one working handler of the stack, or by the reply. A handler that interrupts another is below the empty queue, because the token is in the stack already |
| `NoRequestUnnoticed` | `RequestNoticed` | also in `FlowInv`, with `Watched`: over an empty queue a notification is requested or a handler is about to request it or to look |
| `SignalTypeCorrect` | `SignalType` | inductive, action by action |

The same module proves of `StreamingBackend`, for all sizes and queues with
`STREAM_LOOK_BACK < TRAIN_SIZE` (`StreamingConstants`):

| theorem | property | argument |
|---|---|---|
| `AwaitedAnswerComes` | `AwaitedIsComing` if no prediction is 0 | `AwaitInv` follows the question about this heartbeat from queue to process to reply; `QuestionsInv` says how many receipts are kept, `AnnouncedInv` and `ReceiptsInv` (every heartbeat counted is still to be sent, in the queue, or taken) that a model comes after more than `STREAM_LOOK_BACK` of them, so that the question is answered |
| `StreamingTypeCorrect` | `StreamingType` | from the invariants above with `ToldOnce`: the announcement is sent once, so its queue holds at most that one message |

`RdmaEchoProofs`, for queues of any length and any number of messages:

| theorem | property | argument |
|---|---|---|
| `HandshakeKept` | `PeersAgree` | `HandshakeInv` says for each peer and step what it has written, what the other has read, and which queue pairs are up; a read at the end of the stream, a refused write and a failed `modify` lead to `failed` |
| `BuffersAlwaysKept` | `BuffersKept` if `CONCURRENT = 1` | `FlowInv`, below |
| `RefusedEchoIsAlwaysOver` | `RefusedEchoIsOver` if `CONCURRENT = 1` | `FlowInv`, below |
| `EchoTypeCorrect` | `EchoType` if `CONCURRENT = 1` | `FlowInv`, `HandshakeInv`, and the counters |
| `EchoCountsAgree` | none of a run: the counts are at most one apart, and both are `TOT_NUM_OPS` when the client is done, if `CONCURRENT = 1` | `EchoInv`, below |
| `EchoNeverStuck` | none of a run: from when the client is in its loop until both have ended, and unless a send was refused, a step of the adapters or a loop can be taken, if `CONCURRENT = 1` | `EchoInv`, below |
| `EchoUsesUpWork` | none of a run: every step from then on uses up some of `Work`, sends refused or not, if `CONCURRENT = 1` | `EchoInv`, below |

`BuffersKept` is far from inductive: that a receive fits depends on what has come in and
has been polled, which depends on what the other side has sent. `FlowInv` counts instead
of describing queues: what is posted as a receive, and what came in and is not handled,
are one at most for each peer (`FlowOf`); over both directions at most one message is on
its way or not handled, and none once a send has been refused (`OneUnder`); `FlowStarts`
covers the steps before the two loops meet. It says nothing of acknowledgements but that
what is on the wire is not acknowledged, so it holds however they are ordered against
the answers. A refused echo was the one message under way, which is why the echo is over.
One is the value `num_concurr_msgs` has in the code. It is a hypothesis and not an
assumption of `RdmaEcho` because `BuffersKept` is false with two: `buf_ptr` advances by
the offset.

The last three are what `EchoEnds` says without its fairness: unless a send is refused the
echo does not stop early, and it does not go on for ever. `EchoInv` adds to `FlowInv` whose
turn it is and how far the counts are apart (`Phases`), that who waits for a message has
posted a receive for it or holds it, that a completion with an error means the other has
ended, and that a server in its last loop has its order to stop, or the error about it,
still before it (`Waits`). `Work` counts six for every message still to be counted by
either program, and what is left to be done about those under way: three for each that
is on the wire and three for each not acknowledged, two for a completion, one for a
completion that is polled. A refused send leaves less work, not more.

`HeartbeatSenderProofs`, for any pool and rings under `SenderConstants` (the pool is
larger than both rings and the mbuf in hand) and `CopiesNumbered`:

| theorem | property | argument |
|---|---|---|
| `OneOwner` | `MbufHasOneOwner` | counting, in `OwnInv`: the seven places hold all mbufs and their lengths add up to the size of the pool, so no mbuf is in two of them; the places that are bounded leave one free whenever the sender allocates |
| `HeartbeatsSent` | `SendsHeartbeats` | `FreshInv`: what is queued to be sent is ours and numbered upwards, since the NIC writes only to mbufs that are neither held nor queued. `ReusedInv` for the copies with one mbuf and no receive core |
| `SenderTypeCorrect` | `SenderType` | `TypedInv`, in every copy: a sender that writes has an mbuf (`HoldsOne`), whoever owns it by then |

`WindowSums` holds what the proofs of the running sums share. The sum over a set of
indices is a recursive function of the community modules, and an induction
theorem that takes a predicate cannot be instantiated by the provers here. The
lemmas go round it: for the facts needed, the subsets of the index set that
violate the fact are a set, and `SmallestSubset` gives a member of it none of whose
proper subsets violates it, from which a contradiction follows. This gives the
defining equation (`SumEquation`), and from it what removing, changing, shifting
and sliding do to a sum (`SumRemove`, `SumExcept`, `ShiftedSum`, `WindowSlides`), and a
lower bound for one whose terms lie above a line (`SumAboveLine`).

The arithmetic lemmas (`ModSucc`, `SlotOfCases`, `NextIndex`, `NextInPeriod`,
`NextSlot`, `SlotBack`) are stated once per module and cited. The initial state, each action and stuttering
are separate steps.

Only model-checked:

* liveness (`BurstDrained`, `SilenceSuspected`, `ModelAnnounced`, `RequestAnswered`,
  `EchoEnds`), which is out of the prover's reach, as is `ENABLED`. For the first
  and the last what remains is fairness alone (`ReceiverWaitsForAReason`,
  `EchoCountsAgree`, `EchoNeverStuck`, `EchoUsesUpWork`);
* `ExperimentsType`, which names the types of five programs in the module that
  instantiates them for TLC. Each of its conjuncts is a theorem:
  `PolicyTypeCorrect`, `SignalTypeCorrect`, `StreamingTypeCorrect`,
  `SenderTypeCorrect`, `EchoTypeCorrect`.

## 6. Not modelled

`PROJECT.json` gives every component its status and reason. Left out entirely:
`main.c` and `port_init.c` of each program (a sequence of DPDK configuration calls
that either succeed or end the program; the pool and filled receive ring they
leave behind are the initial state of `HeartbeatSender`), the message-queue
demonstrations, the timer and socket experiments, and `new_train_messed_up.py`, a
step between `new_train.py` and `optimized.py` that expects batches its receiver
does not send. Of the streaming backend, the start-up (queues that cannot be
opened) and the timer, which is the text of `SuspicionTimer`.

In the modules: `evicted_time` and `next_evicted` of `tensroflow_dpdk` (written and
never read), log output, the floating-point arithmetic of training and
prediction, failure of a call for a reason other than those named (memory,
signals, an administrator removing a queue), and a second receive core
(`NUM_RX_QUEUE` is 1). In `RetrainPolicy` the window of suspected intervals, which
that copy only prints. In `HeartbeatSender` the delays between heartbeats, which
are arbitrary time: `dpdk_send` draws them with a logarithm of a number that may
be 0, whose conversion to an integer C leaves undefined.

The comment in the callback of the timer, "rewire the timer even for the suspected
node", promises more than the code does: the call is commented out and
`timer1_cb` leaves the timer stopped until the next usable prediction. This is in
the model as it is in the code, and `ImplementsService` depends on it.

What the models take as the code has it, and about which nothing is claimed: a client
of the RDMA echo spins on `ops_count` for ever if a thread failed before the
server's first message (`EchoEnds` starts where both loops run), as both programs do
after a refused echo (`RefusedEchoIsOver` says what does not happen then); its buffers
walk out of `ib_buf` with two or more concurrent messages (`BuffersKept` is checked
with the one of the configuration); a receive loop that was sent back by a prediction
of 0 waits for ever (`RequestAnswered` names the case); and a training program with a
stranded message goes on sleeping (`EveryBatchTrained`, refuted).

## 7. What is left

* More than one irregular heartbeat for the learnt margin: `DeadlineStaysAhead`
  allows any number for a fixed one (it is in the inequality), and one for
  Bertier's, whose margin depends on when the others came.
* A refinement of `ArrivalLog` by the ring of `AveragingDetector`, in place of
  `OldestIsEvicted`.
* A composition of `RetrainPolicy` with `SignalBackend`: the two are connected by
  the choice of `Beat` only, so that what is shown of each holds in the other's
  company, but the delay from a bad period to new weights is stated of neither.
