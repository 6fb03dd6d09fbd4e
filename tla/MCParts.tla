------------------------------ MODULE MCParts ------------------------------
(***************************************************************************)
(* Seven parts that do not interact, model-checked in one run: part says   *)
(* which of them a behaviour is about.  The others stay at their initial   *)
(* state.  Two are the state of the receive loop, the ring of receipts and *)
(* the suspicion timer; five are programs of the experiments.              *)
(***************************************************************************)
EXTENDS ArrivalStream, SuspicionTimer, RetrainPolicy, SignalBackend, StreamingBackend,
        HeartbeatSender, RdmaEcho

VARIABLE part

experimentVars == <<policyVars, signalVars, streamingVars, senderVars, echoVars>>
partVars == <<part, streamVars, timerVars, experimentVars>>

MCReceiptTimes == 1 .. 9

CONSTANTS m1, m2, m3, m4
FourMbufs == {m1, m2, m3, m4}

AllSenders ==
  {chen_fd_sender, chen_fd_107_sender, chen_fd_110_sender, chen_fd_nyu_server_sender,
   tensroflow_sender, updated_chen_fd_sender, fd_lstm_sender, chen_eval_sender,
   bertier_sender, bertier_profile_sender, mlfd_perf_eval_sender, mlfd_profile_sender,
   dpdk_send, dpdk_send_trace, send_recv, send_recv_ip_only, send_recv_mac_only}

Init ==
  /\ part \in {"ring", "timer", "policy", "signal", "streaming", "sender", "echo"}
  /\ StreamInit /\ TimerInit
  /\ PolicyInit /\ SignalInit /\ StreamingInit /\ EchoInit
  /\ SenderInit /\ (part # "sender" => copy = chen_fd_sender)

RunRing(A) == part = "ring" /\ A /\ UNCHANGED <<part, timerVars, experimentVars>>
RunTimer(A) == part = "timer" /\ A /\ UNCHANGED <<part, streamVars, experimentVars>>

\* An experiment runs: neither the ring nor the timer of the receive loop moves.
RunExperiment(p, A) == part = p /\ A /\ UNCHANGED <<part, streamVars, timerVars>>

RunPolicy(A) ==
  RunExperiment("policy", A) /\ UNCHANGED <<signalVars, streamingVars, senderVars, echoVars>>
RunSignal(A) ==
  RunExperiment("signal", A) /\ UNCHANGED <<policyVars, streamingVars, senderVars, echoVars>>
RunStreaming(A) ==
  RunExperiment("streaming", A) /\ UNCHANGED <<policyVars, signalVars, senderVars, echoVars>>
RunSender(A) ==
  RunExperiment("sender", A) /\ UNCHANGED <<policyVars, signalVars, streamingVars, echoVars>>
RunEcho(A) ==
  RunExperiment("echo", A) /\ UNCHANGED <<policyVars, signalVars, streamingVars, senderVars>>

Next ==
  \/ RunRing(StreamNext)
  \/ RunTimer(TimerNext)
  \/ RunPolicy(PolicyReceive) \/ RunPolicy(PolicyExpire)
  \/ RunSignal(SignalNext)
  \/ RunStreaming(StreamingNext)
  \/ RunSender(SenderNext)
  \/ RunEcho(EchoNext)

\* part never changes: the fairness of a program is asked for where it runs.
Spec ==
  /\ Init /\ [][Next]_partVars
  /\ (part = "signal" => SignalFairness)
  /\ (part = "echo" => EchoFairness)

ExperimentsType ==
  PolicyType /\ SignalType /\ StreamingType /\ SenderType /\ EchoType
=============================================================================
