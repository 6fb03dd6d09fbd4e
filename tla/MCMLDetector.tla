---------------------------- MODULE MCMLDetector ----------------------------
(***************************************************************************)
(* MLDetector on a ring of two slots, bursts of two packets and queues of  *)
(* one message.                                                            *)
(***************************************************************************)
EXTENDS MLDetector

\* Every kind of prediction the code distinguishes, and two deadlines.
AllPredictions == {Negative, Zero, Late, 0, 1}

\* A model whose predictions can be packed and are not 0.
UsablePredictions == {Late, 0, 1}

BothKinds == {"heartbeat", "other"}
Heartbeats == {"heartbeat"}

=============================================================================
