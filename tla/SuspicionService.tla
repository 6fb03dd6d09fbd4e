-------------------------- MODULE SuspicionService --------------------------
(***************************************************************************)
(* What the receive loop promises, without queues, processes or a model:   *)
(* heartbeats are taken one at a time, each is asked about at most once,   *)
(* the deadline moves only with the answer to the latest heartbeat, and    *)
(* the peer is suspected only when a deadline is set and no heartbeat is   *)
(* being handled; one deadline gives one suspicion.                        *)
(***************************************************************************)
EXTENDS Naturals

VARIABLES
  heard,      \* heartbeats taken since the detector was started
  phase,      \* "idle", "heard" a heartbeat, or "waiting" for its prediction
  deadline,   \* a deadline is set
  suspected

serviceVars == <<heard, phase, deadline, suspected>>

ServiceInit ==
  /\ heard = 0
  /\ phase = "idle"
  /\ deadline = FALSE
  /\ suspected = FALSE

Hear ==
  /\ phase = "idle"
  /\ phase' = "heard"
  /\ heard' = heard + 1
  /\ UNCHANGED <<deadline, suspected>>

\* The heartbeat is asked about, or it is not: no model yet.
Ask ==
  /\ phase = "heard"
  /\ phase' \in {"waiting", "idle"}
  /\ UNCHANGED <<heard, deadline, suspected>>

\* The answer sets a deadline and clears the suspicion, or comes too late.
Answer ==
  /\ phase = "waiting"
  /\ phase' = "idle"
  /\ \/ deadline' = TRUE /\ suspected' = FALSE
     \/ UNCHANGED <<deadline, suspected>>
  /\ UNCHANGED heard

Suspect ==
  /\ phase = "idle"
  /\ deadline
  /\ deadline' = FALSE
  /\ suspected' = TRUE
  /\ UNCHANGED <<heard, phase>>

Restart ==
  /\ heard' = 0
  /\ phase' = "idle"
  /\ deadline' = FALSE
  /\ suspected' = FALSE

ServiceNext == Hear \/ Ask \/ Answer \/ Suspect \/ Restart

ServiceSpec == ServiceInit /\ [][ServiceNext]_serviceVars

=============================================================================
