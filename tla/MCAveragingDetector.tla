------------------------- MODULE MCAveragingDetector -------------------------
(***************************************************************************)
(* All copies of AveragingDetector, with the parameters of the code.       *)
(***************************************************************************)
EXTENDS AveragingDetector

AllCopies ==
  {chen_fd, chen_fd_107, chen_fd_110, chen_fd_nyu_server, updated_chen_fd_nyu_server,
   chen_eval, bertier, bertier_profile, fd_lstm}

OnlyMargins == {updated_chen_fd_nyu_server}

\* The hypotheses of the proof about DeadlineAhead, for the fixed margins of the
\* code and for the learnt ones: one heartbeat that comes three periods after the
\* one before is covered by all, one that comes after twelve by none.
ASSUME MarginsCover ==
  \A p \in Programs :
    /\ Gaps \subseteq 0 .. 30 /\ MaxIrregular <= 1 =>
         /\ p.margin > 0 /\ ~p.learns => MarginSuffices(p)
         /\ p.learns => LatenessLearnt(p)
    /\ 120 \in Gaps => (p.margin > 0 => ~MarginSuffices(p)) /\ ~LatenessLearnt(p)

\* That of the proof about SettlesWhenRegular, and the uptime of the run is
\* among those the property tells apart and wears off within its heartbeats.
ASSUME LearnersSettle ==
  \A p \in Programs : p.learns =>
    /\ MarginSettles(p)
    /\ p.returns # 0 =>
         \E d \in 1 .. DOUBLINGS :
           Boot <= 20 * Doubled[d] * p.period /\ Settled + 10 * d < p.returns

=============================================================================
