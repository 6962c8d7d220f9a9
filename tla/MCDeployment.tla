---------------------------- MODULE MCDeployment ----------------------------
(* Small instances of Deployment for TLC. *)
EXTENDS Deployment

CONSTANTS d1, d2, u1, u2, c1

MCJobs == {1, 2}
MCUpdates == {1}
MCDeployers == {d1, d2}
MCUnattended == {u1, u2}
MCChats == {c1}

Setting(js, ds, rs, stages, rare, n) ==
  [jobs |-> js, deployers |-> ds, runs |-> rs, stages |-> stages,
   late |-> rare, limit |-> rare, lost |-> n[1], deaths |-> n[2]]

Migrate == <<"migrate", "recreate">>
Drain == <<"drain", "migrate">>

(* An update and a check, two deployers, two requests lost or one and a    *)
(* death.                                                                  *)
Shared == {Setting({1, 2}, {d1, d2}, {}, Migrate, FALSE, <<2, 0>>),
           Setting({1, 2}, {d1, d2}, {}, Migrate, FALSE, <<1, 1>>)}
(* Two unattended Runs that are due again and again.                       *)
Drained == Setting({1}, {d1}, {u1, u2}, Drain, FALSE, <<2, 1>>)
(* A conversation goes on, the drain may reach its limit, heartbeats come  *)
(* late.                                                                   *)
Held == Setting({1, 2}, {d1}, {c1}, Drain, TRUE, <<1, 1>>)

MCSettings == Shared \cup {Drained, Held}

(* The sweep is scheduled, requests are handled or time out, stages and    *)
(* Runs end, jobs of Runs are taken.  A deployer need not return.          *)
Live == setting \in {Drained, Held}
MCFairness ==
  /\ WF_table(Live /\ sweepLostJobs(1)) /\ WF_table(Live /\ Handle)
  /\ WF_table(Live /\ TimesOut(d1)) /\ WF_table(Live /\ StageEnds(d1)) /\ WF_table(Live /\ DrainEnds(d1))
  /\ \A r \in {u1, u2} : WF_table(setting = Drained /\ (AdmitRun(r) \/ StartRun(r) \/ EndRun(r)))
  /\ WF_table(setting = Held /\ (AdmitRun(c1) \/ StartRun(c1) \/ EndRun(c1)))

MCSpec == Spec /\ MCFairness

(* A pending update, which defers every unattended Run, does not stay      *)
(* pending ("without a bound, a stopped deployer would silently pause all  *)
(* scheduled work forever", repository.ts:315-317), and the drain          *)
(* converges however many unattended Runs are due                          *)
(* (drainAdmission.ts:5-12).                                               *)
UpdateEnds ==
  /\ (setting = Held /\ updatePending) ~> ~updatePending
  /\ (setting = Drained /\ Draining(d1)) ~> ~Draining(d1)
=============================================================================
