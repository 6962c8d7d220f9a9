-------------------------- MODULE MCExecutionGraph --------------------------
(* Small instances of ExecutionGraph for TLC: the nodes are                *)
(* a, an Agent node; b, an action; c, a checkpoint behind a; d, an         *)
(* integration behind b and c; e, an Agent node behind c.                  *)
EXTENDS ExecutionGraph, TLC

CONSTANTS a, b, c, d, e

Graph(container, depends, attemptsOfA, physical, unbound, failFast, may) ==
  [container |-> container, dependsOn |-> depends,
   kindOf |-> [n \in DOMAIN depends |-> CASE n \in {a, e} -> "agent" [] n = b -> "action"
                                         [] n = c -> "approval_checkpoint" [] n = d -> "integration"],
   maxAttempts |-> [n \in DOMAIN depends |-> CASE n = a -> attemptsOfA [] n = b -> 2 [] OTHER -> 1],
   maxPhysical |-> physical, unbound |-> unbound, failFast |-> failFast, disturbances |-> may]

Full == (a :> {}) @@ (b :> {}) @@ (c :> {a}) @@ (d :> {b, c})
Chain == (a :> {}) @@ (c :> {a}) @@ (e :> {c})

(* Nodes side by side in a workflow, whose Runs the Supervisor retries or a *)
(* person cancels, and in a Plan; a person cancels the coordinator too.    *)
SideBySide == {Graph("workflow", Full, 1, 2, {}, {}, {}),
               Graph("workflow", Full, 1, 1, {}, {}, {"cancel_run", "cancel_root"}),
               Graph("plan", Full, 1, 2, {}, {a}, {"cancel_run", "cancel_root"})}
(* A Project is archived and reactivated under a workflow.                 *)
Archived == Graph("workflow", Chain, 2, 1, {}, {}, {"archive", "pause"})
(* A Plan that is left to itself, and a workflow that is paused and taken  *)
(* up again, one node of which has an input that does not resolve.         *)
Plan == Graph("plan", Full, 1, 2, {}, {a}, {})
Paused == Graph("workflow", Chain, 2, 2, {e}, {}, {"pause"})

MCGraphs == SideBySide \cup {Archived, Plan, Paused}

(* The job worker runs and finalizes every Run (its job is leased again    *)
(* after a crash), the scan comes every sixty seconds, and people answer   *)
(* what waits for them.                                                    *)
GoesOn(l) ==
  \/ RunStarts(l) \/ \E s \in {"succeeded", "failed"} : RunEnds(l, s)
  \/ Evaluate(l) \/ InsertFinalization(l) \/ Supervise(l) \/ Settle(l)
  \/ Resume(l) \/ Abandon(l)

MCFairness ==
  /\ WF_table(graph \in {Plan, Paused} /\ Start)
  /\ WF_table(graph \in {Plan, Paused} /\ reconcileActive)
  /\ WF_table(graph \in {Plan, Paused} /\ applyCheckpoint(c))
  /\ \A l \in {<<a, 1>>, <<b, 1>>, <<b, 2>>} : WF_table(graph = Plan /\ GoesOn(l))
  /\ \A l \in {<<a, 1>>, <<a, 2>>, <<e, 1>>} : WF_table(graph = Paused /\ GoesOn(l))

MCSpec == Spec /\ MCFairness

(* A graph comes to an end once its automation stays active: what readied  *)
(* without a Run, what was given up after it was settled and what a pause  *)
(* left standing are all found again by the scan                           *)
(* (execution/executionGraphRecoveryService.ts:45).                        *)
GraphEnds ==
  <>[](graph \in {Plan, Paused} /\ automation = "active")
    => (execution = "running" ~> execution # "running")
=============================================================================
