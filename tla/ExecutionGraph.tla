--------------------------- MODULE ExecutionGraph ---------------------------
(***************************************************************************)
(* A graph of nodes run under one coordinator Run: a fixed Workflow        *)
(* execution (automations/workflowExecutionService.ts) or a Plan           *)
(* (plans/repository.ts), which share their scheduling rules               *)
(* (execution/executionGraphScheduler.ts) and their action nodes           *)
(* (execution/actionNodeExecution.ts).  A node is moved by a reconcile     *)
(* transaction and by nothing else, and a reconcile is started by the      *)
(* settlement of any node's Run, by the approval of a checkpoint, and by   *)
(* the recovery scan.  The Runs themselves end, are evaluated, finalized   *)
(* and supervised in steps between which all of that may happen.           *)
(***************************************************************************)
EXTENDS Integers, FiniteSets, FiniteSetsExt

CONSTANT Graphs          \* the graphs that may be run: see `graph`

VARIABLES graph,       \* the one that is, and what may happen to it: fixed from the start
          execution,   \* none, running (a Plan: active), completed, failed, cancelled
          automation,  \* active or paused: the automation that owns a workflow
          project,     \* active or archived
          root,        \* the coordinator Run
          node,        \* node -> its status
          attempts,    \* node -> primary Runs plus action attempts so far
          superseded,  \* node -> the delegated Runs set aside before a new attempt
          run          \* the k-th attempt's Run of a node

table == <<execution, automation, project, root, node, attempts, superseded, run>>
vars == <<graph, table>>

Container == graph.container       \* "workflow" or "plan"
Nodes == DOMAIN graph.dependsOn
DependsOn == graph.dependsOn       \* node -> the nodes it requires
KindOf == graph.kindOf             \* node -> agent, action, integration, approval_checkpoint
MaxAttempts == graph.maxAttempts   \* node -> contract_json.max_attempts, plan_nodes.max_runs
Unbound == graph.unbound           \* nodes with an input binding that does not resolve
FailFast == graph.failFast         \* nodes whose Runs own their failure (no review hold)
MaxPhysical == graph.maxPhysical   \* bound: physical attempts of one Run
Disturbances == graph.disturbances \* which of pause, archive, cancel_root, cancel_run occur

Attempts == UNION {{<<n, k>> : k \in 1..MaxAttempts[n]} : n \in Nodes}

GraphOK(g) ==
  LET nodes == DOMAIN g.dependsOn IN
  /\ g.container \in {"workflow", "plan"}
  /\ g.dependsOn \in [nodes -> SUBSET nodes]
  /\ g.kindOf \in [nodes -> {"agent", "action", "integration", "approval_checkpoint"}]
  /\ g.maxAttempts \in [nodes -> Nat \ {0}] /\ g.maxPhysical \in Nat \ {0}
  /\ g.unbound \subseteq nodes /\ g.failFast \subseteq nodes
  /\ g.disturbances \subseteq {"pause", "archive", "cancel_root", "cancel_run"}

ASSUME GraphAssumption == \A g \in Graphs : GraphOK(g)

NoRun == [status |-> "none", physical |-> 0, outcome |-> "none", stage |-> "open"]

\* A Run's stage is how far the finalization of its latest physical attempt got.
TypeOK ==
  /\ graph \in Graphs
  /\ execution \in {"none", "running", "completed", "failed", "cancelled"}
  /\ automation \in {"active", "paused"} /\ project \in {"active", "archived"}
  /\ root \in {"none", "waiting_for_dependency", "succeeded", "failed", "cancelled"}
  /\ node \in [Nodes -> {"none", "inbox", "ready", "in_progress", "waiting_for_review",
                         "done", "failed", "blocked"}]
  /\ \A n \in Nodes : attempts[n] \in 0..MaxAttempts[n] /\ superseded[n] \subseteq 1..attempts[n]
  /\ run \in [Attempts -> [status : {"none", "queued", "running", "succeeded", "failed",
                                     "waiting_for_review", "cancelled"},
                           physical : 0..MaxPhysical, outcome : {"none", "passed", "failed"},
                           stage : {"open", "evaluated", "finalized", "supervised", "settled"}]]

Init ==
  /\ graph \in Graphs
  /\ execution = "none" /\ automation = "active" /\ project = "active" /\ root = "none"
  /\ node = [n \in Nodes |-> "none"] /\ attempts = [n \in Nodes |-> 0]
  /\ superseded = [n \in Nodes |-> {}] /\ run = [l \in Attempts |-> NoRun]

-----------------------------------------------------------------------------
(* What the scheduler decides                                              *)

HasFailedNode(st) == \E n \in Nodes : st[n] = "failed"
IsComplete(st) == \A n \in Nodes : st[n] = "done"

\* settled: nodes that this same transaction has just found or made done.
ReadyNodes(st, settled) ==
  {n \in Nodes : /\ st[n] \in {"inbox", "ready"}
                 /\ \A d \in DependsOn[n] : st[d] = "done" \/ d \in settled}

\* The Run that speaks for a node: the latest linked one not superseded.
SpeakersOf(n) == {k \in 1..attempts[n] : run[<<n, k>>].status # "none" /\ k \notin superseded[n]}
Speaker(n) == run[<<n, Max(SpeakersOf(n))>>]

projectRunOutcome_SucceededIsDone(r) ==
  CASE r.status \in {"failed", "cancelled"} -> "failed"
    [] r.status = "succeeded" -> "done"
    [] OTHER -> "none"

projectRunOutcome(r) ==
  CASE r.status \in {"failed", "cancelled"} -> "failed"
    [] r.status = "succeeded" /\ r.outcome = "passed" -> "done"
    [] r.status = "succeeded" /\ r.outcome = "failed" -> "failed"
    [] OTHER -> "none"

\* A workflow node whose Run failed goes back to ready while attempts remain;
\* a Plan node fails with its Run.
Projected(st) ==
  [n \in Nodes |->
     IF SpeakersOf(n) = {} THEN st[n]
     ELSE CASE projectRunOutcome(Speaker(n)) = "done" -> "done"
            [] projectRunOutcome(Speaker(n)) = "failed" ->
                 IF Container = "workflow" /\ attempts[n] < MaxAttempts[n] THEN "ready" ELSE "failed"
            [] OTHER -> st[n]]

Superseding_Never(st) == superseded

\* A failed delegated Run is kept for audit but speaks for its node no more.
Superseding(st) ==
  [n \in Nodes |->
     IF KindOf[n] = "action" /\ Projected(st)[n] = "ready" /\ SpeakersOf(n) # {}
     THEN superseded[n] \union {Max(SpeakersOf(n))} ELSE superseded[n]]

-----------------------------------------------------------------------------
(* What becomes of a node that is scheduled                                *)

Having(kind) == {n \in Nodes : KindOf[n] = kind}

\* What the handlers of the action nodes (`answer`) and the verification of
\* the integration nodes (`verdict`) may say; the rest follows from the node.
\* The inputs of an integration or a checkpoint are not resolved.
ResultOf(n, verdict, answer) ==
  CASE KindOf[n] = "approval_checkpoint" -> "review"
    [] KindOf[n] = "integration" -> verdict[n]
    [] KindOf[n] \in {"agent", "action"} /\ n \in Unbound -> "failed"
    [] KindOf[n] = "agent" /\ n \notin Unbound -> "run"
    [] KindOf[n] = "action" /\ n \notin Unbound -> answer[n]

Results ==
  {[n \in Nodes |-> ResultOf(n, verdict, answer)] :
    verdict \in [Having("integration") -> IF Container = "plan" THEN {"done", "failed"} ELSE {"done"}],
    answer \in [Having("action") -> {"output", "delegated", "error", "no_handler"}]}

TakesAttempt(result) == result \in {"run", "output", "delegated", "error", "no_handler"}

executeActionNode(n, result) ==
  CASE result = "output" -> "done"
    [] result = "error" -> IF attempts[n] + 1 < MaxAttempts[n] THEN "ready" ELSE "failed"
    [] result = "no_handler" -> "failed"
    [] result = "delegated" -> "in_progress"

Scheduled(n, result) ==
  CASE result = "run" -> "in_progress"
    [] result = "review" -> "waiting_for_review"
    [] result \in {"done", "failed"} -> result
    [] OTHER -> executeActionNode(n, result)

\* A Plan looks again after settling a node without a Run, until a pass takes
\* nothing new; a workflow computes readiness once and leaves what became ready
\* to the next reconcile.
Taken(st, result) ==
  IF Container = "workflow" THEN ReadyNodes(st, {})
  ELSE CHOOSE taken \in SUBSET Nodes :
         taken = ReadyNodes(st, {n \in taken : Scheduled(n, result[n]) = "done"})

After(st, result) ==
  [n \in Nodes |-> IF n \in Taken(st, result) THEN Scheduled(n, result[n]) ELSE st[n]]

scheduleReadyNodes(st, runs, result) ==
  LET takers == {n \in Taken(st, result) : TakesAttempt(result[n])}
      hire == {<<n, attempts[n] + 1>> : n \in {m \in takers : result[m] \in {"run", "delegated"}}}
  IN /\ node' = After(st, result)
     /\ attempts' = [n \in Nodes |-> attempts[n] + (IF n \in takers THEN 1 ELSE 0)]
     /\ run' = [l \in Attempts |->
                  IF l \in hire THEN [NoRun EXCEPT !.status = "queued", !.physical = 1] ELSE runs[l]]

Finished(status) ==
  /\ execution' = status
  /\ root' = IF root = "waiting_for_dependency"
             THEN (IF status = "completed" THEN "succeeded" ELSE "failed") ELSE root

\* A Plan that is complete is also verified as a whole, which may fail it.
FinishIfSettled(st) ==
  CASE HasFailedNode(st) -> Finished("failed")
    [] ~HasFailedNode(st) /\ IsComplete(st) ->
         Finished("completed") \/ (Container = "plan" /\ Finished("failed"))
    [] OTHER -> UNCHANGED <<execution, root>>

-----------------------------------------------------------------------------
(* The transactions                                                        *)

\* start and executePlan: the execution, its coordinator and the first layer.
Start ==
  /\ execution = "none" /\ project = "active" /\ automation = "active"
  /\ \E result \in Results :
       LET fresh == [n \in Nodes |-> "inbox"]
           first == After(fresh, result) IN
       /\ scheduleReadyNodes(fresh, run, result)
       /\ execution' = CASE Container = "plan" -> "running"
                         [] Container = "workflow" /\ HasFailedNode(first) -> "failed"
                         [] Container = "workflow" /\ IsComplete(first) -> "completed"
                         [] OTHER -> "running"
       /\ root' = CASE execution' = "running" -> "waiting_for_dependency"
                    [] execution' = "completed" -> "succeeded"
                    [] OTHER -> "failed"
  /\ UNCHANGED <<automation, project, superseded>>

Quiet(st, runs) ==
  /\ node' = st /\ run' = runs /\ UNCHANGED <<execution, root, attempts, superseded>>

Ended(st, runs) ==
  /\ node' = Projected(st) /\ run' = runs /\ superseded' = Superseding(st)
  /\ FinishIfSettled(Projected(st))
  /\ UNCHANGED attempts

Advances(st, runs) ==
  \E result \in Results :
    /\ scheduleReadyNodes(Projected(st), runs, result)
    /\ superseded' = Superseding(st)
    /\ IF Container = "plan" THEN FinishIfSettled(After(Projected(st), result)) ELSE UNCHANGED <<execution, root>>

Moves(st, runs) ==
  IF HasFailedNode(Projected(st)) \/ IsComplete(Projected(st))
  THEN Ended(st, runs) ELSE Advances(st, runs)

\* An archived Project refuses the transaction whole; an execution that is over
\* or whose automation is not active is left as it is.
reconcileWorkflow(st, runs) ==
  /\ project = "active"
  /\ IF execution = "running" /\ automation = "active" THEN Moves(st, runs) ELSE Quiet(st, runs)

\* A Plan asks its coordinator too: one that has ended schedules nothing more.
reconcilePlan(st, runs) ==
  CASE execution # "running" -> Quiet(st, runs)
    [] execution = "running" /\ root # "waiting_for_dependency" ->
         /\ execution' = "failed" /\ node' = st /\ run' = runs
         /\ UNCHANGED <<root, attempts, superseded>>
    [] OTHER -> Moves(st, runs)

Reconcile(st, runs) ==
  IF Container = "workflow" THEN reconcileWorkflow(st, runs) ELSE reconcilePlan(st, runs)

ScanTakes_WaitingRoots == execution = "running" /\ root = "waiting_for_dependency"
                  /\ \E n \in Nodes : node[n] = "ready"

\* The recovery scan takes active graphs whose coordinator is still waiting.
ScanTakes == execution = "running" /\ root = "waiting_for_dependency"

reconcileActive ==
  /\ ScanTakes
  /\ Reconcile(node, run)
  /\ UNCHANGED <<automation, project>>

applyCheckpoint(n) ==
  /\ node[n] = "waiting_for_review"
  /\ Reconcile([node EXCEPT ![n] = "done"], run)
  /\ UNCHANGED <<automation, project>>

-----------------------------------------------------------------------------
(* A node's Run, and what follows its end                                  *)

Kept == UNCHANGED <<execution, automation, project, root, node, attempts, superseded>>

RunStarts(l) ==
  /\ run[l].status = "queued"
  /\ run' = [run EXCEPT ![l].status = "running"]
  /\ Kept

RunEnds(l, status) ==
  /\ run[l].status = "running" /\ status \in {"succeeded", "failed"}
  /\ run' = [run EXCEPT ![l].status = status]
  /\ Kept

Terminal(s) == s \in {"succeeded", "failed", "cancelled"}

\* The evaluation of an attempt is a row of its own, written before the
\* finalization; the latest row is what a reconcile reads.
Evaluate(l) ==
  /\ Terminal(run[l].status) /\ run[l].stage = "open"
  /\ \E outcome \in IF run[l].status = "succeeded" THEN {"passed", "failed"} ELSE {"failed"} :
       run' = [run EXCEPT ![l].outcome = outcome, ![l].stage = "evaluated"]
  /\ Kept

InsertFinalization(l) ==
  /\ Terminal(run[l].status) /\ run[l].stage = "evaluated"
  /\ run' = [run EXCEPT ![l].stage = "finalized"]
  /\ Kept

Requeued(l) == [NoRun EXCEPT !.status = "queued", !.physical = run[l].physical + 1, !.outcome = run[l].outcome]

\* A failed Run is requeued in place, held for a person, or left failed when it
\* owns its failure.
Supervise(l) ==
  /\ run[l].status = "failed" /\ run[l].stage = "finalized"
  /\ \/ run[l].physical < MaxPhysical /\ run' = [run EXCEPT ![l] = Requeued(l)]
     \/ l[1] \notin FailFast
        /\ run' = [run EXCEPT ![l].status = "waiting_for_review", ![l].stage = "supervised"]
     \/ l[1] \in FailFast /\ run' = [run EXCEPT ![l].stage = "supervised"]
  /\ Kept

\* settle: the graph's reconciler, then the record that it is done.
Settle(l) ==
  /\ \/ run[l].stage = "supervised"
     \/ run[l].stage = "finalized" /\ run[l].status # "failed"
  /\ Reconcile(node, [run EXCEPT ![l].stage = "settled"])
  /\ UNCHANGED <<automation, project>>

\* A person resumes a held Run with a new physical attempt, or gives it up; a
\* Run given up after it was settled is reconciled by nothing but the scan.
Resume(l) ==
  /\ run[l].status = "waiting_for_review" /\ run[l].physical < MaxPhysical
  /\ run' = [run EXCEPT ![l] = Requeued(l)]
  /\ Kept

Abandon(l) ==
  /\ run[l].status = "waiting_for_review"
  /\ run' = [run EXCEPT ![l].status = "cancelled"]
  /\ Kept

CancelRun(l) ==
  /\ "cancel_run" \in Disturbances
  /\ run[l].status \in {"queued", "running"}
  /\ run' = [run EXCEPT ![l].status = "cancelled"]
  /\ Kept

-----------------------------------------------------------------------------
(* What people do to the whole                                             *)

CancelRoot ==
  /\ "cancel_root" \in Disturbances
  /\ root = "waiting_for_dependency" /\ root' = "cancelled"
  /\ UNCHANGED <<execution, automation, project, node, attempts, superseded, run>>

SetAutomation(status) ==
  /\ "pause" \in Disturbances /\ Container = "workflow" /\ project = "active"
  /\ automation # status /\ automation' = status
  /\ UNCHANGED <<execution, project, root, node, attempts, superseded, run>>

\* pauseArchivedProjectActivity: a workflow's execution, coordinator, waiting
\* Runs and open nodes.  A Run that is executing holds its lock and is not
\* marked; a Run that has failed is terminal already.  Plans are not touched.
ArchivedNodes ==
  [n \in Nodes |-> IF node[n] \in {"inbox", "ready", "in_progress", "waiting_for_review"}
                   THEN "blocked" ELSE node[n]]

ArchiveProject ==
  /\ "archive" \in Disturbances
  /\ project = "active" /\ project' = "archived"
  /\ \/ /\ Container = "workflow"
        /\ automation' = "paused"
        /\ execution' = IF execution = "running" THEN "cancelled" ELSE execution
        /\ root' = IF root = "waiting_for_dependency" THEN "cancelled" ELSE root
        /\ run' = [l \in Attempts |-> IF run[l].status \in {"queued", "waiting_for_review"}
                                      THEN [run[l] EXCEPT !.status = "cancelled"] ELSE run[l]]
        /\ node' = ArchivedNodes
     \/ Container = "plan" /\ UNCHANGED <<automation, execution, root, run, node>>
  /\ UNCHANGED <<attempts, superseded>>

ReactivateProject ==
  /\ project = "archived" /\ project' = "active"
  /\ UNCHANGED <<execution, automation, root, node, attempts, superseded, run>>

Next ==
  /\ \/ Start \/ reconcileActive \/ CancelRoot \/ ArchiveProject \/ ReactivateProject
     \/ \E n \in Nodes : applyCheckpoint(n)
     \/ \E s \in {"active", "paused"} : SetAutomation(s)
     \/ \E l \in Attempts :
          \/ RunStarts(l) \/ \E s \in {"succeeded", "failed"} : RunEnds(l, s)
          \/ Evaluate(l) \/ InsertFinalization(l) \/ Supervise(l) \/ Settle(l)
          \/ Resume(l) \/ Abandon(l) \/ CancelRun(l)
  /\ UNCHANGED graph

Spec == Init /\ [][Next]_vars

-----------------------------------------------------------------------------
(* Properties                                                              *)

(***************************************************************************)
(* A node is done on the strength of the Run that speaks for it: that Run  *)
(* succeeded and its evaluation passed, and an Agent node never is done    *)
(* without one (projectLatestWorkflowNodeRuns, projectLatestNodeRuns).     *)
(***************************************************************************)
DoneIsEarned ==
  \A n \in Nodes : node[n] = "done" /\ KindOf[n] \in {"agent", "action"} =>
    /\ KindOf[n] = "agent" => SpeakersOf(n) # {}
    /\ SpeakersOf(n) # {} => Speaker(n).status = "succeeded" /\ Speaker(n).outcome = "passed"

(***************************************************************************)
(* A node that has been taken up had every node it requires done, and they *)
(* are done still (ExecutionGraphScheduler.readyNodes).                    *)
(***************************************************************************)
LayersInOrder ==
  \A n \in Nodes : node[n] \notin {"none", "inbox", "blocked"} =>
    \A d \in DependsOn[n] : node[d] = "done"

(***************************************************************************)
(* A done node is never judged again: neither by a delegated Run that was  *)
(* superseded nor by an evaluation written since                           *)
(* (workflowExecutionService.ts:474, "re-judge a node that has since       *)
(* succeeded by it").                                                      *)
(***************************************************************************)
DoneStays == \A n \in Nodes : node[n] = "done" => node'[n] = "done"

(***************************************************************************)
(* An execution that is over stays as it ended and takes no new attempt,   *)
(* whoever settles or approves late.                                       *)
(***************************************************************************)
EndedIsQuiet ==
  execution \in {"completed", "failed", "cancelled"} =>
    execution' = execution /\ attempts' = attempts

(***************************************************************************)
(* "A coordinator that has ended - cancelled by a person, or already       *)
(* finished - schedules nothing more; a child finishing late must not      *)
(* start the next layer under it" (plans/repository.ts:569-571).           *)
(***************************************************************************)
EndedRootSchedulesNothing ==
  root \in {"succeeded", "failed", "cancelled"} => attempts' = attempts

(* The three together.  A workflow does not ask its coordinator.           *)
WhatIsOverStays ==
  [][DoneStays /\ EndedIsQuiet /\ (Container = "plan" => EndedRootSchedulesNothing)]_vars

(***************************************************************************)
(* "Archiving a Project ... atomically stops every Project-owned source of *)
(* future work" (projects/repository.ts:803): while it is archived no Run  *)
(* of its graphs enters the queue.                                         *)
(***************************************************************************)
ArchiveQueuesNothing ==
  [][project = "archived" /\ project' = "archived" =>
       \A l \in Attempts : run'[l].status = "queued" => run[l].status = "queued"]_vars

(***************************************************************************)
(* A cancelled execution has no node left open: no checkpoint of it can    *)
(* still be approved and no Run of it is still awaited                     *)
(* (pauseArchivedProjectActivity).                                         *)
(***************************************************************************)
CancelledIsClosed ==
  execution = "cancelled" =>
    \A n \in Nodes : node[n] \in {"done", "failed", "blocked"}

(***************************************************************************)
(* "Only its own finalization may reconcile its outcome"                   *)
(* (finalizationService.ts:321): a Run that may still run, or that waits   *)
(* for a person, is the one its node is waiting for.  A node given up for  *)
(* a failure that the Supervisor then retries or holds breaks this.        *)
(***************************************************************************)
LiveRunIsAwaited ==
  \A l \in Attempts : run[l].status \in {"queued", "running", "waiting_for_review"} =>
    node[l[1]] = "in_progress" /\ l[2] = attempts[l[1]]

(* What stands behind a node, in one: its Run, its layer and, once the      *)
(* execution is cancelled, its end.                                         *)
NodesAreEarned == TypeOK /\ DoneIsEarned /\ LayersInOrder /\ CancelledIsClosed
=============================================================================
