# A verification project for Rainver's execution core

Rainver runs agents. A person, an automation or another agent creates a *Run*; a
job worker in the server picks it up; a host daemon on some machine runs a
process for it; and whatever happens in between (a worker that dies, a
connection that drops, a person who cancels, a retry that overlaps the attempt
it replaces) the Run has to end once, in the right state, with no process left
behind. That is the core these modules model: the job queue, the Run and its
attempts, the execution of a Run, its cancellation, retry and recovery, and the
host connection and daemon. Around it stand the things that make Runs and use
what they made: the leases and branches they work in and the merges of those
branches, delegation between agents, workflows and plans, the schedule of
automations, the authorizations they wait for, the code patches they propose,
and the deployment that has to drain them.

Paths below are relative to the repository; `modules/` stands for
`server/src/modules/`.

## 1. Inventory

| Component | State it keeps | Operations | Hard behaviour | Correct when |
|---|---|---|---|---|
| Job queue (`modules/jobs/repository.ts`, `routes.ts`) | table `jobs`: status, attempts, claimed_by, heartbeat_at, scheduled_at | enqueue, claimNext, startJob, completeJob, failJob, deferJob, cancelJob, touchHeartbeat, reclaimStuckJobs, deleteOrphanRunExecutionLocks | leases that expire under a live worker; lost answers; a budget counted in three places | a job runs on one lane, is settled once by whoever holds it, and is never stranded |
| Job worker (`worker.ts`, `workerPool.ts`, `workerRuntime.ts`) | lanes of one process | processOne: claim, start, handle, settle | process death at any statement; refusals between statements | every lane returns to the pool, every held job is settled or reclaimed |
| Run rows (`modules/runs/repository.ts`) | `runs`, `run_attempts`, `run_finalizations`, `run_supervisor_decisions`, `run_execution_locks` | markRunRunning, publishRunTerminal, markRunTerminal, bindAttemptLaunch, markRunCancelling, requeueRunForRetry, holdRunForSupervisorReview, resume, recoverStaleRuns | half a dozen writers race for the end of one Run | Run and attempt agree; an end stands |
| Run execution (`agentRunHandler.ts`, `orchestrationService.ts`, `remoteHostCliAdapter.ts`) | where each lane is; the execution lock | lock, admit, prepare, bind, launch, wait, publish, finalize | awaits everywhere: state read before one is stale after it | one executor; no launch of an attempt that is no longer open |
| Cancellation (`orchestrationService.cancelRun`, `executionControl.ts`, `localCliExecution.ts`, `routes.ts`) | the person's request | mark, abort, look, ask the host, publish; resume; abandon | a stop racing a launch; a stop racing a retry | a confirmed stop is one; a cancellation comes to an end |
| Recovery (`recovery.ts`, `runRecoveryLoop.ts`) | the loop's position | orphan locks, reclaim, cancellation intent, stale preparation, finalization and settlement sweeps | runs beside live lanes | nothing that lost its owner stays lost, nothing alive is taken |
| Finalization and Supervisor (`finalizationService.ts`, `supervisor.ts`, `retryPolicy.ts`) | one finalization and one decision per attempt | finalize, supervise: retry with its job, or hold | crash between the two; two finalizers | each attempt is finalized and decided once |
| Host registry (`modules/hosts/connectionRegistry.ts`) | pending dispatches, owed stops, launch slots (in memory) | dispatch, terminate, stopAttempt, register, unregister, complete | disconnects, grace timers, lost frames, server restart | a dispatch settles once, with the outcome of its own launch |
| Host daemon (`packages/host-daemon/src/execution.ts`) | active launches and their processes | launch, terminate, exit | a `complete` that nobody receives | a process named by a stop ends |
| Host requests beside Runs (`connectionRegistry.ts`, `host-daemon/src/commands/run.ts`) | open requests, sessions, source executions | request, reply, time limit, call back, supersede | the two sides of a lost connection learn of it at different times | nothing goes on that nobody hears |
| Location leases (`packages/host-daemon/src/locationLease.ts`) | lease table with queues | acquire, cancel the wait, release, maintenance | a grant that is resolved before it is noticed; a stop in between | a writer is alone; no wake-up is lost |
| Task branches and merges (`modules/hosts/taskMerges.ts`, `packages/host-daemon/src/taskWorktree.ts`, `taskMerge.ts`) | merge rows and jobs; branch, worktree and merge record on the host | ask, prepare, verify, finish, abort, resolve, give back; settle a Run; late merge | main moves meanwhile; answers are lost; a step is cut short; the Task is reopened | no settled work is lost, nothing lands unverified, merges end |
| Graph settlement (`modules/execution`, `modules/plans`, `modules/automations/workflowExecutionService.ts`) | executions, nodes, their Runs | reconcile, schedule, project outcomes, approve, archive, scan | reconciles from three sides between the steps of a Run's end | a node is done by what it waited for; a graph ends |
| Agent groups (`modules/agentGroups`, `modules/rooms/quotaGate.ts`) | turns, delegations, waits | dispatch, delegate, park, project an end, resume, gate, pause | a child ends while its parent parks; an Agent's turn meets a person's | one writer per conversation; results told once; no wait in a circle |
| Scheduler and automations (`modules/automations`, `modules/scheduler`) | automations, scheduler_tasks, automation_runs | scan and fire, fire by hand, PATCH, archive | a row that is locked beside one that is only read | a slot fires once, and not after a stop |
| Deployment (`modules/deployment`, `deployer/poll.py`) | deployment_jobs and their events; the drain's gate | request, beat, claim, report, cancel, sweep | requests lost, given up and handled late; a deployer dies | the record tells what was done; a pending update ends |
| Authorizations (`modules/policy/authorizationRequestService.ts`, `actionApprovalGrantService.ts`) | requests, grants and their uses, the parked Run | deny, ask and park, approve or reject, reconcile, grant, revoke, use | the check of a grant is not its use; the answer comes before the turn that asked has ended, or never | no use beyond what was granted; a parked Run is answered |
| Proposals (`modules/proposals/applyService.ts`, `modules/projectFolders/codePatch.ts`, `snapshotStore.ts`) | proposals, snapshots; the files of a Folder | propose, accept, reject, roll back, compensate | files are not part of the transaction; people edit them | a proposal's status is true of its files; nobody's edit is lost |
| Policy rules, sessions, knowledge, sources, memory, web | records of their domain | rules, queries, content | little interleaving of their own | not this project's subject |

How they meet: the recovery loop, the lanes and the HTTP handlers share one
database and one process; they call each other only through the rows of `jobs`,
`runs`, `run_attempts` and `run_execution_locks`, through the in-memory process
registry and host registry, and through the frames of one WebSocket per host.
Settlement carries the end of a Run to the records that asked for it: a Task's
branch, a node of a graph, a delegation, an automation's occurrence. A Run that
may not do what it wants asks a person and waits; what it may only propose
becomes a proposal that a person, or a grant, accepts. The
deployer is a process of its own that polls the server over HTTP.

The hazards this gives rise to, each with its line and the properties that
watch it, are in `PROJECT.json` under "hazards".

## 2. Modules

| Module | What it models | Code |
|---|---|---|
| `JobRows` | one row of `jobs`; each UPDATE as a WHERE predicate and a SET function | `jobs/repository.ts` |
| `JobQueue` | the table, the lanes statement by statement, cancellation, reclaim, death and restart; extends `JobRows` | `jobs/worker.ts`, `workerPool.ts`, `workerRuntime.ts`, `repository.ts` |
| `JobPromise` | what the queue promises its callers: a job is free, taken or settled; a settled job stays settled, and only its taker settles it | abstract |
| `RunRows` | one Run with its attempts; each lifecycle statement as predicate and function | `runs/repository.ts` |
| `RunPromise` | what a Run promises who asked for it: attempts follow one another, a failure is decided on once and after its effects, what is over stays | abstract |
| `RunExecution` | lanes, lock, jobs, Run, host process, connection, a person and the recovery loop; extends `JobRows` and `RunRows` | `runs/*.ts`, `jobs/*.ts`, `hosts/connectionRegistry.ts`, `host-daemon/src/execution.ts` |
| `LocationLeases` | the lease table of one daemon, its queues, the launches and the maintenance that use it | `host-daemon/src/locationLease.ts` |
| `HostLaunch` | a launch from its frame to its `complete`, its stop at every phase, its exit cleanup, commands, sweeps, upgrade, revocation, restart; extends `LocationLeases` | `host-daemon/src/execution.ts` |
| `HostRegistry` | launch slots, dispatches, takeover by a retry, owed stops, grace, superseded sockets, stdin, and the daemon as the registry sees it | `hosts/connectionRegistry.ts`, `runs/remoteHostCliAdapter.ts` |
| `HostRequests` | requests with a reply, account sessions, source executions that call back | `hosts/connectionRegistry.ts`, `host-daemon/src/commands/run.ts` |
| `Delegation` | a message to serialized recipients, their children, waits, gates, pause, cancellation | `agentGroups/*.ts`, `rooms/quotaGate.ts`, `runs/orchestrationService.ts` |
| `ExecutionGraph` | a Workflow execution or a Plan with its Runs, from start to settlement | `automations/workflowExecutionService.ts`, `plans/repository.ts`, `execution/*.ts`, `runs/finalizationService.ts`, `runs/supervisor.ts` |
| `TaskMerge` | the merge of a done Task's branch, the settlement of its Runs, the host's merge steps | `hosts/taskMerges.ts`, `runs/taskRunSettlement.ts`, `host-daemon/src/taskMerge.ts`, `taskWorktree.ts` |
| `Deployment` | deployment jobs, the deployer's loop, requests between them, the drain's gate | `deployment/*.ts`, `deployer/poll.py`, `runs/agentRunHandler.ts` |
| `AutomationSchedule` | one Automation's schedule: scan, fires, PATCHes, archiving | `automations/*.ts`, `scheduler/taskStore.ts` |
| `Authorization` | denied actions, requests, the parked Run and its reconciliation, grants and the acceptances that use them | `policy/authorizationRequestService.ts`, `actionApprovalGrantService.ts`, `proposals/applyService.ts`, `runs/agentRunHandler.ts` |
| `CodePatch` | code patches on the files of a Folder: acceptance, rollback and compensation file by file, beside edits | `proposals/applyService.ts`, `projectFolders/codePatch.ts`, `snapshotStore.ts` |
| `JobQueue_proofs` | theorems about the queue, and that it implements `JobPromise` | |
| `RunExecution_proofs` | theorems about the Run rows under every interleaving, that they implement `RunPromise`, and about the execution lock, processes and stops | |
| `HostLaunch_proofs` | theorems about the lease table by itself and under the daemon's launches, and about the requests of `HostRequests` | |
| `HostRegistry_proofs` | theorems about the slots of a host and about what the registry says of an attempt | |
| `Approvals_proofs` | theorems about `CodePatch` and `Authorization` | |
| `Deployment_proofs`, `TaskMerge_proofs` | theorems about the module each is named for | |
| `Automations_proofs` | theorems about `ExecutionGraph` and `AutomationSchedule` | |
| `MC*` | the instances, their fairness and the liveness asked of them | |

How they compose: `RunExecution` uses the same row functions as `JobQueue`, so a
change to what a statement of the queue does changes both. `HostLaunch` runs on
the very table of `LocationLeases`: a launch's step from asking to holding is a
step of that module. The others meet at what they assume of each other.
`RunExecution` takes a process to be running from the launch frame to its
`complete`; `HostRegistry` and `HostLaunch` are the two ends of that frame.
`HostLaunch` assumes of the server only that it may send a launch or a stop at
any time; `HostRegistry` assumes of a daemon that it answers an exact stop and
reports what ended, which is what `HostLaunch` checks as `CompleteMeansOver`.
`Delegation`, `ExecutionGraph` and `TaskMerge` take a Run as `RunRows` gives it:
it starts, it ends once, its end is finalized and supervised in later steps, and
its job comes back after a crash. What a Run is worth to each of them is modelled
there, in full. `Authorization` assumes the same of a Run's turn, lock and job;
the proposal that it accepts with a grant is applied in one step, and what an
application to files is, step by step, is `CodePatch`'s subject.
`MCHostRegistry` and `MCApprovals` each put two modules side by side that share
no state: a behaviour is about the one or about the other.

### How an instance is chosen

Several modules have one variable that Init chooses and no step changes:
`limits` (`HostRegistry`), `may` (`HostLaunch`), `message` (`Delegation`),
`graph` (`ExecutionGraph`), `setting` (`Deployment`), `course`
(`AutomationSchedule`), `story` (`Authorization`), `tale` (`CodePatch`),
`stalls` (`JobQueue`), and the bounds in `left`
(`TaskMerge`), which count down. One run so checks several small instances side
by side, each with the disturbances it is there for; their union would be one
large instance that cannot be searched. Bounds are in that record and in the
guards, never in a state constraint. `HostRequests` chooses in the same way
which requests are made together.

Liveness is asked of some of the instances, and fairness is stated for those
only, by guarding the fair action with a condition on that variable, which makes
no difference to the instance itself.

### The grain of an action

An action is one database transaction or one turn of the event loop: the code
from one `await` to the next. In `RunExecution` the lane's `pc` says which await
it waits at:

    claimed -> reading -> locking -> admitting -> preparing -> opening -> binding
            -> bound -> running -> collecting -> publishing -> finalizing
            -> supervising -> completing / deferring / failing

with `stopping -> looking -> asking` for a Run found `running` or `cancelling`
(a worker was lost), and `exhausting` for a last try that threw. A person's
`cancelRun` walks `aborting -> looking -> asking -> publishing -> finalizing`.
The step `bound -> running` has no await between the check of the invocation's
signal and the frame: it is one action, `Launch`, and the race with `Abort` is
decided by which of the two turns comes first.

The other modules keep to the same grain. A launch in `HostLaunch` is in one of
the phases between two awaits of `executeRun` and its exit block. One turn of it
may take several steps: a stop gives up the waits of its attempt one by one, and
until none is left (`cancelling`) nothing else of the daemon moves (`HostTurn`). In `TaskMerge` a host step is
one action because `withTaskHeld` excludes every other step on the Task while it
runs; its answer travels, and may be lost, in a later one. In `Deployment` a
request is sent, handled and answered in separate steps. In
`AutomationSchedule` what was read without a lock, or before it, is kept in a
variable (`scan`, `hand`, and `patch` for each caller, since PATCHes overlap)
until it is written: a PATCH that names neither status nor configuration and the
record of a fire by hand read the row and then the schedule, which are two steps,
and write in a third. In
`ExecutionGraph` and `Delegation` a reconcile or a projection is one
transaction under the lock of its container or of its group. In `Authorization`
a transaction is one action, but for the acceptance with a grant, which holds
two rows while it applies; in `CodePatch` each look at a file and each write of
one is an action, for nothing holds a file.

### What is abstracted

- Time is what the statements compare: `due` (scheduled_at has passed), `fresh`
  (the heartbeat is younger than 600 s), and, for the stale preparation, the
  hour since `started_at`, which may be over whenever nobody executes
  (`Stalls = FALSE`) or at any moment (`Stalls = TRUE`).
- `cause` stands for `error_json.error_code`, told apart as far as the code
  branches on it. A Run that ends `degraded` is not modelled: the code evaluates
  it as it does a succeeded one, but supervises it and may retry it as it does a
  failed one (`runs/supervisor.ts:266`, `runs/repository.ts:2328`, `2377`,
  `finalizationService.ts:532`).
- A launch nonce is named by the attempt its worker was admitted for.
- A process is `running` from the frame's arrival, the wait for its Location
  included, until its `complete`: child exit, uploads and report are one step.
- `RunExecution`'s Run is an Agent Run of a Task on one host. Dependency parking
  is `Delegation`'s; approval parking, deadlines, cost budgets, chat and managed
  Runs are left out.
- The content of contexts, results and policies is left out; where they can
  fail, an action fails (`Refuse`, `PrepareFails`, `AdapterFails`).
- A settled job is never read again, so `RunExecution` drops its row
  (`JobQueue` keeps it).

- `HostLaunch`: namespaces, environments, egress, uploads and tool installation
  are steps that succeed or fail. `HostRequests`: folder reads and writes,
  probes, imports and terminal logins have the shape of its requests and are not
  told apart.
- `Delegation`: one message at a time; discussions, handoff turns, budgets,
  dispatch locks, quota recovery markers and "continue anyway" are left out, and
  so is the retry of an interrupted attempt by the Supervisor. Waiters are
  released in an arbitrary order (the code orders by `updated_at`). A cancelled
  Run's job is taken together with its settlement.
- `ExecutionGraph`: the graph of one execution. The Supervisor's choice between
  retry and hold is arbitrary within the attempts left. Which nodes have an
  unresolved input is fixed. A refused budget and a reconcile that throws change
  nothing and are stutters. A Run's cancellation comes with its confirmation,
  and a crash between finalization steps is a pause, as each is taken up again.
- `TaskMerge`: one Task and one Location. A job that would only be deferred again
  is not taken. Every attempt of a Run changes files. A settle's answer and the
  late merge it asks for are one step. Two workers on one job are `JobQueue`'s
  matter.
- `Deployment`: time is not counted; stages, Docker and the registry succeed or
  fail; the trigger origin of a Run is its membership of `Unattended`.
- `AutomationSchedule`: the cron expression falls at every tick; policy,
  preflight and budget are one failing step (`fireRefused`, `scanFails`). The
  next slot of a PATCH is computed at any time between its reads and its write,
  that of a scan under its lock. Two variables are history: `crossed`, that an
  activation fell on a PATCH or a record which had begun to read and which names
  no status, and `putBack`, that one of them wrote a slot that had come.

- `Authorization`: one Agent and one grantable action; the scope of a grant is
  its Run or every Run. Who may decide is not told apart. A Run's execution is
  its turn, its lock and its job; `RunExecution` has the rest.
- `CodePatch`: a content is named by who wrote it, and an absent file is a
  content. Expiry and pruning of snapshots are one step that may come at any
  time (`SnapshotGoes`). Policy, paths and locations are checked before any file
  is touched, and a refusal there changes nothing.

Operators named `X_Slipname` (`Reclaimed_CountsATry`, `Stuck_AnyAge`) are `X`
with a slip in it. No specification uses them; each stands for a plausible
mistake and shows that a property would notice it.

## 3. Runs

| Run | Instances | Shows |
|---|---|---|
| `JobQueue` | 2 lanes, 2 jobs (one `agent_run`), 2 tries; once stalling, once steady | rows stay well-formed, no pending row is stranded, the queue implements its promise, steady lanes never share a job, every job settles, a launched process whose lane is gone gets another |
| `RunExecutionSafety` | 2 lanes and a dead worker, 2 job rows, 2 attempts, 2 tries per job | the safety of a Run's execution, below |
| `RunExecutionLive` | the same with 1 try and early faults, with fairness | a cancellation comes to an end |
| `HostLaunch` | `retry`, `busy` and `leases` of `MCHostLaunch` | leases are exact and exclusive, a process is guarded to its end, nobody is passed over, every launch is answered |
| `HostRegistry` | seven bounds of `MCHostRegistry` over one or two slots; or four sets of requests, 2 calls per source and 1 lost connection | slots are exact, what the server was told is so, every dispatch settles, the two sides of a connection keep in step |
| `Delegation` | eight messages of `MCDelegation` | one writer, results told once, waits that end |
| `ExecutionGraph` | six graphs of up to four nodes | nodes are earned, what is over stays over, graphs end |
| `TaskMerge` | seven bounds of `MCTaskMerge`, 1 or 2 Runs, up to 3 merges | no work is lost, nothing lands unverified, merges end |
| `Deployment` | four settings of `MCDeployment` | the record is true, ends stand, a pending update ends |
| `AutomationSchedule` | five courses over two or three ticks; in one, PATCHes of two callers overlap | each slot once, an active Automation is armed, none after a stop, a due slot is taken |
| `Approvals` | five stories of `Authorization`, five tales of `CodePatch` (`MCApprovals`) | grants are spent as given, a parked Run is answered, a status is true of its files, edits stand |
| `ResumeWhileLive` | 1 lane, hasty resumes | violated: a departure of the code, section 6 |

### What each property says

A run's property is often a conjunction; its parts are named definitions, and
the comment above each says which code keeps it.

The queue (`JobQueue`): what the table says. `InterruptedIsTakenUp` is the
promise behind the reclaim that gives a try back: the process launched from a
job whose lane is gone, or has lost its claim to one that is, gets a lane again,
though the last try be spent; nothing else can have it stopped.

Execution of a Run (`RunExecution`):

- `AttemptsAgree`: the latest attempt has the Run's status; a superseded one
  failed, was finalized and was decided on.
- `LockIsSound`: two lanes never execute the Run at once (`OneExecutor`), and the
  lock belongs to a job held by the worker that took it, so that its stale lease
  leads the loop to it (`LockIsRecoverable`).
- `QueuedRunHasJob`: a queued Run has a job that will perform it. With the
  default of two attempts it holds; with three it does not (section 6).
- `StopIsConfirmed`: whoever may publish an end after a confirmed stop does so
  with no process of the attempt left and no lane that could launch one.
- `ProcessesAreTheRuns`: a process starts only for the current, open attempt,
  which records its launch (`LaunchIsRecorded`), and the Supervisor's retry finds
  no process of the attempt it decided on (`RetryFindsNoProcess`).
- `EndStands`: a success and a cancellation are final.
- `CancellationEnds`: a requested cancellation comes to an end.

The host (`LocationLeases`, `HostLaunch`):

- `TableIsExact`: whoever writes a directory is alone with it (`WriterAlone`); no lease without a holder or a queue, none held by one that is
  over; and no wait that could be granted now (`NoLostWakeup`).
- `ProcessIsGuarded`: nobody is given a directory that a process may still
  write, whatever stopped it or failed to; an attempt is reported complete with
  its process gone or its leases kept; the copy of a runtime is replaced with no
  process of it running.
- `NobodyIsPassedOver`: leases are served in the order of arrival, a stopped
  launch never spawns, and the restart of an updated daemon drops nothing.
- `LaunchesAnswered`: every launch is answered, and no two wait for each other.

The host as the server sees it (`HostRegistry`, `HostRequests`):

- `SlotsAreExact`: the cap on launches holds, and no slot is idle while a launch
  waits for one.
- `SaidIsSo`: what is typed to an attempt and what completes it are its own, a
  stop that was confirmed is one, and an attempt given up is stopped or owed its
  stop.
- `EveryDispatchSettles`.
- `SidesInStep`: whatever goes on at the host has a listener, a source execution
  calls back only on its own connection and in step, and tool operations exclude
  each other on both sides.

What uses Runs:

- `TurnsKept` (`Delegation`): at most one writer of the conversation, recipients
  in their order, no result of a child lost, no wait in a circle.
  `NoSecondTelling`: a result that a waiting parent will be told is not told to
  the room too. `DelegationMovesOn`: waits end, children are admitted and
  settled.
- `NodesAreEarned` (`ExecutionGraph`): a node is done only by the Run that speaks
  for it, which succeeded and was judged so, and behind the nodes it requires;
  a cancelled graph is closed. `WhatIsOverStays`: done nodes stay done, an ended graph is quiet, an
  ended coordinator of a Plan schedules nothing. `GraphEnds`.
- `MergesAnswer` (`TaskMerge`): one merge under way at a time, with a job; what holds the
  worktree against the Task's next Run has a merge, not finished, that answers for
  it; a conflict left to a person has been put back on the host. That a merge
  answers is asked of instances with a throw only while the Task has one merge row:
  section 6 says why. `NothingLeftBehind`: a done Task with work left has a merge. `WorkIsKept`: settled
  work is on the branch or on main until a merge that had nothing to land lets
  the branch go, and main moves only to a commit that passed its checks, on the
  main it passed them on (`LandedIsVerified`). `MergesEnd`.
- `JobsTellTheTruth` (`Deployment`): events are in order, a job that succeeded
  had every stage executed, no two stages run side by side where no heartbeat is
  handled late, a cancelled job was not touched. `EndsAreTrue`: an end stands, and a job is failed as abandoned
  only when its deployer is past executing it. `UpdateEnds`.
- `ScheduleAgrees` (`AutomationSchedule`): a slot is fired once at most, an
  active Automation is armed, an open native run is tended by a scan or by a
  fire by hand; each but for the departures of section 6. `StopStands`:
  nothing is fired after a stop, and a stop is not undone by an older read.
  `DueIsTaken`: a due slot of an active Automation is taken.

What Runs ask for (`Authorization`, `CodePatch`):

- `GrantsAreSpentAsGiven`: each use of a grant is one proposal accepted with it,
  of a Run it is for, never more of them than it allows; what was revoked or put
  away is not used after that; a proposal is decided once.
- `ParkedRunIsAnswered`: the Run whose request was approved is taken up, with a
  job, and the one whose request was rejected ends, whatever the turn that asked
  is still doing and whatever dies.
- `StatusIsTrue`: a pending, rejected or rolled back patch has left nothing in
  the files, also after a failed acceptance or rollback, and an accepted one has
  replaced what it found.
- `EditsStand`: what a person wrote is overwritten only by what was made over it,
  or in the window between a request's check of that file and its write.

### Why these bounds

Two lanes are needed for every race the code guards against (two jobs of one
Run, a reclaimed job beside its first lane), and one dead worker stands for all
of them: the code compares `claimed_by` for equality only. Two attempts are a
retry and its predecessor; two tries of a job are a failure that is repeated and
one that exhausts the budget. Two job rows are the old job beside the one a
retry, a resume or the recovery loop adds; the code adds none while a live one
exists except in the retry, of which two attempts have one. A second retry can
add a third row, and that is where `QueuedRunHasJob` fails (section 6).
Everything here is symmetric in lanes and rows, and the safety run uses that.

- `HostLaunch`: two directories give a conflict of order; a writer of both, a
  reader, and one that reads the one and writes the other are every relation two
  launches can have; two attempts of one Run share its run directory.
- `HostRegistry`: a retry needs two attempts; one more Run waits for the slot,
  and a third tells two slots from one. A second lost connection is needed to
  supersede a socket that superseded another.
- `Delegation`: two recipients and two children (one that only reads) are one
  more than a turn can hold, at each level. Two parks are a wait taken up and
  entered again.
- `ExecutionGraph`: `Full` has nodes side by side and a join behind a
  checkpoint, `Chain` three layers; two attempts by two physical attempts tell a
  retry of the Supervisor from a new attempt of the node.
- `TaskMerge`: three merges are one that was stopped or withdrawn, the one asked
  for next, and a late one. One fault of any kind falls at any step.
- `Deployment`: two jobs and two deployers contend for the active lock; two
  requests lost are a report and its retry.
- `AutomationSchedule`: three ticks hold a fire, a stop, a reactivation and
  another fire, with four PATCHes falling anywhere between them. Two callers and
  three PATCHes are a pause, and an activation that falls between the reads and
  the write of a rename or a reschedule.

- `Authorization`: two requests of one Run are one answered and one asked while
  the grant of the first stands; two proposals contend for one grant; a second
  Run contends for a grant that is for both. One crash falls on a turn, on a
  reconciliation or in between.
- `CodePatch`: two patches that share a file, of which one writes a file more,
  give an acceptance cut short in the middle and a restore over another patch;
  two edits are one before and one after a check. Each request is made once; an
  acceptance is repeated in one instance. Each fault happens once.

### Fairness and what the liveness properties assume

`Fairness` in `JobQueue` and `RunExecution` asks for what the code's loops give:
a lane at work goes on (each is an async function with nothing to wait for but
its own awaits), a free lane does not pass over a due job for ever (`claimNext`
orders by age; strong fairness because other jobs may occupy the lanes in
between), the loop wakes every interval, a dispatched process ends, a dropped
connection comes back, and time passes. No fairness is asked of a person, of a
failure or of a crash.

`CancellationEnds` has two premises, both stated in the formula. `Calm`: from
some point on the server stays up and is not updated, the connection holds, and
transactions succeed; without the first, a Run is cancelled anew after every
crash for ever. And no lane waits for an outcome that was lost
(`OutcomeIsReported`, section 6): nothing ends that wait.

The other modules' fairness stands in their MC modules with its reason: a launch
and whatever holds a lease go on and end; frames arrive, timers fire and the
daemon reconnects (`HostRegistry`); job workers go on, the pass of the scheduler
comes every minute, the quota window resets and a paused group is taken up again
(`Delegation`); Runs end and are finalized, the scan comes every sixty seconds
and people answer what waits for them (`ExecutionGraph`); merge jobs, the host
and the Run go on (`TaskMerge`); requests are handled or time out, stages and
Runs end, the sweep comes (`Deployment`; a deployer need not come back); the
clock and the scan go on (`AutomationSchedule`); turns end, what the dead held is
reclaimed and jobs are served (`Authorization`). `GraphEnds` assumes that the
automation stays active in the end, `MergesEnd` that the Task stays done or
stays open. All of it is weak fairness.

The switches of `RunExecution`: `Stalls` FALSE excludes a live lane that
outlasts its lease or is still at work when the stale-preparation hour is over;
`EarlyFaults` FALSE excludes exceptions of the handler before `executeRun` took
charge; `Hasty` FALSE excludes a resume in the window in which the job that held
the Run, or a request to cancel it, is still being completed. Whatever the
switches, `AttemptsAgree`, `EndStands` and the promise of the Run are proved;
with `Stalls` FALSE, whatever the other two, `LockIsSound` and
`ProcessesAreTheRuns`; and with `Hasty` FALSE too, `StopIsConfirmed` (section 4). `Stalls` FALSE is what the code's
leases are designed to give, and not what it can enforce.

## 4. Theorems

All are checked by the TLA+ proof system, for every value of the constants.

`JobQueue_proofs`. The inductive invariant is `TypeOK` joined with, for each
row, `SoundRow`: a pending row has budget left and no holder, and a held row has
a holder and at least one attempt. Neither half is inductive alone: that a
failed row returns to pending within the budget needs the bound on attempts, and
that the reclaim may give an attempt back needs that one was counted. Lemmas
show that each statement writes a sound row over a sound row it matches; the
step lemma then has one case per action.

- `TypeCorrect`, `NoJobIsStranded`: corollaries of the invariant.
- `ExclusionOfLanes`: `SteadyLanesAreAlone`, that two lanes never work on one job
  where no lane outlasts its lease. The invariant adds that a lane at work holds
  the row it works on, with a fresh lease; then two lanes on one job would both
  be its holder.
- `QueueKeepsPromise`: `Spec => JobPromise!Spec` under the mapping that forgets
  leases, budgets and scheduling. Each action of the queue is a step of the
  promise or a stutter.

`RunExecution_proofs`. The proof goes through the statements of `RunRows` and
not through the actions: `Moves(r, s)` lists by which statement, under which
guard, a step may take the Run from `r` to `s`; every action is shown to be one
of them (`StepsMoveTheRun`), and each of them to keep a Run sound
(`MovesKeepRunsSound`). The inductive invariant `IInv` joins: `SoundRun` (the
Run has its type, `AttemptsAgree`, and a held Run's attempt is finalized and
decided, which a resume relies on when it supersedes it), what each lane carries
(`SoundLane`: an outcome of the right kind where one is published, an attempt in
range where one is bound), and that an attempt a lane or the loop is about to
supervise was finalized (`Supervises`). The last is what makes `AttemptsAgree`
inductive: the decision marks the attempt decided and opens the next, and only
this says that it was finalized first. It survives the steps of everybody else
because no statement lowers the attempt number or takes a finalization back
(`Monotone`, `UsableStays`).

- `AttemptsAlwaysAgree`: `AttemptsAgree`, with stalls, early faults and hasty
  resumes, for any number of lanes, jobs, attempts and tries.
- `ExecutionKeepsRunPromise`: `Spec => RunPromise!Spec` likewise, under the mapping
  that shows each attempt's status, with orphaned as failed, and which attempts
  were finalized and decided on. `Moves` makes it short: each statement of
  `RunRows` is one step of the promise, and only `bindAttemptLaunch` a stutter.
  It says more than `EndStands`: a superseded attempt stands too, a failure is
  decided on once, after its effects were made, and another attempt is queued only
  behind such a decision or a resume. An end may come from any open state, and
  from a hold that a person abandons. No run states it, for it would add half
  again to the time of `RunExecutionSafety`; TLC found it to hold on that instance.
- `EndsStand`: `EndStands`. Each writer of the Run has a guard that excludes a
  success and a cancellation.

About the lock and the processes it has three invariants more, each on the one
before, under `~Stalls`. `HInv` says who holds what: a lane that works holds its job with a
fresh lease, no two lanes work on one job, the lock belongs to the one lane that
executes or to a dead worker that still holds the job it was taken with, and the
recovery loop has listed nothing that is held. Exclusion alone is not inductive:
the lock is freed by way of a job, so that its job is held has to be carried
along. `PInv` says that what the executing lane carries is still true when it
acts on it: the attempt it bound is open until it published, its launch is the
one recorded, and no process of an attempt outlives the outcome that was
reported of it. `CInv` follows a cancellation: a Run being cancelled ends without
a retry, and once the abort has passed, no lane may still launch.

- `LockIsAlwaysSound`: `LockIsSound`.
- `ProcessesAreAlwaysTheRuns`: `ProcessesAreTheRuns`.
- `StopsAreAlwaysConfirmed`: `StopIsConfirmed`, under `~Hasty` as well. With a
  resume beside a cancellation that is under way, the request finds a Run that
  has begun another attempt, and `CInv` fails.

`HostLaunch_proofs`, first part. A change of the table is a change of one lease at a
time, so the proof first shows, for any lease, what giving it up and letting in
the front of its queue make of it: a lease that was sound is settled again
(`Sound`, `Settled`, `Freed`). The invariant `LInv` then ties the leases to the
attempts: whoever holds is in the lease's holders, and a granted attempt is
already, though it has not noticed (`HoldersAreTrue`); a writer's lease is
exclusive; a queue holds only who waits, for the next of his leases
(`QueuesAreTrue`). A stop may come between a grant and its notice, and only
`HoldersAreTrue` says that there is then a lease to give back.

- `TableIsAlwaysExact`: `TableIsExact`, for any plan of who writes and reads
  what. It is a theorem of `LeaseSpec`, the table and its users by themselves.
- `LeasesAreServedInOrder`: nobody is given a lease past somebody who asked for
  it earlier and still waits.

Second part. Under `HostLaunch` the same table is used by launches that are
stopped at any phase, whose exit cleanup keeps leases, and by maintenance, and
`LInv` holds of it still: what a step of the daemon does to the table is a step
of `LocationLeases` or, for a stop, one wait given up. `HInv` adds
what the phase of a launch tells of its leases (`PhasesAgree`): all of its plan
is held from the grant until they are given back, whatever becomes of the process
in between. It adds that a launch which was stopped before its process is still
known as stopped (`StopsAreKept`), and that whoever is complete has said so
(`AnswersAreGiven`). That a process is never beside another that writes its
directories then follows from the exclusiveness of a writer's lease.

- `ProcessesAreAlwaysGuarded`: `ProcessIsGuarded`. `TableIsExactUnderLaunches`:
  `TableIsExact` of `HostSpec`. `NobodyIsEverPassedOver`: `NobodyIsPassedOver`.

Third part, of `HostRequests`. Each request has an entry on the server, a
counterpart on the host, and frames between them that may still be on their way
when either changes its mind; the invariant tells them apart by what the frames
say. `Story` is the life of one request across the four: what was answered is
over on the host, and what the server has closed is over there too, or its
cancel is on the way. `Dialogue` is the calls of a source: while the connection
lasts, the host's count and the server's are the same or differ by the one frame
that is between them. A step puts frames at one end of a queue and takes them
from the other, so the lemmas are about what that does to `Story` and `Dialogue`
of the one request concerned, and of the others.

- `RequestsStayInStep`: `SidesInStep` of `HostRequests`, for any requests, calls
  and losses. Its one hypothesis, `RequestsApart`, says that tool operations,
  sessions and sources are different requests and that the bounds are numbers;
  that module has no ASSUME, since `MCHostRegistry` takes it by INSTANCE.

`HostRegistry_proofs`. What the registry does to its slots is a composition of
functions on its dispatches, waiters and frames (`Started`, `Admitted`, `Filled`,
`Ended`, `Terminated`), so it is first proved on such values: each function
takes a sound registry to a sound one, and when one leaves a slot free while
somebody waits, `Room(s, m)` counts how many, until `Filled` has taken them. The
first invariant `SInv` is `Sorted` (a dispatch is its Run's; lines are queued only
offline), `Exact` (an unsettled attempt is the one its Run waits for or stands
in the queue once, and never both) and `Room(s, 0)`: while anybody waits, every
slot is taken. Exactness of the slots is not inductive without `Exact`: that an
end frees one slot and not two, or none, rests on each attempt standing in one
place.

The second invariant follows an attempt over both sides. Every change the
registry makes is an `Advance`: it sends launches only of attempts that it never
called before, each once, and stops only of attempts it called. With that, `Truth`
joins to `SInv`:

- `StartedOnce`: a launch is on its way at most once, never to a host that has
  the attempt already, and a stop is always behind it;
- `EndedIsGone`: whatever was reported or confirmed to have ended is not on the
  host, and no launch of it is on the way, so it can never come back;
- `Turns`: the last launch sent of a Run is the attempt the Run waits for, and a
  typed line precedes every later launch of that Run;
- `Lines`: the lines an attempt has read, those on their way and those still
  queued are increasing, in that order;
- `Owes`: with at most one loss or restart, the stop of an attempt that was
  given up is owed until the daemon is back, and then it is on its way or has
  arrived. With more the code owes less, and the property says so too.

The results are:

- `SlotsAreAlwaysExact`: `SlotsAreExact`. `SaidIsAlwaysSo`: `SaidIsSo`. Both are
  for any cap, any attempts of any Runs, losses, restarts and lines.

`Approvals_proofs`, first part: `CodePatch`. `SInv` is the shape: at most one request holds a proposal's
row; a request that goes on without it was overtaken; snapshots hold what the
accepting request read. `EInv` says what a file holds that a request has checked
and nobody overtook. From these two, edits stand. A status is about all patches
at once, and needs a third: `LInv` says that for each file there is a set `S` of
patches that are in it (`Ledger`). Each patch in `S` replaced a content that no
other in `S` replaced and that, if it is a patch's, is in `S` as well (`Traced`);
a request at work has its patch in `S` as far as it has written (`Follows`); and
whoever is not in progress is in `S` as its status says (`Settled`). The set is
not a function of the files, since a patch is in a file also under the patches
made over it; and it changes with each write, so a step's proof names the new
one. `LInv` ends with the first fault or race, as the statement does.

- `ShapeHolds`: `SInv` and `EInv` in every state.
- `EditsAlwaysStand`: `EditsStand`. `StatusIsAlwaysTrue`: `StatusIsTrue`. Both are
  for any number of patches of the same files, and of requests on one patch.

Second part: `Authorization`. An acceptance takes the grant's row and the proposal's,
and writes both at the end. The invariant says what they still are meanwhile:
the grant is active with a use left, the proposal is pending, and no other call
holds that grant (`HoldsWhatItUses`, `HeldOnce`). With it, that the uses counted
are the proposals accepted is inductive.

- `GrantsAreAlwaysSpentAsGiven`: `GrantsAreSpentAsGiven`.
- `TakenUpWithAJob`: the safety half of `ParkedRunIsAnswered`, that a Run is
  requeued together with a job.

`Deployment_proofs`. A report may be handled long after it was sent, by a row
that moved on. The invariant says of each report on its way that its event is
recorded already or is the next of its job's story (`ReportsAreDue`), and ties it
to what the deployer that sent it does now (`OpenIsAwaited`, `DeployersAgree`);
a late duplicate then changes nothing.

- `JobsAlwaysTellTheTruth`: `JobsTellTheTruth`, for any stages, deployers, losses
  and deaths.
- `EndsAreAlwaysTrue`: `EndsAreTrue`.

`Automations_proofs`, first part: `ExecutionGraph`. A reconcile is several passes over the rows in one
transaction: it projects the outcomes of Runs on nodes, blocks what a failure
cuts off, runs the action nodes and queues the Runs that became ready, a Plan
until no further node is ready, and ends the whole. The invariant is therefore a
predicate of values, `Sound(node, attempts, superseded, run)`, and each pass has
a lemma that it takes sound rows to sound rows (`ProjectedIsSound`,
`ScheduleIsSound`), whose composition is the step (`ReconcileIsSound`). `Sound`
ties each node to the attempt it waits for and each attempt to its Run, and says
that a node which began has only finished nodes before it. Which nodes a Plan's
reconcile takes is a fixed point, the set of nodes ready once what is done of
the set counts as done; that there is one for every graph, acyclic or not
(`TakenIsReady`), follows from the monotonicity of readiness.

- `NodesAreAlwaysEarned`: `NodesAreEarned`. `WhatIsOverAlwaysStays`:
  `WhatIsOverStays`. `InvariantHolds`: the invariant itself.

`Automations_proofs`, second part: `AutomationSchedule`. The rows agree in no invariant of their own: a scan,
a PATCH and a fire by hand each read them and write later. The invariant says
what each of the three carries: the scan a slot that has come and was not fired
(`ScanIsSound`, `SlotsAreFresh`); every PATCH in flight and a hand, of an
Automation that is active now, an armed one (`ReadsAreSound`), as long as no
activation has crossed them (`crossed`). Nothing bounds the number of callers
whose PATCHes overlap.

- `ScheduleAlwaysAgrees`: `ScheduleAgrees`, with the premises it states: a slot
  fires once unless one that had come was written back, and an active Automation
  is armed unless it was activated under a PATCH or a record that had begun to
  read it. `StopsStand`: `StopStands`.

`TaskMerge_proofs`. The invariant has three layers. A row of `task_merges`, its
job and the place its worker is at belong together (`RowsAreSound`): no worker is
past the preparation of a merge whose row says that it prepares, for instance,
and only a crash leaves a row under way without a job. On the host, the branch,
the merge record and main hold the same work between them (`HostIsSound`): what
is squashed into the record is on the branch or on main, and the other way round,
which is why an abort may put the record's content back and a launch may drop the
record. What landed is on main, is no longer the tip of the branch, and no commit
is made a second time (`LandedIsOver`), which is why a finish that is asked again
deletes nothing newer. The third layer says what the host may still hold for a
merge, as its row tells (`HoldsAgree`), and that a merge past its checks was
verified as the host still holds it, or is stale (`ReadyIsVerified`). It survives
the steps of other merges because each of these leaves the record of a merge not
its own as it is, or drops it (`Leaves`). `LateOnce` says that a late merge is
keyed by a Run that is over, so that the basis of a Run which settles is new.

- `MergesAlwaysAnswer`: `MergesAnswer`. `WorkIsAlwaysKept`: `WorkIsKept`, an action
  property with one lemma for each step of the host. Both are for any number of
  Runs and merges, and for lost answers, cut steps, throws and crashes together,
  which no instance combines.

The theorems assume of the constants what the modules' ASSUMEs say, each of which
types the record of an instance (`DeploymentAssumption` and the like). One says
more: `CodePatchAssumption` lets a patch write at least one file, and none twice,
as the code's collection by path gives it.

Model-checked only:

- every liveness property, and what rests on ENABLED: neither is in the proof
  system's reach;
- `QueuedRunHasJob`: its instance has two attempts, and it is false with three;
- `NothingLeftBehind`: it is false when a merge that was stopped is woken, which
  the instances do not do beside a Run that settles late (section 6);
- the invariants and action properties of `Delegation`. They rest on the order
  in which waiting Runs are admitted, a fold over them, and on who waits for whom
  up the tree of delegations, recursive functions: what these return for every
  input needs induction over data, which the installed provers cannot do.

None of the modules has a RECURSIVE operator.

## 5. Not modelled

Listed with reasons in `PROJECT.json` under "components". Most of the repository
is outside: the web client and desktop shell, the content pipelines (sources,
knowledge, memory, retrieval, reading, research), their proposals and the policy
rules.
They keep documents in single transactions, or decide over the attributes of one
request; what runs concurrently in them runs as jobs and Runs, which are
modelled, and what is left is data that a model would only repeat.

Within the modelled components:

- events, audit records, labels and read models (append-only or read-only); the
  release of the execution lock as a statement that can fail;
- chat, managed and provider-task Runs; explicit deadlines and cost budgets; hosts other than one per Run;
- in `TaskMerge`: an unusable Location, host errors other than a lost answer and
  a step cut short, the deletion of a cancelled Task's branch, the sweep, nested
  repositories, quarantine, the bound on main's moves under one merge
  (`MAX_MAIN_MOVES`), and the Supervisor's retry of a Run;
- in `ExecutionGraph`: finalization of the coordinator Run, outcome handlers of
  research, the order of locks, and the mark that archiving puts on executing
  Runs;
- in `HostRequests`: the authorization that the collection of a source awaits
  before it starts and before its result counts (`connectionRegistry.ts:1177`,
  `1223`), and the refusal of a request past `limits.requests` (`1201`);
- in `Deployment`: refusals of an update that is unsupported or while the
  deployer is offline; the answer to a request that violates the unique active
  job; a sweep of a job that is still executed. The sweep counts 60 minutes from
  the last report and a stage may take 30, so that its guard here is that the
  deployer is past executing the job. A `started` that was recorded and is
  reported again does not count (`deployment/repository.ts:256`), so retries of
  it that last long enough, and a stage after them, would reach the 60 minutes;
- in `Authorization`: grants scoped to a Project or a resource, the review of
  artifacts that parks a Run in the same status, and context egress;
- in `CodePatch`: bundles of proposals, the collection of a worktree's changes,
  the paths and links a patch may not touch, and the appliers of other
  proposals, each of which writes the database only;
- in `AutomationSchedule`: the launch that an autonomous tick makes, the PUT that
  creates or activates the autonomy Automation (`upsertAutonomyAutomation`), and
  more than one Automation.

## 6. Where the code departs from its words

Each statement below is a definition of the module named, translates what a
comment or document says, and is violated by the model of the code. The first
is a run and is listed under "findings". The others are not in a run; each can
be put into the configuration named, with the instance described, to see the
counterexample. Where a run checks a property whose instance would meet a
departure, the property has that case as a premise, which is said here.

| Statement | Where | What happens |
|---|---|---|
| `RunExecution!QueuedRunHasJob` | `runs/routes.ts:721`, run `ResumeWhileLive` | A resume takes a still-live job for its own, and the queued Run is left with none. The comment at 702 says that a Run set to queued without its job "has nothing left to run it". |
| the same, `RunExecutionSafety` with 3 attempts, 3 job rows and `UndisturbedSpec` | `runs/orchestrationService.ts:626` | A lane reads the Run as running, waits for the lock, and gets it when that attempt has ended and was requeued. The retry's job finds the lock and ends as a duplicate, and the queued Run is left with none, as `runs/repository.ts:2796` says must not be. |
| the same, `EarlyFaults` | `runs/agentRunHandler.ts:134` | The last try fails before `executeRun`, and the Run stays queued although its job ended. `RunExecutionSafety` has `EarlyFaults = FALSE`. |
| `RunExecution!CancelledOnlyAfterExit` (2 attempts) | `hosts/connectionRegistry.ts:486` | `cancelled` is published after the reconnect grace, with the process still there. |
| `RunExecution!CancellationStands` | `jobs/repository.ts:631` | Giving up a job overwrites `cancelling` with `failed`. |
| `RunExecution!OutcomeIsReported` | `host-daemon/src/reconnectableFrameSink.ts:15` | A `complete` sent while disconnected is dropped, and the dispatch waits without a timer. Premise of `CancellationEnds`; `EveryDispatchSettles` excepts lost frames. |
| `RunExecution!EndedRunIsSwept` | `runs/agentRunHandler.ts:209` | A Run orphaned with `job_exhausted` is in none of the loop's lists. |
| `RunExecution!RetryFindsNoProcess` of every attempt, not the last one only | `hosts/connectionRegistry.ts:474` | The process of an attempt given up with the connection is left on the host; a person resumes the Run, the next attempt fails and is retried beside it. |
| `HostLaunch!AbsenceIsTrue` | `host-daemon/src/execution.ts:1964` | A stop for an attempt kept for recovery is answered as if it were absent, "never while its exit cleanup still holds leases" notwithstanding. |
| `HostLaunch!DirectoryStays` | `host-daemon/src/execution.ts:1881` | A retry launched while the exit block awaits the removal of the Run's directory prepares in the directory being removed. |
| `HostRegistry!SettledIsStopped` | `hosts/connectionRegistry.ts:594` | A dispatch settled by a retry, a time limit or the grace gives its slot back while the attempt may run on; 605 says it "has stopped executing". |
| `HostRegistry!GivenUpIsStopped`, two losses | `hosts/connectionRegistry.ts:474` | Owed stops are forgotten before they are sent, and lost with the next connection. `SaidIsSo` asks it over one loss. |
| `HostRequests!SessionEndsWithConnection` | `hosts/connectionRegistry.ts:454` | A session whose socket is superseded before its close is seen is never told `host_disconnected`. |
| `Delegation!ResumedHasJob` | `runs/orchestrationService.ts:1656` | A parked Run that is requeued before its job completed is left without one. |
| `Delegation!EveryWaitEnds` (two recipients, scopes own and turn, a child) | `agentGroups/lifecycleProjector.ts:642` | A child that waits for a later recipient is overlooked when the earlier ones ended first. `DelegationMovesOn` is asked of waits for children. |
| `Delegation!ReserveHolds` (quota 1, two children, one cancel) | `rooms/quotaGate.ts:213` | A Run parked for the turn is admitted without reading the quota window again. |
| `DelegationMovesOn` with a crash in the yield | `runs/orchestrationService.ts:663` | A parent that dies between its park and the admission of its children leaves them queued. The instance `Dies` asks only that an ended child is settled. |
| `Deployment!UnattendedWaits` | `runs/agentRunHandler.ts:166` | A Run past the gate starts under an update requested after it looked. |
| `Deployment!AbandonedIsDead` with late beats | `deployment/service.ts:251` | A heartbeat given up by the deployer and handled late fails the job it is executing. `EndsAreTrue` asks it without late beats. |
| `Deployment!NoneBeside` with late beats, two deployers | `deployment/service.ts:251` | The job failed in this way frees the place of the active one: another deployer claims the next job, and two stages run side by side. `NoneBeside` asks it without late beats. |
| `ExecutionGraph!LiveRunIsAwaited` (two Agent nodes, 2 attempts, 2 physical) | `automations/workflowExecutionService.ts:485` | A reconcile from elsewhere judges a failed Run before its own supervision, which then requeues it. |
| `ExecutionGraph!EndedRootSchedulesNothing`, workflow | `automations/workflowExecutionService.ts:202` | A workflow whose coordinator was cancelled starts its next layer. `WhatIsOverStays` asks it of Plans. |
| `ExecutionGraph!ArchiveQueuesNothing` | `runs/supervisor.ts:180`, `plans/repository.ts:545` | A failed Run of an archived Project is retried; its Plan schedules the next layer. |
| `AutomationSchedule!OncePerSlot` without `~putBack`, PATCHes | `automations/repository.ts:386` | A PATCH that changes the name only writes back the schedule it read before a scan moved it on: the slot fires again. So does a reschedule or an activation that waits for the row (411) until the slot it computed has come and has been fired. |
| the same, fires by hand | `automations/repository.ts:600` | `recordFire` writes back the slot it read before a scan moved it on. |
| `AutomationSchedule!OncePerSlot`, native target and a crash | `automations/service.ts:584` | A scan that dies while a native target works has not moved the schedule on: the slot is worked again. A premise. |
| `AutomationSchedule!ActiveIsArmed` without `~crossed`, two callers | `automations/repository.ts:386` | A rename or a reschedule reads `paused` without a lock. Another PATCH activates the Automation. The first leaves the row active, since it names no status (411), and writes the schedule as paused (434): an active Automation is never due again. |
| the same, fires by hand | `automations/repository.ts:600` | `recordFire` writes back a pause that was undone meanwhile. |
| `AutomationSchedule!NativeIsTended`, digest | `informationDigest/automationTarget.ts:152` | A skipped digest is completed with an error that its statement refuses: its run stays open. `NativeIsTended` is asked of the other targets. |
| `TaskMerge!NothingLeftBehind` with a late Run | `hosts/taskMerges.ts:166` | A Run that settles under a merge that has prepared, or landed with its answer lost, is not merged. `left.lag`, `left.resumes` and lost answers are premises; a merge that was stopped and woken has the same window. |
| `TaskMerge!HeldIsAnsweredFor` with a throw and a second close | `hosts/taskMerges.ts:152` | A merge that throws on its last try fails, and the abort that follows is lost. The Task is reopened and closed again: the failed merge is superseded, its conflict stays on the host, and the next Run is refused by a merge that is finished, although the comment says that a stopped merge holds nothing on the host. A premise. |
| `TaskMerge!LateWorkIsAskedFor` with resumes | `hosts/taskMerges.ts:337` | The late merge of a resumed Run meets its own earlier basis and is dropped. |
| `TaskMerge!LandsDoneWork` | `hosts/taskMerges.ts:623` | A reopen between the look at the Task and the host's finish is not seen, and main moves. |
| `TaskMerge!NoMutualWait` | `host-daemon/src/taskWorktree.ts:1100` | A Run refused its launch by a conflict and the merge wait for each other. |
| `TaskMerge!ResumesBeforeMerge` | `runs/agentRunHandler.ts:341` | A held Run that is resumed passes a merge which is past queued. |
| `TaskMerge!UnderWayHasJob` with crashes | `hosts/taskMerges.ts:383` | A worker that dies on the last attempt leaves the merge under way without a job. |
| `Authorization!ParkedRunIsAnswered` without its case of a queued Run with no job | `runs/agentRunHandler.ts:95` | A Run is requeued after its turn gave the lock back and before that turn's job is completed: the job is taken for the Run's, as in the first line of this table. |
| `CodePatch!StatusIsTrue` without `~raced` | `projectFolders/codePatch.ts:456` | Two acceptances on one file at a time: both find the preimage, and the one that fails puts back what it found, over what the other has been accepted for. |
| `CodePatch!StatusIsTrue` with a crash | `proposals/applyService.ts:220` | The server dies between the files and the COMMIT: the proposal is pending, its content is in the files, and every later acceptance finds them stale. |
| `CodePatch!StatusIsTrue` with a lost answer | `proposals/applyService.ts:226` | A COMMIT that was made and not heard of is compensated: the proposal is accepted and the files are not. |
| `CodePatch!EditsStand` without its case of an overtaken request | `proposals/applyService.ts:592` | A file edited between the check of a rollback and its restore is overwritten; 589 says that this "would silently discard that work". |

## 7. Plan

The system's parts that have interleavings of their own are modelled. What the
runs check of the queue, the host's registry, requests, leases and launches, the
graph of an execution, the files, the grants, the deployment and the schedule is
proved as far as it is not liveness; so is what they check of a Run and of a
Task's merges, but for `QueuedRunHasJob` and `NothingLeftBehind`; of `Delegation`
nothing is (section 4). What is left, in this order:

1. `RunPromise` with what an end needs: a success only of a running attempt, which
   takes `~Stalls` and the invariants of the lock (`PInv`).
2. `Delegation`: the parts of `TurnsKept` that need neither fold nor tree (one
   writer, results told once) could be stated over the admitted set alone.
