---------------------------- MODULE RunExecution ----------------------------
(***************************************************************************)
(* How one Run is executed, stopped, retried and recovered                 *)
(* (server/src/modules/runs, jobs and hosts): the lanes of the job worker  *)
(* that run handleAgentRun and RunOrchestrationService.executeRun, a       *)
(* person's cancelRun, resume and job cancellation, the recovery loop, the *)
(* execution lock, and the host daemon that runs one process per launch    *)
(* and is reached over a connection that may drop.                         *)
(*                                                                         *)
(* Each action is one database transaction or one turn of the event loop:  *)
(* what lies between two awaits.  All lanes, requests and loops live in    *)
(* one server process and die with it; the tables and the host's processes *)
(* do not.                                                                 *)
(*                                                                         *)
(* Bounds: MaxTries attempts, the rows of Jobs (a settled job leaves its   *)
(* row to another), one cancellation request at a time.                    *)
(*                                                                         *)
(* An operator X_Slip is X with a slip in it; no specification uses one.   *)
(***************************************************************************)
EXTENDS JobRows, RunRows

CONSTANTS Jobs,         \* rows available for unsettled agent_run jobs of this Run
          Gone,         \* stands for every worker of a server process that died
          Stalls,       \* may a live lane outlast its lease, or be at work on a Run
                        \* when the hour is over that recoverStaleRuns gives it?
          EarlyFaults,  \* may the handler throw before executeRun took charge?
          Hasty         \* may a person resume a held Run while its last job, or a
                        \* cancellation of it, is still under way?

ASSUME GoneAssumption == Gone \in Workers
ASSUME SwitchesAssumption == {Stalls, EarlyFaults, Hasty} \subseteq BOOLEAN

Lanes == Workers \ {Gone}

VARIABLES run,      \* the Run and its attempts
          lock,     \* its row in run_execution_locks
          jobs,     \* its agent_run jobs
          lane,     \* where each lane is in handleAgentRun
          proc,     \* the host's process of each launch
          online,   \* is the host connected?
          owed,     \* undeliveredStops of the connection registry
          asker,    \* where cancelRun is
          sweep     \* where the recovery loop is

vars == <<run, lock, jobs, lane, proc, online, owed, asker, sweep>>
host == <<proc, online, owed>>

Absent == [status |-> "absent"]
Exists(j) == jobs[j].status # "absent"
MayWrite(w, j) == Exists(j) /\ HeldBy(jobs[j], w)

NoLock == [by |-> NoWorker]
Locked == lock # NoLock

Idle == [pc |-> "idle"]
(* `n` is the attempt a lane was admitted for or stops, `what` the outcome  *)
(* or the next step it carries, `last` whether its claim spent the budget.  *)
At(pc, l, n, what) == [pc |-> pc, job |-> l.job, last |-> l.last, n |-> n, what |-> what]
Goto(pc, l) == At(pc, l, l.n, l.what)
Leave(pc, l) == At(pc, l, 0, "none")
Works(w) == lane[w] # Idle
WorksOn(w, j) == Works(w) /\ lane[w].job = j
Is(w, pc) == Works(w) /\ lane[w].pc = pc

(* From the lock it took to what it publishes. *)
Executing(w) == lane[w].pc \in
    {"admitting", "preparing", "opening", "binding", "bound", "running", "collecting",
     "publishing", "stopping", "looking", "asking"}

Live(l) == l # NoLaunch /\ proc[l] \in {"running", "dying"}
Outcome == {"succeeded", "transient", "final"}

Init ==
    /\ run = NewRun
    /\ lock = NoLock
    /\ \E j \in Jobs : jobs = [i \in Jobs |-> IF i = j THEN NewJob(TRUE) ELSE Absent]
    /\ lane = [w \in Lanes |-> Idle]
    /\ proc = [l \in Tries |-> "none"]
    /\ online = TRUE
    /\ owed = {}
    /\ asker = [pc |-> "rest"]
    /\ sweep = [pc |-> "rest"]

-----------------------------------------------------------------------------
(* Shared writes. *)
Move(w, l) == lane' = [lane EXCEPT ![w] = l]
(* A settled row is never read again: the model drops it. *)
Kept(r) == IF r.status \in SettledStatus THEN Absent ELSE r
Write(j, r) == jobs' = [jobs EXCEPT ![j] = Kept(r)]

(* A row for a new job. *)
Free(j) == ~Exists(j) /\ (\A w \in Lanes : ~WorksOn(w, j)) /\ (Locked => lock.job # j)
EnqueueJob == \E j \in Jobs : Free(j) /\ Write(j, NewJob(TRUE))

LockWithout_Forgotten(w) == lock
LockWithout(w) == IF lock.by = w THEN NoLock ELSE lock

(* publishRunTerminal by the execution owner, and over a refusal the        *)
(* cancellation that caused it; what holds of the lock is given up.         *)
StatusOf(what) == IF what \in {"transient", "final"} THEN "failed" ELSE what
CauseOf(what) == IF what = "succeeded" THEN "none" ELSE what
PublishOwned(w, what, expected) ==
    IF Publishable(run, StatusOf(what), TRUE, Locked, expected)
    THEN run' = Published(run, StatusOf(what), CauseOf(what)) /\ lock' = NoLock
    ELSE IF run.status = "cancelling" /\ Publishable(run, "cancelled", TRUE, Locked, expected)
         THEN run' = Published(run, "cancelled", "cancelled") /\ lock' = NoLock
         ELSE run' = run /\ lock' = LockWithout(w)

(* executeRun throws: handleAgentRun ends the Run when this was the last try. *)
Thrown(l) == Leave(IF l.last THEN "exhausting" ELSE "failing", l)

(* A `complete` frame for launch l settles the dispatch that waits for it.  *)
Completing(l, what) ==
    [v \in Lanes |-> IF Is(v, "running") /\ lane[v].n = l
                     THEN At("collecting", lane[v], l, what) ELSE lane[v]]

(* The host's answer to a terminate that names launch l: a process is told  *)
(* to stop, for anything else a `complete` says that it is not there.       *)
Told(l) == [proc EXCEPT ![l] = IF @ = "running" THEN "dying" ELSE @]
AnsweredLanes(l) == IF Live(l) THEN lane ELSE Completing(l, "final")

-----------------------------------------------------------------------------
(* The worker: claim, start, and how a job is settled. *)
Claim(w, j) ==
    /\ ~Works(w)
    /\ Exists(j) /\ Claimable(jobs[j])
    /\ Write(j, Claimed(jobs[j], w))
    /\ Move(w, [pc |-> "claimed", job |-> j, last |-> jobs[j].attempts + 1 >= MaxAttempts,
                n |-> 0, what |-> "none"])
    /\ UNCHANGED <<run, lock, host, asker, sweep>>

Start(w) ==
    LET l == lane[w] IN
    /\ Is(w, "claimed")
    /\ IF Exists(l.job) /\ Startable(jobs[l.job], w)
       THEN Write(l.job, Started(jobs[l.job])) /\ Move(w, Leave("reading", l))
       ELSE UNCHANGED jobs /\ Move(w, Idle)
    /\ UNCHANGED <<run, lock, host, asker, sweep>>

Complete(w) ==
    LET l == lane[w] IN
    /\ Is(w, "completing")
    /\ IF MayWrite(w, l.job) THEN Write(l.job, Completed(jobs[l.job])) ELSE UNCHANGED jobs
    /\ Move(w, Idle)
    /\ UNCHANGED <<run, lock, host, asker, sweep>>

(* A refused deferral falls through to failJob. *)
Defer(w) ==
    LET l == lane[w] IN
    /\ Is(w, "deferring")
    /\ IF MayWrite(w, l.job)
       THEN Write(l.job, Deferred(jobs[l.job])) /\ Move(w, Idle)
       ELSE UNCHANGED jobs /\ Move(w, Leave("failing", l))
    /\ UNCHANGED <<run, lock, host, asker, sweep>>

Fail(w) ==
    LET l == lane[w] IN
    /\ Is(w, "failing")
    /\ IF MayWrite(w, l.job) THEN Write(l.job, Failed(jobs[l.job])) ELSE UNCHANGED jobs
    /\ Move(w, Idle)
    /\ UNCHANGED <<run, lock, host, asker, sweep>>

ComesDue(j) ==
    /\ Exists(j) /\ jobs[j].status = "pending" /\ ~jobs[j].due
    /\ Write(j, [jobs[j] EXCEPT !.due = TRUE])
    /\ UNCHANGED <<run, lock, lane, host, asker, sweep>>

(* The recovery loop compares with a cutoff it took before its first        *)
(* statement, so no lease expires for it between its two statements.        *)
LeaseExpires(j) ==
    /\ Exists(j) /\ Held(jobs[j]) /\ jobs[j].fresh
    /\ sweep.pc # "reclaim"
    /\ Stalls \/ ~\E w \in Lanes : jobs[j].holder = w /\ WorksOn(w, j)
    /\ Write(j, [jobs[j] EXCEPT !.fresh = FALSE])
    /\ UNCHANGED <<run, lock, lane, host, asker, sweep>>

-----------------------------------------------------------------------------
(* handleAgentRun and executeRun, up to the launch. *)

(* The Run is read.  An ended or held one is not executed. *)
ReadRun(w) ==
    LET l == lane[w] IN
    /\ Is(w, "reading")
    /\ CASE run.status = "queued" -> Move(w, At("locking", l, 0, "fresh"))
         [] run.status \in {"running", "cancelling"} -> Move(w, At("locking", l, 0, "interrupted"))
         [] OTHER -> Move(w, At("finalizing", l, 0, "completing"))
    /\ UNCHANGED <<run, lock, jobs, host, asker, sweep>>

(* An update of the instance is pending; or the Run, queued, waits for an   *)
(* earlier one of its Task.                                                 *)
NotYetItsTurn(w) ==
    /\ Is(w, "reading")
    /\ Move(w, Leave("deferring", lane[w]))
    /\ UNCHANGED <<run, lock, jobs, host, asker, sweep>>

(* The reads of handleAgentRun before its try block throw. *)
ReadThrows(w) ==
    /\ EarlyFaults
    /\ Is(w, "reading")
    /\ Move(w, Leave("failing", lane[w]))
    /\ UNCHANGED <<run, lock, jobs, host, asker, sweep>>

(* tryAcquireExecutionLock: an INSERT, one row per Run; refused, the        *)
(* execution is a duplicate.                                                *)
Acquirable(l) == ~Locked
TakeLock(w) ==
    LET l == lane[w] IN
    /\ Is(w, "locking")
    /\ IF Acquirable(l)
       THEN /\ lock' = [by |-> w, job |-> l.job]
            /\ Move(w, At(IF l.what = "fresh" THEN "admitting" ELSE "stopping", l, 0, "none"))
       ELSE UNCHANGED lock /\ Move(w, At("finalizing", l, 0, "completing"))
    /\ UNCHANGED <<run, jobs, host, asker, sweep>>

(* Authorization or the Run's contract refuses it: a failure is published. *)
Refuse(w) ==
    /\ Is(w, "admitting")
    /\ Move(w, At("publishing", lane[w], 0, "final"))
    /\ UNCHANGED <<run, lock, jobs, host, asker, sweep>>

(* Policy, the runtime context or the workspace of an admitted Run cannot   *)
(* be had: the catch block publishes a failure.                             *)
PrepareFails(w) ==
    /\ Is(w, "preparing")
    /\ Move(w, At("publishing", lane[w], lane[w].n, "final"))
    /\ UNCHANGED <<run, lock, jobs, host, asker, sweep>>

(* markRunRunning; refused, publishPendingCancellation. *)
Admit(w) ==
    LET l == lane[w] IN
    /\ Is(w, "admitting")
    /\ IF Admissible(run)
       THEN run' = Admitted(run) /\ UNCHANGED lock /\ Move(w, At("preparing", l, run.n, "none"))
       ELSE /\ IF run.status = "cancelling" THEN PublishOwned(w, "cancelled", 0)
                                            ELSE run' = run /\ lock' = LockWithout(w)
            /\ Move(w, At("finalizing", l, 0, "completing"))
    /\ UNCHANGED <<jobs, host, asker, sweep>>

(* Prepared: a cancellation that arrived meanwhile is published. *)
CheckCancelled(w) ==
    LET l == lane[w] IN
    /\ Is(w, "preparing")
    /\ IF run.status = "cancelling"
       THEN /\ PublishOwned(w, "cancelled", 0)
            /\ Move(w, At("finalizing", l, 0, "completing"))
       ELSE UNCHANGED <<run, lock>> /\ Move(w, Goto("opening", l))
    /\ UNCHANGED <<jobs, host, asker, sweep>>

(* openInvocation: from here on an abort reaches this lane. *)
OpenInvocation(w) ==
    LET l == lane[w] IN
    /\ Is(w, "opening")
    /\ Move(w, At("binding", l, l.n, "open"))
    /\ UNCHANGED <<run, lock, jobs, host, asker, sweep>>

(* bindAttemptLaunch, the last await before the launch. *)
Bind(w) ==
    LET l == lane[w] IN
    /\ Is(w, "binding")
    /\ IF Bindable(run)
       THEN run' = Bound(run, l.n) /\ Move(w, Goto("bound", l))
       ELSE run' = run /\ Move(w, At("collecting", l, l.n, "final"))
    /\ UNCHANGED <<lock, jobs, host, asker, sweep>>

(* The adapter ends on its own before the launch: the command, its inputs,  *)
(* the provider binding or the host's trust mode cannot be had.             *)
AdapterFails(w) ==
    /\ Is(w, "binding")
    /\ Move(w, At("collecting", lane[w], lane[w].n, "final"))
    /\ UNCHANGED <<run, lock, jobs, host, asker, sweep>>

(* A dispatch takes over the Run's entry in the registry. *)
Dispatched(w) ==
    [v \in Lanes |-> IF v = w THEN Goto("running", lane[w])
                     ELSE IF Is(v, "running") THEN At("collecting", lane[v], lane[v].n, "final")
                     ELSE lane[v]]

(* The daemon starts the process, or the frame was lost on a dead connection. *)
Arrivals(l) == {[proc EXCEPT ![l] = p] : p \in {"running", "none"}}

(* The launch frame leaves, unless the invocation was aborted or the host   *)
(* is offline.                                                              *)
Launch(w) ==
    LET l == lane[w] IN
    /\ Is(w, "bound")
    /\ IF l.what = "aborted" \/ ~online
       THEN UNCHANGED proc /\ Move(w, At("collecting", l, l.n, "final"))
       ELSE proc' \in Arrivals(l.n) /\ lane' = Dispatched(w)
    /\ UNCHANGED <<run, lock, jobs, online, owed, asker, sweep>>

-----------------------------------------------------------------------------
(* The stop of an interrupted attempt: abort what this process still has,   *)
(* then read the attempt, then ask the host for its exit.                   *)

(* terminate / forceTerminate of the process registry. *)
Abort ==
    LET waiting == {v \in Lanes : Is(v, "running")}
        stopped == {lane[v].n : v \in waiting}
    IN  /\ proc' = [l \in Tries |-> IF online /\ l \in stopped THEN Told(l)[l] ELSE proc[l]]
        /\ owed' = IF online THEN owed ELSE owed \cup stopped
        /\ UNCHANGED online

Aborted_RunningOnly == [v \in Lanes |->
    IF Is(v, "running") /\ online /\ ~Live(lane[v].n)
    THEN At("collecting", lane[v], lane[v].n, "final") ELSE lane[v]]

Aborted == [v \in Lanes |->
    IF Is(v, "binding") \/ Is(v, "bound") THEN At(lane[v].pc, lane[v], lane[v].n, "aborted")
    ELSE IF Is(v, "running") /\ online /\ ~Live(lane[v].n)
         THEN At("collecting", lane[v], lane[v].n, "final")
    ELSE lane[v]]

StopAborts(w) ==
    /\ Is(w, "stopping")
    /\ Abort
    /\ lane' = [Aborted EXCEPT ![w] = Leave("looking", @)]
    /\ UNCHANGED <<run, lock, jobs, asker, sweep>>

(* The latest attempt; with no launch recorded there is nothing to confirm. *)
StopLooks(w) ==
    LET l == lane[w]
        launch == Latest(run).launch
        confirmed == At("publishing", l, run.n, "orphaned")
    IN
    /\ Is(w, "looking")
    /\ IF launch = NoLaunch
       THEN UNCHANGED <<proc, lock>> /\ Move(w, confirmed)
       ELSE IF ~online
       THEN UNCHANGED proc /\ lock' = LockWithout(w) /\ Move(w, Leave("deferring", l))
       ELSE /\ UNCHANGED lock
            /\ proc' = Told(launch)
            /\ lane' = [AnsweredLanes(launch) EXCEPT
                          ![w] = IF Live(launch) THEN At("asking", l, run.n, "none") ELSE confirmed]
    /\ UNCHANGED <<run, jobs, online, owed, asker, sweep>>

StopConfirmed(w) ==
    LET l == lane[w] IN
    /\ Is(w, "asking")
    /\ online /\ ~Live(run.att[l.n].launch)
    /\ Move(w, At("publishing", l, l.n, "orphaned"))
    /\ UNCHANGED <<run, lock, jobs, host, asker, sweep>>

(* No confirmation in time: JobDeferredError, and the lock is released. *)
StopUnconfirmed(w) ==
    /\ Is(w, "asking")
    /\ lock' = LockWithout(w)
    /\ Move(w, Leave("deferring", lane[w]))
    /\ UNCHANGED <<run, jobs, host, asker, sweep>>

-----------------------------------------------------------------------------
(* The result, its publication, and what follows the end of the Run. *)

(* A Run that was parked meanwhile keeps its pause. *)
Collect(w) ==
    LET l == lane[w] IN
    /\ Is(w, "collecting")
    /\ IF run.status = "waiting_for_review"
       THEN lock' = LockWithout(w) /\ Move(w, At("finalizing", l, 0, "completing"))
       ELSE UNCHANGED lock /\ Move(w, Goto("publishing", l))
    /\ UNCHANGED <<run, jobs, host, asker, sweep>>

Expected(l) == IF l.what = "orphaned" THEN l.n ELSE 0

Publish(w) ==
    LET l == lane[w] IN
    /\ Is(w, "publishing")
    /\ PublishOwned(w, l.what, Expected(l))
    /\ Move(w, At("finalizing", l, 0, "completing"))
    /\ UNCHANGED <<jobs, host, asker, sweep>>

(* The transaction throws, and so does the catch block's: what it wrote is  *)
(* not known.  The lock is released all the same.                           *)
PublishThrows(w) ==
    LET l == lane[w] IN
    /\ Is(w, "publishing")
    /\ \/ PublishOwned(w, l.what, Expected(l))
       \/ run' = run /\ lock' = LockWithout(w)
    /\ Move(w, Thrown(l))
    /\ UNCHANGED <<jobs, host, asker, sweep>>

(* The last try threw: the Run is orphaned with its job, if nobody ended it. *)
Exhaust(w) ==
    LET l == lane[w] IN
    /\ Is(w, "exhausting")
    /\ IF Ended(run)
       THEN run' = run /\ Move(w, At("finalizing", l, 0, "failing"))
       ELSE IF Publishable(run, "orphaned", FALSE, Locked, 0)
       THEN run' = Published(run, "orphaned", "exhausted")
            /\ Move(w, At("finalizing", l, 0, "failing"))
       ELSE run' = run /\ Move(w, Leave("failing", l))
    /\ UNCHANGED <<lock, jobs, host, asker, sweep>>

(* PostRunFinalizationService: the record of the attempt, then supervision. *)
Finalize(w) ==
    LET l == lane[w] IN
    /\ Is(w, "finalizing")
    /\ IF Ended(run)
       THEN run' = WithFinal(run, run.n) /\ Move(w, At("supervising", l, run.n, l.what))
       ELSE run' = run /\ Move(w, Leave(l.what, l))
    /\ UNCHANGED <<lock, jobs, host, asker, sweep>>

(* Evaluation, the finalization lock or settlement fails: the job is tried  *)
(* again.                                                                   *)
FinalizeFails(w) ==
    /\ Is(w, "finalizing") \/ Is(w, "supervising")
    /\ Move(w, Leave("failing", lane[w]))
    /\ UNCHANGED <<run, lock, jobs, host, asker, sweep>>

(* PgRunSupervisor.supervise: the decision with its transition and, for a   *)
(* retry, the job, in one transaction.  A lock on the ended Run aborts it.  *)
Decide(n) ==
    IF Supervisable(run, n)
    THEN IF Retried(run) THEN run' = Requeued(run) /\ EnqueueJob
                         ELSE run' = OnHold(run) /\ UNCHANGED jobs
    ELSE UNCHANGED <<run, jobs>>
DecisionAborts(n) == Supervisable(run, n) /\ Retried(run) /\ Locked

Supervise(w) ==
    LET l == lane[w] IN
    /\ Is(w, "supervising")
    /\ ~DecisionAborts(l.n)
    /\ Decide(l.n)
    /\ Move(w, Leave(l.what, l))
    /\ UNCHANGED <<lock, host, asker, sweep>>

-----------------------------------------------------------------------------
(* The host daemon and the connection to it. *)

(* A process ends; its `complete` is lost while no connection is open. *)
ProcExits(l) ==
    /\ Live(l)
    /\ proc' = [proc EXCEPT ![l] = "exited"]
    /\ \E what \in Outcome : lane' = IF online THEN Completing(l, what) ELSE lane
    /\ UNCHANGED <<run, lock, jobs, online, owed, asker, sweep>>

Disconnect ==
    /\ online
    /\ online' = FALSE
    /\ UNCHANGED <<run, lock, jobs, lane, proc, owed, asker, sweep>>

(* registerConnection sends the stops that are owed. *)
Reconnect ==
    /\ ~online
    /\ online' = TRUE
    /\ owed' = {}
    /\ proc' = [l \in Tries |-> IF l \in owed THEN Told(l)[l] ELSE proc[l]]
    /\ lane' = [v \in Lanes |->
                  IF Is(v, "running") /\ lane[v].n \in owed /\ ~Live(lane[v].n)
                  THEN At("collecting", lane[v], lane[v].n, "final") ELSE lane[v]]
    /\ UNCHANGED <<run, lock, jobs, asker, sweep>>

(* The reconnect grace is over: host_disconnected, and a stop is owed. *)
GiveUp(w) ==
    LET l == lane[w] IN
    /\ Is(w, "running") /\ ~online
    /\ owed' = owed \cup {l.n}
    /\ Move(w, At("collecting", l, l.n, "final"))
    /\ UNCHANGED <<run, lock, jobs, proc, online, asker, sweep>>

-----------------------------------------------------------------------------
(* A person: cancelRun, resume and abandon of a held Run, and the           *)
(* cancellation of a job.                                                   *)
Rest == [pc |-> "rest"]
Asker(pc) == [pc |-> pc, n |-> run.n]

(* markRunCancelling; for a Run cancelled before, finalization only. *)
RequestCancel ==
    /\ asker = Rest
    /\ \/ Cancellable(run) /\ run' = Cancelling(run) /\ asker' = [pc |-> "aborting"]
       \/ run.status = "cancelled" /\ run' = run /\ asker' = [pc |-> "finalizing"]
    /\ UNCHANGED <<lock, jobs, lane, host, sweep>>

CancelAborts ==
    /\ asker.pc = "aborting"
    /\ Abort
    /\ lane' = Aborted
    /\ asker' = [pc |-> "looking"]
    /\ UNCHANGED <<run, lock, jobs, sweep>>

CancelLooks ==
    LET launch == Latest(run).launch IN
    /\ asker.pc = "looking"
    /\ IF launch = NoLaunch
       THEN UNCHANGED <<proc, lane>> /\ asker' = Asker("publishing")
       ELSE IF ~online
       THEN UNCHANGED <<proc, lane>> /\ asker' = Rest
       ELSE /\ proc' = Told(launch)
            /\ lane' = AnsweredLanes(launch)
            /\ asker' = Asker(IF Live(launch) THEN "asking" ELSE "publishing")
    /\ UNCHANGED <<run, lock, jobs, online, owed, sweep>>

CancelConfirmed ==
    /\ asker.pc = "asking"
    /\ online /\ ~Live(run.att[asker.n].launch)
    /\ asker' = [asker EXCEPT !.pc = "publishing"]
    /\ UNCHANGED <<run, lock, jobs, lane, host, sweep>>

(* cancel_confirmation_timeout: the Run stays `cancelling`. *)
CancelUnconfirmed ==
    /\ asker.pc = "asking"
    /\ asker' = Rest
    /\ UNCHANGED <<run, lock, jobs, lane, host, sweep>>

(* markRunTerminal of the attempt that was stopped, while nobody holds the  *)
(* execution lock: a lane that holds it publishes the cancellation itself.  *)
CancelPublishes ==
    /\ asker.pc = "publishing"
    /\ IF Publishable(run, "cancelled", FALSE, Locked, asker.n)
       THEN run' = Published(run, "cancelled", "cancelled") /\ asker' = [pc |-> "finalizing"]
       ELSE run' = run /\ asker' = Rest
    /\ UNCHANGED <<lock, jobs, lane, host, sweep>>

(* Best effort; a cancelled Run is not supervised. *)
CancelFinalizes ==
    /\ asker.pc = "finalizing"
    /\ \/ Ended(run) /\ run' = WithFinal(run, run.n)
       \/ run' = run
    /\ asker' = Rest
    /\ UNCHANGED <<lock, jobs, lane, host, sweep>>

(* The route's resume: the requeue and ensureAgentRunJob in one             *)
(* transaction; a live job of the Run, whichever, is taken for its own.     *)
Resume ==
    /\ Resumable(run)
    /\ Hasty \/ (asker = Rest /\ \A j \in Jobs : ~Exists(j))
    /\ run' = Resumed(run)
    /\ IF \E j \in Jobs : Exists(j) THEN UNCHANGED jobs ELSE EnqueueJob
    /\ UNCHANGED <<lock, lane, host, asker, sweep>>

(* A request that ended the Run goes on to finalize it. *)
Finalizes == asker' = IF asker = Rest THEN [pc |-> "finalizing"] ELSE asker

Abandon ==
    /\ run.status = "waiting_for_review"
    /\ Publishable(run, "cancelled", FALSE, Locked, 0)
    /\ run' = Published(run, "cancelled", "cancelled")
    /\ Finalizes
    /\ UNCHANGED <<lock, jobs, lane, host, sweep>>

EndBehindJob_StartedOnly(status, cause) ==
    run' = IF run.started /\ EndableByJob(run, Locked) THEN Published(run, status, cause) ELSE run

(* endRunBehindJob *)
EndBehindJob(status, cause) ==
    run' = IF EndableByJob(run, Locked) THEN Published(run, status, cause) ELSE run

(* cancelJob of the person's route, with the Run behind it. *)
CancelJob(j) ==
    /\ Exists(j) /\ jobs[j].status \in {"pending", "claimed"}
    /\ Write(j, Cancelled(jobs[j]))
    /\ EndBehindJob("cancelled", "cancelled")
    /\ Finalizes
    /\ UNCHANGED <<lock, lane, host, sweep>>

-----------------------------------------------------------------------------
(* The recovery loop: reclaimStuckJobs in its two statements, and the       *)
(* lifecycle replay of RunRecoveryService, whose steps are independent.     *)
Sleeping == sweep.pc = "rest"
StuckJob(j) == Exists(j) /\ Stuck(jobs[j])

(* deleteOrphanRunExecutionLocks *)
DeleteOrphanLock ==
    /\ Sleeping
    /\ \E j \in Jobs : StuckJob(j)
    /\ lock' = IF Locked /\ StuckJob(lock.job) THEN NoLock ELSE lock
    /\ sweep' = [pc |-> "reclaim"]
    /\ UNCHANGED <<run, jobs, lane, host, asker>>

(* The reclaim transaction, and the Runs behind the jobs it gave up. *)
Interrupted == run.status \in {"running", "cancelling"} /\ Latest(run).launch # NoLaunch
Reclaim ==
    /\ sweep.pc = "reclaim"
    /\ jobs' = [j \in Jobs |-> IF StuckJob(j) THEN Kept(Reclaimed(jobs[j], Interrupted)) ELSE jobs[j]]
    /\ IF \E j \in Jobs : StuckJob(j) /\ Reclaimed(jobs[j], Interrupted).status = "failed"
       THEN EndBehindJob("failed", "abandoned") ELSE run' = run
    /\ sweep' = Rest
    /\ UNCHANGED <<lock, lane, host, asker>>

ReclaimThrows ==
    /\ sweep.pc = "reclaim"
    /\ sweep' = Rest
    /\ UNCHANGED <<run, lock, jobs, lane, host, asker>>

EnsureJob_StartedOnly ==
    /\ Sleeping
    /\ run.status = "cancelling" /\ run.started /\ \A j \in Jobs : ~Exists(j)
    /\ EnqueueJob
    /\ UNCHANGED <<run, lock, lane, host, asker, sweep>>

(* cancellation_intent: a cancelling Run without a live job gets one. *)
EnsureJob ==
    /\ Sleeping
    /\ run.status = "cancelling" /\ \A j \in Jobs : ~Exists(j)
    /\ EnqueueJob
    /\ UNCHANGED <<run, lock, lane, host, asker, sweep>>

(* stale_preparation: an hour passed since the Run started. *)
RecoverStale ==
    /\ Sleeping
    /\ Stale(run)
    /\ Stalls \/ \A w \in Lanes : ~Executing(w) /\ ~Is(w, "locking")
    /\ run' = Recovered(run)
    /\ lock' = NoLock
    /\ UNCHANGED <<jobs, lane, host, asker, sweep>>

(* orphaned_finalization, task_finalization and settlement: which ended     *)
(* Runs the loop lists.                                                     *)
Listed ==
    \/ run.status = "orphaned" /\ run.cause = "orphaned" /\ ~Finalized(run)
    \/ Ended(run) /\ run.status # "orphaned" /\ ~Finalized(run)
    \/ Ended(run) /\ Finalized(run) /\ Supervisable(run, run.n)

SweepFinalizes ==
    /\ Sleeping
    /\ Listed
    /\ run' = WithFinal(run, run.n)
    /\ sweep' = [pc |-> "supervise", n |-> run.n]
    /\ UNCHANGED <<lock, jobs, lane, host, asker>>

SweepSupervises ==
    /\ sweep.pc = "supervise"
    /\ IF DecisionAborts(sweep.n) THEN UNCHANGED <<run, jobs>> ELSE Decide(sweep.n)
    /\ sweep' = Rest
    /\ UNCHANGED <<lock, lane, host, asker>>

(* The server process dies and starts again, with fresh worker identities.  *)
(* What its lanes held belongs to workers that are gone.                    *)
ServerCrash ==
    /\ lane' = [w \in Lanes |-> Idle]
    /\ jobs' = [j \in Jobs |-> IF Exists(j) /\ jobs[j].holder \in Lanes
                               THEN [jobs[j] EXCEPT !.holder = Gone] ELSE jobs[j]]
    /\ lock' = IF Locked THEN [lock EXCEPT !.by = Gone] ELSE lock
    /\ owed' = {}
    /\ asker' = Rest
    /\ sweep' = Rest
    /\ UNCHANGED <<run, proc, online>>

-----------------------------------------------------------------------------
Execute(w) ==
    \/ ReadRun(w) \/ NotYetItsTurn(w) \/ ReadThrows(w) \/ TakeLock(w)
    \/ Refuse(w) \/ Admit(w) \/ PrepareFails(w) \/ CheckCancelled(w) \/ OpenInvocation(w)
    \/ AdapterFails(w) \/ Bind(w) \/ Launch(w) \/ GiveUp(w)
    \/ StopAborts(w) \/ StopLooks(w) \/ StopConfirmed(w) \/ StopUnconfirmed(w)
    \/ Collect(w) \/ Publish(w) \/ PublishThrows(w) \/ Exhaust(w)
    \/ Finalize(w) \/ FinalizeFails(w) \/ Supervise(w)

Work(w) ==
    \/ Start(w) \/ Complete(w) \/ Defer(w) \/ Fail(w)
    \/ Execute(w)

Person ==
    \/ RequestCancel \/ CancelAborts \/ CancelLooks \/ CancelConfirmed
    \/ CancelUnconfirmed \/ CancelPublishes \/ CancelFinalizes
    \/ Resume \/ Abandon
    \/ \E j \in Jobs : CancelJob(j)

Recovery ==
    \/ DeleteOrphanLock \/ Reclaim \/ ReclaimThrows
    \/ EnsureJob \/ RecoverStale \/ SweepFinalizes \/ SweepSupervises

Next ==
    \/ \E w \in Lanes : Work(w) \/ \E j \in Jobs : Claim(w, j)
    \/ \E j \in Jobs : ComesDue(j) \/ LeaseExpires(j)
    \/ \E l \in Tries : ProcExits(l)
    \/ Disconnect \/ Reconnect
    \/ Person \/ Recovery
    \/ ServerCrash

(* The host comes back; each lane, request and loop goes on; a dispatched   *)
(* process ends; time passes.  A due job is not passed over for ever.       *)
Fairness ==
    /\ WF_vars(Reconnect)
    /\ \A l \in Tries : WF_vars(ProcExits(l))
    /\ \A w \in Lanes : WF_vars(Work(w))
    /\ \A j \in Jobs : /\ WF_vars(ComesDue(j)) /\ WF_vars(LeaseExpires(j))
                       /\ SF_vars(\E w \in Lanes : Claim(w, j))
    /\ WF_vars(Reclaim) /\ WF_vars(SweepSupervises) /\ SF_vars(DeleteOrphanLock)
    /\ SF_vars(EnsureJob)
    /\ WF_vars(CancelAborts \/ CancelLooks \/ CancelPublishes)
    /\ WF_vars(CancelConfirmed \/ CancelUnconfirmed) /\ WF_vars(CancelFinalizes)

Spec == Init /\ [][Next]_vars
FairSpec == Spec /\ Fairness

-----------------------------------------------------------------------------
(* Types. *)
TypeOK ==
    /\ run \in Run
    /\ jobs \in [Jobs -> JobRow \cup {Absent}]
    /\ lock \in {NoLock} \cup [by : Workers, job : Jobs]
    /\ proc \in [Tries -> {"none", "running", "dying", "exited"}]
    /\ online \in BOOLEAN /\ owed \subseteq Tries

(* The Run and its attempts never disagree, whatever the order in which      *)
(* lanes, persons and the loop write: the latest attempt has the Run's       *)
(* status, and an attempt is superseded only once it failed, was finalized   *)
(* and decided on.                                                           *)
AttemptsAgree ==
    /\ Latest(run).status = run.status
    /\ \A i \in Tries :
         /\ i < run.n => /\ run.att[i].status \in {"failed", "orphaned"}
                         /\ run.att[i].final /\ run.att[i].decided
         /\ i > run.n => run.att[i] = NoAttempt

(* Two lanes never execute the Run at once: the second job that a retry or   *)
(* an ensured cancellation brings finds the lock, and the lock is taken      *)
(* from its holder only when nobody executes under it.                       *)
OneExecutor == \A v, w \in Lanes : Executing(v) /\ Executing(w) => v = w

(* No lock outlives what could release it: its job is held by the worker     *)
(* that took it, so a dead worker's lock is found by way of its stale job.   *)
LockIsRecoverable ==
    Locked => /\ Exists(lock.job) /\ Held(jobs[lock.job])
              /\ jobs[lock.job].holder = lock.by

(* The lock of the Run: it excludes, and it is found again.                  *)
LockIsSound == TypeOK /\ OneExecutor /\ LockIsRecoverable

(* A queued Run has a job that will perform it: nothing else would.          *)
QueuedRunHasJob == run.status = "queued" => \E j \in Jobs : Exists(j)

(* A stop that counts as confirmed is one: whoever may now publish an end     *)
(* for the attempt it stopped, the lane that found it interrupted or a       *)
(* person's cancelRun, does so with no process of that attempt left, nor     *)
(* with a lane that could still launch one.                                  *)
StopIsConfirmed ==
    LET exited(owner, n) ==
            Publishable(run, "cancelled", owner, Locked, n) =>
                /\ ~Live(Latest(run).launch)
                /\ \A v \in Lanes : ~(Is(v, "bound") /\ lane[v].what = "open")
    IN  /\ asker.pc = "publishing" => exited(FALSE, asker.n)
        /\ \A w \in Lanes : Is(w, "publishing") /\ lane[w].what = "orphaned"
                             => exited(TRUE, lane[w].n)

(* A process is started only for the attempt that is current and open, and   *)
(* that records its launch: the host's uploads are accepted by that nonce.   *)
LaunchIsRecorded ==
    [][\A l \in Tries : proc[l] # "running" /\ proc'[l] = "running" =>
         /\ run.n = l /\ ~Ended(run) /\ Latest(run).launch = l]_vars

(* The Supervisor starts another attempt only when no process of the one it  *)
(* decided on is left on the host: they would share a worktree.  A process   *)
(* that was given up with the connection, and whose Run a person resumed,    *)
(* may be left of an attempt before that.                                    *)
RetryFindsNoProcess ==
    [][Ended(run) /\ run'.status = "queued" => ~Live(run.n)]_vars

(* A process belongs to the attempt the Run has now.                         *)
ProcessesAreTheRuns == LaunchIsRecorded /\ RetryFindsNoProcess

(* A success and a cancellation are final.                                   *)
EndStands ==
    [][run.status \in {"succeeded", "cancelled"} => run'.status = run.status]_vars

(* The Run keeps the promise stated in RunPromise.  An attempt that was left *)
(* behind counts as failed.                                                  *)
Seen(status) ==
    CASE status = "orphaned" -> "failed"
      [] status = "cancelling" -> "stopping"
      [] status = "waiting_for_review" -> "held"
      [] OTHER -> status
States(r) == [i \in Tries |-> Seen(r.att[i].status)]
Finals(r) == {i \in Tries : r.att[i].final}
Decisions(r) == {i \in Tries : r.att[i].decided}

Promise == INSTANCE RunPromise WITH
    state <- States(run), latest <- run.n, final <- Finals(run), decided <- Decisions(run)

(* Whatever lanes, persons and the recovery loop still write, a success, a   *)
(* cancellation and a superseded attempt stand; a failure is decided on      *)
(* once, after its effects were made, and only then is another attempt       *)
(* queued (runs/repository.ts:2059-2176, 2305-2354; supervisor.ts:50-146).   *)
KeepsRunPromise == Promise!Spec

(* The server stays up, the connection holds, transactions succeed, and no   *)
(* instance update defers a Run that is to be cancelled.                     *)
Calm ==
    /\ ~ServerCrash /\ ~Disconnect /\ ~ReclaimThrows
    /\ \A w \in Lanes : /\ ~ReadThrows(w) /\ ~PublishThrows(w) /\ ~FinalizeFails(w)
                        /\ NotYetItsTurn(w) => run.status = "queued"
(* A lane waits for an outcome that was lost (OutcomeIsReported).            *)
WaitsInVain(w) == online /\ Is(w, "running") /\ ~Live(lane[w].n)
(* A requested cancellation comes to an end, by cancelRun, by the lane that  *)
(* executes or by the job that recovery ensures                              *)
(* (orchestrationService.ts:1737-1760, runs/recovery.ts:25-34), once calm    *)
(* lasts and no outcome was lost.                                            *)
CancellationEnds ==
    <>[][Calm]_vars /\ <>[](\A w \in Lanes : ~WaitsInVain(w))
        => (run.status = "cancelling" ~> run.status # "cancelling")

-----------------------------------------------------------------------------
(* What the documents say, and the code does not do. *)

(* RUNS_AND_OUTPUTS.md: a Run is marked `cancelled` only after the daemon     *)
(* confirmed the exit of its process.  A lane whose reconnect grace is over   *)
(* publishes a cancellation with the process still there.                     *)
CancelledOnlyAfterExit ==
    [][run.status # "cancelled" /\ run'.status = "cancelled" => ~Live(Latest(run).launch)]_vars

(* executeRun: a failure cannot be published over a cancellation that         *)
(* arrived first.  The reclaim of a job that spent its budget publishes one.  *)
CancellationStands ==
    [][run.status = "cancelling" => run'.status \in {"cancelling", "cancelled"}]_vars

(* HostConnectionRegistry: a process that outlives a brief disconnect reports *)
(* its real outcome once reconnected, so nobody waits for one that exited.    *)
(* The `complete` of a process that exits meanwhile is dropped.               *)
OutcomeIsReported ==
    \A w \in Lanes : online /\ Is(w, "running") => proc[lane[w].n] # "exited"

(* Recovery finalizes an ended Run that nobody finalized, whatever path ended *)
(* it: it is in a list of the loop, or somebody is still about to finalize    *)
(* it.  A Run orphaned with its last job is in neither list.                  *)
Finalizing(pc) == pc \in {"publishing", "collecting", "finalizing", "exhausting"}
EndedRunIsSwept ==
    Ended(run) /\ ~Finalized(run) =>
        \/ Listed \/ (\E j \in Jobs : Exists(j)) \/ asker.pc = "finalizing"
        \/ \E w \in Lanes : Finalizing(lane[w].pc)
=============================================================================
