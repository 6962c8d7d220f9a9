----------------------------- MODULE JobQueue -----------------------------
(***************************************************************************)
(* The job queue of the Rainver server: the table `jobs` and the worker    *)
(* lanes that run JobWorker.processOne over it (server/src/modules/jobs).  *)
(*                                                                         *)
(* A lane is modelled statement by statement: between two of its SQL       *)
(* statements every other lane, a person's cancellation and the recovery   *)
(* loop's reclaim may run.  A lane dies with its process; its row stays    *)
(* claimed until its lease is stale.  A lane whose heartbeats do not reach *)
(* the database (a stall longer than the cutoff) also goes stale, and goes *)
(* on working on a job that may have been given to somebody else.          *)
(*                                                                         *)
(* What a handler does is chosen freely: it returns, throws, or throws a   *)
(* JobDeferredError; an agent_run handler may have dispatched a process    *)
(* whose stop must be reconciled before the job is tried again.            *)
(***************************************************************************)
EXTENDS JobRows

CONSTANTS Jobs,             \* the jobs that may be enqueued
          AgentJobs,        \* those of type agent_run
          CancellableFrom   \* the statuses cancelJob is called with

ASSUME AgentJobsAssumption == AgentJobs \subseteq Jobs
ASSUME CancellableFromAssumption == CancellableFrom \subseteq {"pending", "claimed", "running"}

VARIABLES jobs,         \* the table: a row, or Absent
          lane,         \* what each lane is doing, and on which job
          dispatched,   \* agent_run jobs whose Run has a launched, unsettled process
          stalls        \* fixed from the start: may a live lane's heartbeats fail for
                        \*   longer than the cutoff?

table == <<jobs, lane, dispatched>>
vars == <<table, stalls>>

Absent == [status |-> "absent"]
Exists(j) == jobs[j].status # "absent"

Phases == {"claimed", "handling", "completing", "deferring", "failing"}
Idle == [phase |-> "idle"]
Dead == [phase |-> "dead"]
At(phase, j) == [phase |-> phase, job |-> j]
Working == {At(p, j) : p \in Phases, j \in Jobs}
Busy(w) == lane[w].phase \in Phases
WorksOn(w, j) == Busy(w) /\ lane[w].job = j

Init ==
    /\ jobs = [j \in Jobs |-> Absent]
    /\ lane = [w \in Workers |-> Idle]
    /\ dispatched = {}
    /\ stalls \in BOOLEAN

-----------------------------------------------------------------------------
(* Writes of one row, and moves of one lane. *)
Write(j, r) == jobs' = [jobs EXCEPT ![j] = r]
Goto(w, l) == lane' = [lane EXCEPT ![w] = l]

(* A producer inserts a job, due now or scheduled for later. *)
Enqueue(j) ==
    /\ ~Exists(j)
    /\ \E due \in BOOLEAN : Write(j, NewJob(due))
    /\ UNCHANGED <<lane, dispatched>>

(* scheduled_at passes. *)
ComesDue(j) ==
    /\ Exists(j)
    /\ jobs[j].status = "pending"
    /\ ~jobs[j].due
    /\ Write(j, [jobs[j] EXCEPT !.due = TRUE])
    /\ UNCHANGED <<lane, dispatched>>

(* claimNext: FOR UPDATE SKIP LOCKED takes one due row with budget left. *)
Claim(w, j) ==
    /\ lane[w] = Idle
    /\ Exists(j) /\ Claimable(jobs[j])
    /\ Write(j, Claimed(jobs[j], w))
    /\ Goto(w, At("claimed", j))
    /\ UNCHANGED dispatched

(* startJob; refused when ownership or status changed, and the lane goes on. *)
Start(w, j) ==
    /\ lane[w] = At("claimed", j)
    /\ IF Startable(jobs[j], w)
       THEN Write(j, Started(jobs[j])) /\ Goto(w, At("handling", j))
       ELSE UNCHANGED jobs /\ Goto(w, Idle)
    /\ UNCHANGED dispatched

(* startJob throws: a lost answer may follow a committed write. Also the way *)
(* of a job type without a handler, which is failed before it is started.    *)
StartThrows(w, j) ==
    /\ lane[w] = At("claimed", j)
    /\ \/ Startable(jobs[j], w) /\ Write(j, Started(jobs[j]))
       \/ UNCHANGED jobs
    /\ Goto(w, At("failing", j))
    /\ UNCHANGED dispatched

(* The handler's promise settles: a result, a JobDeferredError, any other error. *)
HandlerEnds(w, j) ==
    /\ lane[w] = At("handling", j)
    /\ \E p \in {"completing", "deferring", "failing"} : Goto(w, At(p, j))
    /\ UNCHANGED <<jobs, dispatched>>

(* The handler binds a launch: a process now runs outside this server. *)
HandlerDispatches(w, j) ==
    /\ lane[w] = At("handling", j)
    /\ j \in AgentJobs \ dispatched
    /\ dispatched' = dispatched \cup {j}
    /\ UNCHANGED <<jobs, lane>>

(* The handler has the stop confirmed, or publishes the Run's end. *)
HandlerReconciles(w, j) ==
    /\ lane[w] = At("handling", j)
    /\ j \in dispatched
    /\ dispatched' = dispatched \ {j}
    /\ UNCHANGED <<jobs, lane>>

(* completeJob *)
Complete(w, j) ==
    /\ lane[w] = At("completing", j)
    /\ IF HeldBy(jobs[j], w) THEN Write(j, Completed(jobs[j])) ELSE UNCHANGED jobs
    /\ Goto(w, Idle)
    /\ UNCHANGED dispatched

(* completeJob throws, written or not, and the catch block fails the job. *)
CompleteThrows(w, j) ==
    /\ lane[w] = At("completing", j)
    /\ \/ HeldBy(jobs[j], w) /\ Write(j, Completed(jobs[j]))
       \/ UNCHANGED jobs
    /\ Goto(w, At("failing", j))
    /\ UNCHANGED dispatched

(* deferJob; refused, the same catch block goes on to failJob. *)
Defer(w, j) ==
    /\ lane[w] = At("deferring", j)
    /\ IF HeldBy(jobs[j], w)
       THEN Write(j, Deferred(jobs[j])) /\ Goto(w, Idle)
       ELSE UNCHANGED jobs /\ Goto(w, At("failing", j))
    /\ UNCHANGED dispatched

(* failJob *)
Fail(w, j) ==
    /\ lane[w] = At("failing", j)
    /\ IF HeldBy(jobs[j], w) THEN Write(j, Failed(jobs[j])) ELSE UNCHANGED jobs
    /\ Goto(w, Idle)
    /\ UNCHANGED dispatched

(* deferJob or failJob throws out of processOne: the pool logs it and the   *)
(* lane asks for its next job; what the statement did is not known.         *)
SettleThrows(w, j) ==
    /\ \/ /\ lane[w] = At("deferring", j)
          /\ \/ HeldBy(jobs[j], w) /\ Write(j, Deferred(jobs[j]))
             \/ UNCHANGED jobs
       \/ /\ lane[w] = At("failing", j)
          /\ \/ HeldBy(jobs[j], w) /\ Write(j, Failed(jobs[j]))
             \/ UNCHANGED jobs
    /\ Goto(w, Idle)
    /\ UNCHANGED dispatched

(* touchHeartbeat, every 30 seconds while the handler runs, not awaited. *)
Heartbeat(w, j) ==
    /\ lane[w] = At("handling", j)
    /\ HeldBy(jobs[j], w)
    /\ ~jobs[j].fresh
    /\ Write(j, Beaten(jobs[j]))
    /\ UNCHANGED <<lane, dispatched>>

(* cancelJob of the person's route, whatever lane holds the row. *)
Cancel(j) ==
    /\ Exists(j)
    /\ jobs[j].status \in CancellableFrom
    /\ Write(j, Cancelled(jobs[j]))
    /\ UNCHANGED <<lane, dispatched>>

(* The cutoff passes the row's last sign of life. *)
LeaseExpires(j) ==
    /\ Exists(j) /\ Held(jobs[j]) /\ jobs[j].fresh
    /\ stalls \/ ~WorksOn(jobs[j].holder, j)
    /\ Write(j, [jobs[j] EXCEPT !.fresh = FALSE])
    /\ UNCHANGED <<lane, dispatched>>

(* reclaimStuckJobs: one statement over every stuck row. *)
Reclaim ==
    /\ \E j \in Jobs : Exists(j) /\ Stuck(jobs[j])
    /\ jobs' = [j \in Jobs |-> IF Exists(j) /\ Stuck(jobs[j])
                               THEN Reclaimed(jobs[j], j \in dispatched)
                               ELSE jobs[j]]
    /\ UNCHANGED <<lane, dispatched>>

(* The server process stops without notice, and comes back. *)
Crash(w) ==
    /\ lane[w] # Dead
    /\ Goto(w, Dead)
    /\ UNCHANGED <<jobs, dispatched>>

Restart(w) ==
    /\ lane[w] = Dead
    /\ Goto(w, Idle)
    /\ UNCHANGED <<jobs, dispatched>>

-----------------------------------------------------------------------------
LaneStep(w, j) ==
    \/ Start(w, j) \/ StartThrows(w, j)
    \/ HandlerEnds(w, j) \/ HandlerDispatches(w, j) \/ HandlerReconciles(w, j)
    \/ Complete(w, j) \/ CompleteThrows(w, j)
    \/ Defer(w, j) \/ Fail(w, j) \/ SettleThrows(w, j)

Step ==
    \/ \E j \in Jobs : Enqueue(j) \/ ComesDue(j) \/ Cancel(j) \/ LeaseExpires(j)
    \/ \E w \in Workers, j \in Jobs : Claim(w, j) \/ LaneStep(w, j) \/ Heartbeat(w, j)
    \/ Reclaim
    \/ \E w \in Workers : Crash(w) \/ Restart(w)

Next == Step /\ UNCHANGED stalls

(* A lane takes its next step, a handler ends, a dead process is started    *)
(* again, time passes and the recovery loop comes round.  A due job is not  *)
(* passed over for ever (strong fairness: between two moments at which a    *)
(* lane could take it, all lanes may be busy or dead).                      *)
Fairness ==
    /\ \A w \in Workers : WF_table(Restart(w))
    /\ \A w \in Workers, j \in Jobs :
          /\ WF_table(Start(w, j) \/ StartThrows(w, j))
          /\ WF_table(HandlerEnds(w, j))
          /\ WF_table(Complete(w, j) \/ CompleteThrows(w, j))
          /\ WF_table(Defer(w, j) \/ Fail(w, j) \/ SettleThrows(w, j))
    /\ \A j \in Jobs :
          /\ WF_table(ComesDue(j))
          /\ WF_table(LeaseExpires(j) /\ ~WorksOn(jobs[j].holder, j))
          /\ SF_table(\E w \in Workers : Claim(w, j))
    /\ WF_table(Reclaim)

Spec == Init /\ [][Next]_vars
FairSpec == Spec /\ Fairness

-----------------------------------------------------------------------------
(* Types. *)
TypeOK ==
    /\ jobs \in [Jobs -> JobRow \cup {Absent}]
    /\ lane \in [Workers -> Working \cup {Idle, Dead}]
    /\ dispatched \subseteq AgentJobs

(* Rows are well-formed, and no pending job is stranded.                     *)
(* claimNext passes over a row whose attempts reached max_attempts, so no    *)
(* way back to pending (failJob, deferJob, the two halves of                 *)
(* reclaimStuckJobs) may leave a row there: nothing else in the code would   *)
(* ever look at it again.                                                    *)
PendingIsClaimable ==
    /\ TypeOK
    /\ \A j \in Jobs : Exists(j) /\ jobs[j].status = "pending" =>
          jobs[j].attempts < MaxAttempts /\ jobs[j].holder = NoWorker

(* As long as heartbeats arrive, two lanes never work on one job, whatever   *)
(* the crashes, lost answers, cancellations and reclaims do: a reclaim takes *)
(* a row only from a lane that is gone (jobs/repository.ts:550), and a lane  *)
(* that lost its claim before startJob (364) lets go of it.                  *)
OneLanePerJob ==
    \A j \in Jobs, w1, w2 \in Workers :
        WorksOn(w1, j) /\ WorksOn(w2, j) => w1 = w2

(* That a live lane keeps its lease is its heartbeat's business              *)
(* (workerRuntime.ts); where it fails for too long, two lanes may meet.      *)
SteadyLanesAreAlone == ~stalls => OneLanePerJob

(* While the budget is given back only finitely often (deferrals, and the    *)
(* claims reserved for an interrupted dispatch), every job that is enqueued  *)
(* is settled, for crashes, stalls and lost statements each cost an attempt. *)
NoRefund ==
    \A j \in Jobs : Exists(j) => jobs'[j].attempts >= jobs[j].attempts

EveryJobSettles ==
    <>[][NoRefund]_vars =>
        \A j \in Jobs : Exists(j) ~> (Exists(j) /\ jobs[j].status \in SettledStatus)

(* A process that was launched from a job whose lane is gone, or has lost    *)
(* its claim to one that is, gets another lane, though the last try be       *)
(* spent: only that lane can have it stopped (jobs/repository.ts:548-549),   *)
(* unless the lane that had launched it is alive and sees to it, or a person *)
(* cancels the job.                                                          *)
Tended(j) == Held(jobs[j]) /\ WorksOn(jobs[j].holder, j)
InterruptedIsTakenUp ==
    \A j \in AgentJobs :
        (j \in dispatched /\ Held(jobs[j]) /\ ~Tended(j))
            ~> (Tended(j) \/ j \notin dispatched \/ jobs[j].status = "cancelled")

-----------------------------------------------------------------------------
(* The queue keeps the promise stated in JobPromise: a settled job stays as  *)
(* it is, only the lane whose claim is the latest may complete or fail a     *)
(* job, and a job fails only after MaxAttempts claims.                       *)
StateOf(j) == IF Held(jobs[j]) THEN "held" ELSE jobs[j].status
ClaimantOf(j) == IF Held(jobs[j]) THEN jobs[j].holder ELSE NoWorker
TriesOf(j) == IF Exists(j) THEN jobs[j].attempts ELSE 0
DoingOf(w) == IF Busy(w) THEN {lane[w].job} ELSE {}

Promise == INSTANCE JobPromise WITH
    state <- [j \in Jobs |-> StateOf(j)],
    by    <- [j \in Jobs |-> ClaimantOf(j)],
    tries <- [j \in Jobs |-> TriesOf(j)],
    doing <- [w \in Workers |-> DoingOf(w)]

KeepsPromise == Promise!Spec
=============================================================================
