------------------------------ MODULE JobRows ------------------------------
(***************************************************************************)
(* One row of the table `jobs`, and the effect on it of every UPDATE of    *)
(* PgJobQueueRepository (server/src/modules/jobs/repository.ts).  Each     *)
(* UPDATE is one SQL statement: its WHERE clause is an operator that says  *)
(* when the row is matched, its SET clause an operator that gives the row  *)
(* written.  A statement that matches nothing leaves the row as it is and  *)
(* reports so to its caller.                                               *)
(*                                                                         *)
(* Time is abstracted to what the statements compare: `due` stands for     *)
(* scheduled_at <= now, and `fresh` for a heartbeat (or, before the first  *)
(* one, an updated_at) younger than the reclaim cutoff of 600 seconds.     *)
(*                                                                         *)
(* An operator X_Slip is X with a slip in it; no specification uses one.   *)
(* Each shows that the properties would notice that slip.                  *)
(***************************************************************************)
EXTENDS Integers

CONSTANTS Workers,      \* identities of worker lanes, `ts-job-worker:<uuid>:<index>`
          NoWorker,     \* claimed_by IS NULL
          MaxAttempts   \* jobs.max_attempts, 3 unless the caller says otherwise

ASSUME MaxAttemptsAssumption == MaxAttempts \in Nat \ {0}
ASSUME NoWorkerAssumption == NoWorker \notin Workers

JobStatus ==
    {"pending", "claimed", "running", "completed", "failed", "cancelled"}

HeldStatus == {"claimed", "running"}
SettledStatus == {"completed", "failed", "cancelled"}

JobRow == [status   : JobStatus,
           attempts : 0 .. MaxAttempts,
           holder   : Workers \cup {NoWorker},
           fresh    : BOOLEAN,
           due      : BOOLEAN]

Held(r) == r.status \in HeldStatus
HeldBy_AnyStatus(r, w) == r.holder = w
HeldBy(r, w) == Held(r) /\ r.holder = w
Stuck_AnyAge(r) == Held(r)
Stuck_OnlyRunning(r) == r.status = "running" /\ ~r.fresh
Stuck(r) == Held(r) /\ ~r.fresh
SpentBudget(r) == r.attempts >= MaxAttempts

(* A row that waits for a claim: nobody holds it.                          *)
Waiting(attempts, due) ==
    [status |-> "pending", attempts |-> attempts, holder |-> NoWorker,
     fresh |-> FALSE, due |-> due]

(* enqueue: a plain INSERT; scheduled_at may lie in the future.            *)
NewJob(due) == Waiting(0, due)

(* The candidates of claimNext, and what it makes of the one it takes.     *)
Claimable(r) == r.status = "pending" /\ r.due /\ r.attempts < MaxAttempts
Claimed(r, w) ==
    [status |-> "claimed", attempts |-> r.attempts + 1, holder |-> w,
     fresh |-> TRUE, due |-> r.due]

(* startJob wants the status claimed; every later statement of the owner   *)
(* accepts claimed or running.                                             *)
Startable(r, w) == r.status = "claimed" /\ r.holder = w
Started(r) == [r EXCEPT !.status = "running", !.fresh = TRUE]

Completed(r) == [r EXCEPT !.status = "completed", !.fresh = FALSE]

Failed_OneTryMore(r) == IF r.attempts > MaxAttempts
                        THEN [r EXCEPT !.status = "failed", !.fresh = FALSE]
                        ELSE Waiting(r.attempts, r.due)

(* failJob: another try while the budget lasts; the final failure keeps    *)
(* claimed_by.                                                             *)
Failed(r) == IF SpentBudget(r) THEN [r EXCEPT !.status = "failed", !.fresh = FALSE]
                               ELSE Waiting(r.attempts, r.due)

(* deferJob gives the attempt back and schedules the job for later.        *)
Deferred(r) == Waiting(IF r.attempts = 0 THEN 0 ELSE r.attempts - 1, FALSE)

Cancelled(r) == [r EXCEPT !.status = "cancelled", !.fresh = FALSE]

(* touchHeartbeat of a row its owner still holds.                          *)
Beaten(r) == [r EXCEPT !.fresh = TRUE]

Reclaimed_Abandons(r, interrupted) ==
    IF SpentBudget(r) THEN [r EXCEPT !.status = "failed", !.holder = NoWorker, !.fresh = FALSE]
                      ELSE Waiting(r.attempts, r.due)

(* reclaimStuckJobs: an interrupted agent_run job, whose Run still has a   *)
(* dispatched process, is always given a claim for its reconciliation.     *)
Reclaimed(r, interrupted) ==
    IF interrupted
    THEN Waiting(IF SpentBudget(r) THEN MaxAttempts - 1 ELSE r.attempts, r.due)
    ELSE IF SpentBudget(r)
         THEN [r EXCEPT !.status = "failed", !.holder = NoWorker, !.fresh = FALSE]
         ELSE Waiting(r.attempts, r.due)
=============================================================================
