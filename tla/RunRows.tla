------------------------------ MODULE RunRows ------------------------------
(***************************************************************************)
(* One Run and its physical attempts (tables `runs`, `run_attempts`,       *)
(* `run_finalizations`, `run_supervisor_decisions`), and the effect on     *)
(* them of every lifecycle statement of PgRunRepository                    *)
(* (server/src/modules/runs/repository.ts).  A Run and its attempts are    *)
(* one value here, because every one of these statements writes both; its  *)
(* WHERE clause is an operator that says when it applies, its SET clauses  *)
(* an operator that gives the value written.                               *)
(*                                                                         *)
(* The Run is an Agent Run of a Task.  `cause` stands for                  *)
(* error_json.error_code, told apart as far as the code branches on it.    *)
(* A launch nonce is named by the attempt its worker was admitted for.     *)
(*                                                                         *)
(* An operator X_Slip is X with a slip in it; no specification uses one.   *)
(***************************************************************************)
EXTENDS Integers

CONSTANT MaxTries     \* physical attempts: the Supervisor's cap, maxAttemptsForRun

ASSUME MaxTriesAssumption == MaxTries \in Nat \ {0}

Tries == 1 .. MaxTries
NoLaunch == 0

OpenStatus == {"queued", "running", "cancelling"}
EndedStatus == {"succeeded", "failed", "cancelled", "orphaned"}
RunStatus == OpenStatus \cup EndedStatus \cup {"waiting_for_review"}

Cause == {"none",
          "transient",    \* a code of RETRYABLE_RUN_ERROR_CODES other than orphaned
          "final",        \* a code that is not retried
          "orphaned", "abandoned", "exhausted", "cancelled"}
Retryable == {"transient", "orphaned"}

Attempt == [status : RunStatus \cup {"none"},
            launch : Tries \cup {NoLaunch},
            final  : BOOLEAN,     \* finalized: its row in run_finalizations
            decided : BOOLEAN]    \* its row in run_supervisor_decisions

Run == [status : RunStatus, cause : Cause,
        started : BOOLEAN,            \* started_at IS NOT NULL
        n : Tries,                    \* the latest attempt
        att : [Tries -> Attempt]]

NoAttempt == [status |-> "none", launch |-> NoLaunch, final |-> FALSE, decided |-> FALSE]
NewAttempt == [NoAttempt EXCEPT !.status = "queued"]

NewRun == [status |-> "queued", cause |-> "none", started |-> FALSE, n |-> 1,
           att |-> [i \in Tries |-> IF i = 1 THEN NewAttempt ELSE NoAttempt]]

Latest(r) == r.att[r.n]
Ended(r) == r.status \in EndedStatus
Finalized(r) == Latest(r).final

(* The Run and its latest attempt take a status together. *)
To(r, status, cause) ==
    [r EXCEPT !.status = status, !.cause = cause, !.att[r.n].status = status]

(* markRunRunning *)
Admissible(r) == r.status = "queued"
Admitted(r) == [To(r, "running", "none") EXCEPT !.started = TRUE]

(* markRunTerminal / publishRunTerminal: `owner` is the caller that says it *)
(* holds the execution lock, `expected` the attempt it means (0: whichever  *)
(* is the latest).  Only the owner may not publish a failure over a         *)
(* cancellation; only the others are kept out by a lock.                    *)
Publishable_Twice(r, status, owner, locked, expected) ==
    /\ r.status # "succeeded"
    /\ owner \/ ~locked
    /\ owner /\ status # "cancelled" => r.status # "cancelling"
    /\ expected # 0 => r.status \in {"running", "cancelling"} /\ expected = r.n
Publishable_DespiteLock(r, status, owner, locked, expected) ==
    /\ ~Ended(r)
    /\ owner /\ status # "cancelled" => r.status # "cancelling"
    /\ expected # 0 => r.status \in {"running", "cancelling"} /\ expected = r.n
Publishable(r, status, owner, locked, expected) ==
    /\ ~Ended(r)
    /\ owner \/ ~locked
    /\ owner /\ status # "cancelled" => r.status # "cancelling"
    /\ expected # 0 => r.status \in {"running", "cancelling"} /\ expected = r.n

Published_RunOnly(r, status, cause) == [r EXCEPT !.status = status, !.cause = cause]
Published(r, status, cause) == To(r, status, cause)

(* bindAttemptLaunch: the nonce goes on the latest attempt, if it is open. *)
Bindable(r) == Latest(r).status \in {"queued", "running"}
Bound(r, launch) == [r EXCEPT !.att[r.n].launch = launch]

(* markRunCancelling *)
Cancellable(r) == r.status \in OpenStatus \cup {"waiting_for_review"}
Cancelling(r) == To(r, "cancelling", "none")

(* recoverStaleRuns, of a Run that started more than an hour ago: nothing   *)
(* was dispatched for its latest attempt.                                   *)
Stale(r) ==
    r.status \in {"running", "cancelling"} /\ r.started /\ Latest(r).launch = NoLaunch
Recovered(r) == IF r.status = "cancelling" THEN To(r, "cancelled", "cancelled")
                                           ELSE To(r, "orphaned", "orphaned")

(* endRunBehindJob leaves a Run alone that ended or waits for a person.     *)
EndableByJob(r, locked) ==
    r.status # "waiting_for_review" /\ Publishable(r, "failed", FALSE, locked, 0)

(* insertRunFinalization, of the attempt the finalizer read. *)
WithFinal(r, n) == [r EXCEPT !.att[n].final = TRUE]

(* The Supervisor's decision on attempt n: another attempt, or a hold. *)
Supervisable(r, n) ==
    r.status \in {"failed", "orphaned"} /\ r.n = n /\ ~Latest(r).decided
Retried(r) == r.cause \in Retryable /\ r.n < MaxTries

(* requeueRunForRetry *)
Requeued(r) == [r EXCEPT !.status = "queued", !.cause = "none", !.started = FALSE, !.n = @ + 1,
                         !.att = [@ EXCEPT ![r.n].decided = TRUE, ![r.n + 1] = NewAttempt]]

(* holdRunForSupervisorReview: the attempt remembers the outcome it had     *)
(* (held_from_status), for which `cause` goes on to stand.                  *)
OnHold(r) == [r EXCEPT !.status = "waiting_for_review",
                       !.att[r.n] = [@ EXCEPT !.status = "waiting_for_review", !.decided = TRUE]]

(* resumeRunAfterSupervisorReview: the held attempt gets back the outcome   *)
(* it had, and a new one is queued.                                         *)
Resumable(r) == r.status = "waiting_for_review" /\ r.n < MaxTries
Resumed(r) ==
    LET outcome == IF r.cause \in {"orphaned", "exhausted"} THEN "orphaned" ELSE "failed"
    IN  [r EXCEPT !.status = "queued", !.cause = "none", !.n = @ + 1,
                  !.att = [@ EXCEPT ![r.n].status = outcome, ![r.n + 1] = NewAttempt]]
=============================================================================
