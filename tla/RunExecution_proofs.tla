------------------------ MODULE RunExecution_proofs ------------------------
(***************************************************************************)
(* Theorems about the Run and its attempts under every interleaving of     *)
(* lanes, persons and the recovery loop, for any number of lanes, jobs,    *)
(* attempts and tries, whether or not lanes stall.                         *)
(*                                                                         *)
(* The proof has three parts.  Every step changes the Run by one of the    *)
(* statements of RunRows, under the guard that statement needs (Moves);    *)
(* each of these keeps a Run sound and never takes back a finalization     *)
(* (MovesKeepRunsSound); and what a lane carries stays usable by the       *)
(* statement it is about to make (StepsKeepLanes).                         *)
(***************************************************************************)
EXTENDS RunExecution, TLAPS

(* AttemptsAgree, of any Run. *)
Agrees(r) ==
    /\ Latest(r).status = r.status
    /\ \A i \in Tries :
         /\ i < r.n => /\ r.att[i].status \in {"failed", "orphaned"}
                       /\ r.att[i].final /\ r.att[i].decided
         /\ i > r.n => r.att[i] = NoAttempt

(* A held Run was finalized and decided on: a resume supersedes its attempt. *)
SoundRun(r) ==
    /\ r \in Run
    /\ Agrees(r)
    /\ r.status = "waiting_for_review" => Latest(r).final /\ Latest(r).decided

(* Whoever is about to supervise attempt n finalized it. *)
Supervises(r, n) == n \in Tries /\ n <= r.n /\ r.att[n].final

(* What a lane carries suits the statement it is about to make. *)
SoundLane(r, l) ==
    /\ l.pc \in {"collecting", "publishing"} => l.what \in Outcome \cup {"orphaned"}
    /\ l.pc \in {"preparing", "opening", "binding"} => l.n \in Tries
    /\ l.pc \in {"finalizing", "supervising"} => l.what \in {"completing", "failing"}
    /\ l.pc = "supervising" => Supervises(r, l.n)

SoundSweep(r, s) == s.pc = "supervise" => Supervises(r, s.n)

IInv ==
    /\ SoundRun(run)
    /\ lane = [w \in Lanes |-> lane[w]]
    /\ \A w \in Lanes : SoundLane(run, lane[w])
    /\ SoundSweep(run, sweep)

-----------------------------------------------------------------------------
(* The statements by which a step may change the Run. *)
Moves(r, s) ==
    \/ s = r
    \/ Admissible(r) /\ s = Admitted(r)
    \/ ~Ended(r) /\ \E status \in EndedStatus, cause \in Cause : s = Published(r, status, cause)
    \/ Bindable(r) /\ \E l \in Tries : s = Bound(r, l)
    \/ Cancellable(r) /\ s = Cancelling(r)
    \/ Stale(r) /\ s = Recovered(r)
    \/ Ended(r) /\ s = WithFinal(r, r.n)
    \/ (\E n \in Tries : Supervisable(r, n) /\ Supervises(r, n)) /\ Retried(r) /\ s = Requeued(r)
    \/ (\E n \in Tries : Supervisable(r, n) /\ Supervises(r, n)) /\ s = OnHold(r)
    \/ Resumable(r) /\ s = Resumed(r)

(* No statement lowers the number of attempts or takes a finalization back. *)
Monotone(r, s) ==
    /\ s.n >= r.n
    /\ \A i \in Tries : i <= r.n /\ r.att[i].final => s.att[i].final

LEMMA TriesAreNaturals == Tries \subseteq Nat /\ \A i \in Tries : i >= 1 /\ i <= MaxTries
BY MaxTriesAssumption DEF Tries

LEMMA RunFields ==
    ASSUME NEW r \in Run
    PROVE  /\ r.status \in RunStatus /\ r.cause \in Cause /\ r.started \in BOOLEAN
           /\ r.n \in Tries /\ r.att \in [Tries -> Attempt]
           /\ \A i \in Tries : /\ r.att[i].status \in RunStatus \cup {"none"}
                               /\ r.att[i].launch \in Tries \cup {NoLaunch}
                               /\ r.att[i].final \in BOOLEAN /\ r.att[i].decided \in BOOLEAN
<1>1. r.att \in [Tries -> Attempt]
  BY DEF Run
<1>2. \A i \in Tries : r.att[i] \in Attempt
  BY <1>1
<1>3. QED
  BY <1>1, <1>2 DEF Run, Attempt

(* A status taken by the Run and its latest attempt together. *)
LEMMA TakingAStatus ==
    ASSUME NEW r, SoundRun(r), NEW status \in RunStatus, NEW cause \in Cause,
           status # "waiting_for_review"
    PROVE  SoundRun(To(r, status, cause)) /\ Monotone(r, To(r, status, cause))
<1> DEFINE s == To(r, status, cause)
<1>1. r \in Run /\ r.n \in Tries /\ r.att \in [Tries -> Attempt] /\ r.att[r.n] \in Attempt
  BY RunFields DEF SoundRun
<1>2. s = [r EXCEPT !.status = status, !.cause = cause,
                    !.att = [r.att EXCEPT ![r.n] = [r.att[r.n] EXCEPT !.status = status]]]
  BY DEF To
<1>3. [r.att[r.n] EXCEPT !.status = status] \in Attempt
  BY <1>1 DEF Attempt
<1>4. [r.att EXCEPT ![r.n] = [r.att[r.n] EXCEPT !.status = status]] \in [Tries -> Attempt]
  BY <1>1, <1>3
<1>5. s \in Run
  BY <1>1, <1>2, <1>4 DEF Run
<1>6. /\ s.status = status /\ s.n = r.n
      /\ s.att[r.n] = [r.att[r.n] EXCEPT !.status = status]
      /\ \A i \in Tries : i # r.n => s.att[i] = r.att[i]
  BY <1>1, <1>2 DEF Run
<1>7. s.att[r.n].status = status /\ s.att[r.n].final = r.att[r.n].final
  BY <1>1, <1>6 DEF Attempt
<1>8. Agrees(s)
  BY <1>1, <1>6, <1>7, TriesAreNaturals DEF Agrees, SoundRun, Latest
<1>9. Monotone(r, s)
  <2>1. s.n >= r.n
    BY <1>1, <1>6, TriesAreNaturals
  <2>2. \A i \in Tries : s.att[i].final = r.att[i].final
    BY <1>6, <1>7
  <2>3. QED
    BY <2>1, <2>2 DEF Monotone
<1>10. QED
  BY <1>5, <1>6, <1>8, <1>9 DEF SoundRun

(* An edit of the latest attempt that keeps its status and takes nothing back. *)
LEMMA EditingTheAttempt ==
    ASSUME NEW r, SoundRun(r), NEW a \in Attempt,
           a.status = r.att[r.n].status,
           r.att[r.n].final => a.final, r.att[r.n].decided => a.decided
    PROVE  LET s == [r EXCEPT !.att = [r.att EXCEPT ![r.n] = a]]
           IN  SoundRun(s) /\ Monotone(r, s)
<1> DEFINE s == [r EXCEPT !.att = [r.att EXCEPT ![r.n] = a]]
<1>1. r \in Run /\ r.n \in Tries /\ r.att \in [Tries -> Attempt]
  BY RunFields DEF SoundRun
<1>2. [r.att EXCEPT ![r.n] = a] \in [Tries -> Attempt]
  BY <1>1
<1>3. s \in Run
  BY <1>1, <1>2 DEF Run
<1>4. /\ s.status = r.status /\ s.n = r.n /\ s.att[r.n] = a
      /\ \A i \in Tries : i # r.n => s.att[i] = r.att[i]
  BY <1>1 DEF Run
<1>5. Agrees(s)
  BY <1>1, <1>4, TriesAreNaturals DEF Agrees, SoundRun, Latest
<1>6. Monotone(r, s)
  <2>1. s.n >= r.n
    BY <1>1, <1>4, TriesAreNaturals
  <2>2. \A i \in Tries : r.att[i].final => s.att[i].final
    BY <1>4
  <2>3. QED
    BY <2>1, <2>2 DEF Monotone
<1>7. s.status = "waiting_for_review" => Latest(s).final /\ Latest(s).decided
  BY <1>4 DEF SoundRun, Latest
<1>8. QED
  BY <1>3, <1>5, <1>6, <1>7 DEF SoundRun

(* A new attempt, behind one that failed, was finalized and decided on.      *)
LEMMA OpeningAnAttempt ==
    ASSUME NEW r, SoundRun(r), r.n < MaxTries,
           NEW a \in Attempt, a.status \in {"failed", "orphaned"}, a.final, a.decided,
           NEW started \in BOOLEAN
    PROVE  LET s == [r EXCEPT !.status = "queued", !.cause = "none", !.started = started,
                              !.n = r.n + 1,
                              !.att = [r.att EXCEPT ![r.n] = a, ![r.n + 1] = NewAttempt]]
           IN  SoundRun(s) /\ Monotone(r, s)
<1> DEFINE s == [r EXCEPT !.status = "queued", !.cause = "none", !.started = started,
                          !.n = r.n + 1,
                          !.att = [r.att EXCEPT ![r.n] = a, ![r.n + 1] = NewAttempt]]
<1>1. r \in Run /\ r.n \in Tries /\ r.att \in [Tries -> Attempt]
  BY RunFields DEF SoundRun
<1>2. r.n \in Nat /\ r.n + 1 \in Tries
  BY <1>1, MaxTriesAssumption DEF Tries
<1>3. NewAttempt \in Attempt /\ NewAttempt.status = "queued"
  BY DEF NewAttempt, NoAttempt, Attempt, RunStatus, OpenStatus, NoLaunch
<1>4. [r.att EXCEPT ![r.n] = a, ![r.n + 1] = NewAttempt] \in [Tries -> Attempt]
  BY <1>1, <1>3
<1>5. s \in Run
  BY <1>1, <1>2, <1>4 DEF Run, RunStatus, OpenStatus, Cause
<1>6. /\ s.status = "queued" /\ s.n = r.n + 1
      /\ s.att[r.n] = a /\ s.att[r.n + 1] = NewAttempt
      /\ \A i \in Tries : i # r.n /\ i # r.n + 1 => s.att[i] = r.att[i]
  BY <1>1, <1>2 DEF Run
<1>7. Latest(s).status = s.status
  BY <1>3, <1>6 DEF Latest
<1>8. ASSUME NEW i \in Tries, i < s.n
      PROVE  s.att[i].status \in {"failed", "orphaned"} /\ s.att[i].final /\ s.att[i].decided
  <2>1. CASE i = r.n
    BY <1>6, <2>1
  <2>2. CASE i # r.n
    <3>1. i < r.n /\ s.att[i] = r.att[i]
      BY <1>2, <1>6, <1>8, <2>2, TriesAreNaturals
    <3>2. QED
      BY <3>1 DEF SoundRun, Agrees
  <2>3. QED
    BY <2>1, <2>2
<1>9. ASSUME NEW i \in Tries, i > s.n
      PROVE  s.att[i] = NoAttempt
  <2>1. i > r.n /\ s.att[i] = r.att[i]
    BY <1>2, <1>6, <1>9, TriesAreNaturals
  <2>2. QED
    BY <2>1 DEF SoundRun, Agrees
<1>10. Monotone(r, s)
  <2>1. s.n >= r.n
    BY <1>2, <1>6
  <2>2. ASSUME NEW i \in Tries, i <= r.n, r.att[i].final
        PROVE  s.att[i].final
    <3>1. i # r.n + 1
      BY <1>2, <2>2, TriesAreNaturals
    <3>2. QED
      BY <1>6, <2>2, <3>1
  <2>3. QED
    BY <2>1, <2>2 DEF Monotone
<1>11. QED
  BY <1>5, <1>6, <1>7, <1>8, <1>9, <1>10 DEF SoundRun, Agrees

(* Each statement of RunRows keeps a Run sound under its guard.              *)
LEMMA MovesKeepRunsSound ==
    ASSUME NEW r, SoundRun(r), NEW s, Moves(r, s)
    PROVE  SoundRun(s) /\ Monotone(r, s)
<1>1. /\ r \in Run /\ r.status \in RunStatus /\ r.cause \in Cause /\ r.started \in BOOLEAN
      /\ r.n \in Tries /\ r.att \in [Tries -> Attempt] /\ r.att[r.n] \in Attempt
      /\ r.att[r.n].status = r.status
  BY RunFields DEF SoundRun, Agrees, Latest
<1>2. Monotone(r, r)
  <2>1. r.n \in Nat
    BY <1>1, TriesAreNaturals
  <2>2. r.n >= r.n
    BY <2>1
  <2>3. QED
    BY <2>2, Zenon DEF Monotone
<1>3. CASE s = r
  BY <1>2, <1>3
<1>4. CASE Admissible(r) /\ s = Admitted(r)
  <2> DEFINE t == To(r, "running", "none")
  <2>1. SoundRun(t) /\ Monotone(r, t)
    BY TakingAStatus DEF RunStatus, OpenStatus, Cause
  <2>2. s = [t EXCEPT !.started = TRUE] /\ t \in Run
    BY <1>4, <2>1 DEF Admitted, SoundRun
  <2>3. /\ s \in Run /\ s.status = t.status /\ s.n = t.n /\ s.att = t.att
    BY <2>2 DEF Run
  <2>4. QED
    BY <2>1, <2>3 DEF SoundRun, Agrees, Latest, Monotone
<1>5. ASSUME ~Ended(r), NEW status \in EndedStatus, NEW cause \in Cause,
             s = Published(r, status, cause)
      PROVE  SoundRun(s) /\ Monotone(r, s)
  <2>1. status \in RunStatus /\ status # "waiting_for_review"
    BY DEF RunStatus, EndedStatus
  <2>2. QED
    BY <1>5, <2>1, TakingAStatus DEF Published
<1>6. ASSUME Bindable(r), NEW l \in Tries, s = Bound(r, l)
      PROVE  SoundRun(s) /\ Monotone(r, s)
  <2> DEFINE a == [r.att[r.n] EXCEPT !.launch = l]
  <2>1. /\ a \in Attempt /\ a.status = r.att[r.n].status
        /\ a.final = r.att[r.n].final /\ a.decided = r.att[r.n].decided
    BY <1>1 DEF Attempt
  <2>2. s = [r EXCEPT !.att = [r.att EXCEPT ![r.n] = a]]
    BY <1>6 DEF Bound
  <2>3. QED
    BY <2>1, <2>2, EditingTheAttempt
<1>7. CASE Cancellable(r) /\ s = Cancelling(r)
  BY <1>7, TakingAStatus DEF Cancelling, RunStatus, OpenStatus, Cause
<1>8. CASE Stale(r) /\ s = Recovered(r)
  <2>1. CASE r.status = "cancelling"
    BY <1>8, <2>1, TakingAStatus DEF Recovered, RunStatus, EndedStatus, Cause
  <2>2. CASE r.status # "cancelling"
    BY <1>8, <2>2, TakingAStatus DEF Recovered, RunStatus, EndedStatus, Cause
  <2>3. QED
    BY <2>1, <2>2
<1>9. CASE Ended(r) /\ s = WithFinal(r, r.n)
  <2> DEFINE a == [r.att[r.n] EXCEPT !.final = TRUE]
  <2>1. /\ a \in Attempt /\ a.status = r.att[r.n].status
        /\ a.final /\ a.decided = r.att[r.n].decided
    BY <1>1 DEF Attempt
  <2>2. s = [r EXCEPT !.att = [r.att EXCEPT ![r.n] = a]]
    BY <1>9 DEF WithFinal
  <2>3. QED
    BY <2>1, <2>2, EditingTheAttempt
<1>10. ASSUME NEW n \in Tries, Supervisable(r, n), Supervises(r, n), Retried(r), s = Requeued(r)
       PROVE  SoundRun(s) /\ Monotone(r, s)
  <2> DEFINE a == [r.att[r.n] EXCEPT !.decided = TRUE]
  <2>1. /\ a \in Attempt /\ a.status \in {"failed", "orphaned"}
        /\ a.final /\ a.decided
    BY <1>1, <1>10 DEF Attempt, Supervisable, Supervises
  <2>2. s = [r EXCEPT !.status = "queued", !.cause = "none", !.started = FALSE,
                      !.n = r.n + 1,
                      !.att = [r.att EXCEPT ![r.n] = a, ![r.n + 1] = NewAttempt]]
    BY <1>10 DEF Requeued
  <2>3. r.n < MaxTries
    BY <1>10 DEF Retried
  <2>4. QED
    BY <2>1, <2>2, <2>3, OpeningAnAttempt
<1>11. ASSUME NEW n \in Tries, Supervisable(r, n), Supervises(r, n), s = OnHold(r)
       PROVE  SoundRun(s) /\ Monotone(r, s)
  <2> DEFINE a == [r.att[r.n] EXCEPT !.status = "waiting_for_review", !.decided = TRUE]
  <2>1. /\ a \in Attempt /\ a.status = "waiting_for_review"
        /\ a.final /\ a.decided
    BY <1>1, <1>11 DEF Attempt, Supervisable, Supervises, RunStatus
  <2>2. s = [r EXCEPT !.status = "waiting_for_review", !.att = [r.att EXCEPT ![r.n] = a]]
    BY <1>11 DEF OnHold
  <2>3. [r.att EXCEPT ![r.n] = a] \in [Tries -> Attempt]
    BY <1>1, <2>1
  <2>4. s \in Run
    BY <1>1, <2>2, <2>3 DEF Run, RunStatus
  <2>5. /\ s.status = "waiting_for_review" /\ s.n = r.n /\ s.att[r.n] = a
        /\ \A i \in Tries : i # r.n => s.att[i] = r.att[i]
    BY <1>1, <2>2 DEF Run
  <2>6. Agrees(s)
    BY <1>1, <2>1, <2>5, TriesAreNaturals DEF Agrees, SoundRun, Latest
  <2>7. Monotone(r, s)
    <3>1. s.n >= r.n
      BY <1>1, <2>5, TriesAreNaturals
    <3>2. \A i \in Tries : r.att[i].final => s.att[i].final
      BY <2>1, <2>5
    <3>3. QED
      BY <3>1, <3>2 DEF Monotone
  <2>8. QED
    BY <2>1, <2>4, <2>5, <2>6, <2>7 DEF SoundRun, Latest
<1>12. CASE Resumable(r) /\ s = Resumed(r)
  <2> DEFINE outcome == IF r.cause \in {"orphaned", "exhausted"} THEN "orphaned" ELSE "failed"
             a == [r.att[r.n] EXCEPT !.status = outcome]
  <2>1. outcome \in {"failed", "orphaned"} /\ outcome \in RunStatus
    BY DEF RunStatus, EndedStatus
  <2>2. r.att[r.n].final /\ r.att[r.n].decided
    BY <1>12 DEF Resumable, SoundRun, Latest
  <2>3. /\ a \in Attempt /\ a.status \in {"failed", "orphaned"}
        /\ a.final /\ a.decided
    BY <1>1, <2>1, <2>2 DEF Attempt
  <2>4. s = [r EXCEPT !.status = "queued", !.cause = "none", !.started = r.started,
                      !.n = r.n + 1,
                      !.att = [r.att EXCEPT ![r.n] = a, ![r.n + 1] = NewAttempt]]
    BY <1>1, <1>12 DEF Resumed, Run
  <2>5. r.n < MaxTries
    BY <1>12 DEF Resumable
  <2>6. QED
    BY <1>1, <2>3, <2>4, <2>5, OpeningAnAttempt
<1>13. QED
  BY <1>3, <1>4, <1>5, <1>6, <1>7, <1>8, <1>9, <1>10, <1>11, <1>12 DEF Moves

-----------------------------------------------------------------------------
(* Who writes the Run, and with which statement.                            *)

LEMMA OwnersPublish ==
    ASSUME NEW w, NEW what \in Outcome \cup {"orphaned", "cancelled"}, NEW expected,
           PublishOwned(w, what, expected)
    PROVE  Moves(run, run')
<1>1. StatusOf(what) \in EndedStatus /\ CauseOf(what) \in Cause
  BY DEF Outcome, StatusOf, CauseOf, EndedStatus, Cause
<1>2. "cancelled" \in EndedStatus /\ "cancelled" \in Cause
  BY DEF EndedStatus, Cause
<1>3. CASE Publishable(run, StatusOf(what), TRUE, Locked, expected)
  <2>1. run' = Published(run, StatusOf(what), CauseOf(what)) /\ ~Ended(run)
    BY <1>3 DEF PublishOwned, Publishable
  <2>2. QED
    BY <1>1, <2>1 DEF Moves
<1>4. CASE ~Publishable(run, StatusOf(what), TRUE, Locked, expected)
  <2>1. \/ run' = Published(run, "cancelled", "cancelled") /\ ~Ended(run)
        \/ run' = run
    BY <1>4 DEF PublishOwned, Publishable
  <2>2. QED
    BY <1>2, <2>1 DEF Moves
<1>5. QED
  BY <1>3, <1>4

LEMMA JobsEndTheRun ==
    ASSUME NEW status \in EndedStatus, NEW cause \in Cause, EndBehindJob(status, cause)
    PROVE  Moves(run, run')
<1>1. CASE EndableByJob(run, Locked)
  <2>1. run' = Published(run, status, cause) /\ ~Ended(run)
    BY <1>1 DEF EndBehindJob, EndableByJob, Publishable
  <2>2. QED
    BY <2>1 DEF Moves
<1>2. CASE ~EndableByJob(run, Locked)
  BY <1>2 DEF EndBehindJob, Moves
<1>3. QED
  BY <1>1, <1>2

LEMMA DecisionsMove ==
    ASSUME NEW n, Supervises(run, n), Decide(n)
    PROVE  Moves(run, run')
<1>1. n \in Tries
  BY DEF Supervises
<1>2. CASE Supervisable(run, n) /\ Retried(run)
  BY <1>1, <1>2 DEF Decide, Moves
<1>3. CASE Supervisable(run, n) /\ ~Retried(run)
  BY <1>1, <1>3 DEF Decide, Moves
<1>4. CASE ~Supervisable(run, n)
  BY <1>4 DEF Decide, Moves
<1>5. QED
  BY <1>2, <1>3, <1>4

(* The steps of a lane that write the Run.                                  *)
LEMMA LanesMoveTheRun ==
    ASSUME IInv, NEW w \in Lanes,
           \/ Admit(w) \/ CheckCancelled(w) \/ Bind(w) \/ Publish(w) \/ PublishThrows(w)
           \/ Exhaust(w) \/ Finalize(w) \/ Supervise(w)
    PROVE  Moves(run, run')
<1>1. SoundLane(run, lane[w])
  BY DEF IInv
<1>2. CASE Admit(w)
  <2>1. CASE Admissible(run)
    BY <1>2, <2>1 DEF Admit, Moves
  <2>2. CASE ~Admissible(run) /\ run.status = "cancelling"
    <3>1. PublishOwned(w, "cancelled", 0)
      BY <1>2, <2>2 DEF Admit
    <3>2. QED
      BY <3>1, OwnersPublish
  <2>3. CASE ~Admissible(run) /\ run.status # "cancelling"
    BY <1>2, <2>3 DEF Admit, Moves
  <2>4. QED
    BY <2>1, <2>2, <2>3
<1>3. CASE CheckCancelled(w)
  <2>1. CASE run.status = "cancelling"
    <3>1. PublishOwned(w, "cancelled", 0)
      BY <1>3, <2>1 DEF CheckCancelled
    <3>2. QED
      BY <3>1, OwnersPublish
  <2>2. CASE run.status # "cancelling"
    BY <1>3, <2>2 DEF CheckCancelled, Moves
  <2>3. QED
    BY <2>1, <2>2
<1>4. CASE Bind(w)
  <2>1. lane[w].n \in Tries
    BY <1>1, <1>4 DEF Bind, Is, SoundLane
  <2>2. \/ Bindable(run) /\ run' = Bound(run, lane[w].n)
        \/ run' = run
    BY <1>4 DEF Bind
  <2>3. QED
    BY <2>1, <2>2 DEF Moves
<1>5. CASE Publish(w)
  <2>1. lane[w].what \in Outcome \cup {"orphaned", "cancelled"}
    BY <1>1, <1>5 DEF Publish, Is, SoundLane
  <2>2. PublishOwned(w, lane[w].what, Expected(lane[w]))
    BY <1>5 DEF Publish
  <2>3. QED
    BY <2>1, <2>2, OwnersPublish
<1>6. CASE PublishThrows(w)
  <2>1. lane[w].what \in Outcome \cup {"orphaned", "cancelled"}
    BY <1>1, <1>6 DEF PublishThrows, Is, SoundLane
  <2>2. PublishOwned(w, lane[w].what, Expected(lane[w])) \/ run' = run
    BY <1>6 DEF PublishThrows
  <2>3. CASE PublishOwned(w, lane[w].what, Expected(lane[w]))
    BY <2>1, <2>3, OwnersPublish
  <2>4. CASE run' = run
    BY <2>4 DEF Moves
  <2>5. QED
    BY <2>2, <2>3, <2>4
<1>7. CASE Exhaust(w)
  <2>1. "orphaned" \in EndedStatus /\ "exhausted" \in Cause
    BY DEF EndedStatus, Cause
  <2>2. \/ ~Ended(run) /\ run' = Published(run, "orphaned", "exhausted")
        \/ run' = run
    BY <1>7 DEF Exhaust
  <2>3. QED
    BY <2>1, <2>2 DEF Moves
<1>8. CASE Finalize(w)
  <2>1. \/ Ended(run) /\ run' = WithFinal(run, run.n)
        \/ run' = run
    BY <1>8 DEF Finalize
  <2>2. QED
    BY <2>1 DEF Moves
<1>9. CASE Supervise(w)
  <2>1. Supervises(run, lane[w].n)
    BY <1>1, <1>9 DEF Supervise, Is, SoundLane
  <2>2. Decide(lane[w].n)
    BY <1>9 DEF Supervise
  <2>3. QED
    BY <2>1, <2>2, DecisionsMove
<1>10. QED
  BY <1>2, <1>3, <1>4, <1>5, <1>6, <1>7, <1>8, <1>9

(* A lane that goes on elsewhere, by where it goes.                         *)
Watched == {"collecting", "publishing", "preparing", "opening", "binding",
            "finalizing", "supervising"}

LEMMA SoundMoves ==
    ASSUME NEW r, NEW l, NEW n, NEW what
    PROVE  /\ SoundLane(r, Idle)
           /\ \A pc : pc \notin Watched => SoundLane(r, At(pc, l, n, what))
           /\ \A pc : pc \notin Watched => SoundLane(r, Leave(pc, l))
           /\ what \in Outcome \cup {"orphaned"} =>
                 SoundLane(r, At("collecting", l, n, what)) /\ SoundLane(r, At("publishing", l, n, what))
           /\ n \in Tries => /\ SoundLane(r, At("preparing", l, n, what))
                             /\ SoundLane(r, At("opening", l, n, what))
                             /\ SoundLane(r, At("binding", l, n, what))
           /\ what \in {"completing", "failing"} =>
                 /\ SoundLane(r, At("finalizing", l, n, what))
                 /\ Supervises(r, n) => SoundLane(r, At("supervising", l, n, what))
<1>1. Idle.pc = "idle"
  BY DEF Idle
<1>2. \A pc : At(pc, l, n, what).pc = pc /\ At(pc, l, n, what).n = n /\ At(pc, l, n, what).what = what
  BY DEF At
<1>3. \A pc : Leave(pc, l).pc = pc
  BY DEF Leave, At
<1>4. QED
  BY <1>1, <1>2, <1>3 DEF SoundLane, Watched

(* Lanes that stay where they are or go where they may.                     *)
Keeps(r, f) ==
    /\ f = [v \in Lanes |-> f[v]]
    /\ \A v \in Lanes : f[v] = lane[v] \/ SoundLane(r, f[v])

LEMMA OneLaneMoves ==
    ASSUME NEW r, NEW f, Keeps(r, f), NEW w \in Lanes, NEW l, SoundLane(r, l)
    PROVE  Keeps(r, [f EXCEPT ![w] = l])
BY DEF Keeps

LEMMA LanesMayMove ==
    ASSUME IInv, NEW w \in Lanes, NEW l, Move(w, l), SoundLane(run', l)
    PROVE  Keeps(run', lane')
<1>1. Keeps(run', lane)
  BY DEF IInv, Keeps
<1>2. QED
  BY <1>1, OneLaneMoves DEF Move

(* What a complete, an abort, a dispatch and a reconnection do to the lanes. *)
LEMMA SharedMoves ==
    ASSUME IInv
    PROVE  /\ Keeps(run, Aborted)
           /\ \A l, what : what \in Outcome => Keeps(run, Completing(l, what))
           /\ \A l : Keeps(run, AnsweredLanes(l))
           /\ \A w \in Lanes : Keeps(run, Dispatched(w))
<1>1. "final" \in Outcome /\ "running" \notin Watched
  BY DEF Outcome, Watched
<1>2. Keeps(run, lane)
  BY DEF IInv, Keeps
<1>3. ASSUME NEW l, NEW what, what \in Outcome
      PROVE  Keeps(run, Completing(l, what))
  <2> DEFINE f == Completing(l, what)
  <2>1. \A v \in Lanes : f[v] = lane[v] \/ f[v] = At("collecting", lane[v], l, what)
    BY DEF Completing
  <2>2. \A v \in Lanes : SoundLane(run, At("collecting", lane[v], l, what))
    BY <1>3, SoundMoves
  <2>3. f = [v \in Lanes |-> f[v]]
    BY DEF Completing
  <2>4. QED
    BY <2>1, <2>2, <2>3 DEF Keeps
<1>4. ASSUME NEW l
      PROVE  Keeps(run, AnsweredLanes(l))
  BY <1>1, <1>2, <1>3 DEF AnsweredLanes
<1>5. ASSUME NEW w \in Lanes
      PROVE  Keeps(run, Dispatched(w))
  <2> DEFINE f == Dispatched(w)
  <2>1. \A v \in Lanes : \/ f[v] = lane[v]
                        \/ f[v] = At("collecting", lane[v], lane[v].n, "final")
                        \/ f[v] = At("running", lane[v], lane[v].n, lane[v].what)
    BY DEF Dispatched, Goto
  <2>2. \A v \in Lanes : /\ SoundLane(run, At("collecting", lane[v], lane[v].n, "final"))
                        /\ SoundLane(run, At("running", lane[v], lane[v].n, lane[v].what))
    BY <1>1, SoundMoves
  <2>3. f = [v \in Lanes |-> f[v]]
    BY DEF Dispatched
  <2>4. QED
    BY <2>1, <2>2, <2>3 DEF Keeps
<1>6. Keeps(run, Aborted)
  <2> DEFINE f == Aborted
  <2>1. f = [v \in Lanes |-> f[v]]
    BY DEF Aborted
  <2>2. ASSUME NEW v \in Lanes
        PROVE  f[v] = lane[v] \/ SoundLane(run, f[v])
    <3>1. SoundLane(run, lane[v])
      BY DEF IInv
    <3>2. CASE Is(v, "binding")
      <4>1. lane[v].pc = "binding" /\ lane[v].n \in Tries
        BY <3>1, <3>2 DEF Is, SoundLane
      <4>2. f[v] = At("binding", lane[v], lane[v].n, "aborted")
        BY <3>2, <4>1 DEF Aborted
      <4>3. QED
        BY <4>1, <4>2, SoundMoves
    <3>3. CASE Is(v, "bound")
      <4>1. lane[v].pc = "bound" /\ "bound" \notin Watched
        BY <3>3 DEF Is, Watched
      <4>2. f[v] = At("bound", lane[v], lane[v].n, "aborted")
        BY <3>3, <4>1 DEF Aborted
      <4>3. QED
        BY <4>1, <4>2, SoundMoves
    <3>4. CASE ~Is(v, "binding") /\ ~Is(v, "bound")
      <4>1. f[v] = lane[v] \/ f[v] = At("collecting", lane[v], lane[v].n, "final")
        BY <3>4 DEF Aborted
      <4>2. QED
        BY <1>1, <4>1, SoundMoves
    <3>5. QED
      BY <3>2, <3>3, <3>4
  <2>3. QED
    BY <2>1, <2>2 DEF Keeps
<1>7. QED
  BY <1>3, <1>4, <1>5, <1>6

-----------------------------------------------------------------------------
(* Every step of the specification changes the Run by a statement of RunRows. *)

(* The steps of a person.                                                   *)
LEMMA PersonsMoveTheRun ==
    ASSUME IInv, Person
    PROVE  Moves(run, run')
<1>1. "cancelled" \in EndedStatus /\ "cancelled" \in Cause
  BY DEF EndedStatus, Cause
<1>2. CASE RequestCancel
  BY <1>2 DEF RequestCancel, Moves
<1>3. CASE CancelPublishes
  <2>1. \/ ~Ended(run) /\ run' = Published(run, "cancelled", "cancelled")
        \/ run' = run
    BY <1>3 DEF CancelPublishes, Publishable
  <2>2. QED
    BY <1>1, <2>1 DEF Moves
<1>4. CASE CancelFinalizes
  BY <1>4 DEF CancelFinalizes, Moves
<1>5. CASE Resume
  BY <1>5 DEF Resume, Moves
<1>6. CASE Abandon
  <2>1. ~Ended(run) /\ run' = Published(run, "cancelled", "cancelled")
    BY <1>6 DEF Abandon, Publishable
  <2>2. QED
    BY <1>1, <2>1 DEF Moves
<1>7. ASSUME NEW j \in Jobs, CancelJob(j)
      PROVE  Moves(run, run')
  BY <1>1, <1>7, JobsEndTheRun DEF CancelJob
<1>8. CASE CancelAborts \/ CancelLooks \/ CancelConfirmed \/ CancelUnconfirmed
  BY <1>8 DEF CancelAborts, CancelLooks, CancelConfirmed, CancelUnconfirmed, Moves
<1>9. QED
  BY <1>2, <1>3, <1>4, <1>5, <1>6, <1>7, <1>8 DEF Person

(* The steps of the recovery loop.                                          *)
LEMMA RecoveryMovesTheRun ==
    ASSUME IInv, Recovery
    PROVE  Moves(run, run')
<1>1. CASE Reclaim
  <2>1. "failed" \in EndedStatus /\ "abandoned" \in Cause
    BY DEF EndedStatus, Cause
  <2>2. EndBehindJob("failed", "abandoned") \/ run' = run
    BY <1>1 DEF Reclaim
  <2>3. CASE EndBehindJob("failed", "abandoned")
    BY <2>1, <2>3, JobsEndTheRun
  <2>4. CASE run' = run
    BY <2>4 DEF Moves
  <2>5. QED
    BY <2>2, <2>3, <2>4
<1>2. CASE RecoverStale
  BY <1>2 DEF RecoverStale, Moves
<1>3. CASE SweepFinalizes
  <2>1. Ended(run) /\ run' = WithFinal(run, run.n)
    BY <1>3 DEF SweepFinalizes, Listed, Ended, EndedStatus
  <2>2. QED
    BY <2>1 DEF Moves
<1>4. CASE SweepSupervises
  <2>1. Supervises(run, sweep.n)
    BY <1>4 DEF SweepSupervises, IInv, SoundSweep
  <2>2. Decide(sweep.n) \/ run' = run
    BY <1>4 DEF SweepSupervises
  <2>3. CASE Decide(sweep.n)
    BY <2>1, <2>3, DecisionsMove
  <2>4. CASE run' = run
    BY <2>4 DEF Moves
  <2>5. QED
    BY <2>2, <2>3, <2>4
<1>5. CASE DeleteOrphanLock \/ ReclaimThrows \/ EnsureJob
  BY <1>5 DEF DeleteOrphanLock, ReclaimThrows, EnsureJob, Moves
<1>6. QED
  BY <1>1, <1>2, <1>3, <1>4, <1>5 DEF Recovery

LEMMA StepsMoveTheRun ==
    ASSUME IInv, Next
    PROVE  Moves(run, run')
<1>1. ASSUME NEW w \in Lanes, Work(w)
      PROVE  Moves(run, run')
  <2>1. CASE \/ Admit(w) \/ CheckCancelled(w) \/ Bind(w) \/ Publish(w) \/ PublishThrows(w)
             \/ Exhaust(w) \/ Finalize(w) \/ Supervise(w)
    BY <2>1, LanesMoveTheRun
  <2>2. CASE \/ Start(w) \/ Complete(w) \/ Defer(w) \/ Fail(w)
             \/ ReadRun(w) \/ NotYetItsTurn(w) \/ ReadThrows(w) \/ TakeLock(w)
    BY <2>2 DEF Start, Complete, Defer, Fail, ReadRun, NotYetItsTurn, ReadThrows, TakeLock, Moves
  <2>3. CASE \/ Refuse(w) \/ PrepareFails(w) \/ OpenInvocation(w) \/ AdapterFails(w)
             \/ Launch(w) \/ GiveUp(w)
    BY <2>3 DEF Refuse, PrepareFails, OpenInvocation, AdapterFails, Launch, GiveUp, Moves
  <2>4. CASE \/ StopAborts(w) \/ StopLooks(w) \/ StopConfirmed(w) \/ StopUnconfirmed(w)
             \/ Collect(w) \/ FinalizeFails(w)
    BY <2>4 DEF StopAborts, StopLooks, StopConfirmed, StopUnconfirmed, Collect, FinalizeFails, Moves
  <2>5. QED
    BY <1>1, <2>1, <2>2, <2>3, <2>4 DEF Work, Execute
<1>2. ASSUME NEW w \in Lanes, NEW j \in Jobs, Claim(w, j)
      PROVE  Moves(run, run')
  BY <1>2 DEF Claim, Moves
<1>3. ASSUME NEW j \in Jobs, ComesDue(j) \/ LeaseExpires(j)
      PROVE  Moves(run, run')
  BY <1>3 DEF ComesDue, LeaseExpires, Moves
<1>4. ASSUME NEW l \in Tries, ProcExits(l)
      PROVE  Moves(run, run')
  BY <1>4 DEF ProcExits, Moves
<1>5. CASE Disconnect \/ Reconnect \/ ServerCrash
  BY <1>5 DEF Disconnect, Reconnect, ServerCrash, Moves
<1>6. QED
  BY <1>1, <1>2, <1>3, <1>4, <1>5, PersonsMoveTheRun, RecoveryMovesTheRun DEF Next

-----------------------------------------------------------------------------
(* Every step leaves every lane with something it can use.                  *)

(* The steps by which lane w alone goes on, towards a place where it needs   *)
(* nothing.                                                                  *)
LEMMA LanesGoAnywhere ==
    ASSUME IInv, NEW w \in Lanes, NEW pc, pc \notin Watched, NEW n, NEW what,
           \/ Move(w, At(pc, lane[w], n, what)) \/ Move(w, Leave(pc, lane[w])) \/ Move(w, Idle)
    PROVE  Keeps(run', lane')
BY SoundMoves, LanesMayMove

(* Whoever finalized the latest attempt may supervise it.                    *)
LEMMA FinalizedIsSupervised ==
    ASSUME IInv, run' = WithFinal(run, run.n)
    PROVE  Supervises(run', run.n)
<1>1. run \in Run /\ run.n \in Tries /\ run.att \in [Tries -> Attempt]
  BY RunFields DEF IInv, SoundRun
<1>2. run.att[run.n] \in Attempt
  BY <1>1
<1>3. run'.n = run.n /\ run'.att[run.n] = [run.att[run.n] EXCEPT !.final = TRUE]
  BY <1>1 DEF WithFinal, Run
<1>4. run'.att[run.n].final
  BY <1>2, <1>3 DEF Attempt
<1>5. run.n <= run'.n
  BY <1>1, <1>3, TriesAreNaturals
<1>6. QED
  BY <1>1, <1>4, <1>5 DEF Supervises

LEMMA WorkKeepsLanes ==
    ASSUME IInv, NEW w \in Lanes, Work(w)
    PROVE  Keeps(run', lane')
<1> DEFINE l == lane[w]
<1>1. SoundLane(run, l)
  BY DEF IInv
<1>2. CASE Start(w) \/ Complete(w) \/ Defer(w) \/ Fail(w)
  <2>1. Move(w, Idle) \/ Move(w, Leave("reading", l)) \/ Move(w, Leave("failing", l))
    BY <1>2 DEF Start, Complete, Defer, Fail
  <2>2. "reading" \notin Watched /\ "failing" \notin Watched
    BY DEF Watched
  <2>3. QED
    BY <2>1, <2>2, LanesGoAnywhere
<1>3. CASE NotYetItsTurn(w) \/ ReadThrows(w) \/ FinalizeFails(w) \/ StopUnconfirmed(w)
  <2>1. Move(w, Leave("deferring", l)) \/ Move(w, Leave("failing", l))
    BY <1>3 DEF NotYetItsTurn, ReadThrows, FinalizeFails, StopUnconfirmed
  <2>2. "deferring" \notin Watched /\ "failing" \notin Watched
    BY DEF Watched
  <2>3. QED
    BY <2>1, <2>2, LanesGoAnywhere
<1>4. CASE ReadRun(w) \/ TakeLock(w)
  <2>1. \/ Move(w, At("locking", l, 0, "fresh")) \/ Move(w, At("locking", l, 0, "interrupted"))
        \/ Move(w, At("admitting", l, 0, "none")) \/ Move(w, At("stopping", l, 0, "none"))
        \/ Move(w, At("finalizing", l, 0, "completing"))
    BY <1>4 DEF ReadRun, TakeLock
  <2>2. {"locking", "admitting", "stopping"} \cap Watched = {}
    BY DEF Watched
  <2>3. QED
    BY <2>1, <2>2, LanesGoAnywhere, SoundMoves, LanesMayMove
<1>5. CASE Refuse(w) \/ PrepareFails(w) \/ AdapterFails(w) \/ GiveUp(w)
  <2>1. \/ Move(w, At("publishing", l, 0, "final")) \/ Move(w, At("publishing", l, l.n, "final"))
        \/ Move(w, At("collecting", l, l.n, "final"))
    BY <1>5 DEF Refuse, PrepareFails, AdapterFails, GiveUp
  <2>2. "final" \in Outcome
    BY DEF Outcome
  <2>3. QED
    BY <2>1, <2>2, SoundMoves, LanesMayMove
<1>6. CASE Admit(w)
  <2>1. \/ Move(w, At("preparing", l, run.n, "none"))
        \/ Move(w, At("finalizing", l, 0, "completing"))
    BY <1>6 DEF Admit
  <2>2. run.n \in Tries
    BY RunFields DEF IInv, SoundRun
  <2>3. QED
    BY <2>1, <2>2, SoundMoves, LanesMayMove
<1>7. CASE CheckCancelled(w) \/ OpenInvocation(w)
  <2>1. l.n \in Tries
    BY <1>1, <1>7 DEF CheckCancelled, OpenInvocation, Is, SoundLane
  <2>2. \/ Move(w, At("opening", l, l.n, l.what)) \/ Move(w, At("binding", l, l.n, "open"))
        \/ Move(w, At("finalizing", l, 0, "completing"))
    BY <1>7 DEF CheckCancelled, OpenInvocation, Goto
  <2>3. QED
    BY <2>1, <2>2, SoundMoves, LanesMayMove
<1>8. CASE Bind(w)
  <2>1. Move(w, At("bound", l, l.n, l.what)) \/ Move(w, At("collecting", l, l.n, "final"))
    BY <1>8 DEF Bind, Goto
  <2>2. "final" \in Outcome /\ "bound" \notin Watched
    BY DEF Outcome, Watched
  <2>3. QED
    BY <2>1, <2>2, LanesGoAnywhere, SoundMoves, LanesMayMove
<1>9. CASE Launch(w)
  <2>1. \/ Move(w, At("collecting", l, l.n, "final"))
        \/ lane' = Dispatched(w)
    BY <1>9 DEF Launch
  <2>2. "final" \in Outcome /\ run' = run
    BY <1>9 DEF Outcome, Launch
  <2>3. QED
    BY <2>1, <2>2, SoundMoves, LanesMayMove, SharedMoves
<1>10. CASE StopAborts(w)
  <2>1. run' = run /\ lane' = [Aborted EXCEPT ![w] = Leave("looking", Aborted[w])]
    BY <1>10 DEF StopAborts
  <2>2. SoundLane(run, Leave("looking", Aborted[w]))
    BY SoundMoves DEF Watched
  <2>3. QED
    BY <2>1, <2>2, SharedMoves, OneLaneMoves
<1>11. CASE StopLooks(w)
  <2> DEFINE launch == Latest(run).launch
             confirmed == At("publishing", l, run.n, "orphaned")
  <2>1. run' = run /\ SoundLane(run, confirmed) /\ SoundLane(run, Leave("deferring", l))
        /\ SoundLane(run, At("asking", l, run.n, "none"))
    BY <1>11, SoundMoves DEF StopLooks, Watched
  <2>2. \/ Move(w, confirmed)
        \/ Move(w, Leave("deferring", l))
        \/ lane' = [AnsweredLanes(launch) EXCEPT ![w] = At("asking", l, run.n, "none")]
        \/ lane' = [AnsweredLanes(launch) EXCEPT ![w] = confirmed]
    BY <1>11 DEF StopLooks
  <2>3. Keeps(run, AnsweredLanes(launch))
    BY SharedMoves
  <2>4. QED
    BY <2>1, <2>2, <2>3, OneLaneMoves, LanesMayMove
<1>12. CASE StopConfirmed(w)
  <2>1. Move(w, At("publishing", l, l.n, "orphaned"))
    BY <1>12 DEF StopConfirmed
  <2>2. QED
    BY <2>1, SoundMoves, LanesMayMove
<1>13. CASE Collect(w)
  <2>1. l.what \in Outcome \cup {"orphaned"}
    BY <1>1, <1>13 DEF Collect, Is, SoundLane
  <2>2. \/ Move(w, At("finalizing", l, 0, "completing"))
        \/ Move(w, At("publishing", l, l.n, l.what))
    BY <1>13 DEF Collect, Goto
  <2>3. QED
    BY <2>1, <2>2, SoundMoves, LanesMayMove
<1>14. CASE Publish(w)
  <2>1. Move(w, At("finalizing", l, 0, "completing"))
    BY <1>14 DEF Publish
  <2>2. QED
    BY <2>1, SoundMoves, LanesMayMove
<1>15. CASE PublishThrows(w)
  <2>1. Move(w, Leave("exhausting", l)) \/ Move(w, Leave("failing", l))
    BY <1>15 DEF PublishThrows, Thrown
  <2>2. "exhausting" \notin Watched /\ "failing" \notin Watched
    BY DEF Watched
  <2>3. QED
    BY <2>1, <2>2, LanesGoAnywhere
<1>16. CASE Exhaust(w)
  <2>1. Move(w, At("finalizing", l, 0, "failing")) \/ Move(w, Leave("failing", l))
    BY <1>16 DEF Exhaust
  <2>2. "failing" \notin Watched
    BY DEF Watched
  <2>3. QED
    BY <2>1, <2>2, LanesGoAnywhere, SoundMoves, LanesMayMove
<1>17. CASE Finalize(w)
  <2>1. l.what \in {"completing", "failing"} /\ l.what \notin Watched
    BY <1>1, <1>17 DEF Finalize, Is, SoundLane, Watched
  <2>2. CASE Ended(run)
    <3>1. run' = WithFinal(run, run.n) /\ Move(w, At("supervising", l, run.n, l.what))
      BY <1>17, <2>2 DEF Finalize
    <3>2. Supervises(run', run.n)
      BY <3>1, FinalizedIsSupervised
    <3>3. QED
      BY <2>1, <3>1, <3>2, SoundMoves, LanesMayMove
  <2>3. CASE ~Ended(run)
    <3>1. Move(w, Leave(l.what, l))
      BY <1>17, <2>3 DEF Finalize
    <3>2. QED
      BY <2>1, <3>1, LanesGoAnywhere
  <2>4. QED
    BY <2>2, <2>3
<1>18. CASE Supervise(w)
  <2>1. l.what \in {"completing", "failing"} /\ l.what \notin Watched
    BY <1>1, <1>18 DEF Supervise, Is, SoundLane, Watched
  <2>2. Move(w, Leave(l.what, l))
    BY <1>18 DEF Supervise
  <2>3. QED
    BY <2>1, <2>2, LanesGoAnywhere
<1>19. QED
  BY <1>2, <1>3, <1>4, <1>5, <1>6, <1>7, <1>8, <1>9, <1>10, <1>11, <1>12, <1>13, <1>14,
     <1>15, <1>16, <1>17, <1>18 DEF Work, Execute

LEMMA StepsKeepLanes ==
    ASSUME IInv, Next
    PROVE  Keeps(run', lane')
<1>1. ASSUME run' = run, lane' = lane
      PROVE  Keeps(run', lane')
  BY <1>1 DEF IInv, Keeps
<1>2. ASSUME lane' = lane
      PROVE  Keeps(run', lane')
  BY <1>2 DEF IInv, Keeps
<1>3. ASSUME NEW w \in Lanes, NEW j \in Jobs, Claim(w, j)
      PROVE  Keeps(run', lane')
  <2> DEFINE l == [pc |-> "claimed", job |-> j, last |-> jobs[j].attempts + 1 >= MaxAttempts,
                   n |-> 0, what |-> "none"]
  <2>1. Move(w, l)
    BY <1>3 DEF Claim
  <2>2. l.pc = "claimed"
    OBVIOUS
  <2>3. SoundLane(run', l)
    BY <2>2 DEF SoundLane
  <2>4. QED
    BY <2>1, <2>3, LanesMayMove
<1>4. ASSUME NEW j \in Jobs, ComesDue(j) \/ LeaseExpires(j)
      PROVE  Keeps(run', lane')
  BY <1>2, <1>4 DEF ComesDue, LeaseExpires
<1>5. Keeps(run, lane)
  BY DEF IInv, Keeps
<1>6. ASSUME NEW l \in Tries, ProcExits(l)
      PROVE  Keeps(run', lane')
  <2>1. /\ run' = run
        /\ \E what \in Outcome : lane' = Completing(l, what) \/ lane' = lane
    BY <1>6 DEF ProcExits
  <2>2. QED
    BY <1>5, <2>1, SharedMoves
<1>7. CASE Reconnect
  <2>1. /\ run' = run
        /\ lane' = [v \in Lanes |-> lane'[v]]
        /\ \A v \in Lanes : \/ lane'[v] = lane[v]
                            \/ lane'[v] = At("collecting", lane[v], lane[v].n, "final")
    BY <1>7 DEF Reconnect
  <2>2. "final" \in Outcome
    BY DEF Outcome
  <2>3. \A v \in Lanes : SoundLane(run, At("collecting", lane[v], lane[v].n, "final"))
    BY <2>2, SoundMoves
  <2>4. QED
    BY <2>1, <2>3 DEF Keeps
<1>8. CASE Disconnect
  BY <1>2, <1>8 DEF Disconnect
<1>9. CASE ServerCrash
  <2>1. lane' = [v \in Lanes |-> Idle]
    BY <1>9 DEF ServerCrash
  <2>2. SoundLane(run', Idle)
    BY SoundMoves
  <2>3. QED
    BY <2>1, <2>2 DEF Keeps
<1>10. CASE CancelAborts
  <2>1. run' = run /\ lane' = Aborted
    BY <1>10 DEF CancelAborts
  <2>2. QED
    BY <2>1, SharedMoves
<1>11. CASE CancelLooks
  <2>1. run' = run /\ (lane' = lane \/ lane' = AnsweredLanes(Latest(run).launch))
    BY <1>11 DEF CancelLooks
  <2>2. QED
    BY <1>5, <2>1, SharedMoves
<1>12. CASE \/ RequestCancel \/ CancelConfirmed \/ CancelUnconfirmed \/ CancelPublishes
            \/ CancelFinalizes \/ Resume \/ Abandon
  BY <1>2, <1>12 DEF RequestCancel, CancelConfirmed, CancelUnconfirmed, CancelPublishes,
                     CancelFinalizes, Resume, Abandon
<1>13. ASSUME NEW j \in Jobs, CancelJob(j)
       PROVE  Keeps(run', lane')
  BY <1>2, <1>13 DEF CancelJob
<1>14. CASE Recovery
  BY <1>2, <1>14 DEF Recovery, DeleteOrphanLock, Reclaim, ReclaimThrows, EnsureJob,
                     RecoverStale, SweepFinalizes, SweepSupervises
<1>15. QED
  BY <1>3, <1>4, <1>6, <1>7, <1>8, <1>9, <1>10, <1>11, <1>12, <1>13, <1>14, WorkKeepsLanes
     DEF Next, Person

(* The loop supervises what it finalized.                                   *)
LEMMA StepsKeepTheSweep ==
    ASSUME IInv, Next
    PROVE  \/ sweep' = sweep
           \/ SoundSweep(run', sweep')
<1>1. ASSUME NEW w \in Lanes, Work(w)
      PROVE  sweep' = sweep
  <2>1. CASE Start(w) \/ Complete(w) \/ Defer(w) \/ Fail(w)
    BY <2>1 DEF Start, Complete, Defer, Fail
  <2>2. CASE \/ ReadRun(w) \/ NotYetItsTurn(w) \/ ReadThrows(w) \/ TakeLock(w)
             \/ Refuse(w) \/ Admit(w) \/ PrepareFails(w) \/ CheckCancelled(w) \/ OpenInvocation(w)
    BY <2>2 DEF ReadRun, NotYetItsTurn, ReadThrows, TakeLock, Refuse, Admit, PrepareFails,
                CheckCancelled, OpenInvocation
  <2>3. CASE \/ AdapterFails(w) \/ Bind(w) \/ Launch(w) \/ GiveUp(w)
             \/ StopAborts(w) \/ StopLooks(w) \/ StopConfirmed(w) \/ StopUnconfirmed(w)
    BY <2>3 DEF AdapterFails, Bind, Launch, GiveUp, StopAborts, StopLooks, StopConfirmed,
                StopUnconfirmed
  <2>4. CASE \/ Collect(w) \/ Publish(w) \/ PublishThrows(w) \/ Exhaust(w)
             \/ Finalize(w) \/ FinalizeFails(w) \/ Supervise(w)
    BY <2>4 DEF Collect, Publish, PublishThrows, Exhaust, Finalize, FinalizeFails, Supervise
  <2>5. QED
    BY <1>1, <2>1, <2>2, <2>3, <2>4 DEF Work, Execute
<1>2. ASSUME NEW w \in Lanes, NEW j \in Jobs, Claim(w, j)
      PROVE  sweep' = sweep
  BY <1>2 DEF Claim
<1>3. ASSUME NEW j \in Jobs, ComesDue(j) \/ LeaseExpires(j)
      PROVE  sweep' = sweep
  BY <1>3 DEF ComesDue, LeaseExpires
<1>4. ASSUME NEW l \in Tries, ProcExits(l)
      PROVE  sweep' = sweep
  BY <1>4 DEF ProcExits
<1>5. CASE Disconnect \/ Reconnect
  BY <1>5 DEF Disconnect, Reconnect
<1>6. CASE Person
  BY <1>6 DEF Person, RequestCancel, CancelAborts, CancelLooks, CancelConfirmed,
              CancelUnconfirmed, CancelPublishes, CancelFinalizes, Resume, Abandon, CancelJob
<1>7. CASE SweepFinalizes
  <2>1. run' = WithFinal(run, run.n) /\ sweep' = [pc |-> "supervise", n |-> run.n]
    BY <1>7 DEF SweepFinalizes
  <2>2. QED
    BY <2>1, FinalizedIsSupervised DEF SoundSweep
<1>8. CASE DeleteOrphanLock \/ Reclaim \/ ReclaimThrows \/ SweepSupervises \/ ServerCrash
  <2>1. sweep' = [pc |-> "reclaim"] \/ sweep' = Rest
    BY <1>8 DEF DeleteOrphanLock, Reclaim, ReclaimThrows, SweepSupervises, ServerCrash
  <2>2. QED
    BY <2>1 DEF SoundSweep, Rest
<1>9. CASE EnsureJob \/ RecoverStale
  BY <1>9 DEF EnsureJob, RecoverStale
<1>10. QED
  BY <1>1, <1>2, <1>3, <1>4, <1>5, <1>6, <1>7, <1>8, <1>9 DEF Next, Recovery

(* What a lane or the loop could use, it still can: no statement takes a    *)
(* finalization back.                                                       *)
LEMMA UsableStays ==
    ASSUME NEW r, SoundRun(r), NEW s, SoundRun(s), Monotone(r, s)
    PROVE  /\ \A n : Supervises(r, n) => Supervises(s, n)
           /\ \A l : SoundLane(r, l) => SoundLane(s, l)
           /\ \A t : SoundSweep(r, t) => SoundSweep(s, t)
<1>1. r.n \in Nat /\ s.n \in Nat
  BY RunFields, TriesAreNaturals DEF SoundRun
<1>2. ASSUME NEW n, Supervises(r, n)
      PROVE  Supervises(s, n)
  <2>1. n \in Tries /\ n <= r.n /\ n \in Nat /\ r.att[n].final
    BY <1>2, TriesAreNaturals DEF Supervises
  <2>2. s.att[n].final
    BY <2>1 DEF Monotone
  <2>3. s.n >= r.n
    BY DEF Monotone
  <2>4. n <= s.n
    BY <1>1, <2>1, <2>3
  <2>5. QED
    BY <2>1, <2>2, <2>4 DEF Supervises
<1>3. QED
  BY <1>2 DEF SoundLane, SoundSweep

-----------------------------------------------------------------------------
LEMMA Initially == Init => IInv
<1> SUFFICES ASSUME Init PROVE IInv
  OBVIOUS
<1>1. 1 \in Tries /\ NewRun.n = 1
  BY MaxTriesAssumption DEF Tries, NewRun
<1>2. NewAttempt \in Attempt /\ NoAttempt \in Attempt /\ NewAttempt.status = "queued"
  BY DEF NewAttempt, NoAttempt, Attempt, RunStatus, OpenStatus, NoLaunch
<1>3. NewRun.att \in [Tries -> Attempt]
  BY <1>2 DEF NewRun
<1>4. NewRun \in Run
  BY <1>1, <1>3 DEF NewRun, Run, RunStatus, OpenStatus, Cause
<1>5. /\ NewRun.status = "queued"
      /\ NewRun.att[1] = NewAttempt
      /\ \A i \in Tries : i # 1 => NewRun.att[i] = NoAttempt
  BY <1>1 DEF NewRun
<1>6. Agrees(NewRun)
  <2>1. \A i \in Tries : ~(i < 1)
    BY TriesAreNaturals
  <2>2. \A i \in Tries : i > 1 => NewRun.att[i] = NoAttempt
    BY <1>5, TriesAreNaturals
  <2>3. QED
    BY <1>1, <1>2, <1>5, <2>1, <2>2 DEF Agrees, Latest
<1>7. SoundRun(run)
  BY <1>4, <1>5, <1>6 DEF Init, SoundRun
<1>8. \A w \in Lanes : lane[w] = Idle
  BY DEF Init
<1>9. lane = [w \in Lanes |-> lane[w]] /\ \A w \in Lanes : SoundLane(run, lane[w])
  BY <1>8, SoundMoves DEF Init
<1>10. SoundSweep(run, sweep)
  BY DEF Init, SoundSweep
<1>11. QED
  BY <1>7, <1>9, <1>10 DEF IInv

LEMMA Inductively == IInv /\ [Next]_vars => IInv'
<1> SUFFICES ASSUME IInv, [Next]_vars PROVE IInv'
  OBVIOUS
<1>1. CASE UNCHANGED vars
  BY <1>1 DEF vars, IInv, SoundRun, Agrees, SoundLane, SoundSweep, Supervises, Latest
<1>2. CASE Next
  <2>1. SoundRun(run) /\ SoundSweep(run, sweep) /\ \A w \in Lanes : SoundLane(run, lane[w])
    BY DEF IInv
  <2>2. SoundRun(run') /\ Monotone(run, run')
    BY <1>2, <2>1, StepsMoveTheRun, MovesKeepRunsSound
  <2>3. \A w \in Lanes : SoundLane(run', lane[w])
    BY <2>1, <2>2, UsableStays
  <2>4. lane' = [w \in Lanes |-> lane'[w]] /\ \A w \in Lanes : SoundLane(run', lane'[w])
    BY <1>2, <2>3, StepsKeepLanes DEF Keeps
  <2>5. SoundSweep(run', sweep')
    BY <1>2, <2>1, <2>2, StepsKeepTheSweep, UsableStays
  <2>6. QED
    BY <2>2, <2>4, <2>5 DEF IInv
<1>3. QED
  BY <1>1, <1>2

(* The invariant the runs do not state: a Run is sound, and lanes and the    *)
(* recovery loop only carry on what is: they supervise no attempt that they  *)
(* did not finalize.                                                         *)
THEOREM StaysSound == Spec => []IInv
<1>1. QED
  BY Initially, Inductively, PTL DEF Spec

(* The Run row and its attempt rows agree after every transaction of every   *)
(* lane, person and recovery step, for any number of lanes, jobs and         *)
(* attempts: the latest attempt has the Run's status, and each earlier one   *)
(* failed, was finalized and was decided on (the writers of PgRunRepository).*)
THEOREM AttemptsAlwaysAgree == Spec => []AttemptsAgree
<1>1. IInv => AttemptsAgree
  BY DEF IInv, SoundRun, Agrees, AttemptsAgree
<1>2. QED
  BY <1>1, StaysSound, PTL

(* A Run that succeeded or was cancelled keeps that status for ever: no late *)
(* publication, hold, requeue, resume, job settlement or recovery statement  *)
(* writes over it (the WHERE clauses of PgRunRepository).                    *)
THEOREM EndsStand == Spec => EndStands
<1> DEFINE Stands == run.status \in {"succeeded", "cancelled"} => run'.status = run.status
<1>1. ASSUME IInv, Next
      PROVE  Stands
  <2> SUFFICES ASSUME run.status \in {"succeeded", "cancelled"}
               PROVE  run'.status = run.status
    OBVIOUS
  <2>1. Moves(run, run')
    BY <1>1, StepsMoveTheRun
  <2>2. run' = run \/ run' = WithFinal(run, run.n)
    BY <1>1, <2>1 DEF Moves, Admissible, Ended, EndedStatus, Bindable, Cancellable, OpenStatus, Stale,
                Supervisable, Resumable, IInv, SoundRun, Agrees
  <2>3. run \in Run
    BY <1>1 DEF IInv, SoundRun
  <2>4. WithFinal(run, run.n).status = run.status
    BY <2>3 DEF WithFinal, Run
  <2>5. QED
    BY <2>2, <2>4
<1>2. IInv /\ [Next]_vars => [Stands]_vars
  BY <1>1
<1>3. QED
  BY <1>2, StaysSound, PTL DEF Spec, EndStands

-----------------------------------------------------------------------------
(* The Run keeps its promise: each statement of RunRows is a step of it.     *)

LEMMA PromiseSeesTheRun ==
    ASSUME NEW r, SoundRun(r)
    PROVE  /\ r.n \in Tries /\ States(r)[r.n] = Seen(r.status)
           /\ r.att \in [Tries -> Attempt] /\ r.status \in RunStatus
           /\ r.n \in Finals(r) <=> r.att[r.n].final
           /\ r.n \in Decisions(r) <=> r.att[r.n].decided
<1>1. r.n \in Tries /\ r.att \in [Tries -> Attempt] /\ r.status \in RunStatus
  BY RunFields DEF SoundRun
<1>2. r.att[r.n].status = r.status
  BY DEF SoundRun, Agrees, Latest
<1>3. QED
  BY <1>1, <1>2 DEF States, Finals, Decisions

(* What the promise sees of a Run of which only the latest attempt changed.  *)
LEMMA PromiseSeesTheAttempt ==
    ASSUME NEW r, SoundRun(r), NEW s, s.n = r.n, NEW a \in Attempt,
           s.att = [r.att EXCEPT ![r.n] = a]
    PROVE  /\ States(s) = [States(r) EXCEPT ![r.n] = Seen(a.status)]
           /\ a.final = r.att[r.n].final => Finals(s) = Finals(r)
           /\ a.final => Finals(s) = Finals(r) \cup {r.n}
           /\ a.decided = r.att[r.n].decided => Decisions(s) = Decisions(r)
           /\ a.decided => Decisions(s) = Decisions(r) \cup {r.n}
<1>1. r.n \in Tries /\ r.att \in [Tries -> Attempt]
  BY PromiseSeesTheRun
<1>2. s.att[r.n] = a /\ \A i \in Tries : i # r.n => s.att[i] = r.att[i]
  BY <1>1
<1>3. States(s) = [States(r) EXCEPT ![r.n] = Seen(a.status)]
  BY <1>1, <1>2 DEF States
<1>4. QED
  BY <1>1, <1>2, <1>3 DEF Finals, Decisions

LEMMA PromiseSeesTheStatus ==
    ASSUME NEW r, SoundRun(r), NEW status \in RunStatus, NEW cause \in Cause
    PROVE  /\ To(r, status, cause).n = r.n
           /\ States(To(r, status, cause)) = [States(r) EXCEPT ![r.n] = Seen(status)]
           /\ Finals(To(r, status, cause)) = Finals(r)
           /\ Decisions(To(r, status, cause)) = Decisions(r)
<1> DEFINE s == To(r, status, cause)
           a == [r.att[r.n] EXCEPT !.status = status]
<1>1. r \in Run /\ r.n \in Tries /\ r.att[r.n] \in Attempt
  BY PromiseSeesTheRun DEF SoundRun
<1>2. s.n = r.n /\ s.att = [r.att EXCEPT ![r.n] = a]
  BY <1>1 DEF To, Run
<1>3. /\ a \in Attempt /\ a.status = status
      /\ a.final = r.att[r.n].final /\ a.decided = r.att[r.n].decided
  BY <1>1 DEF Attempt
<1> HIDE DEF s, a
<1>4. /\ States(s) = [States(r) EXCEPT ![r.n] = Seen(status)]
      /\ Finals(s) = Finals(r) /\ Decisions(s) = Decisions(r)
  BY <1>2, <1>3, PromiseSeesTheAttempt
<1>5. QED
  BY <1>2, <1>4 DEF s

(* What it sees of a Run that got another attempt. *)
LEMMA PromiseSeesTheNewAttempt ==
    ASSUME NEW r, SoundRun(r), r.n < MaxTries, NEW s, NEW a \in Attempt,
           s.att = [r.att EXCEPT ![r.n] = a, ![r.n + 1] = NewAttempt],
           a.final = r.att[r.n].final, a.decided
    PROVE  /\ States(s) = [States(r) EXCEPT ![r.n] = Seen(a.status), ![r.n + 1] = "queued"]
           /\ Finals(s) = Finals(r)
           /\ Decisions(s) = Decisions(r) \cup {r.n}
<1>1. r.n \in Tries /\ r.att \in [Tries -> Attempt]
  BY PromiseSeesTheRun
<1>2. r.n + 1 \in Tries /\ r.n + 1 # r.n /\ r.n + 1 > r.n
  BY <1>1, MaxTriesAssumption DEF Tries
<1>3. /\ s.att[r.n] = a /\ s.att[r.n + 1] = NewAttempt
      /\ \A i \in Tries : i # r.n /\ i # r.n + 1 => s.att[i] = r.att[i]
  BY <1>1, <1>2
<1>4. /\ NewAttempt.status = "queued" /\ Seen("queued") = "queued"
      /\ NewAttempt.final = FALSE /\ NewAttempt.decided = FALSE
  BY DEF NewAttempt, NoAttempt, Seen
<1>5. r.att[r.n + 1] = NoAttempt
  BY <1>2 DEF SoundRun, Agrees
<1>6. NoAttempt.final = FALSE /\ NoAttempt.decided = FALSE
  BY DEF NoAttempt
<1>7. States(s) = [States(r) EXCEPT ![r.n] = Seen(a.status), ![r.n + 1] = "queued"]
  <2>1. \A i \in Tries : States(s)[i] = Seen(s.att[i].status) /\ States(r)[i] = Seen(r.att[i].status)
    BY DEF States
  <2>2. \A i \in Tries : States(s)[i] = IF i = r.n + 1 THEN "queued"
                                        ELSE IF i = r.n THEN Seen(a.status) ELSE States(r)[i]
    BY <1>2, <1>3, <1>4, <2>1
  <2>3. States(s) = [i \in Tries |-> States(s)[i]] /\ States(r) = [i \in Tries |-> States(r)[i]]
    BY DEF States
  <2>4. QED
    BY <1>1, <1>2, <2>2, <2>3
<1>8. Finals(s) = Finals(r)
  BY <1>1, <1>2, <1>3, <1>4, <1>5, <1>6 DEF Finals
<1>9. Decisions(s) = Decisions(r) \cup {r.n}
  BY <1>1, <1>2, <1>3, <1>4, <1>5, <1>6 DEF Decisions
<1>10. QED
  BY <1>7, <1>8, <1>9

LEMMA MovesKeepRunPromise ==
    ASSUME SoundRun(run), Moves(run, run')
    PROVE  [Promise!Next]_(Promise!vars)
<1>1. /\ run \in Run /\ run.n \in Tries /\ run.att[run.n] \in Attempt /\ run.status \in RunStatus
      /\ run.att[run.n].status = run.status
      /\ States(run)[run.n] = Seen(run.status)
      /\ run.n \in Finals(run) <=> run.att[run.n].final
      /\ run.n \in Decisions(run) <=> run.att[run.n].decided
  BY PromiseSeesTheRun DEF SoundRun, Agrees, Latest
<1>2. /\ ~Ended(run) => Seen(run.status) \in Promise!Open \cup {"held"}
      /\ Ended(run) => Seen(run.status) \in Promise!Over
      /\ run.status \in {"failed", "orphaned"} => Seen(run.status) = "failed"
  BY <1>1 DEF Ended, EndedStatus, RunStatus, OpenStatus, Seen, Promise!Open, Promise!Over
<1>3. ASSUME NEW status \in RunStatus, NEW cause \in Cause, run' = To(run, status, cause)
      PROVE  /\ States(run)' = [States(run) EXCEPT ![run.n] = Seen(status)] /\ run'.n = run.n
             /\ Finals(run)' = Finals(run) /\ Decisions(run)' = Decisions(run)
  BY <1>3, PromiseSeesTheStatus
<1>4. CASE run' = run
  BY <1>4 DEF Promise!vars, States, Finals, Decisions
<1>5. CASE Admissible(run) /\ run' = Admitted(run)
  <2> DEFINE t == To(run, "running", "none")
  <2>1. SoundRun(t)
    BY TakingAStatus DEF RunStatus, OpenStatus, Cause
  <2>2. run' = [t EXCEPT !.started = TRUE] /\ t \in Run
    BY <1>5, <2>1 DEF Admitted, SoundRun
  <2>3. run'.n = t.n /\ run'.att = t.att
    BY <2>2 DEF Run
  <2>4. /\ t.n = run.n /\ States(t) = [States(run) EXCEPT ![run.n] = Seen("running")]
        /\ Finals(t) = Finals(run) /\ Decisions(t) = Decisions(run)
    BY PromiseSeesTheStatus DEF RunStatus, OpenStatus, Cause
  <2>5. /\ States(run)' = States(t) /\ Finals(run)' = Finals(t) /\ Decisions(run)' = Decisions(t)
    BY <2>3 DEF States, Finals, Decisions
  <2>6. Promise!Begin
    BY <1>1, <1>5, <2>3, <2>4, <2>5 DEF Promise!Begin, Promise!Becomes, Admissible, Seen
  <2>7. QED
    BY <2>6 DEF Promise!Next
<1>6. ASSUME ~Ended(run), NEW status \in EndedStatus, NEW cause \in Cause,
             run' = To(run, status, cause)
      PROVE  Promise!Next
  <2>1. status \in RunStatus /\ Seen(status) \in Promise!Over
    BY DEF EndedStatus, RunStatus, Seen, Promise!Over
  <2>2. Promise!Finish
    BY <1>1, <1>2, <1>3, <1>6, <2>1 DEF Promise!Finish, Promise!Becomes
  <2>3. QED
    BY <2>2 DEF Promise!Next
<1>7. ASSUME NEW l \in Tries, run' = Bound(run, l)
      PROVE  UNCHANGED Promise!vars
  <2> DEFINE a == [run.att[run.n] EXCEPT !.launch = l]
  <2>1. /\ a \in Attempt /\ a.status = run.att[run.n].status
        /\ a.final = run.att[run.n].final /\ a.decided = run.att[run.n].decided
    BY <1>1 DEF Attempt
  <2>2. run'.n = run.n /\ run'.att = [run.att EXCEPT ![run.n] = a]
    BY <1>1, <1>7 DEF Bound, Run
  <2> HIDE DEF a
  <2>3. /\ States(run)' = [States(run) EXCEPT ![run.n] = Seen(run.status)]
        /\ Finals(run)' = Finals(run) /\ Decisions(run)' = Decisions(run)
    BY <1>1, <2>1, <2>2, PromiseSeesTheAttempt
  <2>4. [States(run) EXCEPT ![run.n] = Seen(run.status)] = States(run)
    BY <1>1 DEF States
  <2>5. QED
    BY <2>2, <2>3, <2>4 DEF Promise!vars
<1>8. CASE Cancellable(run) /\ run' = Cancelling(run)
  <2>1. run' = To(run, "cancelling", "none") /\ "cancelling" \in RunStatus /\ "none" \in Cause
    BY <1>8 DEF Cancelling, RunStatus, OpenStatus, Cause
  <2>2. Seen("cancelling") = "stopping" /\ ~Ended(run)
    BY <1>8 DEF Seen, Cancellable, Ended, OpenStatus, EndedStatus
  <2>3. Promise!Stop
    BY <1>1, <1>2, <1>3, <2>1, <2>2 DEF Promise!Stop, Promise!Becomes
  <2>4. QED
    BY <2>3 DEF Promise!Next
<1>9. CASE Stale(run) /\ run' = Recovered(run)
  <2>1. ~Ended(run)
    BY <1>9 DEF Stale, Ended, EndedStatus
  <2>2. \E status \in EndedStatus, cause \in Cause : run' = To(run, status, cause)
    BY <1>9 DEF Recovered, EndedStatus, Cause
  <2>3. QED
    BY <1>6, <2>1, <2>2
<1>10. CASE Ended(run) /\ run' = WithFinal(run, run.n)
  <2> DEFINE a == [run.att[run.n] EXCEPT !.final = TRUE]
  <2>1. /\ a \in Attempt /\ a.status = run.att[run.n].status
        /\ a.final /\ a.decided = run.att[run.n].decided
    BY <1>1 DEF Attempt
  <2>2. run'.n = run.n /\ run'.att = [run.att EXCEPT ![run.n] = a]
    BY <1>1, <1>10 DEF WithFinal, Run
  <2> HIDE DEF a
  <2>3. /\ States(run)' = [States(run) EXCEPT ![run.n] = Seen(run.status)]
        /\ Finals(run)' = Finals(run) \cup {run.n} /\ Decisions(run)' = Decisions(run)
    BY <1>1, <2>1, <2>2, PromiseSeesTheAttempt
  <2>4. [States(run) EXCEPT ![run.n] = Seen(run.status)] = States(run)
    BY <1>1 DEF States
  <2>5. Promise!Finalize
    BY <1>1, <1>2, <1>10, <2>2, <2>3, <2>4 DEF Promise!Finalize
  <2>6. QED
    BY <2>5 DEF Promise!Next
<1>11. ASSUME NEW n \in Tries, Supervisable(run, n), Supervises(run, n)
       PROVE  /\ States(run)[run.n] = "failed"
              /\ run.n \in Finals(run) \ Decisions(run)
  BY <1>1, <1>2, <1>11 DEF Supervisable, Supervises, Latest
<1>12. ASSUME NEW n \in Tries, Supervisable(run, n), Supervises(run, n), Retried(run),
              run' = Requeued(run)
       PROVE  Promise!Next
  <2> DEFINE a == [run.att[run.n] EXCEPT !.decided = TRUE]
  <2>1. /\ a \in Attempt /\ a.status = run.status
        /\ a.final = run.att[run.n].final /\ a.decided
    BY <1>1 DEF Attempt
  <2>2. /\ run'.n = run.n + 1
        /\ run'.att = [run.att EXCEPT ![run.n] = a, ![run.n + 1] = NewAttempt]
    BY <1>1, <1>12 DEF Requeued, Run
  <2>3. run.n < MaxTries
    BY <1>12 DEF Retried
  <2> HIDE DEF a
  <2>4. /\ States(run)' = [States(run) EXCEPT ![run.n] = Seen(run.status), ![run.n + 1] = "queued"]
        /\ Finals(run)' = Finals(run) /\ Decisions(run)' = Decisions(run) \cup {run.n}
    BY <2>1, <2>2, <2>3, PromiseSeesTheNewAttempt
  <2>5. [States(run) EXCEPT ![run.n] = Seen(run.status), ![run.n + 1] = "queued"]
            = [States(run) EXCEPT ![run.n + 1] = "queued"]
    BY <1>1 DEF States
  <2>6. Promise!Retry
    BY <1>11, <1>12, <2>2, <2>3, <2>4, <2>5 DEF Promise!Retry, Promise!Decide
  <2>7. QED
    BY <2>6 DEF Promise!Next
<1>13. ASSUME NEW n \in Tries, Supervisable(run, n), Supervises(run, n), run' = OnHold(run)
       PROVE  Promise!Next
  <2> DEFINE a == [run.att[run.n] EXCEPT !.status = "waiting_for_review", !.decided = TRUE]
  <2>1. /\ a \in Attempt /\ a.status = "waiting_for_review"
        /\ a.final = run.att[run.n].final /\ a.decided
    BY <1>1 DEF Attempt, RunStatus
  <2>2. run'.n = run.n /\ run'.att = [run.att EXCEPT ![run.n] = a]
    BY <1>1, <1>13 DEF OnHold, Run
  <2> HIDE DEF a
  <2>3. /\ States(run)' = [States(run) EXCEPT ![run.n] = "held"]
        /\ Finals(run)' = Finals(run) /\ Decisions(run)' = Decisions(run) \cup {run.n}
    BY <2>1, <2>2, PromiseSeesTheAttempt DEF Seen
  <2>4. Promise!Hold
    BY <1>11, <1>13, <2>2, <2>3 DEF Promise!Hold, Promise!Decide, Promise!Becomes
  <2>5. QED
    BY <2>4 DEF Promise!Next
<1>14. CASE Resumable(run) /\ run' = Resumed(run)
  <2> DEFINE outcome == IF run.cause \in {"orphaned", "exhausted"} THEN "orphaned" ELSE "failed"
             a == [run.att[run.n] EXCEPT !.status = outcome]
  <2>1. outcome \in RunStatus /\ Seen(outcome) = "failed"
    BY DEF RunStatus, EndedStatus, Seen
  <2>2. run.att[run.n].decided /\ run.n < MaxTries /\ Seen(run.status) = "held"
    BY <1>14 DEF Resumable, SoundRun, Latest, Seen
  <2>3. /\ a \in Attempt /\ a.status = outcome
        /\ a.final = run.att[run.n].final /\ a.decided
    BY <1>1, <2>1, <2>2 DEF Attempt
  <2>4. /\ run'.n = run.n + 1
        /\ run'.att = [run.att EXCEPT ![run.n] = a, ![run.n + 1] = NewAttempt]
    BY <1>1, <1>14 DEF Resumed, Run
  <2> HIDE DEF a
  <2>5. /\ States(run)' = [States(run) EXCEPT ![run.n] = "failed", ![run.n + 1] = "queued"]
        /\ Finals(run)' = Finals(run) /\ Decisions(run)' = Decisions(run) \cup {run.n}
    BY <2>1, <2>2, <2>3, <2>4, PromiseSeesTheNewAttempt
  <2>6. Decisions(run) \cup {run.n} = Decisions(run)
    BY <1>1, <2>2
  <2>7. Promise!Resume
    BY <1>1, <2>2, <2>4, <2>5, <2>6 DEF Promise!Resume
  <2>8. QED
    BY <2>7 DEF Promise!Next
<1>15. QED
  BY <1>4, <1>5, <1>6, <1>7, <1>8, <1>9, <1>10, <1>12, <1>13, <1>14 DEF Moves, Published

LEMMA PromiseBegins == Init => Promise!Init
<1> SUFFICES ASSUME Init PROVE Promise!Init
  OBVIOUS
<1>1. run = NewRun
  BY DEF Init
<1>2. /\ run.n = 1
      /\ run.att = [i \in Tries |-> IF i = 1 THEN NewAttempt ELSE NoAttempt]
  BY <1>1 DEF NewRun
<1>3. /\ Seen("queued") = "queued" /\ Seen("none") = "none"
      /\ NewAttempt.status = "queued" /\ NoAttempt.status = "none"
      /\ NewAttempt.final = FALSE /\ NoAttempt.final = FALSE
      /\ NewAttempt.decided = FALSE /\ NoAttempt.decided = FALSE
  BY DEF Seen, NewAttempt, NoAttempt
<1>4. States(run) = [i \in Tries |-> IF i = 1 THEN "queued" ELSE "none"]
  BY <1>2, <1>3 DEF States
<1>5. Finals(run) = {} /\ Decisions(run) = {}
  BY <1>2, <1>3 DEF Finals, Decisions
<1>6. QED
  BY <1>2, <1>4, <1>5 DEF Promise!Init, Promise!Tries, Tries

(* Execution implements the promise of RunPromise, with stalls, early faults *)
(* and hasty resumes, for any number of lanes, jobs, attempts and tries: a   *)
(* success, a cancellation and a superseded attempt stand, and a failure is  *)
(* decided on once, after its effects were made, before another attempt is   *)
(* queued (the statements of PgRunRepository and the Supervisor).            *)
THEOREM ExecutionKeepsRunPromise == Spec => KeepsRunPromise
<1>1. ASSUME IInv, [Next]_vars
      PROVE  [Promise!Next]_(Promise!vars)
  <2>1. CASE Next
    BY <1>1, <2>1, StepsMoveTheRun, MovesKeepRunPromise DEF IInv
  <2>2. CASE UNCHANGED vars
    BY <2>2 DEF vars, Promise!vars, States, Finals, Decisions
  <2>3. QED
    BY <1>1, <2>1, <2>2
<1>2. QED
  BY <1>1, PromiseBegins, StaysSound, PTL DEF Spec, KeepsRunPromise, Promise!Spec

-----------------------------------------------------------------------------
(***************************************************************************)
(* The rest is about who executes a Run and what of it runs on the host:   *)
(* the execution lock excludes, processes belong to the attempt the Run    *)
(* has, and a confirmed stop is one.  For any number of lanes, jobs,       *)
(* attempts and tries, while no live lane outlasts its lease (~Stalls).    *)
(*                                                                         *)
(* The argument rests on three invariants, each on the one before it.      *)
(* HInv: a lane that works holds its job with a fresh lease, no two lanes  *)
(* work on one job, and the lock belongs to the one lane that executes, or *)
(* to a dead worker that still holds the job it was taken with.  PInv:     *)
(* only the executing lane starts a process or ends the Run, so what it    *)
(* carries is still true when it acts on it.  CInv, when no person resumes *)
(* the Run beside a cancellation of it (~Hasty): a Run that is being       *)
(* cancelled ends without a retry, and once the abort passed no lane may   *)
(* launch for it.                                                          *)
(***************************************************************************)
(* Who holds what. *)
ExecutingPc ==
    {"admitting", "preparing", "opening", "binding", "bound", "running", "collecting",
     "publishing", "stopping", "looking", "asking"}

RowsTyped ==
    /\ jobs \in [Jobs -> JobRow \cup {Absent}]
    /\ lock \in {NoLock} \cup [by : Workers, job : Jobs]

(* The row of a lane's job: one that was only claimed may be cancelled.      *)
RowOf(w, l, r) ==
    IF l.pc = "claimed" THEN r.status # "absent" => r.status = "claimed" /\ r.holder = w /\ r.fresh
    ELSE r.status = "running" /\ r.holder = w /\ r.fresh

LanesHold ==
    \A w \in Lanes : lane[w] # Idle =>
        /\ lane[w].pc # "idle" /\ lane[w].job \in Jobs
        /\ RowOf(w, lane[w], jobs[lane[w].job])

OneLaneEach ==
    \A v, w \in Lanes : lane[v] # Idle /\ lane[w] # Idle /\ lane[v].job = lane[w].job => v = w

LockIsOwned ==
    /\ Locked => jobs[lock.job].status = "running" /\ jobs[lock.job].holder = lock.by
    /\ \A w \in Lanes : /\ lane[w].pc \in ExecutingPc <=> lock.by = w
                        /\ lock.by = w => lock.job = lane[w].job

(* No statement comes between the two of the recovery loop that makes the    *)
(* job of a lock stuck after its lock was looked at.                         *)
SweepSpares == sweep.pc = "reclaim" /\ Locked => jobs[lock.job].fresh

HInv == RowsTyped /\ LanesHold /\ OneLaneEach /\ LockIsOwned /\ SweepSpares

-----------------------------------------------------------------------------
(* What runs on the host. *)
HostTyped ==
    /\ proc \in [Tries -> {"none", "running", "dying", "exited"}]
    /\ online \in BOOLEAN /\ owed \subseteq Tries

Ceased(l) == proc[l] \notin {"running", "dying"}

LaunchesAreRecorded ==
    \A l \in Tries : /\ run.att[l].launch \in {NoLaunch, l}
                     /\ proc[l] # "none" => l <= run.n /\ run.att[l].launch = l

(* What a lane was admitted for is what the Run still is.                    *)
InCharge(l) == run.status \in {"running", "cancelling"} /\ l.n = run.n

CarriesTrue(l) ==
    /\ l.pc \in {"preparing", "opening", "binding", "bound", "running", "collecting"} => InCharge(l)
    /\ l.pc \in {"bound", "running"} => run.att[run.n].launch = run.n
    /\ l.pc \in {"binding", "bound"} => l.what \in {"open", "aborted"}
    /\ l.pc = "collecting" => l.what \in Outcome
    /\ l.pc \in {"collecting", "publishing"} /\ l.what = "transient" => InCharge(l) /\ Ceased(run.n)
    /\ l.pc = "asking" \/ (l.pc = "publishing" /\ l.what = "orphaned") => l.n \in Tries /\ l.n <= run.n
    /\ l.pc = "publishing" /\ l.what = "orphaned" /\ l.n = run.n => Ceased(run.n)

RetriedAreGone == Ended(run) /\ run.cause \in Retryable => Ceased(run.n)

PInv == HostTyped /\ LaunchesAreRecorded /\ RetriedAreGone /\ \A w \in Lanes : CarriesTrue(lane[w])

-----------------------------------------------------------------------------
(* What a cancellation waits for. *)
Unretried(r) ==
    \/ r.status \in {"cancelling", "waiting_for_review"}
    \/ Ended(r) /\ r.cause \notin Retryable

MayLaunch(l) == l.pc = "bound" /\ l.what = "open"

CInv ==
    /\ asker.pc \in {"aborting", "looking", "asking", "publishing"} => Unretried(run)
    /\ asker.pc \in {"asking", "publishing"} => asker.n \in Tries /\ asker.n <= run.n
    /\ asker.pc \in {"looking", "asking", "publishing"} /\ run.status = "cancelling" =>
         \A w \in Lanes : ~MayLaunch(lane[w])
    /\ asker.pc = "publishing" /\ run.status = "cancelling" /\ asker.n = run.n => Ceased(run.n)

-----------------------------------------------------------------------------
(* What the statements of the queue make of a row is a row. *)
LEMMA RowsStayRows ==
    ASSUME NEW r \in JobRow
    PROVE  /\ Started(r) \in JobRow /\ Completed(r) \in JobRow /\ Failed(r) \in JobRow
           /\ Deferred(r) \in JobRow /\ Cancelled(r) \in JobRow
           /\ \A b : Reclaimed(r, b) \in JobRow
           /\ \A w \in Workers : Claimable(r) => Claimed(r, w) \in JobRow
           /\ \A b \in BOOLEAN : [r EXCEPT !.due = b] \in JobRow /\ [r EXCEPT !.fresh = b] \in JobRow
           /\ \A w \in Workers : [r EXCEPT !.holder = w] \in JobRow
<1>1. /\ r.attempts \in Nat /\ r.attempts <= MaxAttempts /\ MaxAttempts \in Nat \ {0}
      /\ r.status \in JobStatus /\ r.holder \in Workers \cup {NoWorker}
      /\ r.fresh \in BOOLEAN /\ r.due \in BOOLEAN
  BY MaxAttemptsAssumption DEF JobRow
<1>2. \A a \in 0 .. MaxAttempts, b \in BOOLEAN : Waiting(a, b) \in JobRow
  BY DEF Waiting, JobRow, JobStatus
<1>3. Started(r) \in JobRow /\ Completed(r) \in JobRow /\ Cancelled(r) \in JobRow
  BY DEF Started, Completed, Cancelled, JobRow, JobStatus
<1>4. Failed(r) \in JobRow
  <2>1. [r EXCEPT !.status = "failed", !.fresh = FALSE] \in JobRow
    BY DEF JobRow, JobStatus
  <2>2. Waiting(r.attempts, r.due) \in JobRow
    BY <1>1, <1>2
  <2>3. QED
    BY <2>1, <2>2 DEF Failed
<1>5. Deferred(r) \in JobRow
  <2>1. (IF r.attempts = 0 THEN 0 ELSE r.attempts - 1) \in 0 .. MaxAttempts
    BY <1>1
  <2>2. QED
    BY <2>1 DEF Deferred, Waiting, JobRow, JobStatus
<1>6. \A b : Reclaimed(r, b) \in JobRow
  <2>1. r.attempts \in 0 .. MaxAttempts /\ MaxAttempts - 1 \in 0 .. MaxAttempts
    BY <1>1
  <2>2. [r EXCEPT !.status = "failed", !.holder = NoWorker, !.fresh = FALSE] \in JobRow
    BY DEF JobRow, JobStatus
  <2>3. Waiting(r.attempts, r.due) \in JobRow /\ Waiting(MaxAttempts - 1, r.due) \in JobRow
    BY <1>1, <1>2, <2>1
  <2>4. QED
    BY <2>2, <2>3 DEF Reclaimed
<1>7. \A w \in Workers : Claimable(r) => Claimed(r, w) \in JobRow
  BY <1>1 DEF Claimable, Claimed, JobRow, JobStatus
<1>8. /\ \A b \in BOOLEAN : [r EXCEPT !.due = b] \in JobRow /\ [r EXCEPT !.fresh = b] \in JobRow
      /\ \A w \in Workers : [r EXCEPT !.holder = w] \in JobRow
  BY DEF JobRow
<1>9. QED
  BY <1>3, <1>4, <1>5, <1>6, <1>7, <1>8

LEMMA KeptIsARow ==
    ASSUME NEW r \in JobRow
    PROVE  Kept(r) \in JobRow \cup {Absent}
BY DEF Kept

LEMMA NewJobIsARow == \A due \in BOOLEAN : Kept(NewJob(due)) = NewJob(due) /\ NewJob(due) \in JobRow
BY MaxAttemptsAssumption DEF NewJob, Waiting, JobRow, JobStatus, Kept, SettledStatus

(* A row that is there is one of the table. *)
LEMMA RowsThatExist ==
    ASSUME RowsTyped, NEW j \in Jobs
    PROVE  /\ Exists(j) => jobs[j] \in JobRow
           /\ jobs[j].status # "absent" <=> Exists(j)
BY DEF RowsTyped, Exists, Absent, JobRow, JobStatus

LEMMA WritingARow ==
    ASSUME RowsTyped, NEW j \in Jobs, NEW r \in JobRow, Write(j, r)
    PROVE  /\ jobs' \in [Jobs -> JobRow \cup {Absent}]
           /\ jobs'[j] = Kept(r)
           /\ \A i \in Jobs : i # j => jobs'[i] = jobs[i]
BY KeptIsARow DEF RowsTyped, Write

-----------------------------------------------------------------------------
(* Steps that leave the lock where it is.                                    *)
(* A lane goes on with its job, on the same side of the lock.                *)
SameSort(l, m) ==
    \/ m = l
    \/ /\ l # Idle /\ m # Idle /\ m.pc # "idle" /\ m.job = l.job
       /\ l.pc # "claimed" /\ m.pc # "claimed"
       /\ l.pc \in ExecutingPc <=> m.pc \in ExecutingPc

LockFields == lock \in {NoLock} \cup [by : Workers, job : Jobs]

LEMMA LocksAndLanes ==
    ASSUME HInv
    PROVE  /\ Locked <=> lock.by # NoWorker
           /\ Locked => lock.by \in Workers /\ lock.job \in Jobs
           /\ \A w \in Lanes : w \in Workers /\ w # NoWorker /\ w # Gone
           /\ \A w \in Lanes : Executing(w) <=> lane[w].pc \in ExecutingPc
           /\ \A w \in Lanes : lane[w].pc \in ExecutingPc => Locked /\ lock.by = w /\ lane[w] # Idle
BY NoWorkerAssumption
   DEF HInv, RowsTyped, LockIsOwned, Locked, NoLock, Lanes, Executing, ExecutingPc, Idle

LEMMA TheLockStays ==
    ASSUME HInv, jobs' \in [Jobs -> JobRow \cup {Absent}], lock' = lock,
           \A v \in Lanes : \/ SameSort(lane[v], lane'[v])
                            \/ lane'[v] = Idle /\ lane[v].pc \notin ExecutingPc,
           \A v \in Lanes : lane[v] # Idle /\ lane'[v] # Idle =>
               jobs'[lane[v].job] = jobs[lane[v].job],
           Locked => jobs'[lock.job] = jobs[lock.job],
           sweep' = sweep \/ sweep'.pc # "reclaim"
    PROVE  HInv'
<1>1. Idle.pc = "idle" /\ "idle" \notin ExecutingPc
  BY DEF Idle, ExecutingPc
<1>2. \A v \in Lanes : lane[v].pc \in ExecutingPc <=> lane'[v].pc \in ExecutingPc
  BY <1>1 DEF SameSort
<1>3. \A v \in Lanes : lane'[v] # Idle =>
        /\ lane[v] # Idle /\ lane'[v].job = lane[v].job /\ lane'[v].pc # "idle"
        /\ lane'[v].pc = "claimed" <=> lane[v].pc = "claimed"
  BY DEF SameSort, HInv, LanesHold
<1>4. RowsTyped'
  BY DEF HInv, RowsTyped
<1>5. LanesHold'
  <2> SUFFICES ASSUME NEW v \in Lanes, lane'[v] # Idle
               PROVE  /\ lane'[v].pc # "idle" /\ lane'[v].job \in Jobs
                      /\ RowOf(v, lane'[v], jobs'[lane'[v].job])
    BY DEF LanesHold
  <2>1. RowOf(v, lane[v], jobs[lane[v].job]) /\ lane[v].job \in Jobs
    BY <1>3 DEF HInv, LanesHold
  <2>2. QED
    BY <1>3, <2>1 DEF RowOf
<1>6. OneLaneEach'
  BY <1>3 DEF HInv, OneLaneEach
<1>7. LockIsOwned'
  <2>1. Locked' <=> Locked
    BY DEF Locked
  <2>2. \A w \in Lanes : lock.by = w => lane'[w].job = lock.job
    BY <1>1, <1>2, <1>3 DEF HInv, LockIsOwned, Idle
  <2>3. QED
    BY <1>2, <2>1, <2>2 DEF HInv, LockIsOwned
<1>8. SweepSpares'
  BY DEF HInv, SweepSpares, Locked
<1>9. QED
  BY <1>4, <1>5, <1>6, <1>7, <1>8 DEF HInv

(* Steps that give the lock up, or find it without an executor.              *)
LEMMA TheLockGoes ==
    ASSUME HInv, jobs' = jobs, lock' = NoLock,
           \A v \in Lanes :
               \/ lane'[v] = lane[v] /\ lane[v].pc \notin ExecutingPc
               \/ /\ lane[v] # Idle /\ lane'[v] # Idle /\ lane'[v].pc # "idle"
                  /\ lane'[v].job = lane[v].job
                  /\ lane[v].pc # "claimed" /\ lane'[v].pc # "claimed"
                  /\ lane'[v].pc \notin ExecutingPc
    PROVE  HInv'
<1>1. RowsTyped'
  BY DEF HInv, RowsTyped
<1>2. LanesHold'
  BY DEF HInv, LanesHold, RowOf
<1>3. OneLaneEach'
  BY DEF HInv, OneLaneEach
<1>4. LockIsOwned' /\ SweepSpares'
  BY NoWorkerAssumption DEF LockIsOwned, SweepSpares, Locked, NoLock, Lanes
<1>5. QED
  BY <1>1, <1>2, <1>3, <1>4 DEF HInv

-----------------------------------------------------------------------------
(* The steps of a lane.                                                      *)
LEMMA WhereALaneGoes ==
    ASSUME NEW l, NEW pc, pc \notin {"idle", "claimed"}, NEW n, NEW what
    PROVE  /\ At(pc, l, n, what) # Idle /\ At(pc, l, n, what).pc = pc
           /\ At(pc, l, n, what).job = l.job
           /\ At(pc, l, n, what).n = n /\ At(pc, l, n, what).what = what
           /\ l # Idle /\ l.pc # "claimed" /\ (l.pc \in ExecutingPc <=> pc \in ExecutingPc)
                => SameSort(l, At(pc, l, n, what))
BY DEF At, Idle, SameSort

LEMMA OneLaneGoesOn ==
    ASSUME IInv, HInv, NEW w \in Lanes, NEW m, Move(w, m), SameSort(lane[w], m),
           jobs' = jobs, lock' = lock, sweep' = sweep
    PROVE  HInv'
<1>1. \A v \in Lanes : SameSort(lane[v], lane'[v])
  BY DEF IInv, Move, SameSort
<1>2. jobs' \in [Jobs -> JobRow \cup {Absent}]
  BY DEF HInv, RowsTyped
<1>3. QED
  BY <1>1, <1>2, TheLockStays

(* What the other lanes are told by a dispatch, an abort or an answer.       *)
LEMMA OthersAreTold ==
    ASSUME IInv
    PROVE  /\ \A v \in Lanes : SameSort(lane[v], Aborted[v])
           /\ \A v \in Lanes : \A l, what : SameSort(lane[v], Completing(l, what)[v])
           /\ \A v \in Lanes : \A l : SameSort(lane[v], AnsweredLanes(l)[v])
           /\ \A v, w \in Lanes : lane[w].pc = "bound" /\ lane[w] # Idle => SameSort(lane[v], Dispatched(w)[v])
<1>1. \A v \in Lanes : SameSort(lane[v], Aborted[v])
  BY DEF Aborted, SameSort, Is, Works, At, Idle, ExecutingPc
<1>2. \A v \in Lanes : \A l, what : SameSort(lane[v], Completing(l, what)[v])
  BY DEF Completing, SameSort, Is, Works, At, Idle, ExecutingPc
<1>3. \A v \in Lanes : \A l : SameSort(lane[v], AnsweredLanes(l)[v])
  BY <1>2 DEF AnsweredLanes, SameSort
<1>4. \A v, w \in Lanes : lane[w].pc = "bound" /\ lane[w] # Idle => SameSort(lane[v], Dispatched(w)[v])
  BY DEF Dispatched, SameSort, Is, Works, At, Goto, Idle, ExecutingPc
<1>5. QED
  BY <1>1, <1>2, <1>3, <1>4

LEMMA TheOwnerLetsGo ==
    ASSUME IInv, HInv, NEW w \in Lanes, lane[w].pc \in ExecutingPc, jobs' = jobs,
           lock' = NoLock, NEW pc, pc \notin ExecutingPc \cup {"idle", "claimed"}, NEW n, NEW what,
           Move(w, At(pc, lane[w], n, what))
    PROVE  HInv'
<1>1. \A v \in Lanes : v # w => lane'[v] = lane[v] /\ lane[v].pc \notin ExecutingPc
  BY DEF IInv, Move, HInv, LockIsOwned
<1>2. /\ lane[w] # Idle /\ lane[w].pc # "claimed"
      /\ lane'[w] = At(pc, lane[w], n, what)
  BY LocksAndLanes DEF IInv, Move, ExecutingPc
<1>3. lane'[w] # Idle /\ lane'[w].pc = pc /\ lane'[w].job = lane[w].job
  BY <1>2, WhereALaneGoes
<1>4. QED
  BY <1>1, <1>2, <1>3, TheLockGoes

LEMMA OwnersFreeTheLock ==
    ASSUME HInv, NEW w \in Lanes, lane[w].pc \in ExecutingPc
    PROVE  /\ LockWithout(w) = NoLock
           /\ \A what, expected : PublishOwned(w, what, expected) => lock' = NoLock
BY LocksAndLanes DEF LockWithout, PublishOwned

(* A lane settles its job and is done with it.                               *)
LEMMA TheJobIsSettled ==
    ASSUME IInv, HInv, NEW w \in Lanes, lane[w] # Idle, lane[w].pc \notin ExecutingPc,
           NEW r \in JobRow, Write(lane[w].job, r), Move(w, Idle), lock' = lock, sweep' = sweep
    PROVE  HInv'
<1> DEFINE j == lane[w].job
<1>1. j \in Jobs
  BY DEF HInv, LanesHold
<1>2. /\ jobs' \in [Jobs -> JobRow \cup {Absent}]
      /\ \A i \in Jobs : i # j => jobs'[i] = jobs[i]
  BY <1>1, WritingARow DEF HInv
<1>3. \A v \in Lanes : v # w => lane'[v] = lane[v] /\ (lane[v] # Idle => lane[v].job \in Jobs \ {j})
  BY DEF IInv, Move, HInv, OneLaneEach, LanesHold
<1>4. lane'[w] = Idle
  BY DEF IInv, Move
<1>5. Locked => lock.job # j
  <2> SUFFICES ASSUME Locked, lock.job = j
               PROVE  FALSE
    OBVIOUS
  <2>1. jobs[j].status = "running" /\ jobs[j].holder = lock.by /\ lock.by \in Workers
    BY LocksAndLanes DEF HInv, LockIsOwned
  <2>2. RowOf(w, lane[w], jobs[j])
    BY DEF HInv, LanesHold
  <2>3. lock.by = w
    BY <2>1, <2>2 DEF RowOf
  <2>4. QED
    BY <2>3 DEF HInv, LockIsOwned
<1>6. \A v \in Lanes : SameSort(lane[v], lane'[v]) \/ (lane'[v] = Idle /\ lane[v].pc \notin ExecutingPc)
  BY <1>3, <1>4 DEF SameSort
<1>7. \A v \in Lanes : lane[v] # Idle /\ lane'[v] # Idle => jobs'[lane[v].job] = jobs[lane[v].job]
  BY <1>2, <1>3, <1>4
<1>8. Locked => jobs'[lock.job] = jobs[lock.job]
  BY <1>2, <1>5, LocksAndLanes
<1>9. QED
  BY <1>2, <1>6, <1>7, <1>8, TheLockStays

LEMMA TheJobIsDropped ==
    ASSUME IInv, HInv, NEW w \in Lanes, lane[w] # Idle, lane[w].pc \notin ExecutingPc,
           jobs' = jobs, lock' = lock, sweep' = sweep, Move(w, Idle)
    PROVE  HInv'
<1>1. \A v \in Lanes : SameSort(lane[v], lane'[v]) \/ (lane'[v] = Idle /\ lane[v].pc \notin ExecutingPc)
  BY DEF IInv, Move, SameSort
<1>2. jobs' \in [Jobs -> JobRow \cup {Absent}]
  BY DEF HInv, RowsTyped
<1>3. QED
  BY <1>1, <1>2, TheLockStays

(* What a lane that works knows of its job.                                  *)
LEMMA ItsJobIsThere ==
    ASSUME HInv, NEW w \in Lanes, lane[w] # Idle, lane[w].pc # "claimed"
    PROVE  /\ lane[w].job \in Jobs /\ jobs[lane[w].job] \in JobRow
           /\ Exists(lane[w].job) /\ HeldBy(jobs[lane[w].job], w)
<1>1. RowOf(w, lane[w], jobs[lane[w].job]) /\ lane[w].job \in Jobs
  BY DEF HInv, LanesHold
<1>2. jobs[lane[w].job].status = "running" /\ jobs[lane[w].job].holder = w
  BY <1>1 DEF RowOf
<1>3. Exists(lane[w].job)
  BY <1>2 DEF Exists, Absent
<1>4. QED
  BY <1>1, <1>2, <1>3, RowsThatExist DEF HInv, HeldBy, Held, HeldStatus

LEMMA SettlingKeepsTheLock ==
    ASSUME IInv, HInv, NEW w \in Lanes, Start(w) \/ Complete(w) \/ Defer(w) \/ Fail(w)
    PROVE  HInv'
<1> DEFINE j == lane[w].job
<1>1. CASE Start(w)
  <2>1. lane[w] # Idle /\ lane[w].pc = "claimed" /\ j \in Jobs /\ RowOf(w, lane[w], jobs[j])
    BY <1>1 DEF Start, Is, Works, HInv, LanesHold
  <2>2. CASE Exists(j) /\ Startable(jobs[j], w)
    <3>1. /\ Write(j, Started(jobs[j])) /\ Started(jobs[j]) \in JobRow
          /\ Move(w, Leave("reading", lane[w])) /\ lock' = lock /\ sweep' = sweep
      BY <1>1, <2>1, <2>2, RowsThatExist, RowsStayRows DEF Start, HInv
    <3>2. /\ jobs' \in [Jobs -> JobRow \cup {Absent}] /\ jobs'[j] = Started(jobs[j])
          /\ \A i \in Jobs : i # j => jobs'[i] = jobs[i]
      <4>1. Started(jobs[j]).status = "running"
        BY <2>1, <2>2, RowsThatExist DEF HInv, Started, JobRow
      <4>2. Kept(Started(jobs[j])) = Started(jobs[j])
        BY <4>1 DEF Kept, SettledStatus
      <4>3. QED
        BY <2>1, <3>1, <4>2, WritingARow DEF HInv
    <3>3. jobs'[j].status = "running" /\ jobs'[j].holder = w /\ jobs'[j].fresh
      BY <2>1, <2>2, <3>2, RowsThatExist DEF Started, Startable, HInv, JobRow
    <3>4. /\ lane'[w] # Idle /\ lane'[w].pc = "reading" /\ lane'[w].job = j
          /\ \A v \in Lanes : v # w => lane'[v] = lane[v]
      <4>1. \A l : /\ At("reading", l, 0, "none") # Idle /\ At("reading", l, 0, "none").pc = "reading"
                  /\ At("reading", l, 0, "none").job = l.job
        BY DEF At, Idle
      <4>2. QED
        BY <3>1, <4>1 DEF IInv, Move, Leave
    <3>5. LanesHold' /\ OneLaneEach'
      <4>1. \A v \in Lanes : v # w /\ lane[v] # Idle => lane[v].job \in Jobs \ {j}
        BY <2>1 DEF HInv, OneLaneEach, LanesHold
      <4>2. \A v \in Lanes : v # w /\ lane'[v] # Idle =>
              lane'[v].pc # "idle" /\ RowOf(v, lane'[v], jobs'[lane'[v].job])
        BY <3>2, <3>4, <4>1 DEF HInv, LanesHold
      <4>3. RowOf(w, lane'[w], jobs'[lane'[w].job])
        BY <3>3, <3>4 DEF RowOf
      <4>4. LanesHold'
        BY <2>1, <3>4, <4>1, <4>2, <4>3 DEF LanesHold
      <4>5. QED
        BY <3>4, <4>1, <4>4 DEF OneLaneEach, HInv
    <3>6. LockIsOwned' /\ SweepSpares'
      <4>1. Locked => lock.job \in Jobs /\ lock.job # j
        BY <2>2, LocksAndLanes DEF HInv, LockIsOwned, Startable
      <4>2. Locked => jobs'[lock.job] = jobs[lock.job]
        BY <3>2, <4>1
      <4>3. lane'[w].pc \notin ExecutingPc /\ lane[w].pc \notin ExecutingPc
        BY <2>1, <3>4 DEF ExecutingPc
      <4>4. QED
        BY <3>1, <3>4, <4>2, <4>3 DEF HInv, LockIsOwned, SweepSpares, Locked
    <3>7. QED
      BY <3>1, <3>2, <3>5, <3>6 DEF HInv, RowsTyped
  <2>3. CASE ~(Exists(j) /\ Startable(jobs[j], w))
    BY <1>1, <2>1, <2>3, TheJobIsDropped DEF Start, ExecutingPc
  <2>4. QED
    BY <2>2, <2>3
<1>2. ASSUME Complete(w) \/ Defer(w) \/ Fail(w)
      PROVE  /\ lane[w] # Idle /\ lane[w].pc \notin ExecutingPc /\ lane[w].pc # "claimed"
             /\ lock' = lock /\ sweep' = sweep /\ MayWrite(w, j) /\ jobs[j] \in JobRow
  <2>1. lane[w] # Idle /\ lane[w].pc \notin ExecutingPc /\ lane[w].pc # "claimed"
    BY <1>2 DEF Complete, Defer, Fail, Is, Works, ExecutingPc
  <2>2. QED
    BY <1>2, <2>1, ItsJobIsThere DEF Complete, Defer, Fail, MayWrite
<1>3. CASE Complete(w)
  BY <1>2, <1>3, RowsStayRows, TheJobIsSettled DEF Complete
<1>4. CASE Defer(w)
  BY <1>2, <1>4, RowsStayRows, TheJobIsSettled DEF Defer
<1>5. CASE Fail(w)
  BY <1>2, <1>5, RowsStayRows, TheJobIsSettled DEF Fail
<1>6. QED
  BY <1>1, <1>3, <1>4, <1>5

LEMMA AJobMayBeAdded ==
    ASSUME HInv, EnqueueJob \/ jobs' = jobs, lock' = lock,
           \A v \in Lanes : SameSort(lane[v], lane'[v]),
           sweep' = sweep \/ sweep'.pc # "reclaim"
    PROVE  HInv'
<1>1. CASE jobs' = jobs
  <2>1. jobs' \in [Jobs -> JobRow \cup {Absent}]
    BY <1>1 DEF HInv, RowsTyped
  <2>2. QED
    BY <1>1, <2>1, TheLockStays
<1>2. ASSUME NEW j \in Jobs, Free(j), Write(j, NewJob(TRUE))
      PROVE  HInv'
  <2>1. /\ jobs' \in [Jobs -> JobRow \cup {Absent}]
        /\ \A i \in Jobs : i # j => jobs'[i] = jobs[i]
    BY <1>2, NewJobIsARow, WritingARow DEF HInv
  <2>2. \A v \in Lanes : lane[v] # Idle => lane[v].job \in Jobs \ {j}
    BY <1>2 DEF Free, WorksOn, Works, HInv, LanesHold
  <2>3. Locked => lock.job \in Jobs \ {j}
    BY <1>2, LocksAndLanes DEF Free
  <2>4. QED
    BY <2>1, <2>2, <2>3, TheLockStays
<1>3. QED
  BY <1>1, <1>2 DEF EnqueueJob

LEMMA TakingKeepsTheLock ==
    ASSUME IInv, HInv, NEW w \in Lanes, TakeLock(w)
    PROVE  HInv'
<1> DEFINE l == lane[w]
           pc == IF l.what = "fresh" THEN "admitting" ELSE "stopping"
<1>1. l # Idle /\ l.pc = "locking" /\ l.pc \notin ExecutingPc /\ l.pc # "claimed"
  BY DEF TakeLock, Is, Works, ExecutingPc
<1>2. CASE Locked
  <2>1. Move(w, At("finalizing", l, 0, "completing")) /\ lock' = lock /\ jobs' = jobs /\ sweep' = sweep
    BY <1>2 DEF TakeLock, Acquirable
  <2>2. SameSort(l, At("finalizing", l, 0, "completing"))
    BY <1>1, WhereALaneGoes DEF ExecutingPc
  <2>3. QED
    BY <2>1, <2>2, OneLaneGoesOn
<1>3. CASE ~Locked
  <2>1. lock' = [by |-> w, job |-> l.job] /\ Move(w, At(pc, l, 0, "none")) /\ jobs' = jobs /\ sweep' = sweep
    BY <1>3 DEF TakeLock, Acquirable
  <2>2. /\ pc \in ExecutingPc /\ pc # "idle" /\ pc # "claimed"
        /\ lane'[w] # Idle /\ lane'[w].pc = pc /\ lane'[w].job = l.job
        /\ \A v \in Lanes : v # w => lane'[v] = lane[v]
    BY <2>1, WhereALaneGoes DEF IInv, Move, ExecutingPc
  <2>3. l.job \in Jobs /\ jobs[l.job].status = "running" /\ jobs[l.job].holder = w /\ jobs[l.job].fresh
    BY <1>1 DEF HInv, LanesHold, RowOf
  <2>4. w \in Workers /\ w # NoWorker /\ lock'.by = w /\ lock'.job = l.job
    BY <2>1, LocksAndLanes
  <2>5. RowsTyped'
    BY <2>1, <2>3, <2>4 DEF HInv, RowsTyped
  <2>6. LanesHold' /\ OneLaneEach'
    BY <1>1, <2>1, <2>2 DEF HInv, LanesHold, OneLaneEach, RowOf
  <2>7. \A v \in Lanes : v # w => lane[v].pc \notin ExecutingPc
    BY <1>3, LocksAndLanes
  <2>8. LockIsOwned' /\ SweepSpares'
    BY <2>1, <2>2, <2>3, <2>4, <2>7 DEF LockIsOwned, SweepSpares
  <2>9. QED
    BY <2>5, <2>6, <2>8 DEF HInv
<1>4. QED
  BY <1>2, <1>3

(* The steps of an execution that change nothing but their own lane.         *)
LEMMA PlainStepsKeepTheLock ==
    ASSUME IInv, HInv, NEW w \in Lanes,
           \/ ReadRun(w) \/ NotYetItsTurn(w) \/ ReadThrows(w) \/ Refuse(w) \/ PrepareFails(w)
           \/ OpenInvocation(w) \/ Bind(w) \/ AdapterFails(w) \/ GiveUp(w) \/ StopConfirmed(w)
           \/ Exhaust(w) \/ Finalize(w) \/ FinalizeFails(w)
    PROVE  HInv'
<1> DEFINE l == lane[w]
<1>1. jobs' = jobs /\ lock' = lock /\ sweep' = sweep
  BY DEF ReadRun, NotYetItsTurn, ReadThrows, Refuse, PrepareFails, OpenInvocation, Bind, AdapterFails,
         GiveUp, StopConfirmed, Exhaust, Finalize, FinalizeFails
<1>2. ASSUME l # Idle, l.pc \in ExecutingPc, NEW pc \in ExecutingPc, NEW n, NEW what,
             Move(w, At(pc, l, n, what))
      PROVE  HInv'
  BY <1>1, <1>2, WhereALaneGoes, OneLaneGoesOn DEF ExecutingPc
<1>3. ASSUME l # Idle, l.pc \notin ExecutingPc, l.pc # "claimed",
             NEW pc, pc \notin ExecutingPc \cup {"idle", "claimed"}, NEW n, NEW what,
             Move(w, At(pc, l, n, what))
      PROVE  HInv'
  BY <1>1, <1>3, WhereALaneGoes, OneLaneGoesOn
<1>4. CASE ReadRun(w) \/ NotYetItsTurn(w) \/ ReadThrows(w)
  <2>1. l # Idle /\ l.pc \notin ExecutingPc /\ l.pc # "claimed"
    BY <1>4 DEF ReadRun, NotYetItsTurn, ReadThrows, Is, Works, ExecutingPc
  <2>2. /\ "locking" \notin ExecutingPc \cup {"idle", "claimed"}
        /\ "finalizing" \notin ExecutingPc \cup {"idle", "claimed"}
        /\ "deferring" \notin ExecutingPc \cup {"idle", "claimed"}
        /\ "failing" \notin ExecutingPc \cup {"idle", "claimed"}
    BY DEF ExecutingPc
  <2>3. QED
    BY <1>3, <1>4, <2>1, <2>2 DEF ReadRun, NotYetItsTurn, ReadThrows, Leave
<1>5. CASE Refuse(w) \/ PrepareFails(w) \/ OpenInvocation(w) \/ Bind(w) \/ AdapterFails(w) \/ GiveUp(w)
           \/ StopConfirmed(w)
  <2>1. l # Idle /\ l.pc \in ExecutingPc
    BY <1>5 DEF Refuse, PrepareFails, OpenInvocation, Bind, AdapterFails, GiveUp, StopConfirmed,
                Is, Works, ExecutingPc
  <2>2. {"publishing", "binding", "bound", "collecting"} \subseteq ExecutingPc
    BY DEF ExecutingPc
  <2>3. QED
    BY <1>2, <1>5, <2>1, <2>2 DEF Refuse, PrepareFails, OpenInvocation, Bind, AdapterFails, GiveUp,
                                  StopConfirmed, Goto
<1>6. CASE Exhaust(w) \/ Finalize(w) \/ FinalizeFails(w)
  <2>1. l # Idle /\ l.pc \notin ExecutingPc /\ l.pc # "claimed"
    BY <1>6 DEF Exhaust, Finalize, FinalizeFails, Is, Works, ExecutingPc
  <2>2. /\ "finalizing" \notin ExecutingPc \cup {"idle", "claimed"}
        /\ "supervising" \notin ExecutingPc \cup {"idle", "claimed"}
        /\ "completing" \notin ExecutingPc \cup {"idle", "claimed"}
        /\ "failing" \notin ExecutingPc \cup {"idle", "claimed"}
    BY DEF ExecutingPc
  <2>3. l.pc = "finalizing" => l.what \in {"completing", "failing"}
    BY DEF IInv, SoundLane
  <2>4. QED
    BY <1>3, <1>6, <2>1, <2>2, <2>3 DEF Exhaust, Finalize, FinalizeFails, Leave, Is
<1>7. QED
  BY <1>4, <1>5, <1>6

(* The steps that may give the lock up.                                      *)
LEMMA ReleasingKeepsTheLock ==
    ASSUME IInv, HInv, NEW w \in Lanes,
           \/ Admit(w) \/ CheckCancelled(w) \/ StopUnconfirmed(w) \/ Collect(w)
           \/ Publish(w) \/ PublishThrows(w)
    PROVE  HInv'
<1> DEFINE l == lane[w]
<1>1. jobs' = jobs /\ sweep' = sweep /\ l # Idle /\ l.pc \in ExecutingPc /\ l.pc # "claimed"
  BY DEF Admit, CheckCancelled, StopUnconfirmed, Collect, Publish, PublishThrows, Is, Works, ExecutingPc
<1>2. ASSUME NEW pc \in ExecutingPc, NEW n, NEW what, Move(w, At(pc, l, n, what)), lock' = lock
      PROVE  HInv'
  BY <1>1, <1>2, WhereALaneGoes, OneLaneGoesOn DEF ExecutingPc
<1>3. ASSUME NEW pc \in {"finalizing", "deferring", "failing", "exhausting"}, NEW n, NEW what,
             Move(w, At(pc, l, n, what)), lock' = NoLock
      PROVE  HInv'
  BY <1>1, <1>3, TheOwnerLetsGo DEF ExecutingPc
<1>4. LockWithout(w) = NoLock /\ \A what, expected : PublishOwned(w, what, expected) => lock' = NoLock
  BY <1>1, OwnersFreeTheLock
<1>5. CASE Admit(w)
  <2>1. CASE Admissible(run)
    BY <1>2, <1>5, <2>1 DEF Admit, ExecutingPc
  <2>2. CASE ~Admissible(run)
    <3>1. lock' = NoLock /\ Move(w, At("finalizing", l, 0, "completing"))
      BY <1>4, <1>5, <2>2 DEF Admit
    <3>2. QED
      BY <1>3, <3>1
  <2>3. QED
    BY <2>1, <2>2
<1>6. CASE CheckCancelled(w)
  <2>1. CASE run.status = "cancelling"
    <3>1. lock' = NoLock /\ Move(w, At("finalizing", l, 0, "completing"))
      BY <1>4, <1>6, <2>1 DEF CheckCancelled
    <3>2. QED
      BY <1>3, <3>1
  <2>2. CASE run.status # "cancelling"
    BY <1>2, <1>6, <2>2 DEF CheckCancelled, Goto, ExecutingPc
  <2>3. QED
    BY <2>1, <2>2
<1>7. CASE StopUnconfirmed(w)
  BY <1>3, <1>4, <1>7 DEF StopUnconfirmed, Leave
<1>8. CASE Collect(w)
  <2>1. CASE run.status = "waiting_for_review"
    BY <1>3, <1>4, <1>8, <2>1 DEF Collect
  <2>2. CASE run.status # "waiting_for_review"
    BY <1>2, <1>8, <2>2 DEF Collect, Goto, ExecutingPc
  <2>3. QED
    BY <2>1, <2>2
<1>9. CASE Publish(w)
  <2>1. lock' = NoLock /\ Move(w, At("finalizing", l, 0, "completing"))
    BY <1>4, <1>9 DEF Publish
  <2>2. QED
    BY <1>3, <2>1
<1>10. CASE PublishThrows(w)
  <2>1. lock' = NoLock /\ Move(w, Thrown(l))
    BY <1>4, <1>10 DEF PublishThrows
  <2>2. QED
    BY <1>3, <2>1 DEF Thrown, Leave
<1>11. QED
  BY <1>5, <1>6, <1>7, <1>8, <1>9, <1>10

(* The steps at which other lanes are told something, and the supervision.   *)
LEMMA TellingKeepsTheLock ==
    ASSUME IInv, HInv, NEW w \in Lanes,
           Launch(w) \/ StopAborts(w) \/ StopLooks(w) \/ Supervise(w)
    PROVE  HInv'
<1> DEFINE l == lane[w]
<1>1. \A pc \in ExecutingPc : pc # "idle" /\ pc # "claimed"
  BY DEF ExecutingPc
<1>2. CASE Launch(w)
  <2>1. l # Idle /\ l.pc = "bound" /\ jobs' = jobs /\ lock' = lock /\ sweep' = sweep
    BY <1>2 DEF Launch, Is, Works
  <2>2. \/ Move(w, At("collecting", l, l.n, "final"))
        \/ lane' = Dispatched(w)
    BY <1>2 DEF Launch
  <2>3. CASE Move(w, At("collecting", l, l.n, "final"))
    BY <2>1, <2>3, WhereALaneGoes, OneLaneGoesOn DEF ExecutingPc
  <2>4. CASE lane' = Dispatched(w)
    BY <2>1, <2>4, OthersAreTold, AJobMayBeAdded
  <2>5. QED
    BY <2>2, <2>3, <2>4
<1>3. CASE StopAborts(w)
  <2>1. l # Idle /\ l.pc = "stopping" /\ jobs' = jobs /\ lock' = lock /\ sweep' = sweep
    BY <1>3 DEF StopAborts, Is, Works
  <2>2. Aborted = [v \in Lanes |-> Aborted[v]] /\ Aborted[w] = l
    BY <2>1 DEF Aborted, Is
  <2>3. lane' = [Aborted EXCEPT ![w] = At("looking", l, 0, "none")]
    BY <1>3, <2>2 DEF StopAborts, Leave
  <2>4. SameSort(l, At("looking", l, 0, "none"))
    BY <2>1, WhereALaneGoes DEF ExecutingPc
  <2>5. \A v \in Lanes : SameSort(lane[v], lane'[v])
    BY <2>2, <2>3, <2>4, OthersAreTold
  <2>6. QED
    BY <2>1, <2>5, AJobMayBeAdded
<1>4. CASE StopLooks(w)
  <2>1. l # Idle /\ l.pc = "looking" /\ l.pc \in ExecutingPc /\ jobs' = jobs /\ sweep' = sweep
    BY <1>4 DEF StopLooks, Is, Works, ExecutingPc
  <2>2. /\ \A n, what : SameSort(l, At("publishing", l, n, what))
        /\ \A n, what : SameSort(l, At("asking", l, n, what))
    BY <2>1, WhereALaneGoes DEF ExecutingPc
  <2> DEFINE launch == Latest(run).launch
  <2>3. CASE launch = NoLaunch
    BY <1>4, <2>1, <2>2, <2>3, OneLaneGoesOn DEF StopLooks
  <2>4. CASE launch # NoLaunch /\ ~online
    <3>1. lock' = NoLock /\ Move(w, At("deferring", l, 0, "none"))
      BY <1>4, <2>1, <2>4, OwnersFreeTheLock DEF StopLooks, Leave
    <3>2. QED
      BY <2>1, <3>1, TheOwnerLetsGo DEF ExecutingPc
  <2>5. CASE launch # NoLaunch /\ online
    <3>1. /\ lock' = lock
          /\ \E m : SameSort(l, m) /\ lane' = [AnsweredLanes(launch) EXCEPT ![w] = m]
      BY <1>4, <2>2, <2>5 DEF StopLooks
    <3>2. AnsweredLanes(launch) = [v \in Lanes |-> AnsweredLanes(launch)[v]]
      BY DEF AnsweredLanes, Completing, IInv
    <3>3. \A v \in Lanes : SameSort(lane[v], lane'[v])
      BY <3>1, <3>2, OthersAreTold
    <3>4. QED
      BY <2>1, <3>1, <3>3, AJobMayBeAdded
  <2>6. QED
    BY <2>3, <2>4, <2>5
<1>5. CASE Supervise(w)
  <2>1. /\ l # Idle /\ l.pc = "supervising" /\ l.what \in {"completing", "failing"}
        /\ lock' = lock /\ sweep' = sweep /\ Move(w, At(l.what, l, 0, "none"))
    BY <1>5 DEF Supervise, Is, Works, Leave, IInv, SoundLane
  <2>2. SameSort(l, At(l.what, l, 0, "none"))
    BY <2>1, WhereALaneGoes DEF ExecutingPc
  <2>3. \A v \in Lanes : SameSort(lane[v], lane'[v])
    BY <2>1, <2>2 DEF IInv, Move, SameSort
  <2>4. EnqueueJob \/ jobs' = jobs
    BY <1>5 DEF Supervise, Decide
  <2>5. QED
    BY <2>1, <2>3, <2>4, AJobMayBeAdded
<1>6. QED
  BY <1>2, <1>3, <1>4, <1>5

-----------------------------------------------------------------------------
(* The steps of everybody else.                                              *)
LEMMA NobodyWorksOnIt ==
    ASSUME HInv, NEW j \in Jobs, Exists(j),
           \/ jobs[j].status = "pending" \/ ~jobs[j].fresh
           \/ ~\E w \in Lanes : jobs[j].holder = w /\ WorksOn(w, j)
    PROVE  \A v \in Lanes : lane[v] # Idle => lane[v].job \in Jobs \ {j}
<1> SUFFICES ASSUME NEW v \in Lanes, lane[v] # Idle, lane[v].job = j
             PROVE  FALSE
  BY DEF HInv, LanesHold
<1>1. RowOf(v, lane[v], jobs[j]) /\ jobs[j].status # "absent"
  BY RowsThatExist DEF HInv, LanesHold
<1>2. jobs[j].status \in {"claimed", "running"} /\ jobs[j].holder = v /\ jobs[j].fresh
  BY <1>1 DEF RowOf
<1>3. QED
  BY <1>2 DEF WorksOn, Works

(* Rows change that no lane works on and no lock was taken with.             *)
LEMMA LooseRowsChange ==
    ASSUME HInv, jobs' \in [Jobs -> JobRow \cup {Absent}],
           \A i \in Jobs : \/ jobs'[i] = jobs[i]
                           \/ /\ \A v \in Lanes : lane[v] # Idle => lane[v].job # i
                              /\ Locked => lock.job # i,
           lock' = lock, lane' = lane, sweep' = sweep \/ sweep'.pc # "reclaim"
    PROVE  HInv'
<1>1. \A v \in Lanes : lane[v] # Idle => jobs'[lane[v].job] = jobs[lane[v].job]
  BY DEF HInv, LanesHold
<1>2. Locked => jobs'[lock.job] = jobs[lock.job]
  BY LocksAndLanes
<1>3. QED
  BY <1>1, <1>2, TheLockStays DEF SameSort

LEMMA ClaimingKeepsTheLock ==
    ASSUME IInv, HInv, NEW w \in Lanes, NEW j \in Jobs, Claim(w, j)
    PROVE  HInv'
<1>1. /\ lane[w] = Idle /\ Exists(j) /\ jobs[j] \in JobRow /\ jobs[j].status = "pending"
      /\ Claimable(jobs[j]) /\ Write(j, Claimed(jobs[j], w)) /\ lock' = lock /\ sweep' = sweep
  BY RowsThatExist DEF Claim, Works, Claimable, HInv
<1>2. \A v \in Lanes : lane[v] # Idle => lane[v].job \in Jobs \ {j}
  BY <1>1, NobodyWorksOnIt
<1>3. Locked => lock.job \in Jobs \ {j}
  BY <1>1, LocksAndLanes DEF HInv, LockIsOwned
<1>4. /\ Claimed(jobs[j], w) \in JobRow /\ Claimed(jobs[j], w).status = "claimed"
      /\ Claimed(jobs[j], w).holder = w /\ Claimed(jobs[j], w).fresh
  BY <1>1, LocksAndLanes, RowsStayRows DEF Claimed
<1>5. /\ jobs' \in [Jobs -> JobRow \cup {Absent}] /\ jobs'[j] = Claimed(jobs[j], w)
      /\ \A i \in Jobs : i # j => jobs'[i] = jobs[i]
  BY <1>1, <1>4, WritingARow DEF HInv, Kept, SettledStatus
<1>6. /\ lane'[w] # Idle /\ lane'[w].pc = "claimed" /\ lane'[w].job = j
      /\ \A v \in Lanes : v # w => lane'[v] = lane[v]
  BY DEF Claim, Move, IInv, Idle
<1>7. RowsTyped'
  BY <1>1, <1>5 DEF HInv, RowsTyped
<1>8. LanesHold' /\ OneLaneEach'
  <2>1. RowOf(w, lane'[w], jobs'[j])
    BY <1>4, <1>5, <1>6 DEF RowOf
  <2>2. \A v \in Lanes : v # w /\ lane[v] # Idle => jobs'[lane[v].job] = jobs[lane[v].job]
    BY <1>2, <1>5
  <2>3. LanesHold'
    BY <1>6, <2>1, <2>2 DEF HInv, LanesHold
  <2>4. OneLaneEach'
    BY <1>2, <1>6 DEF HInv, OneLaneEach
  <2>5. QED
    BY <2>3, <2>4
<1>9. LockIsOwned' /\ SweepSpares'
  <2>1. Locked => jobs'[lock.job] = jobs[lock.job]
    BY <1>3, <1>5
  <2>2. lane[w].pc \notin ExecutingPc /\ lane'[w].pc \notin ExecutingPc
    BY <1>1, <1>6 DEF Idle, ExecutingPc
  <2>3. QED
    BY <1>1, <1>6, <2>1, <2>2 DEF HInv, LockIsOwned, SweepSpares, Locked
<1>10. QED
  BY <1>7, <1>8, <1>9 DEF HInv

LEMMA TimeKeepsTheLock ==
    ASSUME HInv, ~Stalls, NEW j \in Jobs, ComesDue(j) \/ LeaseExpires(j)
    PROVE  HInv'
<1>1. /\ Exists(j) /\ jobs[j] \in JobRow /\ lock' = lock /\ lane' = lane /\ sweep' = sweep
  BY RowsThatExist DEF ComesDue, LeaseExpires, HInv
<1>2. CASE ComesDue(j)
  <2>1. jobs[j].status = "pending" /\ Write(j, [jobs[j] EXCEPT !.due = TRUE])
    BY <1>2 DEF ComesDue
  <2>2. [jobs[j] EXCEPT !.due = TRUE] \in JobRow
    BY <1>1 DEF JobRow
  <2>3. /\ jobs' \in [Jobs -> JobRow \cup {Absent}]
        /\ \A i \in Jobs : i # j => jobs'[i] = jobs[i]
    BY <2>1, <2>2, WritingARow DEF HInv
  <2>4. /\ \A v \in Lanes : lane[v] # Idle => lane[v].job # j
        /\ Locked => lock.job # j
    BY <1>1, <2>1, NobodyWorksOnIt DEF HInv, LockIsOwned
  <2>5. QED
    BY <1>1, <2>3, <2>4, LooseRowsChange
<1>3. CASE LeaseExpires(j)
  <2> DEFINE r == [jobs[j] EXCEPT !.fresh = FALSE]
  <2>1. /\ Held(jobs[j]) /\ sweep.pc # "reclaim" /\ Write(j, r)
        /\ ~\E w \in Lanes : jobs[j].holder = w /\ WorksOn(w, j)
    BY <1>3 DEF LeaseExpires
  <2>2. r \in JobRow /\ r.status = jobs[j].status /\ r.holder = jobs[j].holder /\ Kept(r) = r
    BY <1>1, <2>1 DEF JobRow, Kept, Held, HeldStatus, SettledStatus
  <2>3. /\ jobs' \in [Jobs -> JobRow \cup {Absent}] /\ jobs'[j] = r
        /\ \A i \in Jobs : i # j => jobs'[i] = jobs[i]
    BY <2>1, <2>2, WritingARow DEF HInv
  <2>4. \A v \in Lanes : lane[v] # Idle => lane[v].job \in Jobs \ {j}
    BY <1>1, <2>1, NobodyWorksOnIt
  <2>5. RowsTyped' /\ OneLaneEach'
    BY <1>1, <2>3 DEF HInv, RowsTyped, OneLaneEach
  <2>6. LanesHold'
    BY <1>1, <2>3, <2>4 DEF HInv, LanesHold, RowOf
  <2>7. Locked => jobs'[lock.job].status = jobs[lock.job].status /\ jobs'[lock.job].holder = jobs[lock.job].holder
    BY <2>2, <2>3, LocksAndLanes
  <2>8. LockIsOwned' /\ SweepSpares'
    BY <1>1, <2>1, <2>7 DEF HInv, LockIsOwned, SweepSpares, Locked
  <2>9. QED
    BY <2>5, <2>6, <2>8 DEF HInv
<1>4. QED
  BY <1>2, <1>3

LEMMA PersonsKeepTheLock ==
    ASSUME IInv, HInv, Person
    PROVE  HInv'
<1>1. \A l : SameSort(l, l)
  BY DEF SameSort
<1>2. CASE \/ RequestCancel \/ CancelAborts \/ CancelLooks \/ CancelConfirmed
           \/ CancelUnconfirmed \/ CancelPublishes \/ CancelFinalizes \/ Resume \/ Abandon
  <2>1. lock' = lock /\ sweep' = sweep /\ (EnqueueJob \/ jobs' = jobs)
    BY <1>2 DEF RequestCancel, CancelAborts, CancelLooks, CancelConfirmed, CancelUnconfirmed,
                CancelPublishes, CancelFinalizes, Resume, Abandon
  <2>2. lane' = lane \/ lane' = Aborted \/ \E launch : lane' = AnsweredLanes(launch)
    BY <1>2 DEF RequestCancel, CancelAborts, CancelLooks, CancelConfirmed, CancelUnconfirmed,
                CancelPublishes, CancelFinalizes, Resume, Abandon
  <2>3. \A v \in Lanes : SameSort(lane[v], lane'[v])
    BY <1>1, <2>2, OthersAreTold
  <2>4. QED
    BY <2>1, <2>3, AJobMayBeAdded
<1>3. ASSUME NEW j \in Jobs, CancelJob(j)
      PROVE  HInv'
  <2>1. /\ Exists(j) /\ jobs[j] \in JobRow /\ jobs[j].status \in {"pending", "claimed"}
        /\ Write(j, Cancelled(jobs[j])) /\ lock' = lock /\ lane' = lane /\ sweep' = sweep
    BY <1>3, RowsThatExist DEF CancelJob, HInv
  <2>2. Cancelled(jobs[j]) \in JobRow /\ Cancelled(jobs[j]).status = "cancelled"
    BY <2>1, RowsStayRows DEF Cancelled, JobRow
  <2>3. /\ jobs' \in [Jobs -> JobRow \cup {Absent}] /\ jobs'[j] = Absent
        /\ \A i \in Jobs : i # j => jobs'[i] = jobs[i]
    BY <2>1, <2>2, WritingARow DEF HInv, Kept, SettledStatus
  <2>4. Locked => jobs'[lock.job] = jobs[lock.job]
    BY <2>1, <2>3, LocksAndLanes DEF HInv, LockIsOwned
  <2>5. LanesHold'
    <3> SUFFICES ASSUME NEW v \in Lanes, lane[v] # Idle
                 PROVE  RowOf(v, lane[v], jobs'[lane[v].job])
      BY <2>1 DEF HInv, LanesHold
    <3>1. RowOf(v, lane[v], jobs[lane[v].job]) /\ lane[v].job \in Jobs
      BY DEF HInv, LanesHold
    <3>2. CASE lane[v].job # j
      BY <2>3, <3>1, <3>2
    <3>3. CASE lane[v].job = j
      BY <2>1, <2>3, <3>1, <3>3 DEF RowOf, Absent
    <3>4. QED
      BY <3>2, <3>3
  <2>6. RowsTyped' /\ OneLaneEach' /\ LockIsOwned' /\ SweepSpares'
    BY <2>1, <2>3, <2>4 DEF HInv, RowsTyped, OneLaneEach, LockIsOwned, SweepSpares, Locked
  <2>7. QED
    BY <2>5, <2>6 DEF HInv
<1>4. QED
  BY <1>2, <1>3 DEF Person

LEMMA RecoveryKeepsTheLock ==
    ASSUME HInv, ~Stalls, Recovery
    PROVE  HInv'
<1>1. \A l : SameSort(l, l)
  BY DEF SameSort
<1>2. CASE DeleteOrphanLock
  <2>1. CASE Locked /\ StuckJob(lock.job)
    <3>1. ~jobs[lock.job].fresh /\ lock.job \in Jobs
      BY <2>1, LocksAndLanes DEF StuckJob, Stuck
    <3>2. \A v \in Lanes : lane[v].pc \notin ExecutingPc
      <4> SUFFICES ASSUME NEW v \in Lanes, lane[v].pc \in ExecutingPc
                   PROVE  FALSE
        OBVIOUS
      <4>1. lane[v] # Idle /\ lane[v].pc # "claimed" /\ lane[v].job = lock.job
        BY LocksAndLanes DEF HInv, LockIsOwned, ExecutingPc
      <4>2. jobs[lane[v].job].fresh
        BY <4>1 DEF HInv, LanesHold, RowOf
      <4>3. QED
        BY <3>1, <4>1, <4>2
    <3>3. lock' = NoLock /\ jobs' = jobs /\ lane' = lane
      BY <1>2, <2>1 DEF DeleteOrphanLock
    <3>4. QED
      BY <3>2, <3>3, TheLockGoes
  <2>2. CASE ~(Locked /\ StuckJob(lock.job))
    <3>1. lock' = lock /\ jobs' = jobs /\ lane' = lane /\ sweep' = [pc |-> "reclaim"]
      BY <1>2, <2>2 DEF DeleteOrphanLock
    <3>2. Locked => jobs[lock.job].fresh
      BY <2>2, LocksAndLanes, RowsThatExist DEF StuckJob, Stuck, Held, HeldStatus, HInv, LockIsOwned
    <3>3. QED
      BY <3>1, <3>2 DEF HInv, RowsTyped, LanesHold, OneLaneEach, LockIsOwned, SweepSpares, Locked
  <2>3. QED
    BY <2>1, <2>2
<1>3. CASE Reclaim
  <2>1. /\ sweep.pc = "reclaim" /\ lock' = lock /\ lane' = lane /\ sweep' = Rest
        /\ jobs' = [j \in Jobs |-> IF StuckJob(j) THEN Kept(Reclaimed(jobs[j], Interrupted)) ELSE jobs[j]]
    BY <1>3 DEF Reclaim
  <2>2. \A j \in Jobs : StuckJob(j) => jobs[j] \in JobRow
    BY RowsThatExist DEF StuckJob, HInv
  <2>3. \A j \in Jobs : StuckJob(j) => Kept(Reclaimed(jobs[j], Interrupted)) \in JobRow \cup {Absent}
    BY <2>2, KeptIsARow, RowsStayRows
  <2>4. jobs' \in [Jobs -> JobRow \cup {Absent}]
    BY <2>1, <2>3 DEF HInv, RowsTyped
  <2>5. \A j \in Jobs : StuckJob(j) => /\ \A v \in Lanes : lane[v] # Idle => lane[v].job # j
                                       /\ Locked => lock.job # j
    BY <2>1, NobodyWorksOnIt DEF StuckJob, Stuck, HInv, SweepSpares
  <2>6. sweep'.pc # "reclaim"
    BY <2>1 DEF Rest
  <2>7. QED
    BY <2>1, <2>4, <2>5, <2>6, LooseRowsChange
<1>4. CASE RecoverStale
  <2>1. lock' = NoLock /\ jobs' = jobs /\ lane' = lane /\ \A v \in Lanes : ~Executing(v)
    BY <1>4 DEF RecoverStale
  <2>2. QED
    BY <2>1, LocksAndLanes, TheLockGoes
<1>5. CASE ReclaimThrows \/ EnsureJob \/ SweepFinalizes \/ SweepSupervises
  <2>1. /\ lock' = lock /\ lane' = lane /\ (EnqueueJob \/ jobs' = jobs)
        /\ sweep' = sweep \/ sweep'.pc # "reclaim"
    BY <1>5 DEF ReclaimThrows, EnsureJob, SweepFinalizes, SweepSupervises, Decide, Rest
  <2>2. QED
    BY <1>1, <2>1, AJobMayBeAdded
<1>6. QED
  BY <1>2, <1>3, <1>4, <1>5 DEF Recovery

LEMMA TheHostKeepsTheLock ==
    ASSUME IInv, HInv, (\E l \in Tries : ProcExits(l)) \/ Disconnect \/ Reconnect
    PROVE  HInv'
<1>1. jobs' = jobs /\ lock' = lock /\ sweep' = sweep
  BY DEF ProcExits, Disconnect, Reconnect
<1>2. \A v \in Lanes : SameSort(lane[v], lane'[v])
  <2>1. ASSUME NEW l \in Tries, ProcExits(l)
        PROVE  \A v \in Lanes : SameSort(lane[v], lane'[v])
    BY <2>1, OthersAreTold DEF ProcExits, SameSort
  <2>2. CASE Disconnect
    BY <2>2 DEF Disconnect, SameSort
  <2>3. CASE Reconnect
    BY <2>3 DEF Reconnect, SameSort, Is, Works, At, Idle, ExecutingPc
  <2>4. QED
    BY <2>1, <2>2, <2>3
<1>3. QED
  BY <1>1, <1>2, AJobMayBeAdded

LEMMA TheCrashKeepsTheLock ==
    ASSUME HInv, ServerCrash
    PROVE  HInv'
<1>1. Gone \in Workers /\ Gone # NoWorker /\ Gone \notin Lanes /\ Workers = Lanes \cup {Gone}
  BY GoneAssumption, NoWorkerAssumption DEF Lanes
<1>2. \A w \in Lanes : lane'[w] = Idle /\ lane'[w].pc \notin ExecutingPc
  BY DEF ServerCrash, Idle, ExecutingPc
<1>3. \A j \in Jobs : jobs[j] # Absent => [jobs[j] EXCEPT !.holder = Gone] \in JobRow
  BY <1>1 DEF HInv, RowsTyped, JobRow
<1>4. /\ jobs' \in [Jobs -> JobRow \cup {Absent}]
      /\ \A j \in Jobs : jobs'[j] = IF Exists(j) /\ jobs[j].holder \in Lanes
                                    THEN [jobs[j] EXCEPT !.holder = Gone] ELSE jobs[j]
  BY <1>3, RowsThatExist DEF ServerCrash, HInv, RowsTyped, Exists, Absent
<1>5. lock' \in {NoLock} \cup [by : Workers, job : Jobs] /\ (Locked' <=> Locked)
  BY <1>1, NoWorkerAssumption DEF ServerCrash, HInv, RowsTyped, Locked, NoLock
<1>6. Locked => lock'.by = Gone /\ lock'.job = lock.job /\ lock.job \in Jobs
  BY LocksAndLanes DEF ServerCrash, HInv, RowsTyped, Locked
<1>7. Locked => jobs'[lock.job].status = "running" /\ jobs'[lock.job].holder = Gone
  <2> SUFFICES ASSUME Locked
               PROVE  jobs'[lock.job].status = "running" /\ jobs'[lock.job].holder = Gone
    OBVIOUS
  <2> DEFINE r == jobs[lock.job]
  <2>1. /\ r.status = "running" /\ r.holder = lock.by /\ lock.by \in Workers
        /\ Exists(lock.job) /\ r \in JobRow
    BY <1>6, LocksAndLanes, RowsThatExist DEF HInv, LockIsOwned
  <2>2. CASE r.holder \in Lanes
    BY <1>4, <1>6, <2>1, <2>2 DEF JobRow
  <2>3. CASE r.holder \notin Lanes
    BY <1>1, <1>4, <1>6, <2>1, <2>3
  <2>4. QED
    BY <2>2, <2>3
<1>8. RowsTyped' /\ LanesHold' /\ OneLaneEach'
  BY <1>2, <1>4, <1>5 DEF RowsTyped, LanesHold, OneLaneEach
<1>9. LockIsOwned'
  <2>1. \A w \in Lanes : lock'.by # w
    BY <1>1, <1>5, <1>6, NoWorkerAssumption DEF ServerCrash, Lanes, Locked, NoLock
  <2>2. QED
    BY <1>2, <1>5, <1>6, <1>7, <2>1 DEF LockIsOwned
<1>10. SweepSpares'
  BY DEF ServerCrash, SweepSpares, Rest
<1>11. QED
  BY <1>8, <1>9, <1>10 DEF HInv

-----------------------------------------------------------------------------
LEMMA LockInitially == Init => HInv
<1> SUFFICES ASSUME Init
             PROVE  HInv
  OBVIOUS
<1>1. PICK j \in Jobs : jobs = [i \in Jobs |-> IF i = j THEN NewJob(TRUE) ELSE Absent]
  BY DEF Init
<1>2. RowsTyped
  BY <1>1, NewJobIsARow DEF Init, RowsTyped
<1>3. \A w \in Lanes : lane[w] = Idle /\ lane[w].pc \notin ExecutingPc
  BY DEF Init, Idle, ExecutingPc
<1>4. QED
  BY <1>2, <1>3, NoWorkerAssumption
     DEF Init, HInv, LanesHold, OneLaneEach, LockIsOwned, SweepSpares, Locked, NoLock, Lanes

LEMMA LockInductively == ~Stalls /\ IInv /\ HInv /\ [Next]_vars => HInv'
<1> SUFFICES ASSUME ~Stalls, IInv, HInv, [Next]_vars
             PROVE  HInv'
  OBVIOUS
<1>1. ASSUME NEW w \in Lanes, Work(w)
      PROVE  HInv'
  BY <1>1, SettlingKeepsTheLock, PlainStepsKeepTheLock, ReleasingKeepsTheLock,
     TellingKeepsTheLock, TakingKeepsTheLock DEF Work, Execute
<1>2. CASE UNCHANGED vars
  BY <1>2 DEF vars, host, HInv, RowsTyped, LanesHold, OneLaneEach, LockIsOwned, SweepSpares, Locked
<1>3. QED
  BY <1>1, <1>2, ClaimingKeepsTheLock, TimeKeepsTheLock, TheHostKeepsTheLock, PersonsKeepTheLock,
     RecoveryKeepsTheLock, TheCrashKeepsTheLock DEF Next

-----------------------------------------------------------------------------
(* Processes and what lanes carry.                                           *)
(* Every statement but the binding of a launch leaves the launches alone.    *)
PlainMove(r, s) ==
    \/ s = r
    \/ Admissible(r) /\ s = Admitted(r)
    \/ \E status, cause : s = Published(r, status, cause)
    \/ s = Cancelling(r)
    \/ s = Recovered(r)
    \/ s = WithFinal(r, r.n)
    \/ Retried(r) /\ s = Requeued(r)
    \/ s = OnHold(r)
    \/ Resumable(r) /\ s = Resumed(r)

LEMMA LaunchesStay ==
    ASSUME NEW r, SoundRun(r), NEW s, PlainMove(r, s)
    PROVE  /\ s.n \in Tries /\ s.n >= r.n
           /\ \A i \in Tries : s.att[i].launch = r.att[i].launch
<1>1. /\ r \in Run /\ r.n \in Tries /\ r.att \in [Tries -> Attempt] /\ r.att[r.n] \in Attempt
      /\ MaxTries \in Nat \ {0} /\ r.n \in Nat
  BY RunFields, TriesAreNaturals, MaxTriesAssumption DEF SoundRun
<1>2. ASSUME NEW status, NEW cause, s = To(r, status, cause)
      PROVE  s.n = r.n /\ \A i \in Tries : s.att[i].launch = r.att[i].launch
  BY <1>1, <1>2 DEF To, Run, Attempt
<1>3. CASE s = r
  BY <1>1, <1>3
<1>4. CASE s = Admitted(r)
  BY <1>1, <1>4 DEF Admitted, To, Run, Attempt
<1>5. CASE (\E status, cause : s = Published(r, status, cause)) \/ s = Cancelling(r) \/ s = Recovered(r)
  BY <1>1, <1>2, <1>5 DEF Published, Cancelling, Recovered
<1>6. CASE s = WithFinal(r, r.n)
  BY <1>1, <1>6 DEF WithFinal, Run, Attempt
<1>7. CASE s = OnHold(r)
  BY <1>1, <1>7 DEF OnHold, Run, Attempt
<1>8. CASE (Retried(r) /\ s = Requeued(r)) \/ (Resumable(r) /\ s = Resumed(r))
  <2>1. r.n < MaxTries /\ r.n + 1 \in Tries /\ r.n + 1 # r.n
    BY <1>1, <1>8 DEF Retried, Resumable, Tries
  <2>2. r.att[r.n + 1].launch = NoLaunch /\ NewAttempt.launch = NoLaunch
    BY <1>1, <2>1 DEF SoundRun, Agrees, NoAttempt, NewAttempt
  <2>3. \E a : /\ a.launch = r.att[r.n].launch /\ s.n = r.n + 1
               /\ s.att = [r.att EXCEPT ![r.n] = a, ![r.n + 1] = NewAttempt]
    <3>1. CASE s = Requeued(r)
      <4> DEFINE a == [r.att[r.n] EXCEPT !.decided = TRUE]
      <4>1. a.launch = r.att[r.n].launch
        BY <1>1 DEF Attempt
      <4>2. s.n = r.n + 1 /\ s.att = [r.att EXCEPT ![r.n] = a, ![r.n + 1] = NewAttempt]
        BY <1>1, <3>1 DEF Requeued, Run
      <4>3. QED
        BY <4>1, <4>2
    <3>2. CASE s = Resumed(r)
      <4>1. PICK outcome : /\ s.n = r.n + 1
                           /\ s.att = [r.att EXCEPT ![r.n] = [r.att[r.n] EXCEPT !.status = outcome],
                                                    ![r.n + 1] = NewAttempt]
        BY <1>1, <3>2 DEF Resumed, Run
      <4>2. [r.att[r.n] EXCEPT !.status = outcome].launch = r.att[r.n].launch
        BY <1>1 DEF Attempt
      <4>3. QED
        BY <4>1, <4>2
    <3>3. QED
      BY <1>8, <3>1, <3>2
  <2>4. QED
    BY <1>1, <2>1, <2>2, <2>3
<1>9. QED
  BY <1>3, <1>4, <1>5, <1>6, <1>7, <1>8 DEF PlainMove

(* A lane that does not execute carries nothing of this.                     *)
LEMMA OnlyExecutorsCarry == \A l : l.pc \notin ExecutingPc => CarriesTrue(l) /\ CarriesTrue(l)'
BY DEF CarriesTrue, ExecutingPc

(* Processes end and are told to; lanes go on.                               *)
LEMMA TheHostGoesOn ==
    ASSUME PInv, run' = run, HostTyped',
           \A l \in Tries : (proc'[l] = "none" <=> proc[l] = "none") /\ (Ceased(l) => Ceased(l)'),
           run.n \in Tries,
           \A v \in Lanes : \/ lane'[v] = lane[v] \/ CarriesTrue(lane'[v])
                            \/ /\ InCharge(lane'[v]) /\ lane'[v].pc = "collecting"
                               /\ lane'[v].what \in Outcome /\ Ceased(run.n)'
    PROVE  PInv'
<1>1. LaunchesAreRecorded'
  BY DEF PInv, LaunchesAreRecorded
<1>2. RetriedAreGone'
  BY DEF PInv, RetriedAreGone, Ended
<1>3. ASSUME NEW l, CarriesTrue(l)
      PROVE  CarriesTrue(l)'
  BY <1>3 DEF CarriesTrue, InCharge
<1>4. ASSUME NEW l, InCharge(l), l.pc = "collecting", l.what \in Outcome, Ceased(run.n)'
      PROVE  CarriesTrue(l)'
  BY <1>4 DEF CarriesTrue, InCharge, Outcome, Ceased
<1>5. \A v \in Lanes : CarriesTrue(lane[v])'
  BY <1>3, <1>4 DEF PInv
<1>6. QED
  BY <1>1, <1>2, <1>5 DEF PInv

(* The Run is changed while the lanes that go on executing may rely on it.   *)
LEMMA TheRunGoesOn ==
    ASSUME IInv, PInv, PlainMove(run, run'), proc' = proc, HostTyped',
           Ended(run') /\ run'.cause \in Retryable =>
               run'.n = run.n /\ (Ceased(run.n) \/ (Ended(run) /\ run.cause = run'.cause)),
           \A v \in Lanes : lane'[v].pc \in ExecutingPc =>
               /\ lane'[v] = lane[v]
               /\ \/ run' = run \/ run' = Cancelling(run)
                  \/ run.status \notin {"running", "cancelling"}
    PROVE  PInv'
<1>1. /\ run.n \in Tries /\ run'.n \in Tries /\ run'.n >= run.n /\ run \in Run
      /\ \A i \in Tries : run'.att[i].launch = run.att[i].launch
  BY LaunchesStay, RunFields DEF IInv, SoundRun
<1>2. \A i \in Tries : i \in Nat
  BY TriesAreNaturals
<1>3. LaunchesAreRecorded'
  BY <1>1, <1>2 DEF PInv, LaunchesAreRecorded
<1>4. RetriedAreGone'
  BY DEF PInv, RetriedAreGone, Ceased, Ended
<1>5. ASSUME NEW v \in Lanes, lane'[v].pc \in ExecutingPc
      PROVE  CarriesTrue(lane[v])'
  <2> DEFINE l == lane[v]
  <2>1. lane'[v] = l /\ CarriesTrue(l)
    BY <1>5 DEF PInv
  <2>2. CASE run' = run
    BY <2>1, <2>2 DEF CarriesTrue, InCharge, Ceased
  <2>3. CASE run' = Cancelling(run)
    <3>1. run'.status = "cancelling" /\ run'.n = run.n
      BY <1>1, <2>3 DEF Cancelling, To, Run
    <3>2. QED
      BY <1>1, <2>1, <3>1 DEF CarriesTrue, InCharge, Ceased
  <2>4. CASE run.status \notin {"running", "cancelling"}
    <3>1. l.pc \notin {"preparing", "opening", "binding", "bound", "running", "collecting"}
      BY <2>1, <2>4 DEF CarriesTrue, InCharge
    <3>2. ~(l.pc = "publishing" /\ l.what = "transient")
      BY <2>1, <2>4 DEF CarriesTrue, InCharge
    <3>3. l.pc = "asking" \/ (l.pc = "publishing" /\ l.what = "orphaned") => l.n \in Tries /\ l.n <= run'.n
      BY <1>1, <1>2, <2>1 DEF CarriesTrue
    <3>4. l.pc = "publishing" /\ l.what = "orphaned" /\ l.n = run'.n => Ceased(run'.n)
      BY <1>1, <1>2, <2>1 DEF CarriesTrue
    <3>5. QED
      BY <2>1, <3>1, <3>2, <3>3, <3>4 DEF CarriesTrue, Ceased
  <2>5. QED
    BY <1>5, <2>2, <2>3, <2>4
<1>6. \A v \in Lanes : CarriesTrue(lane[v])'
  BY <1>5, OnlyExecutorsCarry
<1>7. QED
  BY <1>3, <1>4, <1>6 DEF PInv

(* The latest launch runs exactly if the process of the latest attempt does. *)
LEMMA TheLatestLaunch ==
    ASSUME IInv, PInv
    PROVE  /\ run \in Run /\ run.n \in Tries /\ run.n # NoLaunch /\ run.n # 0
           /\ Latest(run).launch \in {NoLaunch, run.n}
           /\ Ceased(run.n) <=> ~Live(Latest(run).launch)
<1>1. run \in Run /\ run.n \in Tries /\ run.n # NoLaunch /\ run.n # 0
  BY RunFields, TriesAreNaturals DEF IInv, SoundRun, NoLaunch
<1>2. Latest(run).launch \in {NoLaunch, run.n}
  BY <1>1 DEF PInv, LaunchesAreRecorded, Latest
<1>3. Latest(run).launch = NoLaunch => proc[run.n] = "none"
  BY <1>1 DEF PInv, LaunchesAreRecorded, Latest
<1>4. QED
  BY <1>1, <1>2, <1>3 DEF Live, Ceased

LEMMA OnlyOneExecutes ==
    ASSUME HInv, NEW w \in Lanes, lane[w].pc \in ExecutingPc
    PROVE  \A v \in Lanes : v # w => lane[v].pc \notin ExecutingPc /\ CarriesTrue(lane[v])
BY OnlyExecutorsCarry DEF HInv, LockIsOwned

(* A lane goes on, and nothing else changes.                                 *)
LEMMA OneLaneCarriesOn ==
    ASSUME IInv, PInv, NEW w \in Lanes, NEW m, Move(w, m), CarriesTrue(m),
           run' = run, proc' = proc, online' = online, owed' \subseteq Tries
    PROVE  PInv'
<1>1. \A v \in Lanes : lane'[v] = lane[v] \/ CarriesTrue(lane'[v])
  BY DEF IInv, Move
<1>2. HostTyped'
  BY DEF PInv, HostTyped
<1>3. \A l \in Tries : Ceased(l) => Ceased(l)'
  BY DEF Ceased
<1>4. QED
  BY <1>1, <1>2, <1>3, TheLatestLaunch, TheHostGoesOn

LEMMA QueueStepsCarryTrue ==
    ASSUME IInv, PInv, NEW w \in Lanes,
           \/ \E j \in Jobs : Claim(w, j)
           \/ Start(w) \/ Complete(w) \/ Defer(w) \/ Fail(w) \/ ReadRun(w) \/ NotYetItsTurn(w)
           \/ ReadThrows(w) \/ TakeLock(w) \/ StopUnconfirmed(w) \/ FinalizeFails(w)
    PROVE  PInv'
<1>1. run' = run /\ proc' = proc /\ online' = online /\ owed' = owed
  BY DEF Claim, Start, Complete, Defer, Fail, ReadRun, NotYetItsTurn, ReadThrows, TakeLock,
         StopUnconfirmed, FinalizeFails, host
<1>2. CarriesTrue(Idle)
  BY DEF CarriesTrue, Idle
<1>3. \A l, n, what : /\ CarriesTrue(At("reading", l, n, what)) /\ CarriesTrue(At("locking", l, n, what))
                      /\ CarriesTrue(At("finalizing", l, n, what)) /\ CarriesTrue(At("deferring", l, n, what))
                      /\ CarriesTrue(At("failing", l, n, what)) /\ CarriesTrue(At("admitting", l, n, what))
                      /\ CarriesTrue(At("stopping", l, n, what))
  BY DEF CarriesTrue, At
<1>4. \A j, last : CarriesTrue([pc |-> "claimed", job |-> j, last |-> last, n |-> 0, what |-> "none"])
  BY DEF CarriesTrue
<1>5. \E m : Move(w, m) /\ CarriesTrue(m)
  <2>1. CASE \E j \in Jobs : Claim(w, j)
    BY <1>4, <2>1 DEF Claim
  <2>2. CASE Start(w) \/ Complete(w) \/ Defer(w) \/ Fail(w)
    BY <1>2, <1>3, <2>2 DEF Start, Complete, Defer, Fail, Leave
  <2>3. CASE ReadRun(w) \/ NotYetItsTurn(w) \/ ReadThrows(w) \/ StopUnconfirmed(w) \/ FinalizeFails(w)
    BY <1>3, <2>3 DEF ReadRun, NotYetItsTurn, ReadThrows, StopUnconfirmed, FinalizeFails, Leave
  <2>4. CASE TakeLock(w)
    BY <1>3, <2>4 DEF TakeLock
  <2>5. QED
    BY <2>1, <2>2, <2>3, <2>4
<1>6. owed' \subseteq Tries
  BY <1>1 DEF PInv, HostTyped
<1>7. QED
  BY <1>1, <1>5, <1>6, OneLaneCarriesOn

LEMMA WorkStepsCarryTrue ==
    ASSUME IInv, PInv, NEW w \in Lanes,
           \/ Refuse(w) \/ PrepareFails(w) \/ OpenInvocation(w) \/ AdapterFails(w) \/ GiveUp(w)
           \/ StopConfirmed(w) \/ Collect(w)
    PROVE  PInv'
<1> DEFINE l == lane[w]
<1>1. run' = run /\ proc' = proc /\ online' = online /\ CarriesTrue(l)
  BY DEF Refuse, PrepareFails, OpenInvocation, AdapterFails, GiveUp, StopConfirmed, Collect, host, PInv
<1>2. owed' \subseteq Tries
  <2>1. CASE GiveUp(w)
    BY <1>1, <2>1, TheLatestLaunch DEF GiveUp, Is, CarriesTrue, InCharge, PInv, HostTyped
  <2>2. CASE ~GiveUp(w)
    BY <2>2 DEF Refuse, PrepareFails, OpenInvocation, AdapterFails, StopConfirmed, Collect, host,
                PInv, HostTyped
  <2>3. QED
    BY <2>1, <2>2
<1>3. CASE Refuse(w) \/ PrepareFails(w)
  <2>1. \A n : CarriesTrue(At("publishing", l, n, "final"))
    BY DEF CarriesTrue, At
  <2>2. QED
    BY <1>1, <1>2, <1>3, <2>1, OneLaneCarriesOn DEF Refuse, PrepareFails
<1>4. CASE OpenInvocation(w)
  <2>1. CarriesTrue(At("binding", l, l.n, "open"))
    BY <1>1, <1>4 DEF OpenInvocation, Is, CarriesTrue, InCharge, At
  <2>2. QED
    BY <1>1, <1>2, <1>4, <2>1, OneLaneCarriesOn DEF OpenInvocation
<1>5. CASE AdapterFails(w) \/ GiveUp(w)
  <2>1. CarriesTrue(At("collecting", l, l.n, "final"))
    BY <1>1, <1>5 DEF AdapterFails, GiveUp, Is, CarriesTrue, InCharge, At, Outcome
  <2>2. QED
    BY <1>1, <1>2, <1>5, <2>1, OneLaneCarriesOn DEF AdapterFails, GiveUp
<1>6. CASE StopConfirmed(w)
  <2>1. l.n \in Tries /\ l.n <= run.n /\ (l.n = run.n => Ceased(run.n))
    BY <1>1, <1>6, TheLatestLaunch DEF StopConfirmed, Is, CarriesTrue, Latest
  <2>2. CarriesTrue(At("publishing", l, l.n, "orphaned"))
    BY <2>1 DEF CarriesTrue, At
  <2>3. QED
    BY <1>1, <1>2, <1>6, <2>2, OneLaneCarriesOn DEF StopConfirmed
<1>7. CASE Collect(w)
  <2>1. CarriesTrue(At("finalizing", l, 0, "completing"))
    BY DEF CarriesTrue, At
  <2>2. CarriesTrue(At("publishing", l, l.n, l.what))
    BY <1>1, <1>7 DEF Collect, Is, CarriesTrue, InCharge, At, Outcome
  <2>3. QED
    BY <1>1, <1>2, <1>7, <2>1, <2>2, OneLaneCarriesOn DEF Collect, Goto
<1>8. QED
  BY <1>3, <1>4, <1>5, <1>6, <1>7

(* A status that is taken is the Run's, and no reason to retry but its own.  *)
LEMMA WhatAnEndSays ==
    ASSUME NEW r \in Run, NEW status, NEW cause
    PROVE  /\ To(r, status, cause).status = status /\ To(r, status, cause).cause = cause
           /\ To(r, status, cause).n = r.n
BY DEF To, Run

LEMMA OwnersPublishPlainly ==
    ASSUME IInv, PInv, NEW w \in Lanes, lane[w].pc \in {"admitting", "preparing", "publishing"},
           NEW what \in Outcome \cup {"orphaned", "cancelled"}, NEW expected,
           PublishOwned(w, what, expected),
           what \in Retryable => lane[w].pc = "publishing" /\ lane[w].what = what /\ expected = Expected(lane[w])
    PROVE  /\ PlainMove(run, run')
           /\ Ended(run') /\ run'.cause \in Retryable =>
                run'.n = run.n /\ (Ceased(run.n) \/ (Ended(run) /\ run.cause = run'.cause))
<1>1. run \in Run /\ run.n \in Tries /\ run.n # 0
  BY TheLatestLaunch
<1>2. CASE run' = run
  BY <1>2 DEF PlainMove
<1>3. CASE run' = Published(run, "cancelled", "cancelled")
  BY <1>1, <1>3, WhatAnEndSays DEF PlainMove, Published, Retryable
<1>4. CASE /\ run' = Published(run, StatusOf(what), CauseOf(what))
           /\ Publishable(run, StatusOf(what), TRUE, Locked, expected)
  <2>1. run'.n = run.n /\ run'.cause = CauseOf(what) /\ PlainMove(run, run')
    BY <1>1, <1>4, WhatAnEndSays DEF PlainMove, Published
  <2>2. CauseOf(what) \in Retryable => what \in Retryable
    BY DEF CauseOf, Retryable
  <2>3. ASSUME what = "transient"
        PROVE  Ceased(run.n)
    BY <2>3 DEF Retryable, PInv, CarriesTrue
  <2>4. ASSUME what = "orphaned"
        PROVE  Ceased(run.n)
    <3>1. lane[w].pc = "publishing" /\ lane[w].what = "orphaned" /\ expected = lane[w].n
      BY <2>4 DEF Retryable, Expected
    <3>2. lane[w].n \in Tries /\ lane[w].n # 0
      BY <3>1, TriesAreNaturals DEF PInv, CarriesTrue
    <3>3. lane[w].n = run.n
      BY <1>4, <3>1, <3>2 DEF Publishable
    <3>4. QED
      BY <3>1, <3>3 DEF PInv, CarriesTrue
  <2>5. QED
    BY <2>1, <2>2, <2>3, <2>4 DEF Retryable
<1>5. QED
  BY <1>2, <1>3, <1>4 DEF PublishOwned

LEMMA PublishingCarriesTrue ==
    ASSUME IInv, HInv, PInv, NEW w \in Lanes,
           Admit(w) \/ CheckCancelled(w) \/ Publish(w) \/ PublishThrows(w)
    PROVE  PInv'
<1> DEFINE l == lane[w]
<1>1. /\ proc' = proc /\ online' = online /\ owed' = owed
      /\ l.pc \in ExecutingPc /\ l # Idle /\ l.pc \in {"admitting", "preparing", "publishing"}
  BY DEF Admit, CheckCancelled, Publish, PublishThrows, Is, Works, ExecutingPc, host
<1>2. HostTyped'
  BY <1>1 DEF PInv, HostTyped
<1>3. run \in Run /\ run.n \in Tries
  BY TheLatestLaunch
<1>4. ASSUME NEW what \in Outcome \cup {"orphaned", "cancelled"}, NEW expected,
             what \in Retryable => l.pc = "publishing" /\ l.what = what /\ expected = Expected(l),
             PublishOwned(w, what, expected) \/ run' = run,
             NEW pc \in {"finalizing", "failing", "exhausting"}, NEW n, NEW x,
             Move(w, At(pc, l, n, x))
      PROVE  PInv'
  <2>1. \A v \in Lanes : lane'[v].pc \notin ExecutingPc
    <3>1. lane'[w].pc \notin ExecutingPc
      BY <1>4 DEF IInv, Move, At, ExecutingPc
    <3>2. \A v \in Lanes : v # w => lane'[v] = lane[v]
      BY <1>4 DEF IInv, Move
    <3>3. QED
      BY <1>1, <3>1, <3>2, OnlyOneExecutes
  <2>2. /\ PlainMove(run, run')
        /\ Ended(run') /\ run'.cause \in Retryable =>
             run'.n = run.n /\ (Ceased(run.n) \/ (Ended(run) /\ run.cause = run'.cause))
    BY <1>1, <1>4, OwnersPublishPlainly DEF PlainMove
  <2>3. QED
    BY <1>1, <1>2, <2>1, <2>2, TheRunGoesOn
<1>5. "cancelled" \notin Retryable
  BY DEF Retryable
<1>6. CASE Admit(w)
  <2>1. CASE Admissible(run)
    <3>1. run' = Admitted(run) /\ Move(w, At("preparing", l, run.n, "none"))
      BY <1>6, <2>1 DEF Admit
    <3>2. run'.status = "running" /\ run'.n = run.n
      BY <1>3, <3>1 DEF Admitted, To, Run
    <3>3. \A i \in Tries : run'.att[i].launch = run.att[i].launch
      BY <2>1, <3>1, LaunchesStay DEF PlainMove, IInv
    <3>4. CarriesTrue(At("preparing", l, run.n, "none"))'
      BY <3>2 DEF CarriesTrue, At, InCharge
    <3>5. \A v \in Lanes : v # w => lane'[v] = lane[v] /\ lane[v].pc \notin ExecutingPc
      BY <1>1, <3>1, OnlyOneExecutes DEF IInv, Move
    <3>6. lane'[w] = At("preparing", l, run.n, "none")
      BY <3>1 DEF IInv, Move
    <3>7. CarriesTrue(lane[w])'
      BY <3>2, <3>6 DEF CarriesTrue, At, InCharge
    <3>8. \A v \in Lanes : CarriesTrue(lane[v])'
      BY <3>5, <3>7, OnlyExecutorsCarry
    <3>9. LaunchesAreRecorded' /\ RetriedAreGone'
      BY <1>1, <3>2, <3>3 DEF PInv, LaunchesAreRecorded, RetriedAreGone, Ended, EndedStatus
    <3>10. QED
      BY <1>2, <3>8, <3>9 DEF PInv
  <2>2. CASE ~Admissible(run)
    BY <1>4, <1>5, <1>6, <2>2 DEF Admit
  <2>3. QED
    BY <2>1, <2>2
<1>7. CASE CheckCancelled(w)
  <2>1. CASE run.status = "cancelling"
    BY <1>4, <1>5, <1>7, <2>1 DEF CheckCancelled
  <2>2. CASE run.status # "cancelling"
    <3>1. run' = run /\ Move(w, At("opening", l, l.n, l.what))
      BY <1>7, <2>2 DEF CheckCancelled, Goto
    <3>2. CarriesTrue(At("opening", l, l.n, l.what))
      BY <1>7 DEF CheckCancelled, Is, PInv, CarriesTrue, InCharge, At
    <3>3. owed' \subseteq Tries
      BY <1>1 DEF PInv, HostTyped
    <3>4. QED
      BY <1>1, <3>1, <3>2, <3>3, OneLaneCarriesOn
  <2>3. QED
    BY <2>1, <2>2
<1>8. CASE Publish(w) \/ PublishThrows(w)
  <2>1. l.pc = "publishing" /\ l.what \in Outcome \cup {"orphaned"}
    BY <1>8 DEF Publish, PublishThrows, Is, IInv, SoundLane
  <2>2. PublishOwned(w, l.what, Expected(l)) \/ run' = run
    BY <1>8 DEF Publish, PublishThrows
  <2>3. \E pc \in {"finalizing", "failing", "exhausting"} : \E n, x : Move(w, At(pc, l, n, x))
    BY <1>8 DEF Publish, PublishThrows, Thrown, Leave
  <2>4. QED
    BY <1>4, <2>1, <2>2, <2>3
<1>9. QED
  BY <1>6, <1>7, <1>8

LEMMA BindingCarriesTrue ==
    ASSUME IInv, HInv, PInv, NEW w \in Lanes, Bind(w)
    PROVE  PInv'
<1> DEFINE l == lane[w]
<1>1. /\ l.pc = "binding" /\ l.pc \in ExecutingPc /\ l # Idle /\ CarriesTrue(l)
      /\ proc' = proc /\ online' = online /\ owed' = owed
  BY DEF Bind, Is, Works, ExecutingPc, PInv, host
<1>2. l.n = run.n /\ run.status \in {"running", "cancelling"} /\ l.what \in {"open", "aborted"}
  BY <1>1 DEF CarriesTrue, InCharge
<1>3. run \in Run /\ run.n \in Tries /\ run.att \in [Tries -> Attempt]
  BY TheLatestLaunch, RunFields
<1>4. CASE Bindable(run)
  <2>1. run' = Bound(run, l.n) /\ Move(w, At("bound", l, l.n, l.what))
    BY <1>4 DEF Bind, Goto
  <2>2. /\ run'.status = run.status /\ run'.n = run.n /\ run'.att[run.n].launch = run.n
        /\ \A i \in Tries : i # run.n => run'.att[i].launch = run.att[i].launch
    BY <1>2, <1>3, <2>1 DEF Bound, Run, Attempt
  <2>3. HostTyped' /\ LaunchesAreRecorded' /\ RetriedAreGone'
    <3>1. HostTyped'
      BY <1>1 DEF PInv, HostTyped
    <3>2. LaunchesAreRecorded'
      BY <1>1, <1>3, <2>2 DEF PInv, LaunchesAreRecorded
    <3>3. RetriedAreGone'
      BY <1>2, <2>2 DEF RetriedAreGone, Ended, EndedStatus
    <3>4. QED
      BY <3>1, <3>2, <3>3
  <2>4. lane'[w] = At("bound", l, l.n, l.what)
    BY <2>1 DEF IInv, Move
  <2>5. CarriesTrue(lane[w])'
    BY <1>2, <2>2, <2>4 DEF CarriesTrue, At, InCharge
  <2>6. \A v \in Lanes : v # w => lane'[v] = lane[v] /\ lane[v].pc \notin ExecutingPc
    BY <1>1, <2>1, OnlyOneExecutes DEF IInv, Move
  <2>7. \A v \in Lanes : CarriesTrue(lane[v])'
    BY <2>5, <2>6, OnlyExecutorsCarry
  <2>8. QED
    BY <2>3, <2>7 DEF PInv
<1>5. CASE ~Bindable(run)
  <2>1. run' = run /\ Move(w, At("collecting", l, l.n, "final"))
    BY <1>5 DEF Bind
  <2>2. CarriesTrue(At("collecting", l, l.n, "final"))
    BY <1>2 DEF CarriesTrue, At, InCharge, Outcome
  <2>3. owed' \subseteq Tries
    BY <1>1 DEF PInv, HostTyped
  <2>4. QED
    BY <1>1, <2>1, <2>2, <2>3, OneLaneCarriesOn
<1>6. QED
  BY <1>4, <1>5

LEMMA LaunchingCarriesTrue ==
    ASSUME IInv, HInv, PInv, NEW w \in Lanes, Launch(w)
    PROVE  PInv'
<1> DEFINE l == lane[w]
<1>1. /\ l.pc = "bound" /\ l.pc \in ExecutingPc /\ l # Idle /\ CarriesTrue(l)
      /\ run' = run /\ online' = online /\ owed' = owed
  BY DEF Launch, Is, Works, ExecutingPc, PInv
<1>2. /\ l.n = run.n /\ run.status \in {"running", "cancelling"}
      /\ run.att[run.n].launch = run.n /\ run.n \in Tries /\ run.n \in Nat
  BY <1>1, TheLatestLaunch, TriesAreNaturals DEF CarriesTrue, InCharge
<1>3. CASE l.what = "aborted" \/ ~online
  <2>1. proc' = proc /\ Move(w, At("collecting", l, l.n, "final"))
    BY <1>3 DEF Launch
  <2>2. CarriesTrue(At("collecting", l, l.n, "final"))
    BY <1>2 DEF CarriesTrue, At, InCharge, Outcome
  <2>3. owed' \subseteq Tries
    BY <1>1 DEF PInv, HostTyped
  <2>4. QED
    BY <1>1, <2>1, <2>2, <2>3, OneLaneCarriesOn
<1>4. CASE ~(l.what = "aborted" \/ ~online)
  <2>1. proc' \in Arrivals(run.n) /\ lane' = Dispatched(w)
    BY <1>2, <1>4 DEF Launch
  <2>2. /\ \A i \in Tries : i # run.n => proc'[i] = proc[i]
        /\ proc' \in [Tries -> {"none", "running", "dying", "exited"}]
    BY <1>2, <2>1 DEF Arrivals, PInv, HostTyped
  <2>3. HostTyped' /\ LaunchesAreRecorded' /\ RetriedAreGone'
    <3>1. HostTyped'
      BY <1>1, <2>2 DEF PInv, HostTyped
    <3>2. LaunchesAreRecorded'
      BY <1>1, <1>2, <2>2 DEF PInv, LaunchesAreRecorded
    <3>3. RetriedAreGone'
      BY <1>1, <1>2 DEF RetriedAreGone, Ended, EndedStatus
    <3>4. QED
      BY <3>1, <3>2, <3>3
  <2>4. lane'[w] = At("running", l, l.n, l.what)
    BY <2>1 DEF Dispatched, Goto
  <2>5. CarriesTrue(lane[w])'
    BY <1>1, <1>2, <2>4 DEF CarriesTrue, At, InCharge
  <2>6. \A v \in Lanes : v # w => lane'[v] = lane[v] /\ lane[v].pc \notin ExecutingPc
    <3>1. \A v \in Lanes : v # w => lane[v].pc \notin ExecutingPc /\ ~Is(v, "running")
      BY <1>1, OnlyOneExecutes DEF Is, ExecutingPc
    <3>2. QED
      BY <2>1, <3>1 DEF Dispatched
  <2>7. \A v \in Lanes : CarriesTrue(lane[v])'
    BY <2>5, <2>6, OnlyExecutorsCarry
  <2>8. QED
    BY <2>3, <2>7 DEF PInv
<1>5. QED
  BY <1>3, <1>4

-----------------------------------------------------------------------------
(* What the host is told, and what it answers.                               *)
LEMMA Telling ==
    ASSUME PInv, NEW p, \A l \in Tries : p[l] = proc[l] \/ p[l] = Told(l)[l] \/ (Live(l) /\ p[l] = "exited"),
           p = [l \in Tries |-> p[l]], proc' = p, owed' \subseteq Tries, online' \in BOOLEAN
    PROVE  /\ HostTyped'
           /\ \A l \in Tries : (proc'[l] = "none" <=> proc[l] = "none") /\ (Ceased(l) => Ceased(l)')
<1>1. \A l \in Tries : Told(l)[l] = IF proc[l] = "running" THEN "dying" ELSE proc[l]
  BY DEF Told, PInv, HostTyped
<1>2. \A l \in Tries : /\ p[l] \in {"none", "running", "dying", "exited"}
                       /\ (p[l] = "none" <=> proc[l] = "none")
                       /\ (Ceased(l) => p[l] \notin {"running", "dying"})
  BY <1>1 DEF PInv, HostTyped, Ceased, Live
<1>3. QED
  BY <1>2 DEF HostTyped, Ceased

LEMMA LanesAreTold ==
    ASSUME IInv, PInv
    PROVE  /\ \A v \in Lanes : CarriesTrue(Aborted[v])
           /\ \A v \in Lanes : \A l : CarriesTrue(AnsweredLanes(l)[v])
<1>1. \A v \in Lanes : CarriesTrue(lane[v])
  BY DEF PInv
<1>2. ASSUME NEW v \in Lanes
      PROVE  /\ lane[v].pc = "running" => CarriesTrue(At("collecting", lane[v], lane[v].n, "final"))
             /\ lane[v].pc \in {"binding", "bound"} => CarriesTrue(At(lane[v].pc, lane[v], lane[v].n, "aborted"))
  BY <1>1 DEF CarriesTrue, At, InCharge, Outcome
<1>3. \A v \in Lanes : CarriesTrue(Aborted[v])
  BY <1>1, <1>2 DEF Aborted, Is
<1>4. \A v \in Lanes : \A l : CarriesTrue(AnsweredLanes(l)[v])
  BY <1>1, <1>2 DEF AnsweredLanes, Completing, Is
<1>5. QED
  BY <1>3, <1>4

LEMMA AbortsTellTheHost ==
    ASSUME IInv, PInv, Abort
    PROVE  /\ HostTyped'
           /\ \A l \in Tries : (proc'[l] = "none" <=> proc[l] = "none") /\ (Ceased(l) => Ceased(l)')
<1> DEFINE stopped == {lane[v].n : v \in {u \in Lanes : Is(u, "running")}}
<1>1. stopped \subseteq Tries
  BY TheLatestLaunch DEF PInv, CarriesTrue, InCharge, Is
<1>2. /\ proc' = [l \in Tries |-> IF online /\ l \in stopped THEN Told(l)[l] ELSE proc[l]]
      /\ owed' = (IF online THEN owed ELSE owed \cup stopped) /\ online' = online
  BY DEF Abort
<1>3. owed' \subseteq Tries /\ online' \in BOOLEAN
  BY <1>1, <1>2 DEF PInv, HostTyped
<1>4. proc' = [l \in Tries |-> proc'[l]] /\ \A l \in Tries : proc'[l] = proc[l] \/ proc'[l] = Told(l)[l]
  BY <1>2
<1>5. QED
  BY <1>3, <1>4, Telling

LEMMA StoppingCarriesTrue ==
    ASSUME IInv, HInv, PInv, NEW w \in Lanes, StopAborts(w) \/ StopLooks(w)
    PROVE  PInv'
<1> DEFINE l == lane[w]
           launch == Latest(run).launch
<1>1. l.pc \in {"stopping", "looking"} /\ l.pc \in ExecutingPc /\ l # Idle /\ run' = run
  BY DEF StopAborts, StopLooks, Is, Works, ExecutingPc
<1>2. run.n \in Tries /\ (Ceased(run.n) <=> ~Live(launch)) /\ run.n <= run.n
  <2>1. run.n \in Tries /\ (Ceased(run.n) <=> ~Live(launch))
    BY TheLatestLaunch
  <2>2. run.n \in Nat
    BY <2>1, TriesAreNaturals
  <2>3. QED
    BY <2>1, <2>2
<1>3. CASE StopAborts(w)
  <2>1. Aborted[w] = l /\ Aborted = [v \in Lanes |-> Aborted[v]]
    BY <1>1, <1>3 DEF Aborted, Is, StopAborts
  <2>2. lane' = [Aborted EXCEPT ![w] = At("looking", l, 0, "none")]
    BY <1>3, <2>1 DEF StopAborts, Leave
  <2>3. CarriesTrue(At("looking", l, 0, "none"))
    BY DEF CarriesTrue, At
  <2>4. \A v \in Lanes : CarriesTrue(lane'[v])
    BY <2>1, <2>2, <2>3, LanesAreTold
  <2>5. Abort
    BY <1>3 DEF StopAborts
  <2>6. QED
    BY <1>1, <1>2, <2>4, <2>5, AbortsTellTheHost, TheHostGoesOn
<1>4. CASE StopLooks(w)
  <2>1. online' = online /\ owed' \subseteq Tries
    BY <1>4 DEF StopLooks, PInv, HostTyped
  <2>2. CarriesTrue(At("deferring", l, 0, "none")) /\ CarriesTrue(At("asking", l, run.n, "none"))
    BY <1>2 DEF CarriesTrue, At
  <2>3. ~Live(launch) => CarriesTrue(At("publishing", l, run.n, "orphaned"))
    BY <1>2 DEF CarriesTrue, At
  <2>4. CASE launch = NoLaunch \/ ~online
    <3>1. \/ Move(w, At("deferring", l, 0, "none"))
          \/ launch = NoLaunch /\ Move(w, At("publishing", l, run.n, "orphaned"))
      BY <1>4, <2>4 DEF StopLooks, Leave
    <3>2. proc' = proc /\ (launch = NoLaunch => ~Live(launch))
      BY <1>4, <2>4 DEF StopLooks, Live
    <3>3. QED
      BY <1>1, <2>1, <2>2, <2>3, <3>1, <3>2, OneLaneCarriesOn
  <2>5. CASE launch # NoLaunch /\ online
    <3>1. /\ proc' = Told(launch)
          /\ \E m : CarriesTrue(m) /\ lane' = [AnsweredLanes(launch) EXCEPT ![w] = m]
      BY <1>4, <2>2, <2>3, <2>5 DEF StopLooks
    <3>2. AnsweredLanes(launch) = [v \in Lanes |-> AnsweredLanes(launch)[v]]
      BY DEF AnsweredLanes, Completing, IInv
    <3>3. \A v \in Lanes : CarriesTrue(lane'[v])
      BY <3>1, <3>2, LanesAreTold
    <3>4. Told(launch) = [i \in Tries |-> Told(launch)[i]]
      BY DEF Told, PInv, HostTyped
    <3>5. \A i \in Tries : Told(launch)[i] = proc[i] \/ Told(launch)[i] = Told(i)[i]
      BY DEF Told, PInv, HostTyped
    <3>6. HostTyped' /\ \A i \in Tries : (proc'[i] = "none" <=> proc[i] = "none") /\ (Ceased(i) => Ceased(i)')
      <4>1. online' \in BOOLEAN
        BY <2>1 DEF PInv, HostTyped
      <4>2. QED
        BY <2>1, <3>1, <3>4, <3>5, <4>1, Telling
    <3>7. QED
      BY <1>1, <1>2, <3>3, <3>6, TheHostGoesOn
  <2>6. QED
    BY <2>4, <2>5
<1>5. QED
  BY <1>3, <1>4

LEMMA TheHostCarriesTrue ==
    ASSUME IInv, PInv, (\E l \in Tries : ProcExits(l)) \/ Disconnect \/ Reconnect
    PROVE  PInv'
<1>1. run.n \in Tries /\ \A v \in Lanes : CarriesTrue(lane[v])
  BY TheLatestLaunch DEF PInv
<1>2. ASSUME NEW l \in Tries, ProcExits(l)
      PROVE  PInv'
  <2>1. /\ run' = run /\ online' = online /\ owed' = owed /\ Live(l)
        /\ proc' = [proc EXCEPT ![l] = "exited"]
        /\ \E what \in Outcome : lane' = IF online THEN Completing(l, what) ELSE lane
    BY <1>2 DEF ProcExits
  <2>2. /\ proc' = [i \in Tries |-> proc'[i]] /\ proc'[l] = "exited"
        /\ \A i \in Tries : proc'[i] = proc[i] \/ (Live(i) /\ proc'[i] = "exited")
    BY <2>1 DEF PInv, HostTyped
  <2>3. HostTyped' /\ \A i \in Tries : (proc'[i] = "none" <=> proc[i] = "none") /\ (Ceased(i) => Ceased(i)')
    <3>1. online' \in BOOLEAN /\ owed' \subseteq Tries
      BY <2>1 DEF PInv, HostTyped
    <3>2. QED
      BY <2>2, <3>1, Telling
  <2>4. ASSUME NEW what \in Outcome, NEW v \in Lanes, lane' = Completing(l, what)
        PROVE  \/ lane'[v] = lane[v]
               \/ /\ InCharge(lane'[v]) /\ lane'[v].pc = "collecting"
                  /\ lane'[v].what \in Outcome /\ Ceased(run.n)'
    <3>1. CASE Is(v, "running") /\ lane[v].n = l
      <4>1. lane'[v] = At("collecting", lane[v], l, what)
        BY <2>4, <3>1 DEF Completing
      <4>2. l = run.n /\ run.status \in {"running", "cancelling"}
        BY <1>1, <3>1 DEF Is, CarriesTrue, InCharge
      <4>3. Ceased(run.n)'
        BY <2>1, <2>2, <4>2 DEF Ceased
      <4>4. QED
        BY <4>1, <4>2, <4>3 DEF InCharge, At
    <3>2. CASE ~(Is(v, "running") /\ lane[v].n = l)
      BY <2>4, <3>2 DEF Completing
    <3>3. QED
      BY <3>1, <3>2
  <2>5. QED
    BY <1>1, <2>1, <2>3, <2>4, TheHostGoesOn
<1>3. CASE Disconnect
  <2>1. /\ run' = run /\ proc' = proc /\ owed' = owed /\ lane' = lane /\ online' \in BOOLEAN
    BY <1>3 DEF Disconnect
  <2>2. HostTyped' /\ \A i \in Tries : (proc'[i] = "none" <=> proc[i] = "none") /\ (Ceased(i) => Ceased(i)')
    BY <2>1 DEF PInv, HostTyped, Ceased
  <2>3. QED
    BY <1>1, <2>1, <2>2, TheHostGoesOn
<1>4. CASE Reconnect
  <2>1. /\ run' = run /\ online' = TRUE /\ owed' = {}
        /\ proc' = [l \in Tries |-> IF l \in owed THEN Told(l)[l] ELSE proc[l]]
    BY <1>4 DEF Reconnect
  <2>2. proc' = [l \in Tries |-> proc'[l]] /\ \A l \in Tries : proc'[l] = proc[l] \/ proc'[l] = Told(l)[l]
    BY <2>1
  <2>3. HostTyped' /\ \A i \in Tries : (proc'[i] = "none" <=> proc[i] = "none") /\ (Ceased(i) => Ceased(i)')
    <3>1. online' \in BOOLEAN /\ owed' \subseteq Tries
      BY <2>1
    <3>2. QED
      BY <2>2, <3>1, Telling
  <2>4. \A v \in Lanes : lane[v].pc = "running" => CarriesTrue(At("collecting", lane[v], lane[v].n, "final"))
    BY <1>1 DEF CarriesTrue, At, InCharge, Outcome
  <2>5. \A v \in Lanes : lane'[v] = lane[v] \/ CarriesTrue(lane'[v])
    BY <1>4, <2>4 DEF Reconnect, Is
  <2>6. QED
    BY <1>1, <2>1, <2>3, <2>5, TheHostGoesOn
<1>5. QED
  BY <1>2, <1>3, <1>4

-----------------------------------------------------------------------------
(* Whoever does not execute the Run ends it only while no lock is held.      *)
LEMMA OthersChangeTheRun ==
    ASSUME IInv, HInv, PInv, proc' = proc, online' = online, owed' \subseteq Tries,
           PlainMove(run, run'),
           Ended(run') /\ run'.cause \in Retryable =>
               run'.n = run.n /\ (Ceased(run.n) \/ (Ended(run) /\ run.cause = run'.cause)),
           \A v \in Lanes : lane'[v] = lane[v] \/ lane'[v].pc \notin ExecutingPc,
           \/ run' = run \/ run' = Cancelling(run) \/ ~Locked
           \/ run.status \notin {"running", "cancelling"}
    PROVE  PInv'
<1>1. HostTyped'
  BY DEF PInv, HostTyped
<1>2. \A v \in Lanes : lane[v].pc \in ExecutingPc => Locked
  BY LocksAndLanes
<1>3. QED
  BY <1>1, <1>2, TheRunGoesOn

(* The ends that others write are none the Supervisor retries.               *)
LEMMA EndsOfOthers ==
    ASSUME IInv, PInv
    PROVE  /\ \A status : \A cause : cause \notin Retryable =>
                /\ PlainMove(run, Published(run, status, cause))
                /\ Published(run, status, cause).cause \notin Retryable
           /\ PlainMove(run, Cancelling(run)) /\ ~Ended(Cancelling(run))
           /\ \A n : Ended(run) /\ n = run.n => /\ PlainMove(run, WithFinal(run, n))
                                                /\ WithFinal(run, n).n = run.n
                                                /\ WithFinal(run, n).cause = run.cause
           /\ Resumable(run) => PlainMove(run, Resumed(run)) /\ ~Ended(Resumed(run))
           /\ Retried(run) => PlainMove(run, Requeued(run)) /\ ~Ended(Requeued(run))
           /\ PlainMove(run, OnHold(run)) /\ ~Ended(OnHold(run))
<1>1. run \in Run
  BY TheLatestLaunch
<1>2. \A status : \A cause : cause \notin Retryable =>
        PlainMove(run, Published(run, status, cause)) /\ Published(run, status, cause).cause \notin Retryable
  BY <1>1, WhatAnEndSays DEF PlainMove, Published
<1>3. PlainMove(run, Cancelling(run)) /\ ~Ended(Cancelling(run))
  BY <1>1, WhatAnEndSays DEF PlainMove, Cancelling, Ended, EndedStatus
<1>4. \A n : Ended(run) /\ n = run.n => /\ PlainMove(run, WithFinal(run, n))
                                        /\ WithFinal(run, n).n = run.n
                                        /\ WithFinal(run, n).cause = run.cause
  BY <1>1 DEF PlainMove, WithFinal, Run
<1>5. Resumed(run).status = "queued" /\ Requeued(run).status = "queued" /\ OnHold(run).status = "waiting_for_review"
  BY <1>1 DEF Resumed, Requeued, OnHold, Run
<1>6. QED
  BY <1>2, <1>3, <1>4, <1>5 DEF PlainMove, Ended, EndedStatus

LEMMA FinishingCarriesTrue ==
    ASSUME IInv, HInv, PInv, NEW w \in Lanes, Exhaust(w) \/ Finalize(w) \/ Supervise(w)
    PROVE  PInv'
<1>1. proc' = proc /\ online' = online /\ owed' \subseteq Tries
  BY DEF Exhaust, Finalize, Supervise, host, PInv, HostTyped
<1>2. \A v \in Lanes : lane'[v] = lane[v] \/ lane'[v].pc \notin ExecutingPc
  <2>1. \E pc, n, what : pc \notin ExecutingPc /\ Move(w, At(pc, lane[w], n, what))
    <3>1. Finalize(w) \/ Supervise(w) => lane[w].what \in {"completing", "failing"}
      BY DEF Finalize, Supervise, Is, IInv, SoundLane
    <3>2. QED
      BY <3>1 DEF Exhaust, Finalize, Supervise, Leave, ExecutingPc
  <2>2. QED
    BY <2>1 DEF IInv, Move, At
<1>3. CASE run' = run
  BY <1>1, <1>2, <1>3, OthersChangeTheRun DEF PlainMove, PInv, RetriedAreGone
<1>4. CASE Exhaust(w) /\ run' # run
  <2>1. run' = Published(run, "orphaned", "exhausted") /\ ~Locked
    BY <1>4 DEF Exhaust, Publishable
  <2>2. "exhausted" \notin Retryable
    BY DEF Retryable
  <2>3. QED
    BY <1>1, <1>2, <2>1, <2>2, EndsOfOthers, OthersChangeTheRun
<1>5. CASE Finalize(w) /\ run' # run
  <2>1. run' = WithFinal(run, run.n) /\ Ended(run)
    BY <1>5 DEF Finalize
  <2>2. QED
    BY <1>1, <1>2, <2>1, EndsOfOthers, OthersChangeTheRun DEF Ended, EndedStatus
<1>6. CASE Supervise(w) /\ run' # run
  <2>1. /\ run.status \in {"failed", "orphaned"}
        /\ (Retried(run) /\ run' = Requeued(run)) \/ run' = OnHold(run)
    BY <1>6 DEF Supervise, Decide, Supervisable
  <2>2. QED
    BY <1>1, <1>2, <2>1, EndsOfOthers, OthersChangeTheRun
<1>7. QED
  BY <1>3, <1>4, <1>5, <1>6

LEMMA PersonsCarryTrue ==
    ASSUME IInv, HInv, PInv, Person
    PROVE  PInv'
<1>1. "cancelled" \notin Retryable
  BY DEF Retryable
<1>2. CASE RequestCancel \/ CancelPublishes \/ CancelFinalizes \/ Resume \/ Abandon \/ \E j \in Jobs : CancelJob(j)
  <2>1. proc' = proc /\ online' = online /\ owed' \subseteq Tries /\ lane' = lane
    BY <1>2 DEF RequestCancel, CancelPublishes, CancelFinalizes, Resume, Abandon, CancelJob, host, PInv, HostTyped
  <2>2. \/ run' = run
        \/ run' = Cancelling(run)
        \/ run' = Published(run, "cancelled", "cancelled") /\ ~Locked
        \/ run' = WithFinal(run, run.n) /\ Ended(run)
        \/ run' = Resumed(run) /\ Resumable(run)
    BY <1>2 DEF RequestCancel, CancelPublishes, CancelFinalizes, Resume, Abandon, CancelJob,
                EndBehindJob, EndableByJob, Publishable
  <2>3. CASE run' = run
    BY <2>1, <2>3, OthersChangeTheRun DEF PlainMove, PInv, RetriedAreGone
  <2>4. CASE run' = Cancelling(run)
    BY <2>1, <2>4, EndsOfOthers, OthersChangeTheRun
  <2>5. CASE run' = Published(run, "cancelled", "cancelled") /\ ~Locked
    BY <1>1, <2>1, <2>5, EndsOfOthers, OthersChangeTheRun
  <2>6. CASE run' = WithFinal(run, run.n) /\ Ended(run)
    BY <2>1, <2>6, EndsOfOthers, OthersChangeTheRun DEF Ended, EndedStatus
  <2>7. CASE run' = Resumed(run) /\ Resumable(run)
    BY <2>1, <2>7, EndsOfOthers, OthersChangeTheRun DEF Resumable
  <2>8. QED
    BY <2>2, <2>3, <2>4, <2>5, <2>6, <2>7
<1>3. CASE CancelAborts
  <2>1. Abort /\ lane' = Aborted /\ run' = run
    BY <1>3 DEF CancelAborts
  <2>2. QED
    BY <2>1, TheLatestLaunch, LanesAreTold, AbortsTellTheHost, TheHostGoesOn
<1>4. CASE CancelLooks \/ CancelConfirmed \/ CancelUnconfirmed
  <2>1. /\ run' = run /\ online' = online /\ owed' = owed
        /\ \/ proc' = proc /\ lane' = lane
           \/ \E l : proc' = Told(l) /\ lane' = AnsweredLanes(l)
    BY <1>4 DEF CancelLooks, CancelConfirmed, CancelUnconfirmed, host
  <2>2. online' \in BOOLEAN /\ owed' \subseteq Tries
    BY <2>1 DEF PInv, HostTyped
  <2>3. CASE proc' = proc /\ lane' = lane
    <3>1. HostTyped' /\ \A i \in Tries : (proc'[i] = "none" <=> proc[i] = "none") /\ (Ceased(i) => Ceased(i)')
      BY <2>2, <2>3 DEF PInv, HostTyped, Ceased
    <3>2. QED
      BY <2>1, <2>3, <3>1, TheLatestLaunch, TheHostGoesOn
  <2>4. ASSUME NEW l, proc' = Told(l), lane' = AnsweredLanes(l)
        PROVE  PInv'
    <3>1. /\ Told(l) = [i \in Tries |-> Told(l)[i]]
          /\ \A i \in Tries : Told(l)[i] = proc[i] \/ Told(l)[i] = Told(i)[i]
      BY DEF Told, PInv, HostTyped
    <3>2. HostTyped' /\ \A i \in Tries : (proc'[i] = "none" <=> proc[i] = "none") /\ (Ceased(i) => Ceased(i)')
      BY <2>2, <2>4, <3>1, Telling
    <3>3. QED
      BY <2>1, <2>4, <3>2, TheLatestLaunch, LanesAreTold, TheHostGoesOn
  <2>5. QED
    BY <2>1, <2>3, <2>4
<1>5. QED
  BY <1>2, <1>3, <1>4 DEF Person

LEMMA RecoveryCarriesTrue ==
    ASSUME IInv, HInv, PInv, ~Stalls, Recovery
    PROVE  PInv'
<1>1. proc' = proc /\ online' = online /\ owed' \subseteq Tries /\ lane' = lane
  BY DEF Recovery, DeleteOrphanLock, Reclaim, ReclaimThrows, EnsureJob, RecoverStale, SweepFinalizes,
         SweepSupervises, host, PInv, HostTyped
<1>2. \A v \in Lanes : lane'[v] = lane[v] \/ lane'[v].pc \notin ExecutingPc
  BY <1>1
<1>3. CASE run' = run
  BY <1>1, <1>2, <1>3, OthersChangeTheRun DEF PlainMove, PInv, RetriedAreGone
<1>4. CASE Reclaim /\ run' # run
  <2>1. run' = Published(run, "failed", "abandoned") /\ ~Locked
    BY <1>4 DEF Reclaim, EndBehindJob, EndableByJob, Publishable
  <2>2. "abandoned" \notin Retryable
    BY DEF Retryable
  <2>3. QED
    BY <1>1, <1>2, <2>1, <2>2, EndsOfOthers, OthersChangeTheRun
<1>5. CASE RecoverStale
  <2>1. run' = Recovered(run) /\ Stale(run) /\ \A v \in Lanes : ~Executing(v)
    BY <1>5 DEF RecoverStale
  <2>2. \A v \in Lanes : lane'[v].pc \notin ExecutingPc
    BY <1>1, <2>1, LocksAndLanes
  <2>3. Ceased(run.n)
    BY <2>1, TheLatestLaunch DEF Stale, Live
  <2>4. run'.n = run.n /\ PlainMove(run, run')
    BY <2>1, TheLatestLaunch, WhatAnEndSays DEF Recovered, PlainMove
  <2>5. HostTyped'
    BY <1>1 DEF PInv, HostTyped
  <2>6. QED
    BY <1>1, <2>2, <2>3, <2>4, <2>5, TheRunGoesOn
<1>6. CASE SweepFinalizes
  <2>1. run' = WithFinal(run, run.n) /\ Ended(run)
    BY <1>6 DEF SweepFinalizes, Listed, Ended, EndedStatus
  <2>2. QED
    BY <1>1, <1>2, <2>1, EndsOfOthers, OthersChangeTheRun DEF Ended, EndedStatus
<1>7. CASE SweepSupervises /\ run' # run
  <2>1. /\ run.status \in {"failed", "orphaned"}
        /\ (Retried(run) /\ run' = Requeued(run)) \/ run' = OnHold(run)
    BY <1>7 DEF SweepSupervises, Decide, Supervisable
  <2>2. QED
    BY <1>1, <1>2, <2>1, EndsOfOthers, OthersChangeTheRun
<1>8. QED
  BY <1>3, <1>4, <1>5, <1>6, <1>7
     DEF Recovery, DeleteOrphanLock, ReclaimThrows, EnsureJob

LEMMA ProcessesInitially == Init => PInv
<1> SUFFICES ASSUME Init
             PROVE  PInv
  OBVIOUS
<1>1. run = NewRun /\ run.status = "queued" /\ \A i \in Tries : run.att[i].launch = NoLaunch
  BY DEF Init, NewRun, NewAttempt, NoAttempt
<1>2. \A i \in Tries : proc[i] = "none"
  BY DEF Init
<1>3. HostTyped
  BY DEF Init, HostTyped
<1>4. \A w \in Lanes : CarriesTrue(lane[w])
  BY OnlyExecutorsCarry DEF Init, Idle, ExecutingPc
<1>5. QED
  BY <1>1, <1>2, <1>3, <1>4 DEF PInv, LaunchesAreRecorded, RetriedAreGone, Ended, EndedStatus

LEMMA ProcessesInductively == ~Stalls /\ IInv /\ HInv /\ PInv /\ [Next]_vars => PInv'
<1> SUFFICES ASSUME ~Stalls, IInv, HInv, PInv, [Next]_vars
             PROVE  PInv'
  OBVIOUS
<1>1. ASSUME run' = run, proc' = proc, lane' = lane, online' = online, owed' = owed
      PROVE  PInv'
  BY <1>1 DEF PInv, HostTyped, LaunchesAreRecorded, RetriedAreGone, CarriesTrue, InCharge, Ceased, Ended
<1>2. ASSUME NEW w \in Lanes, Work(w) \/ \E j \in Jobs : Claim(w, j)
      PROVE  PInv'
  BY <1>2, QueueStepsCarryTrue, WorkStepsCarryTrue, PublishingCarriesTrue, BindingCarriesTrue,
     LaunchingCarriesTrue, StoppingCarriesTrue, FinishingCarriesTrue DEF Work, Execute
<1>3. CASE \E j \in Jobs : ComesDue(j) \/ LeaseExpires(j)
  BY <1>1, <1>3 DEF ComesDue, LeaseExpires, host
<1>4. CASE ServerCrash
  <2>1. run' = run /\ proc' = proc /\ online' = online /\ owed' = {} /\ \A v \in Lanes : lane'[v] = Idle
    BY <1>4 DEF ServerCrash
  <2>2. HostTyped' /\ \A i \in Tries : (proc'[i] = "none" <=> proc[i] = "none") /\ (Ceased(i) => Ceased(i)')
    BY <2>1 DEF PInv, HostTyped, Ceased
  <2>3. CarriesTrue(Idle)
    BY DEF CarriesTrue, Idle
  <2>4. QED
    BY <2>1, <2>2, <2>3, TheLatestLaunch, TheHostGoesOn
<1>5. CASE UNCHANGED vars
  BY <1>1, <1>5 DEF vars
<1>6. QED
  BY <1>2, <1>3, <1>4, <1>5, TheHostCarriesTrue, PersonsCarryTrue, RecoveryCarriesTrue DEF Next

-----------------------------------------------------------------------------
(* A process starts only where a lane launches it that may; one that ended   *)
(* is not told to stop.                                                      *)
LEMMA OnlyLaunchesStart ==
    ASSUME PInv, Next, NEW l \in Tries
    PROVE  \/ /\ proc'[l] = "running" => proc[l] = "running"
              /\ Ceased(l) => Ceased(l)'
           \/ \E w \in Lanes : lane[w].n = l /\ MayLaunch(lane[w])
<1>1. proc[l] \in {"none", "running", "dying", "exited"}
  BY DEF PInv, HostTyped
<1> DEFINE Quiet == /\ proc'[l] = "running" => proc[l] = "running"
                    /\ Ceased(l) => Ceased(l)'
<1>2. proc' = proc => Quiet
  BY DEF Ceased
<1>3. \A i : /\ Told(i)[l] = "running" => proc[l] = "running"
             /\ Told(i)[l] = "dying" => proc[l] \in {"running", "dying"}
  BY <1>1 DEF Told, PInv, HostTyped
<1>4. (proc'[l] = proc[l] \/ \E i : proc'[l] = Told(i)[l]) => Quiet
  BY <1>1, <1>3 DEF Ceased
<1>5. Abort => Quiet
  BY <1>4 DEF Abort
<1>6. ASSUME NEW w \in Lanes, Launch(w)
      PROVE  Quiet \/ (lane[w].n = l /\ MayLaunch(lane[w]))
  <2>1. CASE lane[w].what = "aborted" \/ ~online
    BY <1>2, <1>6, <2>1 DEF Launch
  <2>2. CASE ~(lane[w].what = "aborted" \/ ~online)
    <3>1. proc' \in Arrivals(lane[w].n) /\ lane[w].pc = "bound"
      BY <1>6, <2>2 DEF Launch, Is
    <3>2. MayLaunch(lane[w])
      BY <2>2, <3>1 DEF MayLaunch, PInv, CarriesTrue
    <3>3. lane[w].n # l => proc'[l] = proc[l]
      BY <3>1 DEF Arrivals, PInv, HostTyped
    <3>4. QED
      BY <1>4, <3>2, <3>3
  <2>3. QED
    BY <2>1, <2>2
<1>7. ASSUME NEW w \in Lanes, Work(w), ~Launch(w)
      PROVE  Quiet
  BY <1>2, <1>4, <1>5, <1>7
     DEF Work, Execute, Start, Complete, Defer, Fail, ReadRun, NotYetItsTurn, ReadThrows, TakeLock,
         Refuse, Admit, PrepareFails, CheckCancelled, OpenInvocation, AdapterFails, Bind, GiveUp,
         StopAborts, StopLooks, StopConfirmed, StopUnconfirmed, Collect, Publish, PublishThrows,
         Exhaust, Finalize, FinalizeFails, Supervise, host
<1>8. Person => Quiet
  BY <1>2, <1>4, <1>5
     DEF Person, RequestCancel, CancelAborts, CancelLooks, CancelConfirmed, CancelUnconfirmed,
         CancelPublishes, CancelFinalizes, Resume, Abandon, CancelJob, host
<1>9. Recovery => Quiet
  BY <1>2 DEF Recovery, DeleteOrphanLock, Reclaim, ReclaimThrows, EnsureJob, RecoverStale,
              SweepFinalizes, SweepSupervises, host
<1>10. ASSUME NEW i \in Tries, ProcExits(i)
       PROVE  Quiet
  <2>1. proc'[l] \in {proc[l], "exited"}
    BY <1>10 DEF ProcExits, PInv, HostTyped
  <2>2. QED
    BY <2>1 DEF Ceased
<1>11. Disconnect \/ Reconnect \/ ServerCrash => Quiet
  BY <1>2, <1>4 DEF Disconnect, Reconnect, ServerCrash
<1>12. (\E w \in Lanes : \E j \in Jobs : Claim(w, j)) \/ (\E j \in Jobs : ComesDue(j) \/ LeaseExpires(j)) => Quiet
  BY <1>2 DEF Claim, ComesDue, LeaseExpires, host
<1>13. QED
  BY <1>6, <1>7, <1>8, <1>9, <1>10, <1>11, <1>12 DEF Next

-----------------------------------------------------------------------------
(* A Run that a person cancels ends, and the Supervisor does not retry it,   *)
(* whoever writes its end: a cancellation is not overwritten by its owner,   *)
(* and the ends that others write are none that is retried.                  *)
LEMMA UnretriedStays ==
    ASSUME NEW r \in Run, Unretried(r), NEW s,
           \/ s = r
           \/ \E status \in EndedStatus : \E cause : cause \notin Retryable /\ s = Published(r, status, cause)
           \/ \E l : s = Bound(r, l)
           \/ \E n : s = WithFinal(r, n)
           \/ s = OnHold(r)
    PROVE  Unretried(s) /\ s.n = r.n /\ (s.status = "cancelling" => r.status = "cancelling")
<1>1. CASE \E status \in EndedStatus : \E cause : cause \notin Retryable /\ s = Published(r, status, cause)
  BY <1>1, WhatAnEndSays DEF Published, Unretried, Ended, EndedStatus
<1>2. \A l : /\ Bound(r, l).status = r.status /\ Bound(r, l).cause = r.cause /\ Bound(r, l).n = r.n
             /\ WithFinal(r, l).status = r.status /\ WithFinal(r, l).cause = r.cause
             /\ WithFinal(r, l).n = r.n
  BY DEF Bound, WithFinal, Run
<1>3. OnHold(r).status = "waiting_for_review" /\ OnHold(r).n = r.n
  BY DEF OnHold, Run
<1>4. QED
  BY <1>1, <1>2, <1>3 DEF Unretried, Ended

LEMMA OwnersDoNotRetry ==
    ASSUME IInv, PInv, Unretried(run), NEW w \in Lanes,
           NEW what \in Outcome \cup {"orphaned", "cancelled"}, NEW expected,
           PublishOwned(w, what, expected),
           what \in Retryable => lane[w].pc = "publishing" /\ lane[w].what = what /\ expected = Expected(lane[w])
    PROVE  \/ run' = run
           \/ \E status \in EndedStatus : \E cause : cause \notin Retryable /\ run' = Published(run, status, cause)
<1>1. CASE run' = run \/ run' = Published(run, "cancelled", "cancelled")
  BY <1>1 DEF EndedStatus, Retryable
<1>2. CASE /\ run' = Published(run, StatusOf(what), CauseOf(what))
           /\ Publishable(run, StatusOf(what), TRUE, Locked, expected)
  <2>1. CASE run.status = "cancelling"
    <3>1. what = "cancelled"
      BY <1>2, <2>1 DEF Publishable, StatusOf, Outcome
    <3>2. QED
      BY <1>1, <1>2, <3>1 DEF StatusOf, CauseOf
  <2>2. CASE run.status # "cancelling"
    <3>1. run.status = "waiting_for_review"
      BY <1>2, <2>2 DEF Publishable, Unretried
    <3>2. what # "transient"
      BY <3>1 DEF Retryable, PInv, CarriesTrue, InCharge
    <3>3. what # "orphaned"
      <4>1. what = "orphaned" => lane[w].pc = "publishing" /\ expected = lane[w].n /\ lane[w].what = "orphaned"
        BY DEF Retryable, Expected
      <4>2. what = "orphaned" => expected \in Tries /\ expected # 0
        BY <4>1, TriesAreNaturals DEF PInv, CarriesTrue
      <4>3. QED
        BY <1>2, <3>1, <4>2 DEF Publishable
    <3>4. CauseOf(what) \notin Retryable /\ StatusOf(what) \in EndedStatus
      BY <3>2, <3>3 DEF CauseOf, StatusOf, Retryable, Outcome, EndedStatus
    <3>5. QED
      BY <1>2, <3>4
  <2>3. QED
    BY <2>1, <2>2
<1>3. QED
  BY <1>1, <1>2 DEF PublishOwned

LEMMA CancelledRunsAreNotRetried ==
    ASSUME IInv, PInv, ~Hasty, Next, asker # Rest, Unretried(run)
    PROVE  Unretried(run') /\ run'.n = run.n /\ (run'.status = "cancelling" => run.status = "cancelling")
<1> DEFINE Ends == \E status \in EndedStatus : \E cause : cause \notin Retryable /\ run' = Published(run, status, cause)
           Plain == run' = run \/ Ends \/ (\E l : run' = Bound(run, l)) \/ (\E n : run' = WithFinal(run, n))
                      \/ run' = OnHold(run)
<1>1. run \in Run
  BY TheLatestLaunch
<1>2. ~Admissible(run) /\ ~(Retried(run) /\ run.status \in {"failed", "orphaned"})
  BY DEF Unretried, Admissible, Retried, Ended, EndedStatus
<1>3. \A n : Decide(n) => Plain
  BY <1>2 DEF Decide, Supervisable
<1>4. \A status \in EndedStatus : \A cause : cause \notin Retryable /\ EndBehindJob(status, cause) => Plain
  BY DEF EndBehindJob
<1>5. ASSUME NEW w \in Lanes, Admit(w) \/ CheckCancelled(w) \/ Publish(w) \/ PublishThrows(w)
      PROVE  Plain
  <2>1. CASE Admit(w) \/ CheckCancelled(w)
    <3>1. PublishOwned(w, "cancelled", 0) \/ run' = run
      BY <1>2, <2>1 DEF Admit, CheckCancelled
    <3>2. QED
      BY <3>1, OwnersDoNotRetry DEF Retryable
  <2>2. CASE Publish(w) \/ PublishThrows(w)
    <3>1. lane[w].pc = "publishing" /\ lane[w].what \in Outcome \cup {"orphaned"}
      BY <2>2 DEF Publish, PublishThrows, Is, IInv, SoundLane
    <3>2. PublishOwned(w, lane[w].what, Expected(lane[w])) \/ run' = run
      BY <2>2 DEF Publish, PublishThrows
    <3>3. QED
      BY <3>1, <3>2, OwnersDoNotRetry
  <2>3. QED
    BY <1>5, <2>1, <2>2
<1>6. ASSUME NEW w \in Lanes, Bind(w) \/ Exhaust(w) \/ Finalize(w) \/ Supervise(w)
      PROVE  Plain
  <2>1. CASE Bind(w)
    BY <2>1 DEF Bind
  <2>2. CASE Exhaust(w)
    BY <2>2 DEF Exhaust, Retryable, EndedStatus
  <2>3. CASE Finalize(w) \/ Supervise(w)
    BY <1>3, <2>3 DEF Finalize, Supervise
  <2>4. QED
    BY <1>6, <2>1, <2>2, <2>3
<1>7. ASSUME NEW w \in Lanes, Work(w)
      PROVE  Plain
  BY <1>5, <1>6, <1>7
     DEF Work, Execute, Start, Complete, Defer, Fail, ReadRun, NotYetItsTurn, ReadThrows, TakeLock,
         Refuse, PrepareFails, OpenInvocation, AdapterFails, Launch, GiveUp,
         StopAborts, StopLooks, StopConfirmed, StopUnconfirmed, Collect, FinalizeFails
<1>8. CASE Person
  <2>1. ~RequestCancel /\ ~Resume
    BY DEF RequestCancel, Resume
  <2>2. CancelPublishes \/ Abandon \/ CancelFinalizes => Plain
    BY DEF CancelPublishes, Abandon, CancelFinalizes, Retryable, EndedStatus
  <2>3. (\E j \in Jobs : CancelJob(j)) => Plain
    BY <1>4 DEF CancelJob, Retryable, EndedStatus
  <2>4. CancelAborts \/ CancelLooks \/ CancelConfirmed \/ CancelUnconfirmed => Plain
    BY DEF CancelAborts, CancelLooks, CancelConfirmed, CancelUnconfirmed
  <2>5. Plain
    BY <1>8, <2>1, <2>2, <2>3, <2>4 DEF Person
  <2>6. QED
    BY <1>1, <2>5, UnretriedStays
<1>9. CASE Recovery /\ ~RecoverStale
  <2>1. Reclaim => Plain
    BY <1>4 DEF Reclaim, Retryable, EndedStatus
  <2>2. SweepFinalizes \/ SweepSupervises => Plain
    BY <1>3 DEF SweepFinalizes, SweepSupervises
  <2>3. DeleteOrphanLock \/ ReclaimThrows \/ EnsureJob => Plain
    BY DEF DeleteOrphanLock, ReclaimThrows, EnsureJob
  <2>4. Plain
    BY <1>9, <2>1, <2>2, <2>3 DEF Recovery
  <2>5. QED
    BY <1>1, <2>4, UnretriedStays
<1>10. CASE RecoverStale
  <2>1. run' = Published(run, "cancelled", "cancelled")
    BY <1>10 DEF RecoverStale, Recovered, Stale, Published, Unretried, Ended, EndedStatus
  <2>2. Ends
    BY <2>1 DEF EndedStatus, Retryable
  <2>3. QED
    BY <1>1, <2>2, UnretriedStays
<1>11. CASE \/ \E w \in Lanes : \E j \in Jobs : Claim(w, j)
            \/ \E j \in Jobs : ComesDue(j) \/ LeaseExpires(j)
            \/ \E l \in Tries : ProcExits(l)
            \/ Disconnect \/ Reconnect \/ ServerCrash
  <2>1. run' = run
    BY <1>11 DEF Claim, ComesDue, LeaseExpires, ProcExits, Disconnect, Reconnect, ServerCrash
  <2>2. QED
    BY <1>1, <2>1, UnretriedStays
<1>12. CASE \E w \in Lanes : Work(w)
  BY <1>1, <1>7, <1>12, UnretriedStays
<1>13. QED
  BY <1>8, <1>9, <1>10, <1>11, <1>12 DEF Next

(* A lane gets to its launch by binding it, and an abort closes the way.     *)
LEMMA OnlyBindingOpens ==
    ASSUME IInv, Next, NEW v \in Lanes, MayLaunch(lane[v])'
    PROVE  Bindable(run) \/ (MayLaunch(lane[v]) /\ ~CancelAborts)
<1> DEFINE Same == lane'[v] = lane[v] \/ ~MayLaunch(lane[v])'
<1>1. lane' = lane => Same
  OBVIOUS
<1>2. ASSUME NEW w \in Lanes, NEW m, Move(w, m), ~MayLaunch(m)
      PROVE  Same
  BY <1>2 DEF IInv, Move
<1>3. /\ ~MayLaunch(Idle)
      /\ \A pc : \A l, n, what : pc # "bound" => ~MayLaunch(At(pc, l, n, what)) /\ ~MayLaunch(Leave(pc, l))
                                                  /\ ~MayLaunch(Goto(pc, l))
      /\ \A pc : \A l, n : ~MayLaunch(At(pc, l, n, "aborted"))
      /\ \A l : ~MayLaunch(Thrown(l))
  BY DEF MayLaunch, Idle, At, Leave, Goto, Thrown
<1>4. ~MayLaunch(Aborted[v])
  BY <1>3 DEF Aborted, MayLaunch, Is, Works, Idle
<1>5. \A l, what : Completing(l, what)[v] = lane[v] \/ ~MayLaunch(Completing(l, what)[v])
  BY <1>3 DEF Completing
<1>6. \A l : AnsweredLanes(l)[v] = lane[v] \/ ~MayLaunch(AnsweredLanes(l)[v])
  BY <1>5 DEF AnsweredLanes
<1>7. ASSUME NEW w \in Lanes, Bind(w)
      PROVE  Same \/ Bindable(run)
  BY <1>2, <1>3, <1>7 DEF Bind
<1>8. ASSUME NEW w \in Lanes, Launch(w)
      PROVE  Same
  <2>1. Dispatched(w)[v] = lane[v] \/ ~MayLaunch(Dispatched(w)[v])
    BY <1>3 DEF Dispatched
  <2>2. QED
    BY <1>2, <1>3, <1>8, <2>1 DEF Launch
<1>9. ASSUME NEW w \in Lanes, StopAborts(w) \/ StopLooks(w)
      PROVE  Same
  <2>1. CASE StopAborts(w)
    BY <1>3, <1>4, <2>1 DEF StopAborts, Aborted
  <2>2. CASE StopLooks(w)
    <3>1. PICK m : /\ ~MayLaunch(m)
                   /\ Move(w, m) \/ lane' = [AnsweredLanes(Latest(run).launch) EXCEPT ![w] = m]
      <4> DEFINE l == lane[w]
                 confirmed == At("publishing", l, run.n, "orphaned")
                 deferred == Leave("deferring", l)
                 asks == At("asking", l, run.n, "none")
      <4>1. ~MayLaunch(confirmed) /\ ~MayLaunch(deferred) /\ ~MayLaunch(asks)
        BY <1>3
      <4>2. \/ Move(w, confirmed) \/ Move(w, deferred)
            \/ lane' = [AnsweredLanes(Latest(run).launch) EXCEPT ![w] = asks]
            \/ lane' = [AnsweredLanes(Latest(run).launch) EXCEPT ![w] = confirmed]
        BY <2>2 DEF StopLooks
      <4>3. QED
        BY <4>1, <4>2
    <3>2. lane'[v] \in {m, AnsweredLanes(Latest(run).launch)[v]} \/ Same
      <4>1. CASE Move(w, m)
        BY <1>2, <3>1, <4>1
      <4>2. CASE lane' = [AnsweredLanes(Latest(run).launch) EXCEPT ![w] = m]
        BY <4>2 DEF AnsweredLanes, Completing, IInv
      <4>3. QED
        BY <3>1, <4>1, <4>2
    <3>3. QED
      BY <1>6, <3>1, <3>2
  <2>3. QED
    BY <1>9, <2>1, <2>2
<1>10. ASSUME NEW w \in Lanes, Finalize(w) \/ Supervise(w)
       PROVE  Same
  <2>1. lane[w].what \in {"completing", "failing"}
    BY <1>10 DEF Finalize, Supervise, Is, IInv, SoundLane
  <2>2. QED
    BY <1>2, <1>3, <1>10, <2>1 DEF Finalize, Supervise
<1>11. ASSUME NEW w \in Lanes, Start(w) \/ Complete(w) \/ Defer(w) \/ Fail(w)
       PROVE  Same
  BY <1>2, <1>3, <1>11 DEF Start, Complete, Defer, Fail
<1>12. ASSUME NEW w \in Lanes,
              \/ ReadRun(w) \/ NotYetItsTurn(w) \/ ReadThrows(w) \/ TakeLock(w) \/ Refuse(w)
              \/ PrepareFails(w) \/ OpenInvocation(w) \/ AdapterFails(w) \/ GiveUp(w)
       PROVE  Same
  BY <1>2, <1>3, <1>12 DEF ReadRun, NotYetItsTurn, ReadThrows, TakeLock, Refuse, PrepareFails,
                           OpenInvocation, AdapterFails, GiveUp
<1>13. ASSUME NEW w \in Lanes,
              \/ Admit(w) \/ CheckCancelled(w) \/ StopConfirmed(w) \/ StopUnconfirmed(w) \/ Collect(w)
              \/ Publish(w) \/ PublishThrows(w) \/ Exhaust(w) \/ FinalizeFails(w)
       PROVE  Same
  BY <1>2, <1>3, <1>13 DEF Admit, CheckCancelled, StopConfirmed, StopUnconfirmed, Collect, Publish,
                           PublishThrows, Exhaust, FinalizeFails
<1>14. ASSUME NEW w \in Lanes, Work(w)
       PROVE  Same \/ Bindable(run)
  BY <1>7, <1>8, <1>9, <1>10, <1>11, <1>12, <1>13, <1>14 DEF Work, Execute
<1>15. ASSUME NEW w \in Lanes, NEW j \in Jobs, Claim(w, j)
       PROVE  Same
  <2>1. \E m : Move(w, m) /\ m.pc = "claimed"
    BY <1>15 DEF Claim
  <2>2. QED
    BY <1>2, <2>1 DEF MayLaunch
<1>16. Person => Same
  BY <1>1, <1>4, <1>6
     DEF Person, RequestCancel, CancelAborts, CancelLooks, CancelConfirmed, CancelUnconfirmed,
         CancelPublishes, CancelFinalizes, Resume, Abandon, CancelJob
<1>17. Recovery => Same
  BY DEF Recovery, DeleteOrphanLock, Reclaim, ReclaimThrows, EnsureJob, RecoverStale,
         SweepFinalizes, SweepSupervises
<1>18. (\E j \in Jobs : ComesDue(j) \/ LeaseExpires(j)) => Same
  BY DEF ComesDue, LeaseExpires
<1>19. (\E l \in Tries : ProcExits(l)) \/ Disconnect \/ Reconnect \/ ServerCrash => Same
  <2>1. (\E l \in Tries : ProcExits(l)) \/ Disconnect => Same
    BY <1>5 DEF ProcExits, Disconnect
  <2>2. Reconnect \/ ServerCrash => Same
    BY <1>3 DEF Reconnect, ServerCrash
  <2>3. QED
    BY <2>1, <2>2
<1>20. Same \/ Bindable(run)
  BY <1>14, <1>15, <1>16, <1>17, <1>18, <1>19 DEF Next
<1>21. ~CancelAborts
  BY <1>4 DEF CancelAborts
<1>22. QED
  BY <1>20, <1>21

(* Where cancelRun goes from where it is.                                    *)
LEMMA CancelRunGoesOn ==
    ASSUME Next
    PROVE  \/ asker' = asker \/ asker'.pc \in {"rest", "finalizing"}
           \/ asker = Rest /\ run' = Cancelling(run) /\ asker'.pc = "aborting"
           \/ CancelAborts \/ CancelLooks \/ CancelConfirmed
<1>1. (\E w \in Lanes : Work(w) \/ \E j \in Jobs : Claim(w, j)) => asker' = asker
  BY ZenonT(30) DEF Work, Execute, Claim, Start, Complete, Defer, Fail, ReadRun, NotYetItsTurn, ReadThrows,
         TakeLock, Refuse, Admit, PrepareFails, CheckCancelled, OpenInvocation, AdapterFails, Bind,
         Launch, GiveUp, StopAborts, StopLooks, StopConfirmed, StopUnconfirmed, Collect, Publish,
         PublishThrows, Exhaust, Finalize, FinalizeFails, Supervise
<1>2. Recovery => asker' = asker
  BY DEF Recovery, DeleteOrphanLock, Reclaim, ReclaimThrows, EnsureJob, RecoverStale, SweepFinalizes,
         SweepSupervises
<1>3. CASE Person
  <2>1. RequestCancel => \/ asker = Rest /\ run' = Cancelling(run) /\ asker'.pc = "aborting"
                         \/ asker'.pc = "finalizing"
    BY DEF RequestCancel
  <2>2. CancelUnconfirmed \/ CancelPublishes \/ CancelFinalizes => asker'.pc \in {"rest", "finalizing"}
    <3>1. CancelPublishes => asker' = [pc |-> "finalizing"] \/ asker' = Rest
      BY DEF CancelPublishes
    <3>2. QED
      BY <3>1 DEF CancelUnconfirmed, CancelFinalizes, Rest
  <2>3. Finalizes => asker' = asker \/ asker'.pc = "finalizing"
    BY DEF Finalizes
  <2>4. Resume \/ Abandon \/ (\E j \in Jobs : CancelJob(j)) => asker' = asker \/ asker'.pc = "finalizing"
    BY <2>3 DEF Resume, Abandon, CancelJob
  <2>5. QED
    BY <1>3, <2>1, <2>2, <2>4 DEF Person
<1>4. \A j \in Jobs : ComesDue(j) \/ LeaseExpires(j) => asker' = asker
  BY DEF ComesDue, LeaseExpires
<1>5. \A l \in Tries : ProcExits(l) => asker' = asker
  BY DEF ProcExits
<1>6. (Disconnect \/ Reconnect => asker' = asker) /\ (ServerCrash => asker'.pc = "rest")
  BY DEF Disconnect, Reconnect, ServerCrash, Rest
<1>7. QED
  BY <1>1, <1>2, <1>3, <1>4, <1>5, <1>6 DEF Next

LEMMA StopsInitially == Init => CInv
BY DEF Init, CInv

LEMMA StopsInductively == ~Hasty /\ IInv /\ PInv /\ CInv /\ [Next]_vars => CInv'
<1> SUFFICES ASSUME ~Hasty, IInv, PInv, CInv, [Next]_vars
             PROVE  CInv'
  OBVIOUS
<1>1. CASE UNCHANGED vars
  BY <1>1 DEF vars, CInv, Unretried, Ended, MayLaunch, Ceased
<1>2. CASE Next
  <2> DEFINE Stopping == {"aborting", "looking", "asking", "publishing"}
  <2>1. /\ run \in Run /\ run.n \in Tries /\ run.n \in Nat
        /\ Ceased(run.n) <=> ~Live(Latest(run).launch)
    BY TheLatestLaunch, TriesAreNaturals
  <2>2. asker.pc \in Stopping => asker # Rest
    BY DEF Rest
  <2>3. run'.n \in Nat /\ run'.n >= run.n
    BY <1>2, <2>1, StepsMoveTheRun, MovesKeepRunsSound, Inductively, TriesAreNaturals
       DEF IInv, Monotone, SoundRun, Run
  <2>4. asker.pc \in Stopping => /\ Unretried(run') /\ run'.n = run.n
                                 /\ run'.status = "cancelling" => run.status = "cancelling"
    BY <1>2, <2>2, CancelledRunsAreNotRetried DEF CInv
  <2>5. Unretried(run)' = Unretried(run')
    BY DEF Unretried, Ended
  <2>6. asker'.pc \in Stopping => \/ asker.pc \in Stopping
                                  \/ run' = Cancelling(run) /\ asker'.pc = "aborting"
    BY <1>2, CancelRunGoesOn DEF CancelAborts, CancelLooks, CancelConfirmed
  <2>7. asker'.pc \in Stopping => Unretried(run)'
    <3>1. Unretried(Cancelling(run))
      BY <2>1, WhatAnEndSays DEF Cancelling, Unretried
    <3>2. QED
      BY <2>4, <2>5, <2>6, <3>1
  <2>8. ASSUME asker'.pc \in {"asking", "publishing"}
        PROVE  asker'.n \in Tries /\ asker'.n <= run'.n
    <3>1. asker'.n \in Tries /\ asker'.n <= run.n
      <4>1. CASE asker' = asker
        BY <2>8, <4>1 DEF CInv
      <4>2. CASE CancelLooks
        <5>1. asker'.n = run.n
          BY <2>8, <4>2 DEF CancelLooks, Asker, Rest
        <5>2. QED
          BY <2>1, <5>1
      <4>3. CASE CancelConfirmed
        BY <4>3 DEF CancelConfirmed, CInv
      <4>4. QED
        BY <1>2, <2>8, <4>1, <4>2, <4>3, CancelRunGoesOn DEF CancelAborts
    <3>2. asker'.n \in Nat
      BY <3>1, TriesAreNaturals
    <3>3. QED
      BY <2>1, <2>3, <3>1, <3>2
  <2>9. ASSUME asker'.pc \in {"looking", "asking", "publishing"}, run'.status = "cancelling",
               NEW w \in Lanes
        PROVE  ~MayLaunch(lane[w])'
    <3>1. asker.pc \in Stopping /\ run.status = "cancelling"
      BY <2>4, <2>6, <2>9
    <3>2. ~Bindable(run)
      BY <3>1 DEF Bindable, IInv, SoundRun, Agrees
    <3>3. asker.pc = "aborting" => CancelAborts
      BY <1>2, <2>9, <3>1, CancelRunGoesOn DEF CancelLooks, CancelConfirmed
    <3>4. QED
      BY <1>2, <3>1, <3>2, <3>3, OnlyBindingOpens DEF CInv
  <2>10. ASSUME asker'.pc = "publishing", run'.status = "cancelling", asker'.n = run'.n
         PROVE  Ceased(run.n)'
    <3>1. asker.pc \in Stopping /\ run.status = "cancelling" /\ run'.n = run.n
      BY <2>4, <2>6, <2>10
    <3>2. CASE CancelLooks
      <4>1. Ceased(run.n) /\ (proc' = proc \/ proc' = Told(Latest(run).launch))
        BY <2>1, <2>10, <3>2 DEF CancelLooks, Asker, Rest, Live
      <4>2. QED
        BY <2>1, <3>1, <4>1 DEF Ceased, Told, PInv, HostTyped
    <3>3. CASE CancelConfirmed
      <4>1. asker.n = run.n /\ ~Live(run.att[asker.n].launch) /\ proc' = proc
        BY <2>10, <3>1, <3>3 DEF CancelConfirmed, host
      <4>2. QED
        BY <2>1, <3>1, <4>1 DEF Latest, Ceased
    <3>4. CASE asker' = asker
      <4>1. Ceased(run.n) /\ \A w \in Lanes : ~MayLaunch(lane[w])
        BY <2>10, <3>1, <3>4 DEF CInv
      <4>2. Ceased(run.n)'  \/ \E w \in Lanes : MayLaunch(lane[w])
        BY <1>2, <2>1, <3>1, <4>1, OnlyLaunchesStart DEF Ceased
      <4>3. QED
        BY <3>1, <4>1, <4>2 DEF Ceased
    <3>5. QED
      BY <1>2, <2>10, <3>1, <3>2, <3>3, <3>4, CancelRunGoesOn DEF CancelAborts
  <2>11. QED
    BY <2>7, <2>8, <2>9, <2>10 DEF CInv
<1>3. QED
  BY <1>1, <1>2

-----------------------------------------------------------------------------
(* The lock of a Run is sound, for any number of lanes, jobs and attempts,   *)
(* while no live lane outlasts its lease: no two lanes execute the Run at    *)
(* once, whichever jobs a retry, a resume or the recovery loop adds, and a   *)
(* lock is always found again by way of the job it was taken with, which the *)
(* worker that took it holds, dead or alive.                                 *)
THEOREM LockIsAlwaysSound ==
    ASSUME ~Stalls
    PROVE  Spec => []LockIsSound
<1>1. IInv /\ HInv /\ PInv => LockIsSound
  <2> SUFFICES ASSUME IInv, HInv, PInv
               PROVE  LockIsSound
    OBVIOUS
  <2>1. TypeOK
    BY DEF IInv, SoundRun, HInv, RowsTyped, PInv, HostTyped, TypeOK
  <2>2. OneExecutor
    BY LocksAndLanes, OnlyOneExecutes DEF OneExecutor
  <2>3. LockIsRecoverable
    <3> SUFFICES ASSUME Locked
                 PROVE  Exists(lock.job) /\ Held(jobs[lock.job]) /\ jobs[lock.job].holder = lock.by
      BY DEF LockIsRecoverable
    <3>1. lock.job \in Jobs /\ jobs[lock.job].status = "running" /\ jobs[lock.job].holder = lock.by
      BY LocksAndLanes DEF HInv, LockIsOwned
    <3>2. QED
      BY <3>1, RowsThatExist DEF HInv, Held, HeldStatus
  <2>4. QED
    BY <2>1, <2>2, <2>3 DEF LockIsSound
<1>2. Init => HInv /\ PInv
  BY LockInitially, ProcessesInitially
<1>3. IInv /\ (HInv /\ PInv) /\ [Next]_vars => (HInv /\ PInv)'
  BY LockInductively, ProcessesInductively
<1>4. QED
  BY <1>1, <1>2, <1>3, StaysSound, PTL DEF Spec

(* While no live lane outlasts its lease, a process is started only for the  *)
(* attempt that is current and open and that records its launch, and the     *)
(* Supervisor retries an attempt only when no process of it is left: the     *)
(* uploads of the host are accepted by that nonce, and attempts share a      *)
(* worktree.                                                                 *)
THEOREM ProcessesAreAlwaysTheRuns ==
    ASSUME ~Stalls
    PROVE  Spec => ProcessesAreTheRuns
<1> DEFINE Recorded == \A l \in Tries : proc[l] # "running" /\ proc'[l] = "running" =>
                           /\ run.n = l /\ ~Ended(run) /\ Latest(run).launch = l
           Finds == Ended(run) /\ run'.status = "queued" => ~Live(run.n)
<1>1. ASSUME IInv, HInv, PInv, Next
      PROVE  Recorded
  <2> SUFFICES ASSUME NEW l \in Tries, proc[l] # "running", proc'[l] = "running"
               PROVE  run.n = l /\ ~Ended(run) /\ Latest(run).launch = l
    OBVIOUS
  <2>1. PICK w \in Lanes : lane[w].n = l /\ MayLaunch(lane[w])
    BY <1>1, OnlyLaunchesStart
  <2>2. lane[w].n = run.n /\ run.status \in {"running", "cancelling"} /\ run.att[run.n].launch = run.n
    BY <1>1, <2>1 DEF MayLaunch, PInv, CarriesTrue, InCharge
  <2>3. QED
    BY <2>1, <2>2 DEF Ended, EndedStatus, Latest
<1>2. ASSUME IInv, HInv, PInv, Next
      PROVE  Finds
  <2> SUFFICES ASSUME Ended(run), run'.status = "queued"
               PROVE  ~Live(run.n)
    OBVIOUS
  <2>1. Moves(run, run') /\ run \in Run
    BY <1>2, StepsMoveTheRun, TheLatestLaunch
  <2>2. /\ run'.status # run.status /\ ~Admissible(run) /\ ~Stale(run) /\ ~Cancellable(run)
        /\ ~Resumable(run)
    BY DEF Ended, EndedStatus, Admissible, Stale, Cancellable, OpenStatus, Resumable
  <2>3. /\ \A l : Bound(run, l).status = run.status
        /\ \A n : WithFinal(run, n).status = run.status
        /\ OnHold(run).status # "queued"
    BY <2>1 DEF Bound, WithFinal, OnHold, Run
  <2>4. Retried(run)
    BY <2>1, <2>2, <2>3 DEF Moves
  <2>5. QED
    BY <1>2, <2>4 DEF Retried, PInv, RetriedAreGone, Ceased, Live
<1>3. IInv /\ HInv /\ PInv /\ [Next]_vars => [Recorded]_vars /\ [Finds]_vars
  BY <1>1, <1>2
<1>4. Init => HInv /\ PInv
  BY LockInitially, ProcessesInitially
<1>5. IInv /\ (HInv /\ PInv) /\ [Next]_vars => (HInv /\ PInv)'
  BY LockInductively, ProcessesInductively
<1>6. Spec => [][Recorded]_vars /\ [][Finds]_vars
  BY <1>3, <1>4, <1>5, StaysSound, PTL DEF Spec
<1>7. QED
  BY <1>6 DEF ProcessesAreTheRuns, LaunchIsRecorded, RetryFindsNoProcess


(* While no live lane outlasts its lease, and a person resumes a held Run    *)
(* only when its last cancellation and job are over, a stop that counts as   *)
(* confirmed is one: whoever may publish an end for the attempt it stopped,  *)
(* the lane that found it interrupted or cancelRun, finds no process of it   *)
(* and no lane that could still launch one.                                  *)
THEOREM StopsAreAlwaysConfirmed ==
    ASSUME ~Stalls, ~Hasty
    PROVE  Spec => []StopIsConfirmed
<1>1. IInv /\ HInv /\ PInv /\ CInv => StopIsConfirmed
  <2> SUFFICES ASSUME IInv, HInv, PInv, CInv
               PROVE  StopIsConfirmed
    OBVIOUS
  <2> DEFINE Stopped == /\ ~Live(Latest(run).launch)
                        /\ \A v \in Lanes : ~(Is(v, "bound") /\ lane[v].what = "open")
  <2>1. ASSUME asker.pc = "publishing", Publishable(run, "cancelled", FALSE, Locked, asker.n)
        PROVE  Stopped
    <3>1. asker.n \in Tries /\ asker.n # 0 /\ Unretried(run)
      BY <2>1, TriesAreNaturals DEF CInv
    <3>2. run.status = "cancelling" /\ asker.n = run.n
      BY <2>1, <3>1 DEF Publishable, Unretried
    <3>3. Ceased(run.n) /\ \A v \in Lanes : ~MayLaunch(lane[v])
      BY <2>1, <3>2 DEF CInv
    <3>4. QED
      BY <3>3, TheLatestLaunch DEF MayLaunch, Is
  <2>2. ASSUME NEW w \in Lanes, Is(w, "publishing"), lane[w].what = "orphaned",
               Publishable(run, "cancelled", TRUE, Locked, lane[w].n)
        PROVE  Stopped
    <3>1. lane[w].pc = "publishing" /\ lane[w].pc \in ExecutingPc
      BY <2>2 DEF Is, ExecutingPc
    <3>2. lane[w].n \in Tries /\ lane[w].n # 0
      BY <2>2, <3>1, TriesAreNaturals DEF PInv, CarriesTrue
    <3>3. lane[w].n = run.n
      BY <2>2, <3>2 DEF Publishable
    <3>4. Ceased(run.n)
      BY <2>2, <3>1, <3>3 DEF PInv, CarriesTrue
    <3>5. \A v \in Lanes : lane[v].pc # "bound"
      BY <3>1, OnlyOneExecutes DEF ExecutingPc
    <3>6. QED
      BY <3>4, <3>5, TheLatestLaunch DEF Is
  <2>3. QED
    BY <2>1, <2>2 DEF StopIsConfirmed
<1>2. Init => HInv /\ PInv /\ CInv
  BY LockInitially, ProcessesInitially, StopsInitially
<1>3. IInv /\ (HInv /\ PInv /\ CInv) /\ [Next]_vars => (HInv /\ PInv /\ CInv)'
  BY LockInductively, ProcessesInductively, StopsInductively
<1>4. QED
  BY <1>1, <1>2, <1>3, StaysSound, PTL DEF Spec
=============================================================================
