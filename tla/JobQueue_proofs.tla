-------------------------- MODULE JobQueue_proofs --------------------------
(***************************************************************************)
(* Theorems about the job queue, for any jobs, lanes and attempt budget.   *)
(* The inductive invariant is the type invariant joined with what a        *)
(* pending row and a held row must look like; exclusion of two lanes needs *)
(* one fact more, which holds only while no live lane stalls.  The last    *)
(* part shows, from the same invariant, that the queue implements          *)
(* JobPromise.                                                             *)
(***************************************************************************)
EXTENDS JobQueue, TLAPS

(* A row the queue may hold: a pending one can be claimed again, and a held  *)
(* one belongs to somebody and was claimed at least once.                    *)
SoundRow(r) ==
    /\ r \in JobRow
    /\ r.status = "pending" => r.attempts < MaxAttempts /\ r.holder = NoWorker
    /\ Held(r) => r.holder \in Workers /\ r.attempts > 0

IInv == TypeOK /\ \A j \in Jobs : Exists(j) => SoundRow(jobs[j])

-----------------------------------------------------------------------------
(* Each statement writes a sound row over a sound row it matches.            *)
LEMMA WaitingIsSound ==
    ASSUME NEW a \in Nat, a < MaxAttempts, NEW d \in BOOLEAN
    PROVE  SoundRow(Waiting(a, d))
BY MaxAttemptsAssumption DEF SoundRow, Waiting, JobRow, JobStatus, Held, HeldStatus

LEMMA NewRowIsSound == \A due \in BOOLEAN : SoundRow(NewJob(due))
BY WaitingIsSound, MaxAttemptsAssumption DEF NewJob

LEMMA RowFields ==
    ASSUME NEW r, SoundRow(r)
    PROVE  /\ r.attempts \in Nat /\ r.attempts <= MaxAttempts
           /\ r.due \in BOOLEAN
           /\ Held(r) => r.attempts > 0
BY MaxAttemptsAssumption DEF SoundRow, JobRow

LEMMA ClaimIsSound ==
    ASSUME NEW r, SoundRow(r), Claimable(r), NEW w \in Workers
    PROVE  SoundRow(Claimed(r, w))
<1>1. r.attempts + 1 \in 0 .. MaxAttempts /\ r.attempts + 1 > 0
  BY RowFields, MaxAttemptsAssumption DEF Claimable
<1>2. QED
  BY <1>1, RowFields DEF Claimed, SoundRow, JobRow, JobStatus, Held, HeldStatus

(* What the owner and the recovery loop write over a held row.               *)
LEMMA HeldWritesAreSound ==
    ASSUME NEW r, SoundRow(r), Held(r)
    PROVE  /\ SoundRow(Started(r))
           /\ SoundRow(Completed(r))
           /\ SoundRow(Failed(r))
           /\ SoundRow(Deferred(r))
           /\ SoundRow(Beaten(r))
           /\ SoundRow([r EXCEPT !.fresh = FALSE])
           /\ \A i \in BOOLEAN : SoundRow(Reclaimed(r, i))
<1>1. SoundRow(Started(r))
  BY DEF Started, SoundRow, JobRow, JobStatus, Held, HeldStatus
<1>2. SoundRow(Completed(r))
  BY DEF Completed, SoundRow, JobRow, JobStatus, Held, HeldStatus
<1>3. SoundRow(Failed(r))
  <2>1. CASE SpentBudget(r)
    BY <2>1 DEF Failed, SoundRow, JobRow, JobStatus, Held, HeldStatus
  <2>2. CASE ~SpentBudget(r)
    BY <2>2, RowFields, WaitingIsSound, MaxAttemptsAssumption DEF Failed, SpentBudget
  <2>3. QED
    BY <2>1, <2>2
<1>4. SoundRow(Deferred(r))
  <2>1. r.attempts # 0 /\ r.attempts - 1 \in Nat /\ r.attempts - 1 < MaxAttempts
    BY RowFields, MaxAttemptsAssumption
  <2>2. Deferred(r) = Waiting(r.attempts - 1, FALSE)
    BY <2>1 DEF Deferred
  <2>3. QED
    BY <2>1, <2>2, WaitingIsSound
<1>5. SoundRow(Beaten(r))
  BY DEF Beaten, SoundRow, JobRow, JobStatus, Held, HeldStatus
<1>6. SoundRow([r EXCEPT !.fresh = FALSE])
  BY DEF SoundRow, JobRow, JobStatus, Held, HeldStatus
<1>7. ASSUME NEW i \in BOOLEAN PROVE SoundRow(Reclaimed(r, i))
  <2>1. CASE ~i /\ SpentBudget(r)
    BY <2>1 DEF Reclaimed, SoundRow, JobRow, JobStatus, Held, HeldStatus
  <2>2. CASE i /\ SpentBudget(r)
    <3>1. /\ Reclaimed(r, i) = Waiting(MaxAttempts - 1, r.due)
          /\ MaxAttempts - 1 \in Nat /\ MaxAttempts - 1 < MaxAttempts
      BY <2>2, MaxAttemptsAssumption DEF Reclaimed
    <3>2. QED
      BY <3>1, RowFields, WaitingIsSound
  <2>3. CASE ~SpentBudget(r)
    <3>1. /\ Reclaimed(r, i) = Waiting(r.attempts, r.due)
          /\ r.attempts \in Nat /\ r.attempts < MaxAttempts
      BY <2>3, RowFields, MaxAttemptsAssumption DEF Reclaimed, SpentBudget
    <3>2. QED
      BY <3>1, RowFields, WaitingIsSound
  <2>4. QED
    BY <2>1, <2>2, <2>3
<1>8. QED
  BY <1>1, <1>2, <1>3, <1>4, <1>5, <1>6, <1>7

LEMMA CancelIsSound ==
    ASSUME NEW r, SoundRow(r)
    PROVE  SoundRow(Cancelled(r))
BY DEF SoundRow, Cancelled, JobRow, JobStatus, Held, HeldStatus

-----------------------------------------------------------------------------
LEMMA AbsentOrRow ==
    ASSUME TypeOK, NEW j \in Jobs
    PROVE  /\ Exists(j) => jobs[j] \in JobRow
           /\ ~Exists(j) => jobs[j] = Absent
BY DEF TypeOK, Exists, Absent, JobRow, JobStatus

(* A step that writes one sound row keeps the table sound.                   *)
LEMMA WriteIsSound ==
    ASSUME IInv, NEW j \in Jobs, NEW r, SoundRow(r), Write(j, r)
    PROVE  /\ jobs' \in [Jobs -> JobRow \cup {Absent}]
           /\ \A k \in Jobs : Exists(k)' => SoundRow(jobs[k])'
BY DEF IInv, TypeOK, Write, SoundRow, Exists, Held

LEMMA UntouchedIsSound ==
    ASSUME IInv, UNCHANGED jobs
    PROVE  /\ jobs' \in [Jobs -> JobRow \cup {Absent}]
           /\ \A k \in Jobs : Exists(k)' => SoundRow(jobs[k])'
BY DEF IInv, TypeOK, SoundRow, Exists, Held

LEMMA GotoIsTyped ==
    ASSUME TypeOK, NEW w \in Workers, NEW l \in Working \cup {Idle, Dead}, Goto(w, l)
    PROVE  lane' \in [Workers -> Working \cup {Idle, Dead}]
BY DEF TypeOK, Goto

LEMMA PhasesAreTyped ==
    ASSUME NEW p \in Phases, NEW j \in Jobs
    PROVE  At(p, j) \in Working
BY DEF Working

LEMMA InitIsSound == Init => IInv
BY AgentJobsAssumption DEF Init, IInv, TypeOK, Idle, Absent, Exists

(* What the steps of one lane keep: it writes nothing, or over a row it      *)
(* holds, and goes to another phase or lets go.                              *)
LEMMA LaneStepIsSound ==
    ASSUME IInv, NEW w \in Workers, NEW j \in Jobs, LaneStep(w, j)
    PROVE  IInv'
<1> DEFINE TableSound == /\ jobs' \in [Jobs -> JobRow \cup {Absent}]
                         /\ \A k \in Jobs : Exists(k)' => SoundRow(jobs[k])'
           LanesTyped == lane' \in [Workers -> Working \cup {Idle, Dead}]
           OwnWrite(r) == Held(jobs[j]) /\ SoundRow(r) /\ Write(j, r)
<1>t. TypeOK /\ \A k \in Jobs : Exists(k) => SoundRow(jobs[k])
  BY DEF IInv
<1>h. Held(jobs[j]) => SoundRow(jobs[j])
  BY <1>t DEF Held, HeldStatus, Exists
<1>s. \A v \in Workers : Startable(jobs[j], v) \/ HeldBy(jobs[j], v) => Held(jobs[j])
  BY DEF Startable, HeldBy, Held, HeldStatus
<1>i. UNCHANGED lane => LanesTyped
  BY <1>t DEF TypeOK
<1>g. \A p \in Phases : Goto(w, At(p, j)) => LanesTyped
  BY <1>t, GotoIsTyped, PhasesAreTyped
<1>e. Goto(w, Idle) => LanesTyped
  BY <1>t, GotoIsTyped
<1>u. UNCHANGED jobs => TableSound
  BY UntouchedIsSound
<1>w. \A r : SoundRow(r) /\ Write(j, r) => TableSound
  BY WriteIsSound
<1>d. UNCHANGED dispatched => dispatched' \subseteq AgentJobs
  BY <1>t DEF TypeOK
<1>r. Held(jobs[j]) => /\ SoundRow(Started(jobs[j])) /\ SoundRow(Completed(jobs[j]))
                       /\ SoundRow(Deferred(jobs[j])) /\ SoundRow(Failed(jobs[j]))
  BY <1>h, HeldWritesAreSound
<1>p. {"handling", "completing", "deferring", "failing"} \subseteq Phases
  BY DEF Phases
<1>q. SUFFICES TableSound /\ LanesTyped /\ dispatched' \subseteq AgentJobs
  BY DEF IInv, TypeOK
<1> HIDE DEF TableSound, LanesTyped
<1>1. CASE Start(w, j)
  BY <1>1, <1>s, <1>g, <1>e, <1>u, <1>w, <1>d, <1>r, <1>p DEF Start
<1>2. CASE StartThrows(w, j)
  BY <1>2, <1>s, <1>g, <1>u, <1>w, <1>d, <1>r, <1>p DEF StartThrows
<1>3. CASE HandlerEnds(w, j)
  BY <1>3, <1>g, <1>u, <1>d, <1>p DEF HandlerEnds
<1>4. CASE HandlerDispatches(w, j)
  BY <1>4, <1>t, <1>i, <1>u DEF HandlerDispatches, TypeOK
<1>5. CASE HandlerReconciles(w, j)
  BY <1>5, <1>t, <1>i, <1>u DEF HandlerReconciles, TypeOK
<1>6. CASE Complete(w, j)
  BY <1>6, <1>s, <1>e, <1>u, <1>w, <1>d, <1>r DEF Complete
<1>7. CASE CompleteThrows(w, j)
  BY <1>7, <1>s, <1>g, <1>u, <1>w, <1>d, <1>r, <1>p DEF CompleteThrows
<1>8. CASE Defer(w, j)
  BY <1>8, <1>s, <1>g, <1>e, <1>u, <1>w, <1>d, <1>r, <1>p DEF Defer
<1>9. CASE Fail(w, j)
  BY <1>9, <1>s, <1>e, <1>u, <1>w, <1>d, <1>r DEF Fail
<1>10. CASE SettleThrows(w, j)
  BY <1>10, <1>s, <1>e, <1>u, <1>w, <1>d, <1>r DEF SettleThrows
<1>11. QED
  BY <1>1, <1>2, <1>3, <1>4, <1>5, <1>6, <1>7, <1>8, <1>9, <1>10 DEF LaneStep

(* One statement reclaims every stuck row.                                   *)
LEMMA ReclaimIsSound ==
    ASSUME IInv, Reclaim
    PROVE  IInv'
<1>1. \A k \in Jobs : Exists(k) => SoundRow(jobs[k])
  BY DEF IInv
<1>2. \A k \in Jobs : Exists(k) /\ Stuck(jobs[k]) => SoundRow(Reclaimed(jobs[k], k \in dispatched))
  <2> SUFFICES ASSUME NEW k \in Jobs, Exists(k), Stuck(jobs[k])
               PROVE  SoundRow(Reclaimed(jobs[k], k \in dispatched))
    OBVIOUS
  <2>1. Reclaimed(jobs[k], k \in dispatched) = Reclaimed(jobs[k], TRUE)
        \/ Reclaimed(jobs[k], k \in dispatched) = Reclaimed(jobs[k], FALSE)
    BY DEF Reclaimed
  <2>2. QED
    BY <1>1, <2>1, HeldWritesAreSound DEF Stuck
<1>3. \A k \in Jobs : jobs'[k] = jobs[k] \/ SoundRow(jobs'[k])
  BY <1>2 DEF Reclaim
<1>4. jobs' \in [Jobs -> JobRow \cup {Absent}]
  <2>1. \A k \in Jobs : jobs'[k] \in JobRow \cup {Absent}
    BY <1>3 DEF IInv, TypeOK, SoundRow
  <2>2. QED
    BY <2>1 DEF Reclaim
<1>5. \A k \in Jobs : Exists(k)' => SoundRow(jobs[k])'
  BY <1>1, <1>3 DEF Exists, SoundRow, Held
<1>6. QED
  BY <1>4, <1>5 DEF IInv, TypeOK, Reclaim

(* Every step of the queue keeps the table sound and the lanes typed.        *)
LEMMA StepIsSound == IInv /\ [Next]_vars => IInv'
<1> SUFFICES ASSUME IInv, [Next]_vars PROVE IInv'
  OBVIOUS
<1>t. TypeOK /\ \A k \in Jobs : Exists(k) => SoundRow(jobs[k])
  BY DEF IInv
<1>w. ASSUME NEW j \in Jobs, NEW r, SoundRow(r), Write(j, r), UNCHANGED <<lane, dispatched>>
      PROVE  IInv'
  BY <1>w, WriteIsSound DEF IInv, TypeOK
<1>g. ASSUME NEW w \in Workers, NEW l \in Working \cup {Idle, Dead}, Goto(w, l),
             UNCHANGED <<jobs, dispatched>>
      PROVE  IInv'
  BY <1>g, <1>t, GotoIsTyped, UntouchedIsSound DEF IInv, TypeOK
<1>1. ASSUME NEW j \in Jobs, Enqueue(j) PROVE IInv'
  BY <1>1, <1>w, NewRowIsSound DEF Enqueue
<1>2. ASSUME NEW j \in Jobs, ComesDue(j) PROVE IInv'
  <2>1. SoundRow([jobs[j] EXCEPT !.due = TRUE])
    BY <1>2, <1>t DEF ComesDue, SoundRow, JobRow, Held, HeldStatus
  <2>2. QED
    BY <1>2, <2>1, <1>w DEF ComesDue
<1>3. ASSUME NEW j \in Jobs, Cancel(j) PROVE IInv'
  BY <1>3, <1>t, <1>w, CancelIsSound DEF Cancel
<1>4. ASSUME NEW j \in Jobs, LeaseExpires(j) PROVE IInv'
  BY <1>4, <1>t, <1>w, HeldWritesAreSound DEF LeaseExpires
<1>5. ASSUME NEW w \in Workers, NEW j \in Jobs, Claim(w, j) PROVE IInv'
  <2>1. SoundRow(Claimed(jobs[j], w))
    BY <1>5, <1>t, ClaimIsSound DEF Claim
  <2>2. At("claimed", j) \in Working
    BY PhasesAreTyped DEF Phases
  <2>3. QED
    BY <1>5, <1>t, <2>1, <2>2, WriteIsSound, GotoIsTyped DEF Claim, IInv, TypeOK
<1>6. ASSUME NEW w \in Workers, NEW j \in Jobs, LaneStep(w, j) PROVE IInv'
  BY <1>6, LaneStepIsSound
<1>7. ASSUME NEW w \in Workers, NEW j \in Jobs, Heartbeat(w, j) PROVE IInv'
  BY <1>7, <1>t, <1>w, HeldWritesAreSound DEF Heartbeat, HeldBy, Held, HeldStatus, Exists
<1>8. CASE Reclaim
  BY <1>8, ReclaimIsSound
<1>9. ASSUME NEW w \in Workers, Crash(w) \/ Restart(w) PROVE IInv'
  BY <1>9, <1>g DEF Crash, Restart
<1>10. CASE UNCHANGED vars
  BY <1>10, <1>t, UntouchedIsSound DEF vars, table, IInv, TypeOK
<1>11. QED
  BY <1>1, <1>2, <1>3, <1>4, <1>5, <1>6, <1>7, <1>8, <1>9, <1>10 DEF Next, Step

LEMMA Soundness == Spec => []IInv
BY InitIsSound, StepIsSound, PTL DEF Spec

(* Every reachable table holds well-formed rows, whatever the lanes do.      *)
THEOREM TypeCorrect == Spec => []TypeOK
<1>1. IInv => TypeOK
  BY DEF IInv
<1>2. QED
  BY <1>1, Soundness, PTL

(* No way back to pending (failJob, deferJob, reclaimStuckJobs) strands a    *)
(* job: a pending row is always one that claimNext can take.                 *)
THEOREM NoJobIsStranded == Spec => []PendingIsClaimable
<1>1. IInv => PendingIsClaimable
  BY DEF IInv, SoundRow, PendingIsClaimable
<1>2. QED
  BY <1>1, Soundness, PTL
-----------------------------------------------------------------------------
(* A lane writes its own job, while it holds it, or nothing; and it lets go  *)
(* of a job it hands back.                                                   *)
LEMMA LaneWrites ==
    ASSUME NEW w \in Workers, NEW j \in Jobs, LaneStep(w, j)
    PROVE  \/ UNCHANGED jobs
           \/ /\ HeldBy(jobs[j], w)
              /\ \/ Write(j, Started(jobs[j])) \/ Write(j, Completed(jobs[j]))
                 \/ /\ Write(j, Deferred(jobs[j])) \/ Write(j, Failed(jobs[j]))
                    /\ Goto(w, Idle)
<1>s. Startable(jobs[j], w) => HeldBy(jobs[j], w)
  BY DEF Startable, HeldBy, Held, HeldStatus
<1>1. CASE Start(w, j) \/ StartThrows(w, j)
  BY <1>1, <1>s DEF Start, StartThrows
<1>2. CASE HandlerEnds(w, j) \/ HandlerDispatches(w, j) \/ HandlerReconciles(w, j)
  BY <1>2 DEF HandlerEnds, HandlerDispatches, HandlerReconciles
<1>3. CASE Complete(w, j) \/ CompleteThrows(w, j)
  BY <1>3 DEF Complete, CompleteThrows
<1>4. CASE Defer(w, j) \/ Fail(w, j) \/ SettleThrows(w, j)
  BY <1>4 DEF Defer, Fail, SettleThrows
<1>5. QED
  BY <1>1, <1>2, <1>3, <1>4 DEF LaneStep

-----------------------------------------------------------------------------
(* Exclusion.  While no live lane stalls, the row of a job some lane works   *)
(* on is that lane's and its lease is fresh, or the job is settled; either   *)
(* way no claim and no reclaim can touch it.                                 *)
LeaseKept(w, j) ==
    \/ HeldBy(jobs[j], w) /\ jobs[j].fresh
    \/ jobs[j].status \in SettledStatus

EInv == OneLanePerJob /\ \A w \in Workers, j \in Jobs : WorksOn(w, j) => LeaseKept(w, j)

LEMMA LaneMoves ==
    ASSUME NEW w \in Workers, NEW j \in Jobs, LaneStep(w, j)
    PROVE  /\ WorksOn(w, j)
           /\ Goto(w, Idle) \/ UNCHANGED lane \/ \E p \in Phases : Goto(w, At(p, j))
<1> USE DEF WorksOn, Busy, Phases, At
<1>1. CASE Start(w, j) \/ StartThrows(w, j)
  BY <1>1 DEF Start, StartThrows
<1>2. CASE HandlerEnds(w, j) \/ HandlerDispatches(w, j) \/ HandlerReconciles(w, j)
  BY <1>2 DEF HandlerEnds, HandlerDispatches, HandlerReconciles
<1>3. CASE Complete(w, j) \/ CompleteThrows(w, j)
  BY <1>3 DEF Complete, CompleteThrows
<1>4. CASE Defer(w, j) \/ Fail(w, j) \/ SettleThrows(w, j)
  BY <1>4 DEF Defer, Fail, SettleThrows
<1>5. QED
  BY <1>1, <1>2, <1>3, <1>4 DEF LaneStep

(* A row written under the lanes working on it, none of which moves.         *)
LEMMA WriteKeepsLease ==
    ASSUME IInv, EInv, UNCHANGED lane, NEW j \in Jobs, NEW r, Write(j, r),
           \A v \in Workers : WorksOn(v, j) =>
               (HeldBy(r, v) /\ r.fresh) \/ r.status \in SettledStatus
    PROVE  EInv'
<1>1. \A v \in Workers, k \in Jobs : WorksOn(v, k)' <=> WorksOn(v, k)
  BY DEF WorksOn, Busy
<1>2. jobs'[j] = r /\ \A k \in Jobs \ {j} : jobs'[k] = jobs[k]
  BY DEF Write, IInv, TypeOK
<1>3. ASSUME NEW v \in Workers, NEW k \in Jobs, WorksOn(v, k) PROVE LeaseKept(v, k)'
  BY <1>2, <1>3 DEF EInv, LeaseKept, HeldBy, Held
<1>4. QED
  BY <1>1, <1>3 DEF EInv, OneLanePerJob

LEMMA LaneStepKeepsLease ==
    ASSUME IInv, EInv, NEW w \in Workers, NEW j \in Jobs, LaneStep(w, j)
    PROVE  EInv'
<1>t. jobs \in [Jobs -> JobRow \cup {Absent}] /\ lane \in [Workers -> Working \cup {Idle, Dead}]
      /\ \A k \in Jobs : Exists(k) => SoundRow(jobs[k])
  BY DEF IInv, TypeOK
<1>w. WorksOn(w, j)
  BY LaneMoves
<1>1. ASSUME NEW v \in Workers, NEW k \in Jobs, WorksOn(v, k)'
      PROVE  WorksOn(v, k)
  <2>1. CASE v # w
    BY <1>1, <1>t, <2>1, LaneMoves DEF Goto, WorksOn, Busy
  <2>2. CASE v = w
    BY <1>1, <1>t, <1>w, <2>2, LaneMoves DEF Goto, WorksOn, Busy, At, Idle, Phases
  <2>3. QED
    BY <2>1, <2>2
<1>2. \A k \in Jobs \ {j} : jobs'[k] = jobs[k]
  BY <1>t, LaneWrites DEF Write
<1>3. ASSUME WorksOn(w, j)' PROVE LeaseKept(w, j)'
  <2>1. ~Goto(w, Idle)
    BY <1>3, <1>t DEF Goto, WorksOn, Busy, Idle, Phases
  <2>2. CASE UNCHANGED jobs
    BY <2>2, <1>w DEF EInv, LeaseKept, HeldBy, Held
  <2>3. CASE HeldBy(jobs[j], w) /\ Write(j, Started(jobs[j]))
    <3>1. jobs'[j] = Started(jobs[j]) /\ SoundRow(jobs[j])
      BY <2>3, <1>t DEF Write, HeldBy, Held, HeldStatus, Exists
    <3>2. QED
      BY <2>3, <3>1 DEF Started, LeaseKept, HeldBy, Held, HeldStatus, SoundRow, JobRow
  <2>4. CASE HeldBy(jobs[j], w) /\ Write(j, Completed(jobs[j]))
    <3>1. jobs'[j] = Completed(jobs[j]) /\ SoundRow(jobs[j])
      BY <2>4, <1>t DEF Write, HeldBy, Held, HeldStatus, Exists
    <3>2. QED
      BY <3>1 DEF Completed, LeaseKept, SettledStatus, SoundRow, JobRow
  <2>5. QED
    BY <2>1, <2>2, <2>3, <2>4, LaneWrites
<1>4. ASSUME NEW v \in Workers, NEW k \in Jobs, WorksOn(v, k)' PROVE LeaseKept(v, k)'
  <2>1. WorksOn(v, k) /\ (k = j => v = w)
    BY <1>1, <1>4, <1>w DEF EInv, OneLanePerJob
  <2>2. QED
    BY <2>1, <1>2, <1>3, <1>4 DEF EInv, LeaseKept, HeldBy, Held
<1>5. QED
  BY <1>1, <1>4 DEF EInv, OneLanePerJob

(* Where no lane stalls, every step keeps the leases of the lanes at work.   *)
LEMMA StepKeepsLease ==
    ASSUME ~stalls, IInv, EInv, [Next]_vars
    PROVE  EInv'
<1>t. jobs \in [Jobs -> JobRow \cup {Absent}] /\ lane \in [Workers -> Working \cup {Idle, Dead}]
      /\ \A k \in Jobs : Exists(k) => SoundRow(jobs[k])
  BY DEF IInv, TypeOK
<1>k. \A v \in Workers, k \in Jobs : WorksOn(v, k) => LeaseKept(v, k)
  BY DEF EInv
<1>1. ASSUME NEW j \in Jobs, Enqueue(j) PROVE EInv'
  BY <1>1, <1>k, WriteKeepsLease
     DEF Enqueue, LeaseKept, Exists, HeldBy, Held, HeldStatus, SettledStatus
<1>2. ASSUME NEW j \in Jobs, ComesDue(j) PROVE EInv'
  BY <1>2, <1>k, WriteKeepsLease DEF ComesDue, LeaseKept, HeldBy, Held, HeldStatus, SettledStatus
<1>3. ASSUME NEW j \in Jobs, Cancel(j) PROVE EInv'
  <2>1. Cancelled(jobs[j]).status \in SettledStatus
    BY <1>3, <1>t DEF Cancel, Cancelled, SettledStatus, SoundRow, JobRow
  <2>2. QED
    BY <1>3, <2>1, WriteKeepsLease DEF Cancel
<1>4. ASSUME NEW j \in Jobs, LeaseExpires(j) PROVE EInv'
  <2>1. \A v \in Workers : ~WorksOn(v, j)
    BY <1>4, <1>k DEF LeaseExpires, LeaseKept, HeldBy, Held, HeldStatus, SettledStatus
  <2>2. QED
    BY <1>4, <2>1, WriteKeepsLease DEF LeaseExpires
<1>5. ASSUME NEW w \in Workers, NEW j \in Jobs, Claim(w, j) PROVE EInv'
  <2>1. \A v \in Workers : ~WorksOn(v, j)
    BY <1>5, <1>k DEF Claim, Claimable, LeaseKept, HeldBy, Held, HeldStatus, SettledStatus
  <2>2. /\ jobs'[j] = Claimed(jobs[j], w) /\ \A k \in Jobs \ {j} : jobs'[k] = jobs[k]
        /\ lane'[w] = At("claimed", j) /\ \A v \in Workers \ {w} : lane'[v] = lane[v]
    BY <1>5, <1>t DEF Claim, Write, Goto
  <2>3. LeaseKept(w, j)'
    BY <2>2 DEF Claimed, LeaseKept, HeldBy, Held, HeldStatus
  <2>4. ASSUME NEW v \in Workers, NEW k \in Jobs, WorksOn(v, k)'
        PROVE  (v = w /\ k = j) \/ (WorksOn(v, k) /\ v # w /\ k # j)
    BY <2>1, <2>2, <2>4 DEF WorksOn, Busy, At
  <2>5. QED
    BY <2>2, <2>3, <2>4, <1>k DEF EInv, OneLanePerJob, LeaseKept, HeldBy, Held
<1>6. ASSUME NEW w \in Workers, NEW j \in Jobs, LaneStep(w, j) PROVE EInv'
  BY <1>6, LaneStepKeepsLease
<1>7. ASSUME NEW w \in Workers, NEW j \in Jobs, Heartbeat(w, j) PROVE EInv'
  <2>1. SoundRow(jobs[j])
    BY <1>7, <1>t DEF Heartbeat, HeldBy, Held, HeldStatus, Exists
  <2>2. HeldBy(Beaten(jobs[j]), w) /\ Beaten(jobs[j]).fresh
    BY <1>7, <2>1 DEF Heartbeat, Beaten, HeldBy, Held, SoundRow, JobRow
  <2>3. WorksOn(w, j)
    BY <1>7 DEF Heartbeat, WorksOn, Busy, At, Phases
  <2>4. QED
    BY <1>7, <2>2, <2>3, WriteKeepsLease DEF Heartbeat, EInv, OneLanePerJob
<1>8. CASE Reclaim
  <2>1. \A v \in Workers, k \in Jobs : WorksOn(v, k) => ~Stuck(jobs[k])
    BY <1>k DEF Stuck, LeaseKept, Held, HeldBy, HeldStatus, SettledStatus
  <2>2. \A v \in Workers, k \in Jobs : WorksOn(v, k) => jobs'[k] = jobs[k]
    BY <1>8, <2>1 DEF Reclaim
  <2>3. QED
    BY <1>8, <1>k, <2>2 DEF Reclaim, EInv, OneLanePerJob, WorksOn, Busy, LeaseKept, HeldBy, Held
<1>9. ASSUME NEW w \in Workers, Crash(w) \/ Restart(w) PROVE EInv'
  <2>1. \A v \in Workers, k \in Jobs : WorksOn(v, k)' => WorksOn(v, k)
    BY <1>9, <1>t DEF Crash, Restart, Goto, WorksOn, Busy, Idle, Dead, Phases
  <2>2. QED
    BY <1>9, <1>k, <2>1 DEF Crash, Restart, EInv, OneLanePerJob, LeaseKept, HeldBy, Held
<1>10. CASE UNCHANGED vars
  BY <1>10 DEF vars, table, EInv, OneLanePerJob, WorksOn, Busy, LeaseKept, HeldBy, Held
<1>11. QED
  BY <1>1, <1>2, <1>3, <1>4, <1>5, <1>6, <1>7, <1>8, <1>9, <1>10 DEF Next, Step

(* As long as heartbeats arrive, no two lanes work on one job: claims, late  *)
(* answers, cancellations and reclaims notwithstanding.                      *)
THEOREM ExclusionOfLanes == Spec => []SteadyLanesAreAlone
<1>1. Init => (~stalls => EInv)
  BY DEF Init, EInv, OneLanePerJob, WorksOn, Busy, Idle, Phases
<1>2. IInv /\ (~stalls => EInv) /\ [Next]_vars => (~stalls => EInv)'
  <2>1. [Next]_vars => stalls' = stalls
    BY DEF Next, vars
  <2>2. QED
    BY <2>1, StepKeepsLease
<1>3. (~stalls => EInv) => SteadyLanesAreAlone
  BY DEF EInv, SteadyLanesAreAlone
<1>4. QED
  BY <1>1, <1>2, <1>3, Soundness, PTL DEF Spec

-----------------------------------------------------------------------------
(***************************************************************************)
(* The table with its leases, heartbeats and lost answers implements the   *)
(* promise of JobPromise: each step of the queue is one step of the        *)
(* promise, or none.  A lane's step is seen through two functions: what    *)
(* becomes of its job, and whether the lane still works on it.             *)
(***************************************************************************)

state == [j \in Jobs |-> StateOf(j)]
by    == [j \in Jobs |-> ClaimantOf(j)]
tries == [j \in Jobs |-> TriesOf(j)]
doing == [w \in Workers |-> DoingOf(w)]

(* How a row shows.                                                          *)
Shows(j, s, b, t) ==
    /\ state' = [state EXCEPT ![j] = s]
    /\ by' = [by EXCEPT ![j] = b]
    /\ tries' = [tries EXCEPT ![j] = t]

LEMMA RowShows ==
    ASSUME IInv, NEW j \in Jobs, NEW r, Write(j, r), r.status # "absent"
    PROVE  Shows(j, IF Held(r) THEN "held" ELSE r.status,
                    IF Held(r) THEN r.holder ELSE NoWorker, r.attempts)
<1>1. jobs' = [jobs EXCEPT ![j] = r] /\ jobs \in [Jobs -> JobRow \cup {Absent}]
  BY DEF Write, IInv, TypeOK
<1>2. \A k \in Jobs : jobs'[k] = IF k = j THEN r ELSE jobs[k]
  BY <1>1
<1>3. state' = [state EXCEPT ![j] = IF Held(r) THEN "held" ELSE r.status]
  BY <1>2 DEF state, StateOf, Held
<1>4. by' = [by EXCEPT ![j] = IF Held(r) THEN r.holder ELSE NoWorker]
  BY <1>2 DEF by, ClaimantOf, Held
<1>5. tries' = [tries EXCEPT ![j] = r.attempts]
  BY <1>2 DEF tries, TriesOf, Exists
<1>6. QED
  BY <1>3, <1>4, <1>5 DEF Shows

LEMMA TableUnchangedShows ==
    ASSUME UNCHANGED jobs
    PROVE  UNCHANGED <<state, by, tries>>
BY DEF state, by, tries, StateOf, ClaimantOf, TriesOf, Held, Exists

LEMMA LanesUnchangedShow ==
    ASSUME UNCHANGED lane
    PROVE  UNCHANGED doing
BY DEF doing, DoingOf, Busy

LEMMA LetGoShows ==
    ASSUME IInv, NEW w \in Workers, NEW l \in {Idle, Dead}, Goto(w, l)
    PROVE  doing' = [doing EXCEPT ![w] = {}]
<1>1. lane' = [lane EXCEPT ![w] = l] /\ lane \in [Workers -> Working \cup {Idle, Dead}]
  BY DEF Goto, IInv, TypeOK
<1>2. \A v \in Workers : lane'[v] = IF v = w THEN l ELSE lane[v]
  BY <1>1
<1>3. ~Busy(w)'
  BY <1>2 DEF Busy, Idle, Dead, Phases
<1>4. \A v \in Workers : DoingOf(v)' = IF v = w THEN {} ELSE DoingOf(v)
  BY <1>2, <1>3 DEF DoingOf, Busy
<1>5. QED
  BY <1>4 DEF doing

LEMMA PhaseShows ==
    ASSUME IInv, NEW w \in Workers, NEW j \in Jobs, NEW p \in Phases, Goto(w, At(p, j))
    PROVE  doing' = [doing EXCEPT ![w] = {j}]
<1>1. lane' = [lane EXCEPT ![w] = At(p, j)] /\ lane \in [Workers -> Working \cup {Idle, Dead}]
  BY DEF Goto, IInv, TypeOK
<1>2. \A v \in Workers : lane'[v] = IF v = w THEN At(p, j) ELSE lane[v]
  BY <1>1
<1>3. Busy(w)' /\ lane'[w].job = j
  BY <1>2 DEF Busy, At
<1>4. \A v \in Workers : DoingOf(v)' = IF v = w THEN {j} ELSE DoingOf(v)
  BY <1>2, <1>3 DEF DoingOf, Busy
<1>5. QED
  BY <1>4 DEF doing
-----------------------------------------------------------------------------
LEMMA HeldShows ==
    ASSUME IInv, NEW w \in Workers, NEW j \in Jobs, HeldBy(jobs[j], w), WorksOn(w, j)
    PROVE  /\ SoundRow(jobs[j])
           /\ jobs[j].attempts \in 1 .. MaxAttempts
           /\ state[j] = "held" /\ by[j] = w /\ tries[j] = jobs[j].attempts
           /\ doing[w] = {j}
<1>1. SoundRow(jobs[j])
  BY DEF IInv, HeldBy, Held, HeldStatus, Exists
<1>2. Exists(j)
  BY DEF HeldBy, Held, HeldStatus, Exists
<1>3. QED
  BY <1>1, <1>2, RowFields, MaxAttemptsAssumption
     DEF HeldBy, state, by, tries, doing, StateOf, ClaimantOf, TriesOf, DoingOf, WorksOn

LEMMA LaneStepMoves ==
    ASSUME IInv, NEW w \in Workers, NEW j \in Jobs, LaneStep(w, j)
    PROVE  doing' = doing \/ doing' = [doing EXCEPT ![w] = {}]
<1>1. CASE Goto(w, Idle)
  BY <1>1, LetGoShows
<1>2. CASE UNCHANGED lane
  BY <1>2, LanesUnchangedShow
<1>3. CASE \E p \in Phases : Goto(w, At(p, j))
  <2>1. doing' = [doing EXCEPT ![w] = {j}]
    BY <1>3, PhaseShows
  <2>2. doing[w] = {j} /\ doing = [v \in Workers |-> doing[v]]
    BY LaneMoves DEF doing, DoingOf, WorksOn
  <2>3. QED
    BY <2>1, <2>2
<1>4. QED
  BY <1>1, <1>2, <1>3, LaneMoves

(* A lane's step is a step of the worker that speaks for the job, a worker   *)
(* leaving a job it lost, or nothing.                                        *)
LEMMA LaneStepKeepsPromise ==
    ASSUME IInv, NEW w \in Workers, NEW j \in Jobs, LaneStep(w, j)
    PROVE  [Promise!Next]_(Promise!vars)
<1>m. doing' = doing \/ doing' = [doing EXCEPT ![w] = {}]
  BY LaneStepMoves
<1>w. WorksOn(w, j)
  BY LaneMoves
<1>f. /\ state = [state EXCEPT ![j] = state[j]]
      /\ by = [by EXCEPT ![j] = by[j]]
      /\ tries = [tries EXCEPT ![j] = tries[j]]
  BY DEF state, by, tries
<1>u. ASSUME UNCHANGED <<state, by, tries>> PROVE [Promise!Next]_(Promise!vars)
  BY <1>u, <1>m DEF state, by, tries, doing, Promise!Next, Promise!Leave, Promise!vars
<1>1. CASE UNCHANGED jobs
  BY <1>1, <1>u, TableUnchangedShows
<1>2. CASE HeldBy(jobs[j], w) /\ Write(j, Started(jobs[j]))
  <2>1. Held(Started(jobs[j])) /\ Started(jobs[j]).holder = w
        /\ Started(jobs[j]).attempts = jobs[j].attempts /\ Started(jobs[j]).status # "absent"
    BY <1>2, <1>w, HeldShows DEF Started, Held, HeldBy, HeldStatus, SoundRow, JobRow
  <2>2. Shows(j, "held", w, jobs[j].attempts)
    BY <1>2, <2>1, RowShows
  <2>3. QED
    BY <1>2, <1>u, <1>f, <1>w, <2>2, HeldShows DEF Shows
<1>3. CASE HeldBy(jobs[j], w) /\ Write(j, Completed(jobs[j]))
  <2>1. Completed(jobs[j]).status = "completed" /\ Completed(jobs[j]).attempts = jobs[j].attempts
    BY <1>3, <1>w, HeldShows DEF Completed, SoundRow, JobRow
  <2>2. Shows(j, "completed", NoWorker, jobs[j].attempts)
    BY <1>3, <2>1, RowShows DEF Held, HeldStatus
  <2>3. Promise!Settle(w, j)
    BY <1>3, <1>m, <1>f, <1>w, <2>2, HeldShows
       DEF Shows, state, by, tries, doing, Promise!Settle, Promise!SpeaksFor, Promise!MayLeave
  <2>4. QED
    BY <2>3 DEF Promise!Next
<1>4. CASE HeldBy(jobs[j], w) /\ Write(j, Deferred(jobs[j]))
  <2>1. Deferred(jobs[j]).status = "pending" /\ Deferred(jobs[j]).attempts = jobs[j].attempts - 1
    <3>1. jobs[j].attempts # 0
      BY <1>4, <1>w, HeldShows
    <3>2. QED
      BY <3>1 DEF Deferred, Waiting
  <2>2. Shows(j, "pending", NoWorker, jobs[j].attempts - 1)
    BY <1>4, <2>1, RowShows DEF Held, HeldStatus
  <2>3. tries[j] > 0 /\ tries' = [tries EXCEPT ![j] = tries[j] - 1]
    <3>1. jobs[j].attempts = tries[j] /\ jobs[j].attempts > 0
      BY <1>4, <1>w, HeldShows
    <3>2. tries' = [tries EXCEPT ![j] = jobs[j].attempts - 1]
      BY <2>2 DEF Shows
    <3>3. QED
      BY <3>1, <3>2
  <2>4. state' = [state EXCEPT ![j] = "pending"] /\ by' = [by EXCEPT ![j] = NoWorker]
    BY <2>2 DEF Shows
  <2>5. state[j] = "held" /\ by[j] = w /\ j \in doing[w]
    BY <1>4, <1>w, HeldShows
  <2>6. Promise!HandBack(w, j)
    BY <1>m, <2>3, <2>4, <2>5
       DEF state, by, tries, doing, Promise!HandBack, Promise!SpeaksFor, Promise!MayLeave
  <2>7. QED
    BY <2>6 DEF Promise!Next
<1>5. CASE HeldBy(jobs[j], w) /\ Write(j, Failed(jobs[j]))
  <2>r. SoundRow(jobs[j]) /\ jobs[j].attempts \in 1 .. MaxAttempts
    BY <1>5, <1>w, HeldShows
  <2>1. CASE SpentBudget(jobs[j])
    <3>1. Failed(jobs[j]).status = "failed" /\ Failed(jobs[j]).attempts = jobs[j].attempts
      BY <2>1, <2>r DEF Failed, SoundRow, JobRow
    <3>2. Shows(j, "failed", NoWorker, jobs[j].attempts)
      BY <1>5, <3>1, RowShows DEF Held, HeldStatus
    <3>3. jobs[j].attempts = MaxAttempts
      BY <2>1, <2>r, MaxAttemptsAssumption DEF SpentBudget
    <3>4. Promise!Settle(w, j)
      BY <1>5, <1>m, <1>f, <1>w, <3>2, <3>3, HeldShows
         DEF Shows, state, by, tries, doing, Promise!Settle, Promise!SpeaksFor, Promise!MayLeave
    <3>5. QED
      BY <3>4 DEF Promise!Next
  <2>2. CASE ~SpentBudget(jobs[j])
    <3>1. Failed(jobs[j]).status = "pending" /\ Failed(jobs[j]).attempts = jobs[j].attempts
      BY <2>2 DEF Failed, Waiting
    <3>2. Shows(j, "pending", NoWorker, jobs[j].attempts)
      BY <1>5, <3>1, RowShows DEF Held, HeldStatus
    <3>3. jobs[j].attempts < MaxAttempts
      BY <2>2, <2>r, MaxAttemptsAssumption DEF SpentBudget
    <3>4. Promise!HandBack(w, j)
      BY <1>5, <1>m, <1>f, <1>w, <3>2, <3>3, HeldShows
         DEF Shows, state, by, tries, doing, Promise!HandBack, Promise!SpeaksFor, Promise!MayLeave
    <3>5. QED
      BY <3>4 DEF Promise!Next
  <2>3. QED
    BY <2>1, <2>2
<1>6. QED
  BY <1>1, <1>2, <1>3, <1>4, <1>5, LaneWrites
-----------------------------------------------------------------------------
ShowsTyped ==
    /\ state \in [Jobs -> {"absent", "pending", "held", "completed", "failed", "cancelled"}]
    /\ by \in [Jobs -> Workers \cup {NoWorker}]
    /\ tries \in [Jobs -> 0 .. MaxAttempts]

LEMMA SoundTableShows == IInv => ShowsTyped
<1> SUFFICES ASSUME IInv PROVE ShowsTyped
  OBVIOUS
<1>1. ASSUME NEW j \in Jobs
      PROVE  /\ StateOf(j) \in {"absent", "pending", "held", "completed", "failed", "cancelled"}
             /\ ClaimantOf(j) \in Workers \cup {NoWorker}
             /\ TriesOf(j) \in 0 .. MaxAttempts
  <2>1. CASE Exists(j)
    <3>1. SoundRow(jobs[j])
      BY <2>1 DEF IInv
    <3>2. /\ jobs[j].status \in JobStatus /\ jobs[j].attempts \in 0 .. MaxAttempts
          /\ jobs[j].holder \in Workers \cup {NoWorker}
      BY <3>1 DEF SoundRow, JobRow
    <3>3. ClaimantOf(j) \in Workers \cup {NoWorker} /\ TriesOf(j) \in 0 .. MaxAttempts
      BY <2>1, <3>2 DEF ClaimantOf, TriesOf
    <3>4. StateOf(j) \in {"absent", "pending", "held", "completed", "failed", "cancelled"}
      BY <3>2 DEF StateOf, Held, HeldStatus, JobStatus
    <3>5. QED
      BY <3>3, <3>4
  <2>2. CASE ~Exists(j)
    BY <2>2, MaxAttemptsAssumption DEF Exists, StateOf, ClaimantOf, TriesOf, Held, HeldStatus
  <2>3. QED
    BY <2>1, <2>2
<1>2. QED
  BY <1>1 DEF ShowsTyped, state, by, tries

(* A reclaim is the promise taking jobs back.                                *)
LEMMA ReclaimKeepsPromise ==
    ASSUME IInv, IInv', Reclaim
    PROVE  [Promise!Next]_(Promise!vars)
<1>1. doing' = doing
  BY LanesUnchangedShow DEF Reclaim
<1>2. ASSUME NEW j \in Jobs
      PROVE  \/ state'[j] = state[j] /\ by'[j] = by[j] /\ tries'[j] = tries[j]
             \/ /\ state[j] = "held" /\ by'[j] = NoWorker
                /\ \/ state'[j] = "pending" /\ tries[j] < MaxAttempts /\ tries'[j] = tries[j]
                   \/ state'[j] = "pending" /\ tries[j] = MaxAttempts /\ tries'[j] = MaxAttempts - 1
                   \/ state'[j] = "failed" /\ tries[j] = MaxAttempts /\ tries'[j] = tries[j]
  <2>1. CASE ~(Exists(j) /\ Stuck(jobs[j]))
    <3>1. jobs'[j] = jobs[j]
      BY <2>1 DEF Reclaim
    <3>2. QED
      BY <3>1 DEF state, by, tries, StateOf, ClaimantOf, TriesOf, Held, Exists
  <2>2. CASE Exists(j) /\ Stuck(jobs[j])
    <3>1. /\ SoundRow(jobs[j]) /\ Held(jobs[j])
          /\ jobs[j].attempts \in Nat /\ jobs[j].attempts <= MaxAttempts
          /\ jobs'[j] = Reclaimed(jobs[j], j \in dispatched)
      BY <2>2, RowFields DEF IInv, Stuck, Reclaim
    <3>2. state[j] = "held" /\ tries[j] = jobs[j].attempts
      BY <2>2, <3>1 DEF state, tries, StateOf, TriesOf
    <3>s. ASSUME NEW r, jobs'[j] = r, r.status \in {"pending", "failed"}
          PROVE  state'[j] = r.status /\ by'[j] = NoWorker /\ tries'[j] = r.attempts
      BY <3>s DEF state, by, tries, StateOf, ClaimantOf, TriesOf, Held, HeldStatus, Exists
    <3>3. CASE ~SpentBudget(jobs[j])
      <4>1. jobs'[j] = Waiting(jobs[j].attempts, jobs[j].due)
        BY <3>1, <3>3 DEF Reclaimed
      <4>2. jobs[j].attempts < MaxAttempts
        BY <3>1, <3>3, MaxAttemptsAssumption DEF SpentBudget
      <4>3. QED
        BY <3>2, <3>s, <4>1, <4>2 DEF Waiting
    <3>4. CASE SpentBudget(jobs[j]) /\ j \in dispatched
      <4>1. jobs'[j] = Waiting(MaxAttempts - 1, jobs[j].due)
        BY <3>1, <3>4 DEF Reclaimed
      <4>2. jobs[j].attempts = MaxAttempts
        BY <3>1, <3>4, MaxAttemptsAssumption DEF SpentBudget
      <4>3. QED
        BY <3>2, <3>s, <4>1, <4>2 DEF Waiting
    <3>5. CASE SpentBudget(jobs[j]) /\ j \notin dispatched
      <4>1. jobs'[j] = [jobs[j] EXCEPT !.status = "failed", !.holder = NoWorker, !.fresh = FALSE]
        BY <3>1, <3>5 DEF Reclaimed
      <4>2. jobs[j].attempts = MaxAttempts
        BY <3>1, <3>5, MaxAttemptsAssumption DEF SpentBudget
      <4>3. jobs'[j].status = "failed" /\ jobs'[j].attempts = jobs[j].attempts
        BY <3>1, <4>1 DEF SoundRow, JobRow
      <4>4. QED
        BY <3>2, <3>s, <4>2, <4>3
    <3>6. QED
      BY <3>3, <3>4, <3>5
  <2>3. QED
    BY <2>1, <2>2
<1>3. ShowsTyped'
  BY SoundTableShows, PTL
<1>4. Promise!TakeBack
  BY <1>1, <1>2, <1>3
     DEF ShowsTyped, state, by, tries, doing, Promise!TakeBack, Promise!TakenBack, Promise!Untouched
<1>5. QED
  BY <1>4 DEF Promise!Next
(* Every other step: of a producer, of time, of a person, of the process.    *)
LEMMA StepKeepsPromise == IInv /\ IInv' /\ [Next]_vars => [Promise!Next]_(Promise!vars)
<1> SUFFICES ASSUME IInv, IInv', [Next]_vars PROVE [Promise!Next]_(Promise!vars)
  OBVIOUS
<1>t. jobs \in [Jobs -> JobRow \cup {Absent}] /\ lane \in [Workers -> Working \cup {Idle, Dead}]
      /\ \A k \in Jobs : Exists(k) => SoundRow(jobs[k])
  BY DEF IInv, TypeOK
<1>f. \A j \in Jobs : /\ state = [state EXCEPT ![j] = state[j]]
                      /\ by = [by EXCEPT ![j] = by[j]]
                      /\ tries = [tries EXCEPT ![j] = tries[j]]
  BY DEF state, by, tries
<1>u. ASSUME UNCHANGED <<state, by, tries, doing>> PROVE [Promise!Next]_(Promise!vars)
  BY <1>u DEF state, by, tries, doing, Promise!vars
<1>s. ASSUME NEW j \in Jobs, NEW r, Write(j, r), r.status = jobs[j].status,
             Exists(j), r.holder = jobs[j].holder, r.attempts = jobs[j].attempts,
             UNCHANGED lane
      PROVE  [Promise!Next]_(Promise!vars)
  <2>1. Shows(j, state[j], by[j], tries[j])
    <3>1. Held(r) <=> Held(jobs[j])
      BY <1>s DEF Held
    <3>2. /\ state[j] = IF Held(r) THEN "held" ELSE r.status
          /\ by[j] = IF Held(r) THEN r.holder ELSE NoWorker
          /\ tries[j] = r.attempts
      BY <1>s, <3>1 DEF state, by, tries, StateOf, ClaimantOf, TriesOf
    <3>3. r.status # "absent"
      BY <1>s DEF Exists
    <3>4. QED
      BY <1>s, <3>2, <3>3, RowShows
  <2>2. QED
    BY <1>s, <1>f, <1>u, <2>1, LanesUnchangedShow DEF Shows
<1>1. ASSUME NEW j \in Jobs, Enqueue(j) PROVE [Promise!Next]_(Promise!vars)
  <2>1. Shows(j, "pending", NoWorker, 0)
    BY <1>1, RowShows DEF Enqueue, NewJob, Waiting, Held, HeldStatus
  <2>2. state[j] = "absent" /\ by[j] = NoWorker /\ tries[j] = 0
    BY <1>1 DEF Enqueue, Exists, state, by, tries, StateOf, ClaimantOf, TriesOf, Held, HeldStatus
  <2>3. Promise!Submit(j)
    BY <1>1, <1>f, <2>1, <2>2, LanesUnchangedShow
       DEF Enqueue, Shows, state, by, tries, doing, Promise!Submit
  <2>4. QED
    BY <2>3 DEF Promise!Next
<1>2. ASSUME NEW j \in Jobs, ComesDue(j) PROVE [Promise!Next]_(Promise!vars)
  <2> DEFINE r == [jobs[j] EXCEPT !.due = TRUE]
  <2>1. r.status = jobs[j].status /\ r.holder = jobs[j].holder /\ r.attempts = jobs[j].attempts
    BY <1>2, <1>t DEF ComesDue, SoundRow, JobRow
  <2>2. QED
    BY <1>2, <1>s, <2>1 DEF ComesDue
<1>3. ASSUME NEW j \in Jobs, Cancel(j) PROVE [Promise!Next]_(Promise!vars)
  <2> DEFINE r == Cancelled(jobs[j])
  <2>1. r.status = "cancelled" /\ r.attempts = jobs[j].attempts
    BY <1>3, <1>t DEF Cancel, Cancelled, SoundRow, JobRow
  <2>2. Shows(j, "cancelled", NoWorker, jobs[j].attempts)
    BY <1>3, <2>1, RowShows DEF Cancel, Held, HeldStatus
  <2>3. state[j] \in {"pending", "held"} /\ tries[j] = jobs[j].attempts
    BY <1>3, CancellableFromAssumption
       DEF Cancel, state, tries, StateOf, TriesOf, Held, HeldStatus
  <2>4. Promise!Cancel(j)
    BY <1>3, <1>f, <2>2, <2>3, LanesUnchangedShow
       DEF Cancel, Shows, state, by, tries, doing, Promise!Cancel
  <2>5. QED
    BY <2>4 DEF Promise!Next
<1>4. ASSUME NEW j \in Jobs, LeaseExpires(j) PROVE [Promise!Next]_(Promise!vars)
  <2> DEFINE r == [jobs[j] EXCEPT !.fresh = FALSE]
  <2>1. r.status = jobs[j].status /\ r.holder = jobs[j].holder /\ r.attempts = jobs[j].attempts
    BY <1>4, <1>t DEF LeaseExpires, SoundRow, JobRow
  <2>2. QED
    BY <1>4, <1>s, <2>1 DEF LeaseExpires
<1>5. ASSUME NEW w \in Workers, NEW j \in Jobs, Claim(w, j) PROVE [Promise!Next]_(Promise!vars)
  <2>1. Shows(j, "held", w, jobs[j].attempts + 1)
    BY <1>5, RowShows DEF Claim, Claimed, Held, HeldStatus
  <2>2. /\ state[j] = "pending" /\ tries[j] = jobs[j].attempts /\ tries[j] < MaxAttempts
        /\ doing[w] = {}
    BY <1>5 DEF Claim, Claimable, state, tries, doing, StateOf, TriesOf, DoingOf,
                Held, HeldStatus, Busy, Idle, Phases
  <2>3. doing' = [doing EXCEPT ![w] = {j}]
    BY <1>5, PhaseShows DEF Claim, Phases
  <2>4. tries' = [tries EXCEPT ![j] = tries[j] + 1]
    BY <2>1, <2>2 DEF Shows
  <2>5. Promise!Take(w, j)
    BY <2>1, <2>2, <2>3, <2>4 DEF Shows, state, by, tries, doing, Promise!Take
  <2>6. QED
    BY <2>5 DEF Promise!Next
<1>6. ASSUME NEW w \in Workers, NEW j \in Jobs, LaneStep(w, j)
      PROVE  [Promise!Next]_(Promise!vars)
  BY <1>6, LaneStepKeepsPromise
<1>7. ASSUME NEW w \in Workers, NEW j \in Jobs, Heartbeat(w, j)
      PROVE  [Promise!Next]_(Promise!vars)
  <2>1. Exists(j) /\ SoundRow(jobs[j])
    BY <1>7, <1>t DEF Heartbeat, HeldBy, Held, HeldStatus, Exists
  <2>2. /\ Beaten(jobs[j]).status = jobs[j].status /\ Beaten(jobs[j]).holder = jobs[j].holder
        /\ Beaten(jobs[j]).attempts = jobs[j].attempts
    BY <2>1 DEF Beaten, SoundRow, JobRow
  <2>3. QED
    BY <1>7, <1>s, <2>1, <2>2 DEF Heartbeat
<1>8. CASE Reclaim
  BY <1>8, ReclaimKeepsPromise
<1>9. ASSUME NEW w \in Workers, Crash(w) \/ Restart(w) PROVE [Promise!Next]_(Promise!vars)
  <2>1. doing' = [doing EXCEPT ![w] = {}] /\ UNCHANGED <<state, by, tries>>
    BY <1>9, LetGoShows, TableUnchangedShows DEF Crash, Restart
  <2>2. Promise!Leave(w)
    BY <2>1 DEF state, by, tries, doing, Promise!Leave
  <2>3. QED
    BY <2>2 DEF Promise!Next
<1>10. CASE UNCHANGED vars
  BY <1>10, <1>u, TableUnchangedShows, LanesUnchangedShow DEF vars, table
<1>11. QED
  BY <1>1, <1>2, <1>3, <1>4, <1>5, <1>6, <1>7, <1>8, <1>9, <1>10 DEF Next, Step

LEMMA InitKeepsPromise == Init => Promise!Init
BY DEF Init, Promise!Init, StateOf, ClaimantOf, TriesOf, DoingOf,
       Absent, Exists, Held, HeldStatus, Busy, Idle, Phases

(* The job queue implements its promise: whatever crashes, stalls, lost      *)
(* answers and cancellations happen, a settled job stays settled, only the   *)
(* latest claimant settles a job or hands it back, and a job fails only      *)
(* after MaxAttempts claims.                                                 *)
THEOREM QueueKeepsPromise == Spec => KeepsPromise
<1>1. IInv /\ IInv' /\ [Next]_vars => [Promise!Next]_(Promise!vars)
  BY StepKeepsPromise
<1>2. QED
  BY <1>1, InitKeepsPromise, Soundness, PTL DEF Spec, KeepsPromise, Promise!Spec
=============================================================================
