------------------------- MODULE AutomationSchedule -------------------------
(***************************************************************************)
(* The schedule of one Automation (modules/automations): the scan that     *)
(* fires what is due, fires by hand, and the changes its owner, an         *)
(* administrator or its Project make meanwhile.                            *)
(*                                                                         *)
(* An Automation keeps its status in its own row and its schedule in a row *)
(* of scheduler_tasks; a transaction locks the first, not the second.      *)
(* A PATCH and a recorded fire read the one, then the other, and hold no   *)
(* lock meanwhile; what they and a scan have read is kept here until they  *)
(* write.                                                                  *)
(*                                                                         *)
(* A slot is the time it falls at; 0 stands for no next run.  The cron     *)
(* expression falls at every tick, so the next slot after now is now + 1.  *)
(***************************************************************************)
EXTENDS Naturals

CONSTANTS
    Callers,     \* those who may have a PATCH in flight, one each
    MaxTime,     \* bound on the clock
    Courses      \* see `course`

ASSUME ScheduleAssumption ==
    /\ MaxTime \in Nat \ {0}
    /\ \A c \in Courses :
          /\ c.kind \in {"run", "native", "digest"}
          /\ c.changes \subseteq {"pause", "activate", "archive", "reschedule", "rename"}
          /\ c.callers \subseteq Callers
          /\ c.byHand \in BOOLEAN
          /\ c.crashes \in Nat /\ c.patches \in Nat
          /\ c.time \in 0 .. MaxTime

VARIABLES
    course,   \* what a behaviour is about, fixed from the start:
              \*   kind: the target, "run" (a Run or a workflow: one transaction),
              \*     "native" (work between two transactions) or "digest"
              \*   callers, changes: who sends PATCHes, and which
              \*   byHand: it is fired by hand too
              \*   crashes, time, patches: bounds on crashes, on the clock, and on
              \*     PATCHes and fires by hand
    now,      \* the clock
    status,   \* automations.status
    task,     \* the row of scheduler_tasks: [status, next]
    scan,     \* the scan: [at, slot], at "idle", "read" or "working"
    hand,     \* a fire by hand: [at, status, next], what recordFire has read
    patch,    \* each caller's PATCH: [at, change, status, next, since], what it
              \*   has read, and when
    fires,    \* how often each slot has been fired by the scan
    open,     \* automation_runs that are native and running
    crossed,  \* history: a stopped Automation was activated while recordFire or
              \*   a PATCH that names no status had begun to read it
    putBack,  \* history: recordFire or a PATCH wrote a slot that had come by then
    sent,     \* PATCHes and fires by hand so far
    crashed   \* crashes so far

history == <<crossed, putBack>>
schedule == <<now, status, task, scan, hand, patch, fires, open, history, sent, crashed>>
scheduleVars == <<course, schedule>>

Statuses == {"active", "paused", "archived"}
Slots == 1..(MaxTime + 1)
Times == 0..(MaxTime + 1)

\* computeNextRunAt, at time t.
NextSlot(t) == t + 1

IdleScan == [at |-> "idle", slot |-> 0]
NoHand == [at |-> "idle", status |-> "active", next |-> 0]
NoPatch == [at |-> "idle", change |-> "none", status |-> "active", next |-> 0, since |-> 0]

Task(s, n) == [status |-> s, next |-> IF s = "active" THEN n ELSE 0]

IsDue == task.status = "active" /\ task.next # 0 /\ task.next <= now

ScheduleTypeOK ==
    /\ course \in Courses
    /\ now \in 0..MaxTime
    /\ status \in Statuses
    /\ task \in [status : Statuses, next : Times]
    /\ scan \in [at : {"idle", "read", "working"}, slot : Times]
    /\ hand \in [at : {"idle", "working", "fired", "row", "read"}, status : Statuses, next : Times]
    /\ patch \in [Callers -> [at : {"idle", "row", "read"}, change : course.changes \cup {"none"},
                              status : Statuses, next : Times, since : 0 .. MaxTime]]
    /\ fires \in [Slots -> Nat]
    /\ open \in Nat
    /\ crossed \in BOOLEAN /\ putBack \in BOOLEAN
    /\ sent \in 0..course.patches /\ crashed \in 0..course.crashes

ScheduleInit ==
    /\ course \in Courses
    /\ now = 0
    /\ status = "active" /\ task = Task("active", 1)
    /\ scan = IdleScan /\ hand = NoHand /\ patch = [c \in Callers |-> NoPatch]
    /\ fires = [s \in Slots |-> 0]
    /\ crossed = FALSE /\ putBack = FALSE
    /\ open = 0 /\ sent = 0 /\ crashed = 0

Tick ==
    /\ now < course.time
    /\ now' = now + 1
    /\ UNCHANGED <<status, task, scan, hand, patch, fires, open, history, sent, crashed>>

-----------------------------------------------------------------------------
(* The scan. *)

\* The schedule after a fire: the row is read again under its lock, and a
\* schedule that is no longer active is left as it is.
AdvancedTask == IF status = "active" THEN Task("active", NextSlot(now)) ELSE task

listDue ==
    /\ scan.at = "idle"
    /\ IsDue /\ status = "active"
    /\ scan' = [at |-> "read", slot |-> task.next]
    /\ UNCHANGED <<now, status, task, hand, patch, fires, open, history, sent, crashed>>

\* A mutant: a fire that fails leaves the schedule where it is.
scanFails_Stays ==
    /\ scan.at = "read"
    /\ scan' = IdleScan
    /\ UNCHANGED <<now, status, task, hand, patch, fires, open, history, sent, crashed>>

\* Policy, preflight or the fire's transaction fails: nothing is written, and
\* the scan moves the schedule on.
scanFails ==
    /\ scan.at = "read"
    /\ task' = AdvancedTask
    /\ scan' = IdleScan
    /\ UNCHANGED <<now, status, hand, patch, fires, open, history, sent, crashed>>

\* A mutant: the status that was read when the scan began is believed.
StillActive_AsRead == TRUE

\* The fire's transaction reads the status again under the row lock.
StillActive == status = "active"

\* Paused or archived since the scan read it: the fire throws, and the scan
\* goes on without touching the schedule.
fireRefused ==
    /\ scan.at = "read"
    /\ ~StillActive
    /\ scan' = IdleScan
    /\ UNCHANGED <<now, status, task, hand, patch, fires, open, history, sent, crashed>>

Counted == [fires EXCEPT ![scan.slot] = @ + 1]

\* A mutant: the schedule is moved on by a later statement of its own.
executeAgentRun_Apart ==
    /\ course.kind = "run" /\ scan.at = "read" /\ StillActive
    /\ fires' = Counted
    /\ scan' = IdleScan
    /\ UNCHANGED <<now, status, task, hand, patch, open, history, sent, crashed>>

\* A Run or a workflow: it is created and the schedule moves on in one
\* transaction.
executeAgentRun ==
    /\ course.kind = "run" /\ scan.at = "read" /\ StillActive
    /\ fires' = Counted
    /\ task' = AdvancedTask
    /\ scan' = IdleScan
    /\ UNCHANGED <<now, status, hand, patch, open, history, sent, crashed>>

\* A native target opens its automation run, and does its work outside the
\* transaction.
startNative ==
    /\ course.kind # "run" /\ scan.at = "read" /\ StillActive
    /\ fires' = Counted
    /\ open' = open + 1
    /\ scan' = [scan EXCEPT !.at = "working"]
    /\ UNCHANGED <<now, status, task, hand, patch, history, sent, crashed>>

\* The work ends, well or not: the automation run is completed and the
\* schedule moves on in one transaction.
finishNative ==
    /\ scan.at = "working"
    /\ open' = open - 1
    /\ task' = AdvancedTask
    /\ scan' = IdleScan
    /\ UNCHANGED <<now, status, hand, patch, fires, history, sent, crashed>>

\* A digest of a day that later history has overtaken: it is completed as
\* skipped with an error, which completeNativeAutomationRun refuses; the
\* transaction is lost, and the scan moves the schedule on.
skipDigest ==
    /\ course.kind = "digest" /\ scan.at = "working"
    /\ task' = AdvancedTask
    /\ scan' = IdleScan
    /\ UNCHANGED <<now, status, hand, patch, fires, open, history, sent, crashed>>

-----------------------------------------------------------------------------
(* Fires by hand: a transaction, the work of a native target and a second    *)
(* one, then recordFire, which reads twice and writes in statements of their *)
(* own and holds no lock.                                                    *)

fire ==
    /\ course.byHand /\ hand.at = "idle" /\ sent < course.patches
    /\ status = "active"
    /\ sent' = sent + 1
    /\ \/ course.kind = "run" /\ hand' = [NoHand EXCEPT !.at = "fired"] /\ open' = open
       \/ course.kind # "run" /\ hand' = [NoHand EXCEPT !.at = "working"] /\ open' = open + 1
    /\ UNCHANGED <<now, status, task, scan, patch, fires, history, crashed>>

\* The work ends and its automation run is completed; when it fails the fire
\* throws, and is not recorded.
finishByHand ==
    /\ hand.at = "working"
    /\ open' = open - 1
    /\ hand' \in {NoHand, [NoHand EXCEPT !.at = "fired"]}
    /\ UNCHANGED <<now, status, task, scan, patch, fires, history, sent, crashed>>

recordFireReads ==
    /\ \/ hand.at = "fired" /\ hand' = [hand EXCEPT !.at = "row", !.status = status]
       \/ hand.at = "row" /\ hand' = [hand EXCEPT !.at = "read", !.next = task.next]
    /\ UNCHANGED <<now, status, task, scan, patch, fires, open, history, sent, crashed>>

\* Writing s and t changes the rows, and leaves a slot that has come.
PutsBack(s, t) == <<s, t>> # <<status, task>> /\ t.next \in 1 .. now

recordFireWrites ==
    /\ hand.at = "read"
    /\ task' = Task(hand.status, hand.next)
    /\ putBack' = (putBack \/ PutsBack(status, task'))
    /\ hand' = NoHand
    /\ UNCHANGED <<now, status, scan, patch, fires, open, crossed, sent, crashed>>

-----------------------------------------------------------------------------
(* PATCHes: two reads, then the row and the schedule in one transaction,     *)
(* which has the row's lock from its first statement on.                     *)

\* What it reads of the schedule only a PATCH that names neither status nor
\* configuration uses.
updateReads(c) ==
    /\ c \in course.callers
    /\ patch[c].at = "idle" /\ sent < course.patches
    /\ \E change \in course.changes :
          patch' = [patch EXCEPT ![c] =
              [at |-> IF change = "rename" THEN "row" ELSE "read",
               change |-> change, status |-> status, next |-> 0, since |-> now]]
    /\ sent' = sent + 1
    /\ UNCHANGED <<now, status, task, scan, hand, fires, open, history, crashed>>

updateReadsSchedule(c) ==
    /\ patch[c].at = "row"
    /\ patch' = [patch EXCEPT ![c].at = "read", ![c].next = task.next]
    /\ UNCHANGED <<now, status, task, scan, hand, fires, open, history, sent, crashed>>

\* The status p leaves the row with; one that names none keeps it.
PatchedStatus(p) ==
    CASE p.change = "pause" -> "paused"
      [] p.change = "archive" -> "archived"
      [] p.change = "activate" -> "active"
      [] OTHER -> status

\* The schedule p writes, with n the next slot it has computed: what the
\* change says, and what it has read for the rest.
PatchedTask(p, n) ==
    CASE p.change = "pause" -> Task("paused", 0)
      [] p.change = "archive" -> Task("archived", 0)
      [] p.change = "activate" -> Task("active", n)
      [] p.change = "reschedule" -> Task(p.status, n)
      [] OTHER -> Task(p.status, p.next)

\* Something that will write back the status it reads has begun to read.
WritesBack == hand.at \in {"row", "read"} \/ \E c \in Callers : patch[c].change \in {"reschedule", "rename"}

\* The next slot was computed at some time since the reads.
updateWrites(c) ==
    /\ patch[c].at = "read"
    /\ status' = PatchedStatus(patch[c])
    /\ \E t \in patch[c].since .. now : task' = PatchedTask(patch[c], NextSlot(t))
    /\ crossed' = (crossed \/ (patch[c].change = "activate" /\ status # "active" /\ WritesBack))
    /\ putBack' = (putBack \/ PutsBack(status', task'))
    /\ patch' = [patch EXCEPT ![c] = NoPatch]
    /\ UNCHANGED <<now, scan, hand, fires, open, sent, crashed>>

\* The Automation's Project is archived: the row is paused, its schedule is
\* left alone.
pauseArchivedProject ==
    /\ sent < course.patches
    /\ status = "active"
    /\ status' = "paused"
    /\ sent' = sent + 1
    /\ UNCHANGED <<now, task, scan, hand, patch, fires, open, history, crashed>>

\* The server stops: what is in progress is forgotten.
Crash ==
    /\ crashed < course.crashes
    /\ crashed' = crashed + 1
    /\ scan' = IdleScan /\ hand' = NoHand /\ patch' = [c \in Callers |-> NoPatch]
    /\ UNCHANGED <<now, status, task, fires, open, history, sent>>

ScanStep ==
    \/ listDue \/ fireRefused \/ executeAgentRun \/ startNative \/ finishNative
    \/ scanFails \/ skipDigest

ScheduleNext ==
    /\ \/ Tick \/ ScanStep
       \/ fire \/ finishByHand \/ recordFireReads \/ recordFireWrites
       \/ \E c \in Callers : updateReads(c) \/ updateReadsSchedule(c) \/ updateWrites(c)
       \/ pauseArchivedProject
       \/ Crash
    /\ UNCHANGED course

\* The scheduler runs the scan again and again, a fire in progress ends, and
\* so does a PATCH; time goes on.
ScheduleSpec ==
    /\ ScheduleInit /\ [][ScheduleNext]_scheduleVars
    /\ WF_schedule(Tick) /\ WF_schedule(ScanStep)
    /\ WF_schedule(finishByHand \/ recordFireReads \/ recordFireWrites)
    /\ \A c \in Callers : WF_schedule(updateReadsSchedule(c) \/ updateWrites(c))

-----------------------------------------------------------------------------
(* Properties. *)

\* A slot is fired at most once, whatever is changed while the scan works and
\* wherever the server stops in a Run's fire, unless a PATCH or a fire by hand
\* has written back a slot that had come (repository.ts:567, service.ts:594-609),
\* or the server stopped while a native target worked.
OncePerSlot ==
    ~putBack /\ (course.kind = "run" \/ crashed = 0) => \A s \in Slots : fires[s] <= 1

\* An Automation that is active has a next slot, so a scan will come to it
\* (repository.ts:375-441, 573-596), unless it was activated while another PATCH
\* that names no status, or the record of a fire by hand, had read it as
\* stopped and writes that over the activated schedule (repository.ts:386, 434,
\* 600).
ActiveIsArmed == ~crossed /\ status = "active" => task.status = "active" /\ task.next # 0

\* A native automation run that is running is one the scan or a fire by hand is
\* working on: it is completed however the work ends, but for a digest that is
\* skipped and for a crash (repository.ts:660-681).
AtWork(x) == IF x.at = "working" THEN 1 ELSE 0
NativeIsTended == course.kind # "digest" /\ crashed = 0 => open = AtWork(scan) + AtWork(hand)

\* The schedule, the fires and the automation runs agree.
ScheduleAgrees == ScheduleTypeOK /\ OncePerSlot /\ ActiveIsArmed /\ NativeIsTended

\* Nothing is fired for an Automation that is not active, though it was when
\* the scan read it (targetSupport.ts:117-140).
OnlyActiveFires == (\E s \in Slots : fires'[s] > fires[s]) => status = "active"

\* What stopped an Automation owns its schedule: a scan that still has it
\* neither fires it nor arms it again (repository.ts:567-572).
StoppedStays ==
    status # "active" /\ (\A c \in Callers : patch[c].at = "idle") /\ hand.at = "idle"
        => task' = task

\* The two together: a stop stands, whatever was read before it.
StopStands == [][OnlyActiveFires /\ StoppedStays]_scheduleVars

\* A schedule that is due is taken up: its slot is fired or passed over,
\* unless the Automation stops (service.ts:510-589).
DueIsTaken ==
    \A s \in Slots :
        (status = "active" /\ IsDue /\ task.next = s)
            ~> ~(status = "active" /\ IsDue /\ task.next = s)
=============================================================================
