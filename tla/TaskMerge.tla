----------------------------- MODULE TaskMerge -----------------------------
(***************************************************************************)
(* Merging the branch of one done Task into the main branch of one         *)
(* Location: the server's merge rows and their jobs                        *)
(* (modules/hosts/taskMerges.ts), the execution Runs that work on the      *)
(* branch and their settlement, and the host daemon's merge and settle     *)
(* steps (host-daemon taskMerge.ts, taskWorktree.ts).                      *)
(*                                                                         *)
(* A host step is one action, taken with the Task's lease held; its answer *)
(* reaches the worker, which applies it in a later action, or is lost.  A  *)
(* job that would only be deferred again is not taken.                     *)
(*                                                                         *)
(* Content is the set of attempts whose work it holds.  The main branch    *)
(* counts its moves; a Task commit is what it holds, the move it sits on   *)
(* and the merge whose resolution shaped it (0: none).                     *)
(***************************************************************************)
EXTENDS Naturals, FiniteSets

CONSTANTS
    Runs,        \* the Task's execution Runs, numbered in order of admission
    Merges,      \* the merge rows, numbered
    Bounds       \* what a behaviour may meet: see `left`

ASSUME TaskMergeAssumption ==
    /\ Runs \subseteq Nat \ {0} /\ Merges \subseteq Nat \ {0}
    /\ Bounds \subseteq
         [runs : Nat, merges : Nat, faults : Nat, moves : Nat, closes : Nat, waits : Nat,
          tries : Nat \ {0}, resumes : BOOLEAN, lag : BOOLEAN,
          kinds : SUBSET {"lost", "cut", "throw", "crash"}, checks : SUBSET {"passed", "failed"}]

VARIABLES
    task,      \* "open" or "done"
    run,       \* where each execution Run is
    attempt,   \* which of its attempts that is
    begun,     \* the Runs with a started_at
    merge,     \* the rows of task_merges, each with its job and worker
    main,      \* the main branch: [v, has, tip]
    branch,    \* the Task branch: [on, has, tip]
    wt,        \* the Run the Task record of the host names, or 0
    rec,       \* the host's merge record
    answered,  \* Runs whose settle the host has stored an answer for
    landed,    \* the commit each merge's stored answer to a finish names
    settled,   \* every attempt whose work was put on the branch
    verified,  \* every Task commit that passed its checks
    left       \* what may still happen, one of Bounds to begin with:
               \*   runs, merges: how many Runs and merge rows there may be
               \*   resumes: a failed Run may be held for review and resumed
               \*   lag: a Run admitted by taskRunAhead may start later
               \*   checks: the outcomes verification may have
               \*   kinds: which of "lost" answers, "cut" steps, "throw"s and
               \*     "crash"es there are, and faults: how many in all
               \*   tries: max_attempts of a merge job
               \*   moves, closes, waits: how often a person moves the main
               \*     branch, the Task is closed, a checkout is in the way

run_vars == <<run, attempt, begun>>
host_vars == <<main, branch, wt, rec, answered, landed>>
vars == <<task, run, attempt, begun, merge, main, branch, wt, rec, answered,
          landed, settled, verified, left>>

UnderWay == {"queued", "rebasing", "verifying", "resolving", "waiting"}
Stopped == {"conflict", "verification_failed", "failed"}
Finished == {"merged", "no_changes", "superseded"}

Work == Runs \X {1, 2}
NoCommit == [has |-> {}, onto |-> 0, by |-> 0]
NoBranch == [on |-> FALSE, has |-> {}, tip |-> NoCommit]
NoRec == [st |-> "none", m |-> 0, onto |-> 0, has |-> {}, commit |-> NoCommit]
NoReply == [k |-> "none", onto |-> 0, commit |-> NoCommit]
NoMerge == [st |-> "none", basis |-> 0, onto |-> 0, commit |-> NoCommit,
            res |-> "none", job |-> "none", tries |-> 0,
            at |-> "idle", view |-> "none", reply |-> NoReply]

Init ==
    /\ task = "open"
    /\ run = [r \in Runs |-> "none"] /\ attempt = [r \in Runs |-> 1]
    /\ begun = {}
    /\ merge = [m \in Merges |-> NoMerge]
    /\ main = [v |-> 1, has |-> {}, tip |-> NoCommit] /\ branch = NoBranch
    /\ wt = 0 /\ rec = NoRec /\ answered = {}
    /\ landed = [m \in Merges |-> NoCommit]
    /\ settled = {} /\ verified = {}
    /\ left \in Bounds

Fault(kind) ==
    /\ kind \in left.kinds /\ left.faults > 0
    /\ left' = [left EXCEPT !.faults = @ - 1]

-----------------------------------------------------------------------------
(* Asking for merges, and taking them back                                 *)

\* enqueueTaskMerges.  Basis 0 stands for a close, each of which is new; a
\* late merge is keyed by its Run.
AskedBy(b) ==
    LET kept == [m \in Merges |->
                   IF merge[m].st \in Stopped /\ (b = 0 \/ merge[m].basis # b)
                   THEN [merge[m] EXCEPT !.st = "superseded"] ELSE merge[m]]
        held == \E m \in Merges : kept[m].st \in UnderWay
        known == b # 0 /\ \E m \in Merges : kept[m].basis = b
        free == {m \in Merges : m <= left.merges /\ kept[m].st = "none"}
    IN  IF held \/ known THEN {kept}
        ELSE {[kept EXCEPT ![m] = [NoMerge EXCEPT !.st = "queued", !.basis = b,
                                                  !.job = "pending"]] :
              m \in {f \in free : \A g \in free : f <= g}}

\* withdrawTaskMerges: each merge not finished runs once more.
Withdrawn ==
    [m \in Merges |->
       IF merge[m].st \notin Finished \cup {"none"} /\ merge[m].job = "none"
       THEN [merge[m] EXCEPT !.job = "pending", !.tries = 0] ELSE merge[m]]

Close ==
    /\ task = "open" /\ left.closes > 0
    /\ task' = "done" /\ left' = [left EXCEPT !.closes = @ - 1]
    /\ IF \E r \in Runs : run[r] # "none" THEN merge' \in AskedBy(0)
                                          ELSE UNCHANGED merge
    /\ UNCHANGED <<run_vars, host_vars, settled, verified>>

Reopen ==
    /\ task = "done"
    /\ task' = "open" /\ merge' = Withdrawn
    /\ UNCHANGED <<run_vars, host_vars, settled, verified, left>>

\* wakeTaskMergesForLocations: a stopped merge whose main branch moved on.
Wake(m) ==
    /\ merge[m].st \in Stopped /\ merge[m].job = "none"
    /\ task = "done" /\ merge[m].onto # main.v
    /\ merge' = [merge EXCEPT ![m].job = "pending", ![m].tries = 0]
    /\ UNCHANGED <<task, run_vars, host_vars, settled, verified, left>>

\* A person commits to the main branch.
MoveMain ==
    /\ left.moves > 0
    /\ left' = [left EXCEPT !.moves = @ - 1]
    /\ main' = [main EXCEPT !.v = @ + 1, !.tip = NoCommit]
    /\ UNCHANGED <<task, run_vars, merge, branch, wt, rec, answered, landed,
                   settled, verified>>

-----------------------------------------------------------------------------
(* Execution Runs                                                          *)

InProgress(r) == run[r] \in {"started", "working", "ended"}
Waiting(r) == run[r] \in {"queued", "admitted"}

\* The order of queued Runs: one that started first, then by admission.
Before(q, r) == IF (q \in begun) = (r \in begun) THEN q < r ELSE q \in begun

\* taskRunAhead.
RunAhead(r) ==
    \/ \E q \in Runs \ {r} : InProgress(q) \/ (Waiting(q) /\ Before(q, r))
    \/ \E m \in Merges : merge[m].res = "running"
    \/ \E q \in Runs : run[q] = "owed"
    \/ r \notin begun /\ \E m \in Merges : merge[m].st \in UnderWay

Queue(r) ==
    /\ run[r] = "none" /\ task = "open" /\ r <= left.runs
    /\ \A q \in Runs : q < r => run[q] # "none"
    /\ run' = [run EXCEPT ![r] = "queued"]
    /\ UNCHANGED <<task, attempt, begun, merge, host_vars, settled, verified, left>>

Admit(r) ==
    /\ run[r] = "queued" /\ ~RunAhead(r)
    /\ run' = [run EXCEPT ![r] = IF left.lag THEN "admitted" ELSE "started"]
    /\ begun' = IF left.lag THEN begun ELSE begun \cup {r}
    /\ UNCHANGED <<task, attempt, merge, host_vars, settled, verified, left>>

Start(r) ==
    /\ run[r] = "admitted"
    /\ run' = [run EXCEPT ![r] = "started"] /\ begun' = begun \cup {r}
    /\ UNCHANGED <<task, attempt, merge, host_vars, settled, verified, left>>

\* The attempt of a Run that works, or has worked, in the worktree.
Unit(r) == <<r, attempt[r]>>

\* What is left in the worktree, by a Run nobody settled, is committed.
Leftovers == IF wt = 0 THEN {} ELSE {Unit(wt)}

\* prepareTaskWorktree: the launch takes the worktree over, unless a merge
\* holds it; a rebased merge no longer does.
Launch(r) ==
    /\ run[r] = "started" /\ \A q \in Runs : run[q] # "working"
    /\ \A m \in Merges : merge[m].res # "running"
    /\ IF rec.st \in {"preparing", "conflict"}
       THEN /\ run' = [run EXCEPT ![r] = "ended"]
            /\ UNCHANGED <<branch, wt, rec, answered, settled>>
       ELSE /\ run' = [run EXCEPT ![r] = "working"]
            /\ rec' = NoRec /\ wt' = r
            /\ LET rest == Leftovers \ {Unit(r)}
               IN  /\ branch' = IF ~branch.on
                                THEN [NoBranch EXCEPT !.on = TRUE, !.has = main.has]
                                ELSE IF rest = {} THEN branch
                                ELSE [branch EXCEPT !.has = @ \cup rest, !.tip = NoCommit]
                   /\ settled' = settled \cup rest
                   /\ answered' = IF wt \in {0, r} THEN answered ELSE answered \cup {wt}
    /\ UNCHANGED <<task, attempt, begun, merge, main, landed, verified, left>>

\* The Run's process is over; its settle comes next.
End(r) ==
    /\ run[r] = "working"
    /\ run' = [run EXCEPT ![r] = "ended"]
    /\ UNCHANGED <<task, attempt, begun, merge, host_vars, settled, verified, left>>

\* A stored answer is replayed while the Task record does not name the Run.
Replayed(r) == r \in answered /\ wt # r

\* A merge's record makes the settle wait (mergeHoldsWorktree).
SettleBusy(r) == ~Replayed(r) /\ (rec.st # "none" \/ \E q \in Runs : run[q] = "working")

\* settleTaskRun: the Run's change is committed onto the branch.
HostSettles(r) ==
    IF wt = r
    THEN /\ branch' = [branch EXCEPT !.has = @ \cup {Unit(r)}, !.tip = NoCommit]
         /\ settled' = settled \cup {Unit(r)}
         /\ answered' = answered \cup {r} /\ wt' = 0
    ELSE UNCHANGED <<branch, settled, answered, wt>>

\* enqueueLateTaskMerge.
LateMerge(r) ==
    IF task = "done" /\ (wt = r \/ r \in answered) THEN AskedBy(r) ELSE {merge}

\* PgTaskRunSettler.settle and its retry job: the answer asks for a late
\* merge, "not now" leaves the settle owed.
Settle(r) ==
    /\ run[r] \in {"ended", "owed"}
    /\ \/ /\ run[r] = "ended" /\ SettleBusy(r)
          /\ run' = [run EXCEPT ![r] = "owed"]
          /\ UNCHANGED <<merge, branch, wt, answered, settled, left>>
       \/ /\ ~SettleBusy(r) /\ HostSettles(r) /\ merge' \in LateMerge(r)
          /\ \/ run' = [run EXCEPT ![r] = "over"]
             \/ left.resumes /\ run[r] = "ended" /\ attempt[r] = 1
                /\ run' = [run EXCEPT ![r] = "held"]
          /\ UNCHANGED left
       \/ /\ run[r] = "ended" /\ ~SettleBusy(r)
          /\ Fault("lost") /\ HostSettles(r)
          /\ run' = [run EXCEPT ![r] = "owed"]
          /\ UNCHANGED merge
    /\ UNCHANGED <<task, attempt, begun, main, rec, landed, verified>>

\* A person resumes a failed Run its supervisor held: a new attempt.
Resume(r) ==
    /\ run[r] = "held"
    /\ run' = [run EXCEPT ![r] = "queued"]
    /\ attempt' = [attempt EXCEPT ![r] = 2]
    /\ UNCHANGED <<task, begun, merge, host_vars, settled, verified, left>>

Run(r) ==
    \/ Queue(r) \/ Admit(r) \/ Start(r) \/ Launch(r) \/ End(r)
    \/ Settle(r) \/ Resume(r)

-----------------------------------------------------------------------------
(* The worker of a merge job: the row moves from the state it was read in  *)

Still(m) == merge[m].st = merge[m].view

\* The job is done with, or waits to run again (JobDeferredError: no attempt).
Ended(x) == [x EXCEPT !.job = "none", !.at = "idle", !.view = "none", !.reply = NoReply]

Deferred(x) == [x EXCEPT !.job = "pending", !.at = "idle", !.view = "none",
                         !.reply = NoReply, !.tries = @ - 1]
At(x, a) == [x EXCEPT !.at = a, !.reply = NoReply]
Row(x, s) == [x EXCEPT !.st = s, !.view = s]

\* A mutant: the row moves whatever state it is in by now.
Moves_FromAnywhere(m, y) == y

\* transition: compare-and-swap; a row moved meanwhile is read again later.
Moves(m, y) == IF Still(m) THEN y ELSE Deferred(merge[m])

\* A mutant: a Run not yet started holds the merge too.
TaskBusy_NotStartedToo(m) ==
    \/ \E r \in Runs : InProgress(r) \/ Waiting(r)
    \/ \E o \in Merges \ {m} : merge[o].res = "running"
    \/ \E r \in Runs : run[r] = "owed"

\* A mutant: a Run at work does not hold the merge.
TaskBusy_SettlesOnly(m) ==
    \/ \E o \in Merges \ {m} : merge[o].res = "running"
    \/ \E r \in Runs : run[r] = "owed"

\* taskBusyOnLocation.
TaskBusy(m) ==
    \/ \E r \in Runs : InProgress(r) \/ (Waiting(r) /\ r \in begun)
    \/ \E o \in Merges \ {m} : merge[o].res = "running"
    \/ \E r \in Runs : run[r] = "owed"

\* What the state a merge is in asks for next.
Step(x) ==
    CASE x.st = "resolving" -> IF x.res = "ended" THEN "continue" ELSE "hand"
      [] x.st = "verifying" -> "verify"
      [] x.st = "waiting" -> "check"
      [] OTHER -> "begin"

\* The resolution Run has not ended.
Resolving(x) == x.st = "resolving" /\ x.res \in {"queued", "running"}

\* advanceTaskMerge, up to its loop.
Take(m) ==
    LET x == [merge[m] EXCEPT !.job = "running", !.tries = @ + 1, !.view = merge[m].st]
    IN  /\ merge[m].job = "pending"
        /\ IF x.st \in Finished THEN merge' = [merge EXCEPT ![m] = Ended(x)]
           ELSE IF task # "done" THEN merge' = [merge EXCEPT ![m] = At(x, "give")]
           ELSE /\ ~TaskBusy(m) /\ ~Resolving(x)
                /\ merge' = [merge EXCEPT ![m] = At(x, Step(x))]
        /\ UNCHANGED <<task, run_vars, host_vars, settled, verified, left>>

Applies(m, y) ==
    /\ merge' = [merge EXCEPT ![m] = y]
    /\ UNCHANGED <<task, run_vars, host_vars, settled, verified, left>>

Begin(m) ==
    /\ merge[m].at = "begin"
    /\ Applies(m, IF task # "done" THEN At(merge[m], "give")
                  ELSE Moves(m, At(Row(merge[m], "rebasing"), "prepare")))

\* onStep, on the answer to a prepare or a continue.
Answered(m) ==
    LET x == merge[m]
        facts == [x EXCEPT !.onto = x.reply.onto]
    IN  /\ x.at = "answered"
        /\ \/ /\ x.reply.k = "no_changes"
              /\ Applies(m, Moves(m, At(Row(x, "no_changes"), "delete")))
           \/ /\ x.reply.k = "rebased"
              /\ Applies(m, Moves(m, At(Row([facts EXCEPT !.commit = x.reply.commit],
                                            "verifying"), "verify")))
           \/ /\ x.reply.k = "conflict" /\ x.res = "none"
              /\ Applies(m, Moves(m, Deferred(Row([facts EXCEPT !.res = "queued"], "resolving"))))
           \* Its one try is over, or no Run could be admitted.
           \/ /\ x.reply.k \in {"conflict", "unresolved"}
              /\ Applies(m, [x EXCEPT !.at = "hand"])
           \/ /\ x.reply.k = "refused"
              /\ Applies(m, Moves(m, At(Row(x, "failed"), "return")))

\* The Task's checks, in its worktree as it is.
Verify(m) ==
    /\ merge[m].at = "verify"
    /\ \/ /\ "passed" \in left.checks
          /\ merge' = [merge EXCEPT ![m].at = "check"]
          /\ verified' = IF wt = 0 THEN verified \cup {branch.tip} ELSE verified
       \/ /\ "failed" \in left.checks
          /\ merge' = [merge EXCEPT ![m] =
                 Moves(m, At(Row(merge[m], "verification_failed"), "return"))]
          /\ UNCHANGED verified
    /\ UNCHANGED <<task, run_vars, host_vars, settled, left>>

\* finish looks at the Task before it asks the host.
Check(m) ==
    /\ merge[m].at = "check"
    /\ Applies(m, At(merge[m], IF task = "done" THEN "finish" ELSE "give"))

\* The answer to a finish.
Concluded(m) ==
    LET x == merge[m]
    IN  /\ x.at = "concluded"
        /\ \/ /\ x.reply.k = "merged"
              /\ Applies(m, Ended([x EXCEPT !.st = "merged"]))
           \/ /\ x.reply.k \in {"main_moved", "again"}
              /\ Applies(m, Moves(m, At(Row(x, "rebasing"), "begin")))
           \/ /\ x.reply.k = "waiting"
              /\ Applies(m, Moves(m, Deferred(Row(x, "waiting"))))

\* handConflictToPerson, once the host has put the branch back.
Handed(m) ==
    LET x == merge[m]
    IN  /\ x.at = "handed"
        /\ Applies(m, Moves(m, Ended([x EXCEPT !.st = "conflict",
               !.onto = IF x.reply.onto = 0 THEN @ ELSE x.reply.onto])))

\* giveBack, once the host has: superseded while the Task is still not done,
\* else it starts over.
Given(m) ==
    LET x == merge[m]
    IN  /\ x.at = "given"
        /\ Applies(m, IF task = "done" THEN Moves(m, Deferred(Row(x, "queued")))
                      ELSE Ended(IF x.st \in Finished THEN x
                                 ELSE [x EXCEPT !.st = "superseded"]))

-----------------------------------------------------------------------------
(* The host's steps                                                        *)

\* The Task's lease is a Run's: every step answers task_busy.
TaskHeld ==
    \/ \E r \in Runs : run[r] = "working"
    \/ \E m \in Merges : merge[m].res = "running"

\* A mutant: the branch goes back to the commit the merge was made onto.
Restored_Onto(c) == IF c.st = "none" THEN branch
                    ELSE [on |-> TRUE, has |-> main.has, tip |-> NoCommit]

\* restoreSquash: the branch goes back to the squashed commit.
Restored(c) == IF c.st = "none" THEN branch
               ELSE [on |-> TRUE, has |-> c.has, tip |-> NoCommit]

\* What the branch holds when a merge starts in the worktree: leftovers are
\* committed, unless they are an earlier merge's; another's is put back.
ReadyHas(m) ==
    IF rec.st = "none" THEN branch.has \cup Leftovers
    ELSE IF rec.m = m THEN branch.has ELSE rec.has

\* The answer of an earlier prepare still stands.
Again(m) ==
    /\ rec.m = m
    /\ \/ rec.st = "conflict"
       \/ rec.st = "rebased" /\ rec.onto = main.v /\ branch.tip = rec.commit

\* prepareTaskMerge: what it may answer, and leave behind.
Prepares(m) ==
    LET has == ReadyHas(m)
        squash == [st |-> "preparing", m |-> m, onto |-> main.v, has |-> has,
                   commit |-> NoCommit]
        commit == [has |-> has \cup main.has, onto |-> main.v, by |-> 0]
        on(t) == [on |-> TRUE, has |-> has \cup t.has, tip |-> t]
    IN  IF Again(m) THEN {[k |-> rec.st, branch |-> branch, rec |-> rec]}
        ELSE IF ~branch.on \/ has \subseteq main.has
        THEN {[k |-> "no_changes", rec |-> NoRec,
               branch |-> IF branch.on THEN on(NoCommit) ELSE branch]}
        ELSE {[k |-> "rebased", branch |-> on(commit),
               rec |-> [squash EXCEPT !.st = "rebased", !.commit = commit]],
              [k |-> "cut", branch |-> on(NoCommit), rec |-> squash],
              [k |-> "conflict", branch |-> on(NoCommit), rec |-> [squash EXCEPT !.st = "conflict"]]}

Tells(m, a, reply) == merge' = [merge EXCEPT ![m].at = a, ![m].reply = reply]
Defers(m) == merge' = [merge EXCEPT ![m] = Deferred(@)]

\* An answer reaches the worker, or the job is deferred without it.
TellsOrLoses(m, a, reply) ==
    \/ Tells(m, a, reply) /\ UNCHANGED left
    \/ Fault("lost") /\ Defers(m)

Prepare(m) ==
    /\ merge[m].at = "prepare" /\ ~TaskHeld
    /\ \E o \in Prepares(m) :
          /\ branch' = o.branch /\ rec' = o.rec
          /\ IF o.k = "cut" THEN Fault("cut") /\ Defers(m)
             ELSE TellsOrLoses(m, "answered",
                      [k |-> o.k, commit |-> o.rec.commit,
                       onto |-> IF Again(m) THEN rec.onto ELSE main.v])
    /\ IF Again(m) THEN UNCHANGED <<wt, answered, settled>>
       ELSE /\ wt' = 0
            /\ answered' = IF wt = 0 THEN answered ELSE answered \cup {wt}
            /\ settled' = settled \cup IF rec.st = "none" THEN Leftovers ELSE {}
    /\ UNCHANGED <<task, run_vars, main, landed, verified>>

\* continueTaskMerge, after the resolution Run.
Continue(m) ==
    /\ merge[m].at = "continue" /\ ~TaskHeld
    /\ LET commit == [has |-> rec.has \cup main.has, onto |-> rec.onto, by |-> m]
           says(k, c) == TellsOrLoses(m, "answered",
                             [k |-> k, onto |-> rec.onto, commit |-> c])
       IN  \/ /\ rec.m = m /\ rec.st = "conflict"
              /\ \/ says("unresolved", NoCommit) /\ UNCHANGED <<branch, rec>>
                 \/ /\ says("rebased", commit)
                    /\ branch' = [on |-> TRUE, has |-> commit.has, tip |-> commit]
                    /\ rec' = [rec EXCEPT !.st = "rebased", !.commit = commit]
           \/ /\ rec.m = m /\ rec.st = "rebased"
              /\ says("rebased", rec.commit) /\ UNCHANGED <<branch, rec>>
           \/ /\ rec.m # m \/ rec.st = "preparing"
              /\ says("refused", NoCommit) /\ UNCHANGED <<branch, rec>>
    /\ UNCHANGED <<task, run_vars, main, wt, answered, landed, settled, verified>>

\* The host no longer holds this merge's rebase as the row records it.
Stale(m) ==
    \/ rec.m # m \/ rec.st # "rebased"
    \/ rec.onto # merge[m].onto \/ rec.commit # merge[m].commit
    \/ branch.tip # merge[m].commit

\* Main is no longer what the Task commit sits on.
MainMoved(m) == main.v # merge[m].onto

Lands(m) ==
    main' = [v |-> main.v + 1, has |-> main.has \cup merge[m].commit.has,
             tip |-> merge[m].commit]

\* recordMerged and cleanUpMerged: the branch goes while it stands there.
CleansUp(m, commit) ==
    /\ landed' = [landed EXCEPT ![m] = commit]
    /\ rec' = IF rec.m = m THEN NoRec ELSE rec
    /\ branch' = IF branch.tip = commit THEN NoBranch ELSE branch

\* finishTaskMerge.
Finish(m) ==
    LET says(k) == TellsOrLoses(m, "concluded", [NoReply EXCEPT !.k = k])
        still == UNCHANGED <<main, branch, rec, landed>>
        stored == landed[m]
    IN  /\ merge[m].at = "finish"
        /\ \/ /\ stored # NoCommit /\ ~TaskHeld
              /\ says("merged") /\ CleansUp(m, stored) /\ UNCHANGED main
           \/ stored # NoCommit /\ TaskHeld /\ says("merged") /\ still
           \/ stored = NoCommit /\ ~TaskHeld /\ Stale(m) /\ says("again") /\ still
           \/ /\ stored = NoCommit /\ ~TaskHeld /\ ~Stale(m)
              /\ \/ /\ main.tip = merge[m].commit
                    /\ says("merged") /\ CleansUp(m, merge[m].commit) /\ UNCHANGED main
                 \/ /\ main.tip # merge[m].commit /\ MainMoved(m)
                    /\ says("main_moved") /\ still
                 \/ /\ main.tip # merge[m].commit /\ ~MainMoved(m)
                    /\ \/ says("merged") /\ Lands(m) /\ CleansUp(m, merge[m].commit)
                       \/ /\ Lands(m) /\ Fault("cut") /\ Defers(m)
                          /\ UNCHANGED <<branch, rec, landed>>
                       \/ /\ left.waits > 0 /\ Tells(m, "concluded", [NoReply EXCEPT !.k = "waiting"])
                          /\ left' = [left EXCEPT !.waits = @ - 1] /\ still
        /\ UNCHANGED <<task, run_vars, wt, answered, settled, verified>>

\* abortTaskMerge: what this merge holds is given back.
Aborts(m) ==
    IF rec.m = m THEN branch' = Restored(rec) /\ rec' = NoRec
                 ELSE UNCHANGED <<branch, rec>>

HostRest == UNCHANGED <<task, run_vars, main, wt, answered, landed, settled, verified>>

Hand(m) ==
    /\ merge[m].at = "hand" /\ ~TaskHeld
    /\ Aborts(m) /\ TellsOrLoses(m, "handed", merge[m].reply) /\ HostRest

\* giveBack, up to the host's answer; a resolution Run not started is cancelled.
Give(m) ==
    LET x == [merge[m] EXCEPT !.res = IF @ = "queued" THEN "cancelled" ELSE @]
    IN  /\ merge[m].at = "give"
        /\ \/ /\ TaskHeld /\ UNCHANGED <<branch, rec, left>>
              /\ merge' = [merge EXCEPT ![m] = Deferred(x)]
           \/ /\ ~TaskHeld /\ Aborts(m)
              /\ \/ merge' = [merge EXCEPT ![m] = At(x, "given")] /\ UNCHANGED left
                 \/ Fault("lost") /\ merge' = [merge EXCEPT ![m] = Deferred(x)]
        /\ HostRest

\* block's abort: best effort.
Return(m) ==
    /\ merge[m].at = "return"
    /\ merge' = [merge EXCEPT ![m] = Ended(@)]
    /\ \/ ~TaskHeld /\ Aborts(m) /\ UNCHANGED left
       \/ TaskHeld /\ UNCHANGED <<branch, rec, left>>
       \/ Fault("lost") /\ UNCHANGED <<branch, rec>>
    /\ HostRest

\* deleteTaskBranch, after no_changes: best effort too.
Delete(m) ==
    /\ merge[m].at = "delete"
    /\ merge' = [merge EXCEPT ![m] = Ended(@)]
    /\ IF TaskHeld THEN UNCHANGED <<branch, wt, rec>>
       ELSE branch' = NoBranch /\ wt' = 0 /\ rec' = NoRec
    /\ UNCHANGED <<task, run_vars, main, answered, landed, settled, verified, left>>

\* The host answers task_busy: the job is deferred.
Busy(m) ==
    /\ TaskHeld
    /\ \/ merge[m].at \in {"prepare", "continue", "hand"}
       \/ merge[m].at = "finish" /\ landed[m] = NoCommit
    /\ Applies(m, Deferred(merge[m]))

\* The resolution Run works only in the conflict of its own merge.
Resolve(m) ==
    /\ \/ merge[m].res = "queued" /\ ~TaskHeld
          /\ merge' = [merge EXCEPT ![m].res =
                 IF rec.m = m /\ rec.st = "conflict" THEN "running" ELSE "ended"]
       \/ merge[m].res = "running"
          /\ \E s \in {"ended", "cancelled"} : merge' = [merge EXCEPT ![m].res = s]
    /\ UNCHANGED <<task, run_vars, host_vars, settled, verified, left>>

-----------------------------------------------------------------------------
(* The job fails                                                           *)

\* The server dies: its jobs are claimed again, or given up.
Crash ==
    /\ Fault("crash") /\ \E m \in Merges : merge[m].job = "running"
    /\ merge' = [m \in Merges |->
           IF merge[m].job # "running" THEN merge[m]
           ELSE IF merge[m].tries < left.tries
           THEN [Ended(merge[m]) EXCEPT !.job = "pending"] ELSE Ended(merge[m])]
    /\ UNCHANGED <<task, run_vars, host_vars, settled, verified>>

\* stopAfterExhaustedAttempts.
GivenUp(x) == IF x.st \in Finished THEN Ended(x) ELSE At(Row(x, "failed"), "return")

\* A step throws.
Throw(m) ==
    /\ Fault("throw") /\ merge[m].at \notin {"idle", "return", "delete"}
    /\ merge' = [merge EXCEPT ![m] =
           IF @.tries < left.tries THEN [Ended(@) EXCEPT !.job = "pending"]
           ELSE GivenUp(@)]
    /\ UNCHANGED <<task, run_vars, host_vars, settled, verified>>

-----------------------------------------------------------------------------
Works(m) ==
    \/ Begin(m) \/ Prepare(m) \/ Continue(m) \/ Answered(m) \/ Verify(m)
    \/ Check(m) \/ Finish(m) \/ Concluded(m) \/ Hand(m) \/ Handed(m)
    \/ Give(m) \/ Given(m) \/ Return(m) \/ Delete(m) \/ Busy(m)

Next ==
    \/ Close \/ Reopen \/ MoveMain \/ Crash
    \/ \E r \in Runs : Run(r)
    \/ \E m \in Merges : Wake(m) \/ Take(m) \/ Works(m) \/ Resolve(m) \/ Throw(m)

Spec == Init /\ [][Next]_vars

-----------------------------------------------------------------------------
(* Properties                                                              *)

\* Every variable has its type.
TypeOK ==
    /\ task \in {"open", "done"}
    /\ run \in [Runs -> {"none", "queued", "admitted", "started", "working",
                         "ended", "owed", "held", "over"}]
    /\ attempt \in [Runs -> {1, 2}] /\ begun \subseteq Runs
    /\ \A m \in Merges :
          /\ merge[m].st \in UnderWay \cup Stopped \cup Finished \cup {"none"}
          /\ merge[m].res \in {"none", "queued", "running", "ended", "cancelled"}
          /\ merge[m].job \in {"none", "pending", "running"}
          /\ merge[m].tries \in 0..left.tries
          /\ (merge[m].at = "idle") = (merge[m].job # "running")
    /\ wt \in Runs \cup {0} /\ rec.m \in Merges \cup {0}
    /\ rec.st \in {"none", "preparing", "conflict", "rebased"}
    /\ answered \subseteq Runs
    /\ main.has \subseteq Work /\ branch.has \subseteq Work /\ settled \subseteq Work
    /\ left.faults \in Nat /\ left.moves \in Nat /\ left.closes \in Nat /\ left.waits \in Nat

\* What was put on the Task branch is on it, in the squashed commit of a
\* merge, or on the main branch.
Kept == settled \subseteq main.has \cup branch.has \cup rec.has

Deletes == \E m \in Merges : merge[m].at = "delete" /\ merge'[m].at # "delete"

\* Settled work is never lost by a launch, a merge, its abort, its failure or
\* a cut-short step; only the delete after no_changes may take it
\* (taskMerge.ts:341-352, 567-651; taskWorktree.ts:1148-1156).
NothingLost == [][Kept => (Kept' \/ Deletes)]_vars

\* What lands on the main branch is a commit that passed its checks on the
\* very commit of main it lands on (taskMerges.ts:515-542; taskMerge.ts:790-829).
LandedIsVerified ==
    [][(main'.has # main.has) => (main'.tip \in verified /\ main'.tip.onto = main.v)]_vars

\* At most one merge of the Task is under way on the Location
\* (taskMerges.ts:166-176, 828-877).
OneUnderWay ==
    \A m, o \in Merges : merge[m].st \in UnderWay /\ merge[o].st \in UnderWay => m = o

\* A conflict is the person's to merge by hand: the host has put the branch
\* back (taskMerges.ts:688-714).
ConflictIsThePersons ==
    \A m \in Merges : merge[m].st = "conflict" /\ merge[m].at = "idle" => rec.m # m

\* Whatever holds the worktree against the Task's next Run is held by a merge
\* not finished, unless it failed by a throw and another was asked for since
\* (taskMerges.ts:716-751).
HeldIsAnsweredFor ==
    /\ rec.st \in {"preparing", "conflict"}
    /\ "throw" \in left.kinds => \A m, o \in Merges : merge[m].st # "none" /\ merge[o].st # "none" => m = o
    => rec.m \in Merges /\ merge[rec.m].st \in UnderWay \cup Stopped

\* A merge under way has a job to carry it on, unless the server dies in the
\* last attempt of one (taskMerges.ts:379-388).
UnderWayHasJob == "crash" \notin left.kinds => \A m \in Merges : merge[m].st \in UnderWay => merge[m].job # "none"

\* The work of a done Task that main lacks has a merge not finished to land
\* it or to tell a person, unless a Run settled while a merge of it was past
\* its preparation (taskMerges.ts:316-321).
NothingLeftBehind ==
    /\ ~left.lag /\ ~left.resumes /\ left.kinds \subseteq {"crash"}
    /\ task = "done" /\ ~((settled \cap branch.has) \subseteq main.has)
    /\ \A r \in Runs : ~InProgress(r) /\ run[r] # "owed"
    => \E m \in Merges : merge[m].st \notin Finished \cup {"none"}

\* A Run that settles onto the branch of a done Task leaves a merge that is
\* not finished, unless it is the second of its attempts
\* (taskMerges.ts:316-321).
LateWorkIsAskedFor ==
    [][(/\ ~left.resumes
        /\ task = "done" /\ settled' # settled
        /\ \E r \in Runs : run[r] \in {"ended", "owed"} /\ run'[r] \in {"over", "held"})
       => \E m \in Merges : merge'[m].st \in UnderWay \cup Stopped]_vars

\* The main branch does not move for work that is not done any more
\* (taskMerges.ts:621-623).
LandsDoneWork == [][(main'.has # main.has) => task = "done"]_vars

\* A resumed Run meets no merge past queued (agentRunHandler.ts:334-341).
ResumesBeforeMerge ==
    \A r \in Runs, m \in Merges :
        run[r] = "working" /\ merge[m].st \in UnderWay => merge[m].st = "queued"

\* No settle waits for a merge that waits for that settle
\* (taskMerges.ts:1062-1068; taskWorktree.ts:1100).
NoMutualWait ==
    \A r \in Runs, m \in Merges :
        ~(task = "done" /\ run[r] = "owed" /\ SettleBusy(r)
          /\ merge[m].st \in UnderWay /\ merge[m].job = "pending"
          /\ \A q \in Runs : run[q] \notin {"working", "started", "ended"})

\* What the merge rows, their jobs and the host owe each other.
MergesAnswer ==
    /\ TypeOK /\ ConflictIsThePersons /\ HeldIsAnsweredFor
    /\ OneUnderWay /\ UnderWayHasJob

\* What happens to settled work: it is kept and asked for, and lands verified.
WorkIsKept == NothingLost /\ LateWorkIsAskedFor /\ LandedIsVerified
=============================================================================
