----------------------------- MODULE Delegation -----------------------------
(***************************************************************************)
(* The Runs of one Agent group in one Conversation: recipients of one       *)
(* message that run one after another, the children they delegate, a parent *)
(* that parks until its children's results are there                        *)
(* (server/src/modules/agentGroups/lifecycleProjector.ts,                    *)
(* runs/repository.ts, runs/managedAgentDelegationTools.ts) and the gate an  *)
(* admission passes before its job is enqueued (rooms/quotaGate.ts,          *)
(* sessions/conversationRuntimeSessionRepository.ts).                        *)
(*                                                                           *)
(* `run` is the table of Run rows, `worker` what the process does for a Run: *)
(* the job handler's turn under the execution lock and the transactions it   *)
(* makes after the turn.  One action is one transaction; a crash falls       *)
(* between two of them.                                                      *)
(***************************************************************************)
EXTENDS Naturals, Sequences, FiniteSets, SequencesExt

CONSTANTS
  Recipients,   \* the recipients of the message, in order: a sequence of Runs
  Kids,         \* the Runs that may be delegated
  Reads,        \* those that are read-only reviews, a subset of Kids
  Persons,      \* Runs of a person's later messages, each a group of its own
  None,         \* no Run
  Messages      \* the messages that may begin a behaviour: see `message`

Team == ToSet(Recipients) \cup Kids
Runs == Team \cup Persons

ASSUME RunsAssumption ==
  /\ Reads \subseteq Kids /\ None \notin Runs /\ Len(Recipients) > 0
  /\ Persons \cap Team = {} /\ Kids \cap ToSet(Recipients) = {}

Counted == {"parks", "cancels", "crashes", "pauses", "quota"}

VARIABLES
  message,  \* what a behaviour begins with and may meet, fixed from the start:
            \*   fromAgent: an Agent's message, whose recipients pass the gate
            \*   scopes: what a Run may wait for, "own" children or the recipients of the "turn"
            \*   recipients: how many of Recipients it names
            \*   kids, persons: the Runs that may be delegated, and spoken for
            \*   and for each member of Counted how often it may come
  run,      \* the Run rows
  worker,   \* what the process does for each Run
  spawned,  \* the children in the order they were created
  group,    \* the group's status: "active", "paused"
  full,     \* the subscription's window is past the reserve line
  toRoom,   \* the children whose result was posted to the Room as a message
  recheck,  \* the parked Runs a reactivated group still looks at
  spent     \* how often each member of Counted came

table == <<run, worker, spawned, group, full, toRoom, recheck, spent>>
vars == <<message, table>>

Ended == {"succeeded", "failed"}     \* isTerminalRunStatus; cancelled reads as failed
Going == {"queued", "running", "cancelling"}
Markers == {"quota", "turn"}         \* output_json.waiting_for_quota, .waiting_for_turn

Row == [status : Going \cup Ended \cup {"none", "waiting"},
        job : BOOLEAN,                 \* a pending, claimed or running agent_run job
        held : SUBSET Markers,
        deps : SUBSET Team, serial : BOOLEAN, waits : BOOLEAN,   \* waiting_for_results
        given : SUBSET Team,           \* delivered_run_ids
        parent : Runs \cup {None},
        open : BOOLEAN,                \* its delegation is queued or running
        chat : BOOLEAN]                \* its chat turn is completed

Work == {"idle", "turn", "yielded", "queued", "ended", "resumed", "told", "leaving", "lost"}

TypeOK ==
  /\ run \in [Runs -> Row] /\ worker \in [Runs -> Work]
  /\ spawned \in Seq(Kids) /\ group \in {"active", "paused"} /\ full \in BOOLEAN
  /\ toRoom \subseteq Kids /\ recheck \subseteq Team
  /\ message \in Messages /\ spent \in [Counted -> Nat]

Fresh == [status |-> "none", job |-> FALSE, held |-> {}, deps |-> {}, serial |-> FALSE,
          waits |-> FALSE, given |-> {}, parent |-> None, open |-> FALSE, chat |-> FALSE]

(* The dispatch of a message: the first recipient has its job, every later   *)
(* one is parked behind all that precede it.                                 *)
Dispatched(i) ==
  IF i = 1 THEN [Fresh EXCEPT !.status = "queued", !.job = TRUE]
  ELSE [Fresh EXCEPT !.status = "waiting", !.deps = {Recipients[j] : j \in 1 .. (i - 1)},
                     !.serial = TRUE, !.waits = TRUE]

Init ==
  /\ message \in Messages
  /\ run = [r \in Runs |-> IF \E i \in 1 .. message.recipients : Recipients[i] = r
                           THEN Dispatched(CHOOSE i \in 1 .. message.recipients : Recipients[i] = r)
                           ELSE Fresh]
  /\ worker = [r \in Runs |-> "idle"]
  /\ spawned = <<>> /\ group = "active" /\ full = FALSE /\ toRoom = {} /\ recheck = {}
  /\ spent = [b \in Counted |-> 0]

Spend(b) == spent[b] < message[b] /\ spent' = [spent EXCEPT ![b] = @ + 1]

Locked(r) == worker[r] \in {"turn", "lost"}      \* its row of run_execution_locks

-----------------------------------------------------------------------------
(* The conversation's turn.                                                  *)

SameGroup(r, s) == r = s \/ {r, s} \subseteq Team

Jobless(rows) == {r \in Runs : rows[r].status = "queued" /\ ~rows[r].job}
Held(rows) == {r \in Jobless(rows) : rows[r].held # {}}

(* Everything that a relation `next` leads to from the Runs in `from`.       *)
Reach(from, next(_)) ==
  LET Within[n \in Nat] == IF n = 0 THEN from
                           ELSE Within[n - 1] \cup UNION {next(s) : s \in Within[n - 1]}
  IN  Within[Cardinality(Runs)]

(* A held Run and the Runs parked on it, directly or through others.         *)
Blocked(rows) ==
  IF Held(rows) = {} THEN {}
  ELSE LET Waiters(s) == {w \in Runs : rows[w].status = "waiting" /\ s \in rows[w].deps}
       IN  Reach(Held(rows), Waiters)

(* Whether another Run holds the turn against `r`, a Run being admitted, or  *)
(* against a person's message (None).                                        *)
TakesTurn(row) == row.status \in Going \cup {"waiting"} \/ (row.status = "succeeded" /\ ~row.chat)

GivesWay(rows, x) ==       \* its group gave the turn up for one of it that is held
  /\ \E h \in Held(rows) : SameGroup(h, x)
  /\ rows[x].status = "waiting" \/ x \in Jobless(rows)

SharesTurn_Whole(rows, x, r) == r # None /\ SameGroup(r, x)

SharesTurn(rows, x, r) ==  \* `r` is admitted beside it in the one turn of their group
  /\ r # None /\ SameGroup(r, x)
  /\ \/ x = r \/ rows[x].status \in {"waiting", "succeeded"}
     \/ x \in Jobless(rows)
     \/ {x, r} \subseteq Reads

TurnTaken(rows, r) ==
  \E x \in Runs \ Blocked(rows) :
    TakesTurn(rows[x]) /\ ~GivesWay(rows, x) /\ ~SharesTurn(rows, x, r)

-----------------------------------------------------------------------------
(* Admissions: each maps the table of Run rows to the one it leaves.         *)

EnqueueJob(rows, r) == [rows EXCEPT ![r].held = {}, ![r].job = TRUE]   \* ensureAgentRunJob: one live job

EnqueueWhenTurnFree(rows, r) ==
  IF TurnTaken(rows, r)
  THEN IF rows[r].status = "queued" THEN [rows EXCEPT ![r].held = @ \cup {"turn"}] ELSE rows
  ELSE EnqueueJob(rows, r)

AdmitHeld(rows, r) ==
  IF TurnTaken(rows, r) \/ rows[r].status # "queued" \/ "quota" \notin rows[r].held
  THEN rows ELSE EnqueueJob(rows, r)

AdmitAgentOrigin(rows, r) ==
  CASE rows[r].job -> [rows EXCEPT ![r].held = @ \ {"quota"}]
    [] ~rows[r].job /\ full ->
         IF rows[r].status = "queued" THEN [rows EXCEPT ![r].held = @ \cup {"quota"}] ELSE rows
    [] ~rows[r].job /\ ~full ->
         IF "quota" \in rows[r].held THEN AdmitHeld(rows, r) ELSE EnqueueWhenTurnFree(rows, r)

(* The FIFO of a parent's children: a writer runs alone, reviews together.   *)
(* With nothing to do among `p`'s own, its owner's FIFO goes on.             *)
QueueChildren(rows, p) ==
  LET Children(x) == SelectSeq(spawned, LAMBDA c : rows[c].parent = x)
      Active(x) == {c \in ToSet(Children(x)) :
                      \/ rows[c].status \in {"running", "cancelling", "waiting"}
                      \/ rows[c].status = "queued" /\ rows[c].job}
      Queue(x) == SelectSeq(Children(x), LAMBDA c : c \in Jobless(rows))
      Reviews(x) == SelectSeq(Queue(x), LAMBDA c : \A i \in DOMAIN Queue(x) :
                                 (\E j \in i .. Len(Queue(x)) : Queue(x)[j] = c) => Queue(x)[i] \in Reads)
      AtFront(x) == CASE ~(Active(x) \subseteq Reads) -> <<>>
                    [] Active(x) \subseteq Reads /\ Reviews(x) # <<>> -> Reviews(x)
                    [] Active(x) = {} /\ Reviews(x) = <<>> -> SubSeq(Queue(x), 1, 1)
                    [] OTHER -> <<>>
      Turn[x \in Runs] ==
        IF Active(x) = {} /\ Queue(x) = <<>>
        THEN IF rows[x].parent = None THEN rows ELSE Turn[rows[x].parent]
        ELSE FoldLeft(AdmitAgentOrigin, rows, AtFront(x))
  IN  Turn[p]

(* A parked Run is requeued once all it waits for has ended, the group is    *)
(* active, no execution lock of its own is left and, for a later recipient,  *)
(* nothing of the group may run before it.                                   *)
Ready(rows, w) ==
  /\ rows[w].status = "waiting" /\ rows[w].waits /\ ~Locked(w) /\ group = "active"
  /\ \A d \in rows[w].deps : rows[d].status \in Ended
  /\ rows[w].serial => \A x \in Team \ {w} : rows[x].status \notin Going

Requeued(rows, w) ==
  [rows EXCEPT ![w].status = "queued", ![w].waits = FALSE,
               ![w].given = IF rows[w].serial THEN @ ELSE @ \cup rows[w].deps]

Resume(rows, w) ==
  CASE ~Ready(rows, w) -> rows
    [] Ready(rows, w) /\ rows[w].serial /\ message.fromAgent -> AdmitAgentOrigin(Requeued(rows, w), w)
    [] OTHER -> EnqueueWhenTurnFree(Requeued(rows, w), w)

InOrder(S) == SelectSeq(Recipients \o spawned, LAMBDA r : r \in S)

(* The Runs parked on one that has ended, and what resuming them leaves.     *)
Waiting(rows, d) == {w \in Team : rows[w].status = "waiting" /\ d \in rows[w].deps}
ResumeWaiting(rows, d) == FoldLeft(Resume, rows, InOrder(Waiting(rows, d)))

(* Every later recipient is looked at when a delegated child ends.           *)
ResumeSerialized(rows) ==
  FoldLeft(Resume, rows, InOrder({w \in Team : rows[w].status = "waiting" /\ rows[w].serial}))
-----------------------------------------------------------------------------
(* A Run's turn.                                                             *)

(* A worker takes the job: the turn begins under the execution lock.         *)
Start(r) ==
  /\ worker[r] = "idle" /\ run[r].job /\ run[r].status = "queued" /\ "quota" \notin run[r].held
  /\ run' = [run EXCEPT ![r].status = "running"]
  /\ worker' = [worker EXCEPT ![r] = "turn"]
  /\ UNCHANGED <<spawned, group, full, toRoom, recheck, spent>>

(* A job whose Run is not there to be executed: a parked or held one is      *)
(* skipped, an ended one is settled again, one left `running` by a dead      *)
(* worker ends.                                                              *)
Skip(r) ==
  /\ worker[r] = "idle" /\ run[r].job
  /\ \/ /\ run[r].status = "waiting" \/ (run[r].status = "queued" /\ "quota" \in run[r].held)
        /\ run' = [run EXCEPT ![r].job = FALSE] /\ UNCHANGED worker
     \/ /\ run[r].status \in Ended
        /\ worker' = [worker EXCEPT ![r] = "ended"] /\ UNCHANGED run
     \/ /\ run[r].status \in {"running", "cancelling"}
        /\ run' = [run EXCEPT ![r].status = "failed"]
        /\ worker' = [worker EXCEPT ![r] = "ended"]
  /\ UNCHANGED <<spawned, group, full, toRoom, recheck, spent>>

(* agent.delegate: the child is created queued, without a job.               *)
Delegate(p, c) ==
  /\ worker[p] = "turn" /\ run[p].status \in {"running", "waiting"} /\ p \in Team
  /\ c \in message.kids /\ run[c].status = "none" /\ group = "active"
  /\ p \in Reads => c \in Reads
  /\ run' = [run EXCEPT ![c].status = "queued", ![c].parent = p, ![c].open = TRUE]
  /\ spawned' = Append(spawned, c)
  /\ UNCHANGED <<worker, group, full, toRoom, recheck, spent>>

(* What agent.wait_for_results may name, without the caller itself.          *)
Awaitable(p) ==
  {d \in Team \ {p} : \/ "own" \in message.scopes /\ run[d].parent = p
                      \/ "turn" \in message.scopes /\ d \in ToSet(Recipients)
                         /\ run[d].status # "none"}

(* The Runs a Run waits for, while it waits.                                 *)
WaitsFor(rows, d) ==
  IF rows[d].status = "waiting" /\ rows[d].waits THEN rows[d].deps ELSE {}

WaitsOnWaiter(p, D) == LET Deps(d) == WaitsFor(run, d) IN p \in Reach(D, Deps)

(* agent.wait_for_results: with the rows locked, the Run parks unless all it *)
(* names have ended already or one of them waits for it.                     *)
Park(p) ==
  \E D \in SUBSET Awaitable(p) :
    /\ D # {} /\ worker[p] = "turn" /\ run[p].status = "running" /\ p \in Team
    /\ \E d \in D : run[d].status \notin Ended
    /\ ~WaitsOnWaiter(p, D)
    /\ run' = [run EXCEPT ![p].status = "waiting", ![p].waits = TRUE,
                          ![p].deps = D, ![p].serial = FALSE]
    /\ Spend("parks")
    /\ UNCHANGED <<worker, spawned, group, full, toRoom, recheck>>

(* The turn ends: the lock goes, and a Run that is not parked has ended.     *)
EndTurn(r) ==
  /\ worker[r] = "turn"
  /\ \/ /\ run[r].status = "waiting"
        /\ worker' = [worker EXCEPT ![r] = "yielded"] /\ UNCHANGED run
     \/ \E s \in Ended :
          /\ run[r].status \in {"running", "cancelling"}
          /\ run[r].status = "cancelling" => s = "failed"
          /\ run' = [run EXCEPT ![r].status = s]
          /\ worker' = [worker EXCEPT ![r] = "ended"]
  /\ UNCHANGED <<spawned, group, full, toRoom, recheck, spent>>

YieldToChildren_Keeps(r) ==
  /\ worker[r] = "yielded"
  /\ worker' = [worker EXCEPT ![r] = IF run[r].status = "waiting" THEN "queued" ELSE "leaving"]
  /\ UNCHANGED <<run, spawned, group, full, toRoom, recheck, spent>>

(* A parked Run has yielded: its children may go.                            *)
YieldToChildren(r) ==
  /\ worker[r] = "yielded"
  /\ run' = IF run[r].status = "waiting" THEN QueueChildren(run, r) ELSE run
  /\ worker' = [worker EXCEPT ![r] = IF run[r].status = "waiting" THEN "queued" ELSE "leaving"]
  /\ UNCHANGED <<spawned, group, full, toRoom, recheck, spent>>

(* And it looks once more at what it waits for, its lock being gone.  The    *)
(* row is the one read before its children went (`current`); the statement   *)
(* reads the row as it is.                                                   *)
ReconcileWait(r) ==
  /\ worker[r] = "queued"
  /\ run' = Resume(run, r)
  /\ worker' = [worker EXCEPT ![r] = "leaving"]
  /\ UNCHANGED <<spawned, group, full, toRoom, recheck, spent>>

(* The handler returns and its job completes.                                *)
Leave(r) ==
  /\ worker[r] = "leaving"
  /\ run' = [run EXCEPT ![r].job = FALSE]
  /\ worker' = [worker EXCEPT ![r] = "idle"]
  /\ UNCHANGED <<spawned, group, full, toRoom, recheck, spent>>

CloseDelegation_LateRead(c) ==
  /\ worker[c] = "ended" /\ c \in Kids
  /\ IF run[c].open
     THEN /\ run' = ResumeSerialized(QueueChildren(
                       ResumeWaiting([run EXCEPT ![c].open = FALSE], c), c))
          /\ toRoom' = IF Waiting(run', c) = {} THEN toRoom \cup {c} ELSE toRoom
     ELSE UNCHANGED <<run, toRoom>>
  /\ worker' = [worker EXCEPT ![c] = "told"]
  /\ UNCHANGED <<spawned, group, full, recheck, spent>>

(* A delegated child has ended: its delegation is closed once; whoever waits *)
(* for it is looked at, the FIFO goes on, the later recipients are looked    *)
(* at, and with nobody waiting the Room is told.                             *)
CloseDelegation(c) ==
  /\ worker[c] = "ended" /\ c \in Kids
  /\ IF run[c].open
     THEN /\ run' = ResumeSerialized(QueueChildren(
                       ResumeWaiting([run EXCEPT ![c].open = FALSE], c), c))
          /\ toRoom' = IF Waiting(run, c) = {} THEN toRoom \cup {c} ELSE toRoom
     ELSE UNCHANGED <<run, toRoom>>
  /\ worker' = [worker EXCEPT ![c] = "told"]
  /\ UNCHANGED <<spawned, group, full, recheck, spent>>

(* A recipient has ended: whoever waits for it is looked at, then, in a      *)
(* transaction of its own, its children go.                                  *)
ReplyOfRecipient(r) ==
  /\ worker[r] = "ended" /\ r \notin Kids
  /\ run' = IF r \in Team THEN ResumeWaiting(run, r) ELSE run
  /\ worker' = [worker EXCEPT ![r] = "resumed"]
  /\ UNCHANGED <<spawned, group, full, toRoom, recheck, spent>>

ChildrenOfRecipient(r) ==
  /\ worker[r] = "resumed"
  /\ run' = IF r \in Team THEN QueueChildren(run, r) ELSE run
  /\ worker' = [worker EXCEPT ![r] = "told"]
  /\ UNCHANGED <<spawned, group, full, toRoom, recheck, spent>>

(* The chat turn of an ended Run is completed.                               *)
CompleteChat(r) ==
  /\ worker[r] = "told"
  /\ run' = [run EXCEPT ![r].chat = TRUE]
  /\ worker' = [worker EXCEPT ![r] = "leaving"]
  /\ UNCHANGED <<spawned, group, full, toRoom, recheck, spent>>

-----------------------------------------------------------------------------
(* The scheduler, persons, the subscription's window and failures.           *)

(* A Run parked for the turn is admitted when it is free: as a turn          *)
(* completes and on every minute's pass.                                     *)
AdmitTurnParked(r) ==
  /\ run[r].status = "queued" /\ "turn" \in run[r].held
  /\ ~TurnTaken(run, r)
  /\ run' = EnqueueJob(run, r)
  /\ UNCHANGED <<worker, spawned, group, full, toRoom, recheck, spent>>

(* The minute's pass over the Runs held at the reserve line.                 *)
ReleaseHeld(r) ==
  /\ run[r].status = "queued" /\ "quota" \in run[r].held /\ ~full
  /\ run' = AdmitHeld(run, r) /\ run' # run
  /\ UNCHANGED <<worker, spawned, group, full, toRoom, recheck, spent>>

(* The window passes the reserve line, and resets.                           *)
Window ==
  /\ full' = ~full /\ (~full => spent["quota"] < message.quota)
  /\ spent' = IF full THEN spent ELSE [spent EXCEPT !["quota"] = @ + 1]
  /\ UNCHANGED <<run, worker, spawned, group, toRoom, recheck>>

(* A person speaks while nobody has the turn.                                *)
Speak(q) ==
  /\ q \in message.persons /\ run[q].status = "none" /\ ~TurnTaken(run, None)
  /\ run' = [run EXCEPT ![q].status = "queued", ![q].job = TRUE]
  /\ UNCHANGED <<worker, spawned, group, full, toRoom, recheck, spent>>

(* A person cancels a Run: first the intent, then, with nothing of it left   *)
(* running, its end; a turn that is on ends by itself.  (A job it still had  *)
(* finds it ended and only settles it again: it is taken with this one.)     *)
Cancel(r) ==
  /\ r \in Team /\ run[r].status \in {"queued", "running", "waiting"}
  /\ run' = [run EXCEPT ![r].status = "cancelling"]
  /\ Spend("cancels")
  /\ UNCHANGED <<worker, spawned, group, full, toRoom, recheck>>

ConfirmCancel(r) ==
  /\ run[r].status = "cancelling" /\ worker[r] = "idle"
  /\ run' = [run EXCEPT ![r].status = "failed"]
  /\ worker' = [worker EXCEPT ![r] = "ended"]
  /\ UNCHANGED <<spawned, group, full, toRoom, recheck, spent>>

Pause ==
  /\ group = "active" /\ group' = "paused" /\ Spend("pauses")
  /\ UNCHANGED <<run, worker, spawned, full, toRoom, recheck>>

(* The group is active again: every Run still parked is looked at, each in a *)
(* transaction of its own.                                                   *)
Reactivate ==
  /\ group = "paused" /\ group' = "active"
  /\ recheck' = {w \in Team : run[w].status = "waiting"}
  /\ UNCHANGED <<run, worker, spawned, full, toRoom, spent>>

Recheck(w) ==
  /\ w \in recheck
  /\ run' = Resume(run, w) /\ recheck' = recheck \ {w}
  /\ UNCHANGED <<worker, spawned, group, full, toRoom, spent>>

(* The process dies.  A lock it held stays until its job is reclaimed.       *)
Crash ==
  /\ Spend("crashes")
  /\ worker' = [r \in Runs |-> IF Locked(r) THEN "lost" ELSE "idle"]
  /\ recheck' = {}
  /\ UNCHANGED <<run, spawned, group, full, toRoom>>

Reclaim(r) ==
  /\ worker[r] = "lost" /\ worker' = [worker EXCEPT ![r] = "idle"]
  /\ UNCHANGED <<run, spawned, group, full, toRoom, recheck, spent>>

-----------------------------------------------------------------------------

(* What the server does by itself with a Run.                                *)
Serve(r) ==
  \/ Start(r) \/ Skip(r) \/ EndTurn(r) \/ YieldToChildren(r) \/ ReconcileWait(r) \/ Leave(r)
  \/ CloseDelegation(r) \/ ReplyOfRecipient(r) \/ ChildrenOfRecipient(r) \/ CompleteChat(r)
  \/ AdmitTurnParked(r) \/ ReleaseHeld(r) \/ ConfirmCancel(r) \/ Recheck(r) \/ Reclaim(r)

(* What a Run's agent asks for, and what comes from outside.                 *)
Ask(r) == Park(r) \/ Cancel(r) \/ Speak(r) \/ \E c \in Kids : Delegate(r, c)

Next ==
  /\ (\E r \in Runs : Serve(r) \/ Ask(r)) \/ Window \/ Pause \/ Reactivate \/ Crash
  /\ UNCHANGED message

Spec == Init /\ [][Next]_vars

-----------------------------------------------------------------------------
(* Properties.                                                               *)

(* One Run of a Conversation at a time uses its directory, or read-only       *)
(* reviews together: the FIFO, the serialization of recipients, the resumes   *)
(* and the gate between them never admit a writer beside another              *)
(* (lifecycleProjector.ts:276, conversationRuntimeSessionRepository.ts:11).   *)
Admitted(r) ==
  \/ worker[r] = "turn" /\ run[r].status \in {"running", "cancelling"}
  \/ worker[r] = "idle" /\ run[r].status = "queued" /\ run[r].job

WritersAlone ==
  \A r, s \in Runs : (r # s /\ Admitted(r) /\ Admitted(s)) => {r, s} \subseteq Reads

(* The result of a child that ended reaches somebody: the Room was told, or a *)
(* Run was handed it, or one is parked on it (or was when it ended itself);   *)
(* with several waits and resumes between the two                             *)
(* (lifecycleProjector.ts:113-119, runs/repository.ts:2578-2588).             *)
ResultNotLost ==
  \A c \in ToSet(spawned) : (run[c].status \in Ended /\ ~run[c].open) =>
    \/ c \in toRoom
    \/ \E w \in Team : \/ c \in run[w].given
                       \/ c \in run[w].deps /\ (run[w].waits \/ run[w].status \in Ended)

(* It is not told twice: a result a parked Run will be resumed with does not  *)
(* also start a turn of the Room (lifecycleProjector.ts:113-119).             *)
NoSecondTelling ==
  [][\A c \in toRoom' \ toRoom : \A w \in Team :
       ~(run[w].status = "waiting" /\ c \in run[w].deps)]_vars

(* Runs never wait for each other in a circle, whatever each named and        *)
(* however they were parked (runs/repository.ts:2534-2539).                   *)
NoWaitCycle ==
  \A r \in Team :
    LET Deps(d) == WaitsFor(run, d) IN r \notin Reach(WaitsFor(run, r), Deps)

(* A later recipient starts only when those before it have replied            *)
(* (lifecycleProjector.ts:655-659).                                           *)
InTurnOfRecipients ==
  \A i, j \in DOMAIN Recipients : (i < j /\ Admitted(Recipients[j])) =>
    run[Recipients[i]].status \in Ended

(* What the turns of a Conversation promise: one writer at a time, recipients *)
(* in their order, no result lost and no wait in a circle.                    *)
TurnsKept ==
  TypeOK /\ WritersAlone /\ InTurnOfRecipients /\ ResultNotLost /\ NoWaitCycle

(* "Do not leave a child queued while its parent waits on it"                 *)
(* (orchestrationService.ts:1651-1654); "a wait ends when the child finishes" *)
(* (.agent/modules/rooms.md:1437): a Run that waits goes on.                   *)
EveryWaitEnds ==
  \A w \in Team : run[w].status = "waiting" ~> run[w].status # "waiting"

(* A Run that was requeued with its results is enqueued: deduplication on a   *)
(* job that is still unwinding "would consume that old job and strand the     *)
(* admitted successor" (rooms/quotaGate.ts:655-658).                          *)
ResumedHasJob ==
  \A r \in ToSet(Recipients) : (run[r].status = "queued" /\ run[r].held = {}) => run[r].job

(* A Run nobody asked for waits past the reserve line                         *)
(* (rooms/quotaGate.ts:28-31): none is admitted while the window is full.     *)
ReserveHolds ==
  [][\A r \in Kids : (run'[r].job /\ ~run[r].job) => ~full]_vars
=============================================================================
