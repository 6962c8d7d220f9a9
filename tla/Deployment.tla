----------------------------- MODULE Deployment -----------------------------
(***************************************************************************)
(* An instance update: the job rows an administrator and deployers share    *)
(* (server/src/modules/deployment/service.ts, repository.ts), the deployer's *)
(* poll loop over HTTP requests that are lost, late or answered to nobody    *)
(* (deployer/poll.py) and the soft drain, which defers unattended Runs while *)
(* an update is pending (deployment/drainAdmission.ts,                       *)
(* runs/agentRunHandler.ts).                                                 *)
(*                                                                           *)
(* Time is not counted.  The sweep waits for an hour without progress, a      *)
(* stage lasts half an hour at most and a report is retried as long: no job   *)
(* is swept while a stage of it is executed, or a report of it that was       *)
(* recorded is retried.                                                       *)
(***************************************************************************)
EXTENDS Naturals, Sequences, FiniteSets

CONSTANTS
  Jobs,          \* deployment jobs: 1 .. n, in the order they are requested
  Deployers,     \* deployer containers
  Updates,       \* the jobs of type `update`; the others are `check_update`
  Unattended,    \* Runs of automations, schedules and background jobs
  Chats,         \* Runs of conversations
  Settings       \* see `setting`

None == 0

ASSUME DeploymentAssumption ==
  /\ Jobs \subseteq Nat \ {0} /\ Updates \subseteq Jobs /\ Unattended \cap Chats = {}
  /\ None \notin Deployers
  /\ \A s \in Settings :
       /\ s.deployers \subseteq Deployers
       /\ s.stages \in Seq(STRING) /\ Len(s.stages) > 0
       /\ s.late \in BOOLEAN /\ s.limit \in BOOLEAN
       /\ s.lost \in Nat /\ s.deaths \in Nat

VARIABLES
  setting,   \* what there is and may happen, fixed from the start:
             \*   jobs, deployers, runs: those of the constants that there are
             \*   stages: the stages of an update, in order
             \*   late: the server may handle a heartbeat its sender gave up
             \*   limit: a drain may reach its time limit
             \*   lost, deaths: bounds on requests lost or given up, and on deaths
  jobs,      \* the rows of deployment_jobs, each with its events
  deployer,  \* what each deployer does
  net,       \* requests on their way to the server
  runs,      \* "waiting", "checked" (past the drain's gate), "running"
  executed,  \* how many stages of each job were executed with success
  lost, deaths

table == <<jobs, deployer, net, runs, executed, lost, deaths>>
vars == <<setting, table>>

Runs == Unattended \cup Chats
UpdateStages == setting.stages

Stages(j) == IF j \in Updates THEN UpdateStages ELSE <<"remote_check">>

Active == {"queued", "running"}          \* active_lock, unique in the table
Statuses == Active \cup {"none", "succeeded", "failed", "cancelled"}

Event == [at : Nat, said : {"started", "succeeded", "failed"}]
Idle == [pc |-> "idle", job |-> None, at |-> 0, said |-> "started"]

TypeOK ==
  /\ setting \in Settings
  /\ jobs \in [Jobs -> [status : Statuses, by : Deployers \cup {None}, events : Seq(Event)]]
  /\ deployer \in [Deployers -> [pc : {"down", "idle", "beating", "reporting", "working"},
                                 job : Jobs \cup {None}, at : 0 .. Len(UpdateStages),
                                 said : {"started", "succeeded", "failed"}]]
  /\ \A r \in net : r.kind \in {"beat", "event"} /\ r.from \in Deployers /\ r.open \in BOOLEAN
  /\ runs \in [Runs -> {"waiting", "checked", "running"}]
  /\ executed \in [Jobs -> Nat] /\ lost \in 0 .. setting.lost /\ deaths \in 0 .. setting.deaths

Init ==
  /\ setting \in Settings
  /\ jobs = [j \in Jobs |-> [status |-> "none", by |-> None, events |-> <<>>]]
  /\ deployer = [d \in Deployers |-> IF d \in setting.deployers THEN Idle
                                    ELSE [Idle EXCEPT !.pc = "down"]]
  /\ net = {} /\ runs = [r \in Runs |-> "waiting"]
  /\ executed = [j \in Jobs |-> 0] /\ lost = 0 /\ deaths = 0

-----------------------------------------------------------------------------
(* The job rows.                                                             *)

Recorded(j, event) == \E i \in DOMAIN jobs[j].events : jobs[j].events[i] = event

updatePending == \E j \in Updates : jobs[j].status \in Active

createJob(j) ==
  /\ j \in setting.jobs /\ jobs[j].status = "none" /\ \A i \in Jobs : jobs[i].status \notin Active
  /\ \A i \in Jobs : i < j => jobs[i].status # "none"
  /\ jobs' = [jobs EXCEPT ![j].status = "queued"]
  /\ UNCHANGED <<deployer, net, runs, executed, lost, deaths>>

cancelJob(j) ==
  /\ jobs[j].status = "queued"
  /\ jobs' = [jobs EXCEPT ![j].status = "cancelled"]
  /\ UNCHANGED <<deployer, net, runs, executed, lost, deaths>>

InProgress(j) ==
  \E d \in Deployers : LET w == deployer[d] IN
    /\ w.job = j
    /\ \/ w.pc = "working"
       \/ w.pc = "reporting" /\ Recorded(j, [at |-> w.at, said |-> w.said])

sweepLostJobs_RunningOnly(j) ==
  /\ jobs[j].status = "running" /\ ~InProgress(j)
  /\ jobs' = [jobs EXCEPT ![j].status = "failed"]
  /\ UNCHANGED <<deployer, net, runs, executed, lost, deaths>>

(* A job nobody claimed, or nothing was heard of for too long, has failed.   *)
(* Too long is twice what a stage may take (service.ts:20-25), counted from  *)
(* the last new report: here, until its deployer is past executing it.  That *)
(* a `started` is reported in vain for half an hour before is left out.      *)
sweepLostJobs(j) ==
  /\ jobs[j].status \in Active /\ ~InProgress(j)
  /\ jobs' = [jobs EXCEPT ![j].status = "failed"]
  /\ UNCHANGED <<deployer, net, runs, executed, lost, deaths>>

(* What a heartbeat of `d` makes of a row: a job it holds was abandoned, a   *)
(* queued one is handed to it.                                               *)

AfterBeat(row, d) ==
  CASE row.status = "running" /\ row.by = d -> [row EXCEPT !.status = "failed"]
    [] row.status = "queued" -> [row EXCEPT !.status = "running", !.by = d]
    [] OTHER -> row

Handed(d) == {j \in Jobs : jobs[j].status = "queued"}

(* A stage report appends its event once, only to a running job, and ends it *)
(* when it is the last or a failure.                                         *)
Seen(row, r) == \E i \in DOMAIN row.events : row.events[i] = r.event

Accepted(row, r) == Seen(row, r) \/ row.status = "running"

appendEvent_Revives(row, r) ==
  IF Seen(row, r) THEN row
  ELSE [row EXCEPT !.events = Append(@, r.event),
                   !.status = CASE r.event.said = "failed" -> "failed"
                                [] r.terminal -> "succeeded" [] OTHER -> "running"]

appendEvent(row, r) ==
  IF Seen(row, r) \/ row.status # "running" THEN row
  ELSE [row EXCEPT !.events = Append(@, r.event),
                   !.status = CASE r.event.said = "failed" -> "failed"
                                [] r.terminal -> "succeeded" [] OTHER -> @]
-----------------------------------------------------------------------------
(* The deployer.                                                             *)

Waits(d) == deployer[d].pc \in {"beating", "reporting"}
Outstanding(d) == {r \in net : r.from = d /\ r.open}
Lose == lost < setting.lost /\ lost' = lost + 1

Beat(d) ==
  /\ deployer[d].pc = "idle"
  /\ deployer' = [deployer EXCEPT ![d].pc = "beating"]
  /\ net' = net \cup {[kind |-> "beat", from |-> d, open |-> TRUE]}
  /\ UNCHANGED <<jobs, runs, executed, lost, deaths>>

Report_EarlyEnd(w, d) ==
  [kind |-> "event", from |-> d, open |-> TRUE, job |-> w.job,
   event |-> [at |-> w.at, said |-> w.said],
   terminal |-> w.said = "succeeded"]

Report(w, d) ==
  [kind |-> "event", from |-> d, open |-> TRUE, job |-> w.job,
   event |-> [at |-> w.at, said |-> w.said],
   terminal |-> w.said = "succeeded" /\ w.at = Len(Stages(w.job))]

(* The deployer goes on to report `w`.                                       *)
Reports(d, w) ==
  /\ deployer' = [deployer EXCEPT ![d] = w]
  /\ net' = (net \ Outstanding(d)) \cup {Report(w, d)}

Reporting(j, at, said) == [pc |-> "reporting", job |-> j, at |-> at, said |-> said]

(* What an accepted report leads to: the stage, the next one, or the end.    *)
Reported(d) ==
  LET w == deployer[d] IN
  CASE w.said = "started" -> [w EXCEPT !.pc = "working"]
    [] w.said = "succeeded" /\ w.at < Len(Stages(w.job)) -> Reporting(w.job, w.at + 1, "started")
    [] OTHER -> Idle

(* The server handles a heartbeat; its answer reaches a sender that still    *)
(* waits, or is lost.                                                        *)
HandleBeat(r) ==
  /\ r.kind = "beat"
  /\ jobs' = [j \in Jobs |-> AfterBeat(jobs[j], r.from)]
  /\ \/ /\ r.open
        /\ IF Handed(r.from) = {}
           THEN deployer' = [deployer EXCEPT ![r.from] = Idle] /\ net' = net \ {r}
           ELSE \E j \in Handed(r.from) : Reports(r.from, Reporting(j, 1, "started"))
        /\ UNCHANGED lost
     \/ r.open /\ net' = net \ {r} /\ Lose /\ UNCHANGED deployer
     \/ ~r.open /\ setting.late /\ net' = net \ {r} /\ UNCHANGED <<deployer, lost>>
  /\ UNCHANGED <<runs, executed, deaths>>

(* The server handles a report.  One it refuses ends the execution; else the *)
(* deployer goes on.                                                         *)
HandleEvent(r) ==
  /\ r.kind = "event"
  /\ jobs' = [jobs EXCEPT ![r.job] = appendEvent(@, r)]
  /\ \/ /\ r.open /\ UNCHANGED lost
        /\ IF ~Accepted(jobs[r.job], r)
           THEN deployer' = [deployer EXCEPT ![r.from] = Idle] /\ net' = net \ {r}
           ELSE IF Reported(r.from).pc = "reporting" THEN Reports(r.from, Reported(r.from))
           ELSE deployer' = [deployer EXCEPT ![r.from] = Reported(r.from)] /\ net' = net \ {r}
     \/ r.open /\ net' = net \ {r} /\ Lose /\ UNCHANGED deployer
     \/ ~r.open /\ net' = net \ {r} /\ UNCHANGED <<deployer, lost>>
  /\ UNCHANGED <<runs, executed, deaths>>

(* A request that never reaches the server.                                  *)
LoseRequest(r) ==
  /\ net' = net \ {r} /\ Lose
  /\ UNCHANGED <<jobs, deployer, runs, executed, deaths>>

(* The sender gives a request up: the server may still handle it.  A         *)
(* heartbeat is sent anew with the next beat, a report at once, with the     *)
(* event's id kept.                                                          *)
Closed(d) == (net \ Outstanding(d)) \cup {[r EXCEPT !.open = FALSE] : r \in Outstanding(d)}

TimesOut(d) ==
  /\ Waits(d) /\ (Outstanding(d) # {} => lost < setting.lost)
  /\ lost' = IF Outstanding(d) = {} THEN lost ELSE lost + 1
  /\ IF deployer[d].pc = "beating"
     THEN deployer' = [deployer EXCEPT ![d] = Idle] /\ net' = Closed(d)
     ELSE UNCHANGED deployer /\ net' = Closed(d) \cup {Report(deployer[d], d)}
  /\ UNCHANGED <<jobs, runs, executed, deaths>>

(* After half an hour of retries a report, and the execution, is given up.   *)
GivesUp(d) ==
  /\ deployer[d].pc = "reporting" /\ Lose
  /\ deployer' = [deployer EXCEPT ![d] = Idle] /\ net' = Closed(d)
  /\ UNCHANGED <<jobs, runs, executed, deaths>>

Stage(d) == Stages(deployer[d].job)[deployer[d].at]
RunningRuns == {r \in Runs : runs[r] = "running"}

(* A stage's script ends.                                                    *)
StageEnds(d) ==
  /\ deployer[d].pc = "working" /\ Stage(d) # "drain"
  /\ \E said \in {"succeeded", "failed"} :
       /\ Reports(d, [deployer[d] EXCEPT !.pc = "reporting", !.said = said])
       /\ executed' = IF said = "succeeded" THEN [executed EXCEPT ![deployer[d].job] = @ + 1]
                      ELSE executed
  /\ UNCHANGED <<jobs, runs, lost, deaths>>

(* The drain ends when it reads that no Run is running, or at its limit: as  *)
(* a success when it read a count at all.                                    *)
DrainEnds(d) ==
  /\ deployer[d].pc = "working" /\ Stage(d) = "drain"
  /\ \E said \in {"succeeded", "failed"} :
       /\ (RunningRuns = {} /\ said = "succeeded") \/ setting.limit
       /\ Reports(d, [deployer[d] EXCEPT !.pc = "reporting", !.said = said])
       /\ executed' = IF said = "succeeded" THEN [executed EXCEPT ![deployer[d].job] = @ + 1]
                      ELSE executed
  /\ UNCHANGED <<jobs, runs, lost, deaths>>

(* The deployer's process dies, with what it executes, and comes back.       *)
Dies(d) ==
  /\ deployer[d].pc # "down" /\ deaths < setting.deaths /\ deaths' = deaths + 1
  /\ deployer' = [deployer EXCEPT ![d] = [Idle EXCEPT !.pc = "down"]]
  /\ net' = Closed(d)
  /\ UNCHANGED <<jobs, runs, executed, lost>>

Returns(d) ==
  /\ deployer[d].pc = "down" /\ d \in setting.deployers
  /\ deployer' = [deployer EXCEPT ![d] = Idle]
  /\ UNCHANGED <<jobs, net, runs, executed, lost, deaths>>

-----------------------------------------------------------------------------
(* The Runs and the drain's gate.                                            *)

(* A job of a Run is taken: an unattended one is deferred while an update is *)
(* pending.                                                                  *)
AdmitRun(r) ==
  /\ r \in setting.runs /\ runs[r] = "waiting" /\ (r \in Unattended => ~updatePending)
  /\ runs' = [runs EXCEPT ![r] = "checked"]
  /\ UNCHANGED <<jobs, deployer, net, executed, lost, deaths>>

StartRun(r) ==
  /\ runs[r] = "checked" /\ runs' = [runs EXCEPT ![r] = "running"]
  /\ UNCHANGED <<jobs, deployer, net, executed, lost, deaths>>

(* It ends, and the next of its kind is due.                                 *)
EndRun(r) ==
  /\ runs[r] = "running" /\ runs' = [runs EXCEPT ![r] = "waiting"]
  /\ UNCHANGED <<jobs, deployer, net, executed, lost, deaths>>

-----------------------------------------------------------------------------

Handle == \E r \in net : HandleBeat(r) \/ HandleEvent(r)

Next ==
  /\ \/ \E j \in Jobs : createJob(j) \/ cancelJob(j) \/ sweepLostJobs(j)
     \/ Handle \/ \E r \in net : LoseRequest(r)
     \/ \E d \in Deployers : \/ Beat(d) \/ TimesOut(d) \/ GivesUp(d) \/ StageEnds(d) \/ DrainEnds(d)
                             \/ Dies(d) \/ Returns(d)
     \/ \E r \in Runs : AdmitRun(r) \/ StartRun(r) \/ EndRun(r)
  /\ UNCHANGED setting

Spec == Init /\ [][Next]_vars

-----------------------------------------------------------------------------
(* Properties.                                                               *)

(* A job's events are what its stages did, once each and in order, however   *)
(* often a report was sent, and however late it came                         *)
(* (deployer/poll.py:362-366, repository.ts:247-259).                        *)
Story(j) ==
  [i \in 1 .. 2 * Len(Stages(j)) |->
     [at |-> (i + 1) \div 2, said |-> IF i % 2 = 1 THEN "started" ELSE "succeeded"]]

EventsInOrder ==
  \A j \in Jobs : LET told == jobs[j].events IN
    /\ Len(told) <= Len(Story(j))
    /\ \A i \in DOMAIN told : \/ told[i] = Story(j)[i]
                              \/ /\ i = Len(told) /\ i % 2 = 0
                                 /\ told[i] = [Story(j)[i] EXCEPT !.said = "failed"]

(* A job has succeeded only if every stage of it was executed with success   *)
(* (repository.ts:261-287, deployer/poll.py:433-463).                        *)
SucceededMeansDone ==
  \A j \in Jobs : jobs[j].status = "succeeded" => executed[j] = Len(Stages(j))

(* What ended stays ended: a late report, heartbeat, cancellation or sweep   *)
(* never revives a job or changes its end ("a cancelled or swept job must    *)
(* not be revived by a late event", repository.ts:239-243).                  *)
EndsStand ==
  \A j \in Jobs : jobs[j].status \in {"succeeded", "failed", "cancelled"} =>
    jobs'[j] = jobs[j]

(* Stages are never executed side by side: "a later update could then run a   *)
(* second migration beside it" (deployer/poll.py:82-85,                       *)
(* repository.ts:188-202), unless a heartbeat that was given up is handled    *)
(* late.                                                                      *)
NoneBeside ==
  ~setting.late =>
    \A d, e \in Deployers : (deployer[d].pc = "working" /\ deployer[e].pc = "working") => d = e

(* A cancelled job was never handed out (repository.ts:143-153).             *)
CancelledUntouched ==
  \A j \in Jobs : jobs[j].status = "cancelled" =>
    jobs[j].events = <<>> /\ ~\E d \in Deployers : deployer[d].job = j /\ deployer[d].pc = "working"

(* A job's story, its success and its cancellation are true, and stages are  *)
(* executed one at a time.                                                   *)
JobsTellTheTruth ==
  TypeOK /\ EventsInOrder /\ SucceededMeansDone /\ NoneBeside /\ CancelledUntouched

(* "A beat from the deployer that holds a running job means that job's       *)
(* executor died" (service.ts:251-254): a heartbeat fails no job that is      *)
(* being executed.                                                           *)
AbandonedIsDead ==
  \A j \in Jobs, d \in Deployers :
    (jobs[j].status = "running" /\ deployer[d].job = j /\ deployer[d].pc = "working")
      => jobs'[j].status # "failed"

(* The two together.  A heartbeat that was given up and is handled late can   *)
(* fail a job that is being executed.                                        *)
EndsAreTrue == [][EndsStand /\ (~setting.late => AbandonedIsDead)]_vars

Draining(d) == deployer[d].pc = "working" /\ Stage(d) = "drain"

(* "an unattended Run does not start while an instance update is queued or   *)
(* draining" (runs/agentRunHandler.ts:157-158).                              *)
UnattendedWaits ==
  [][\A r \in Unattended : (runs[r] = "checked" /\ runs'[r] = "running") => ~updatePending]_vars
=============================================================================
