---------------------------- MODULE HostLaunch ----------------------------
(***************************************************************************)
(* One daemon's launches (host-daemon/src/execution.ts): from the launch   *)
(* frame through its leases, its process and its exit cleanup to the       *)
(* `complete` frame, beside stops, verification commands, maintenance of   *)
(* Task worktrees, upgrades of the runtime's copy, sweeps of run           *)
(* directories, revocation and the restart of an updated daemon.           *)
(*                                                                         *)
(* A step is what the daemon does between two awaits.  The maps            *)
(* launchingRuns, activeLaunches, finishingRuns and unsettledRuns hold the *)
(* launches of a phase, and are derived from it.                           *)
(***************************************************************************)
EXTENDS LocationLeases

CONSTANTS Runs,         \* Runs; several launches may be attempts of one
          RunOf,        \* the Run a launch is an attempt of
          Tooled,       \* launches given ordinary tools: leftovers are looked for
          TaskKeys,     \* lease keys of Task worktrees
          MaxCommands,  \* bound: verification commands in all
          Disturbances  \* what may come besides launches and stops: some of
                        \* "command", "sweep", "revoke", "upgrade"

ASSUME HostAssumption == RunOf \in [Launches -> Runs] /\ MaxCommands \in Nat

VARIABLES phase,      \* how far each launch has come
          alive,      \* launches with a process that may still write
          stopped,    \* stoppedLaunches: a stop reached them before their spawn
          newest,     \* activeRuns: the newest running attempt of each Run
          said,       \* the `complete` frames each launch was answered with
          dirs,       \* Runs whose run directory exists
          sweeping,   \* directories a sweep decided to remove
          commands,   \* Task keys of the commands running, and how many began
          upgrade,    \* the runtime's copy: open, draining or replacing
          revoked,    \* registrationRevoked
          asked,      \* launches a stop found before they had a process
          cancelling, \* waits that the stop under way has still to cancel
          restarted,  \* the updated daemon took over
          may         \* those of Disturbances this behaviour is subject to

hostVars == <<phase, alive, stopped, newest, said, dirs, sweeping, commands,
              upgrade, revoked, asked, cancelling, restarted, may>>
vars == <<leaseVars, hostVars>>

Nobody == "nobody"
In(phases) == {l \in Launches : phase[l] \in phases}
launchingRuns == In({"preparing", "ready", "prepared"})
activeLaunches == In({"running", "settling"})
finishingRuns == In({"finishing", "uploading", "removing"})
unsettledRuns == In({"kept"})

(* The launches of `over` were answered, and stopped, at an earlier daemon.  *)
StartsAfter(over, what) ==
    /\ LeaseInit
    /\ may = what
    /\ phase = [l \in Launches |-> IF l \in over THEN "ended" ELSE "none"]
    /\ said = [l \in Launches |-> IF l \in over THEN {"complete", "absent"} ELSE {}]
    /\ alive = {} /\ stopped = {} /\ asked = {} /\ cancelling = {}
    /\ newest = [r \in Runs |-> Nobody]
    /\ dirs = {} /\ sweeping = {}
    /\ commands = [running |-> {}, begun |-> 0]
    /\ upgrade = "open" /\ revoked = FALSE /\ restarted = FALSE
HostInit == StartsAfter({}, Disturbances)

-----------------------------------------------------------------------------
Goto(l, p) == phase' = [phase EXCEPT ![l] = p]
Says(l, what) == said' = [said EXCEPT ![l] = @ \union {what}]
Rest == UNCHANGED <<sweeping, commands, upgrade, revoked, asked, cancelling, restarted, may>>
Stay == UNCHANGED newest /\ Rest

(* handleLaunch: refused while revoked or while the copy is replaced. *)
Launch(l) ==
    /\ phase[l] = "none"
    /\ IF revoked \/ upgrade # "open"
       THEN Goto(l, "ended") /\ Says(l, "complete")
       ELSE Goto(l, "preparing") /\ UNCHANGED said
    /\ UNCHANGED <<leaseVars, alive, stopped, dirs>> /\ Stay

(* Preparation fails before anything is held. *)
PrepareFails(l) ==
    /\ phase[l] = "preparing"
    /\ Goto(l, "ended") /\ Says(l, "complete")
    /\ stopped' = stopped \ {l}
    /\ UNCHANGED <<leaseVars, alive, dirs>> /\ Stay

(* The last look for a stop before the leases; then the launch waits, and is *)
(* not "launching" meanwhile.  One that needs no lease goes on at once.      *)
BeginWait(l) ==
    /\ phase[l] = "preparing"
    /\ IF l \in stopped
       THEN Goto(l, "ended") /\ Says(l, "complete") /\ UNCHANGED leaseVars
       ELSE Goto(l, IF Ids(l) = {} THEN "ready" ELSE "waiting") /\ Ask(l) /\ UNCHANGED said
    /\ stopped' = stopped \ {l}
    /\ UNCHANGED <<alive, dirs>> /\ Stay

(* acquireLocationLeases goes on; what it answers is acted on at once, and   *)
(* what changed during the wait is looked at again.                          *)
LeaseTurn(l) ==
    /\ phase[l] = "waiting" /\ Resume(l)
    /\ CASE attempt'[l] = "acquired" /\ ~revoked /\ upgrade = "open" ->
              Goto(l, "ready") /\ UNCHANGED said
         [] attempt'[l] = "acquired" /\ (revoked \/ upgrade # "open") ->
              Goto(l, "leaving") /\ Says(l, "complete")
         [] attempt'[l] = "cancelled" -> Goto(l, "ended") /\ Says(l, "complete")
         [] OTHER -> UNCHANGED <<phase, said>>
    /\ UNCHANGED <<alive, stopped, dirs>> /\ Stay

(* isTaskWorktreeInUse: the launch polls until the commands in its worktree  *)
(* end; a stop is seen by the poll.                                          *)
WorktreeInUse(l) == Writes[l] \intersect commands.running # {}

Prepare(l) ==
    /\ phase[l] = "ready" /\ ~WorktreeInUse(l)
    /\ Goto(l, "prepared")
    /\ dirs' = dirs \union {RunOf[l]}
    /\ UNCHANGED <<leaseVars, alive, stopped, said>> /\ Stay

(* Preparation under the leases ends without a process: it fails, or a stop  *)
(* is seen while it polls.                                                   *)
EndsUnspawned(l) ==
    /\ \/ phase[l] = "ready" /\ WorktreeInUse(l) /\ l \in stopped
       \/ phase[l] = "ready" /\ ~WorktreeInUse(l)
       \/ phase[l] = "prepared"
    /\ Goto(l, "leaving") /\ Says(l, "complete")
    /\ stopped' = stopped \ {l}
    /\ UNCHANGED <<leaseVars, alive, dirs>> /\ Stay

(* The last look for a stop, and the process. *)
Spawn(l) ==
    /\ phase[l] = "prepared" /\ l \notin stopped
    /\ Goto(l, "running")
    /\ alive' = alive \union {l}
    /\ newest' = [newest EXCEPT ![RunOf[l]] = l]
    /\ stopped' = stopped \ {l}
    /\ UNCHANGED <<leaseVars, said, dirs>> /\ Rest

(* handleLaunch's finally: nothing was spawned, what was taken is released. *)
Leave(l) ==
    /\ phase[l] = "leaving" /\ Release(l)
    /\ Goto(l, "ended")
    /\ UNCHANGED <<alive, stopped, said, dirs>> /\ Stay

-----------------------------------------------------------------------------
Forgotten(l) == [newest EXCEPT ![RunOf[l]] = IF @ = l THEN Nobody ELSE @]

Exits_HandsOver(l) ==
    /\ phase[l] = "running" /\ Release(l)
    /\ Goto(l, "settling")
    /\ l \notin Tooled => alive' = alive \ {l}
    /\ l \in Tooled => UNCHANGED alive
    /\ UNCHANGED <<stopped, said, dirs>> /\ Stay
(* The child closes. A Run with ordinary tools may have left processes.      *)
Exits(l) ==
    /\ phase[l] = "running"
    /\ Goto(l, "settling")
    /\ \/ alive' = alive \ {l}
       \/ l \in Tooled /\ UNCHANGED alive
    /\ UNCHANGED <<leaseVars, stopped, said, dirs>> /\ Stay

(* Its process group is confirmed gone. *)
Settles(l) ==
    /\ phase[l] = "settling"
    /\ alive' = alive \ {l}
    /\ newest' = Forgotten(l)
    /\ Goto(l, "finishing")
    /\ UNCHANGED <<leaseVars, stopped, said, dirs>> /\ Rest

(* It could not be confirmed: a failure is reported and everything kept. *)
Kept(l) ==
    /\ phase[l] = "settling" /\ l \in Tooled
    /\ newest' = Forgotten(l)
    /\ Goto(l, "kept") /\ Says(l, "complete")
    /\ UNCHANGED <<leaseVars, alive, stopped, dirs>> /\ Rest

(* The diff is captured, and the directory is the next writer's. *)
Captured(l) ==
    /\ phase[l] = "finishing" /\ Release(l)
    /\ Goto(l, "uploading")
    /\ UNCHANGED <<alive, stopped, said, dirs>> /\ Stay

(* After the uploads the run directory is removed, unless a newer attempt or *)
(* one kept for recovery owns it. The removal is awaited.                    *)
Superseded(l) ==
    \/ newest[RunOf[l]] # Nobody
    \/ \E m \in launchingRuns \union unsettledRuns : RunOf[m] = RunOf[l]
Uploaded(l) ==
    /\ phase[l] = "uploading"
    /\ IF Superseded(l)
       THEN Goto(l, "ended") /\ Says(l, "complete")
       ELSE Goto(l, "removing") /\ UNCHANGED said
    /\ UNCHANGED <<leaseVars, alive, stopped, dirs>> /\ Stay

Removed(l) ==
    /\ phase[l] = "removing"
    /\ dirs' = dirs \ {RunOf[l]}
    /\ Goto(l, "ended") /\ Says(l, "complete")
    /\ UNCHANGED <<leaseVars, alive, stopped>> /\ Stay

(* The exit block throws: what is held is released, and the end reported. *)
BookkeepingFails(l) ==
    /\ \/ phase[l] = "finishing" /\ Release(l)
       \/ phase[l] = "uploading" /\ UNCHANGED leaseVars
    /\ Goto(l, "ended") /\ Says(l, "complete")
    /\ UNCHANGED <<alive, stopped, dirs>> /\ Stay

-----------------------------------------------------------------------------
(* A stop reaches these launches: preparations are marked, processes         *)
(* signalled (they then exit), and the waits it finds are to be cancelled,   *)
(* but for those cancelled before, which have no wait left.                  *)
Stop_LaunchingOnly(ls) ==
    /\ stopped' = stopped \union (ls \intersect launchingRuns)
    /\ asked' = asked \union (ls \intersect (launchingRuns \union Acquiring))
    /\ UNCHANGED <<leaseVars, cancelling>>
Stop(ls) ==
    /\ cancelling' = (ls \intersect Acquiring) \ cancelled
    /\ stopped' = stopped \union (ls \intersect launchingRuns)
    /\ asked' = asked \union (ls \intersect (launchingRuns \union Acquiring))
    /\ UNCHANGED leaseVars

(* cancelLeaseWaits and cancelAllLeaseWaits go through those waits one after *)
(* the other, for leaving a queue may grant a lease to the next of them.     *)
(* It is still the turn of the stop: nothing else moves before the last one. *)
CancelWait(l) ==
    /\ l \in cancelling
    /\ Cancel(l)
    /\ cancelling' = cancelling \ {l}
    /\ UNCHANGED <<phase, alive, stopped, newest, said, dirs, sweeping, commands,
                   upgrade, revoked, asked, restarted, may>>

(* handleTerminate for one attempt. Nothing found, and no exit cleanup under *)
(* way: the absence is reported.                                             *)
Absent(l) == l \notin Acquiring \union launchingRuns \union activeLaunches \union finishingRuns
Terminate(l) ==
    /\ phase[l] # "none"
    /\ Stop({l})
    /\ IF Absent(l) THEN Says(l, "absent") ELSE UNCHANGED said
    /\ UNCHANGED <<phase, alive, newest, dirs, sweeping, commands, upgrade, revoked, restarted, may>>

(* handleTerminate for a Run, whichever its attempts. *)
TerminateRun(r) ==
    /\ Stop({l \in Launches : RunOf[l] = r})
    /\ UNCHANGED <<phase, alive, newest, said, dirs, sweeping, commands, upgrade, revoked, restarted, may>>

(* stopAllRunsForRevocation. *)
Revoke ==
    /\ "revoke" \in may /\ ~revoked
    /\ revoked' = TRUE
    /\ Stop(Launches)
    /\ UNCHANGED <<phase, alive, newest, said, dirs, sweeping, commands, upgrade, restarted, may>>

-----------------------------------------------------------------------------
Quiet == UNCHANGED <<phase, alive, stopped, newest, said, asked, cancelling>>

(* A verification command marks its worktree in use; nothing keeps it out.   *)
CommandBegins(k) ==
    /\ "command" \in may /\ commands.begun < MaxCommands
    /\ k \notin commands.running
    /\ commands' = [running |-> commands.running \union {k}, begun |-> commands.begun + 1]
    /\ UNCHANGED <<leaseVars, dirs, sweeping, upgrade, revoked, restarted, may>> /\ Quiet
CommandEnds(k) ==
    /\ k \in commands.running
    /\ commands' = [commands EXCEPT !.running = @ \ {k}]
    /\ UNCHANGED <<leaseVars, dirs, sweeping, upgrade, revoked, restarted, may>> /\ Quiet

(* withTaskHeld: settle, branch delete or sweep of a Task worktree. *)
Maintain(h) ==
    /\ Tends[h] \notin commands.running
    /\ Tend(h)
    /\ UNCHANGED <<dirs, sweeping, commands, upgrade, revoked, restarted, may>> /\ Quiet
MaintainDone(h) ==
    /\ TendDone(h)
    /\ UNCHANGED <<dirs, sweeping, commands, upgrade, revoked, restarted, may>> /\ Quiet

(* sweepStaleRunProfiles on a connection: the directories to remove are read *)
(* first and removed one by one.                                             *)
SweepBegins ==
    /\ "sweep" \in may /\ sweeping = {}
    /\ sweeping' = dirs \ {RunOf[l] : l \in launchingRuns \union activeLaunches
                                             \union finishingRuns \union unsettledRuns}
    /\ UNCHANGED <<leaseVars, dirs, commands, upgrade, revoked, restarted, may>> /\ Quiet
SweepRemoves(r) ==
    /\ r \in sweeping
    /\ sweeping' = sweeping \ {r}
    /\ dirs' = dirs \ {r}
    /\ UNCHANGED <<leaseVars, commands, upgrade, revoked, restarted, may>> /\ Quiet

(* withRuntimeKeyDrained: the door closes, the drain waits for launches in   *)
(* preparation and running, and gives up when an attempt is kept.            *)
UpgradeBusy == launchingRuns \union activeLaunches # {}
Upgrade(from, to) ==
    /\ upgrade = from /\ upgrade' = to
    /\ UNCHANGED <<leaseVars, dirs, sweeping, commands, revoked, restarted, may>> /\ Quiet
UpgradeBegins == "upgrade" \in may /\ unsettledRuns = {} /\ Upgrade("open", "draining")
UpgradeDrained == ~UpgradeBusy /\ unsettledRuns = {} /\ Upgrade("draining", "replacing")
UpgradeGivesUp == Upgrade("draining", "open")
UpgradeDone == Upgrade("replacing", "open")

(* The updated daemon restarts only with nothing in flight. *)
hasInFlightRuns ==
    \/ activeLaunches \union launchingRuns \union finishingRuns \union unsettledRuns # {}
    \/ Acquiring # {}
    \/ tending # {}
Restart ==
    /\ ~restarted /\ ~hasInFlightRuns
    /\ restarted' = TRUE
    /\ UNCHANGED <<leaseVars, dirs, sweeping, commands, upgrade, revoked, may>> /\ Quiet

-----------------------------------------------------------------------------
LaunchStep(l) ==
    \/ BeginWait(l) \/ LeaseTurn(l) \/ Prepare(l) \/ Spawn(l) \/ Leave(l)
    \/ Exits(l) \/ Settles(l) \/ Captured(l) \/ Uploaded(l) \/ Removed(l)

HostTurn ==
    \/ \E l \in Launches :
          \/ Launch(l) \/ LaunchStep(l) \/ Terminate(l)
          \/ PrepareFails(l) \/ EndsUnspawned(l) \/ Kept(l) \/ BookkeepingFails(l)
    \/ \E r \in Runs : TerminateRun(r) \/ SweepRemoves(r)
    \/ \E k \in TaskKeys : CommandBegins(k) \/ CommandEnds(k)
    \/ \E h \in Maintenance : Maintain(h) \/ MaintainDone(h)
    \/ Revoke \/ SweepBegins \/ Restart
    \/ UpgradeBegins \/ UpgradeDrained \/ UpgradeGivesUp \/ UpgradeDone

HostNext ==
    \/ \E l \in cancelling : CancelWait(l)
    \/ cancelling = {} /\ HostTurn

HostSpec == HostInit /\ [][HostNext]_vars

-----------------------------------------------------------------------------
Phases == {"none", "preparing", "waiting", "ready", "prepared", "leaving", "running",
           "settling", "kept", "finishing", "uploading", "removing", "ended"}

HostTypeOK ==
    /\ phase \in [Launches -> Phases]
    /\ alive \subseteq activeLaunches \union unsettledRuns
    /\ stopped \subseteq launchingRuns
    /\ asked \subseteq Launches /\ cancelling \subseteq Acquiring
    /\ newest \in [Runs -> Launches \union {Nobody}]
    /\ said \in [Launches -> SUBSET {"complete", "absent"}]
    /\ dirs \subseteq Runs /\ sweeping \subseteq Runs
    /\ commands \in [running : SUBSET TaskKeys, begun : 0 .. MaxCommands]
    /\ upgrade \in {"open", "draining", "replacing"}
    /\ revoked \in BOOLEAN /\ restarted \in BOOLEAN
TypeOK == LeaseTypeOK /\ HostTypeOK

(* A process keeps what it may still write.  While it may write its          *)
(* directories no other launch has been given one of them, not even after    *)
(* its attempt was reported as ended with processes that could not be        *)
(* confirmed stopped (execution.ts:1783-1812); an attempt is reported        *)
(* complete only with its process gone or its leases kept for recovery; and  *)
(* a runtime's copy is replaced only while nothing runs or prepares to run   *)
(* from it (540-575).                                                        *)
NoneBesideProcess == \A l \in alive, m \in Launches :
    m # l /\ attempt[m] = "acquired" => Writes[l] \intersect Ids(m) = {}
CompleteMeansOver == \A l \in alive :
    "complete" \in said[l] => attempt[l] = "acquired" /\ held[l] = Ids(l)
ReplacedAlone == upgrade = "replacing" => alive = {} /\ launchingRuns = {}
ProcessIsGuarded == TypeOK /\ NoneBesideProcess /\ CompleteMeansOver /\ ReplacedAlone

(* Nobody is passed over, and nothing that was sent to the daemon is lost.   *)
(* Leases are granted in the order they were asked for; a stop that reached  *)
(* an attempt before its spawn reaches the queue, the mark or the process, also *)
(* when leases are granted between (execution.ts:410-414, 1690-1698); and    *)
(* the updated daemon takes over only when every launch it was sent has been *)
(* answered, those waiting for a directory included (457-475).               *)
StoppedNeverStarts == \A l \in Launches :
    phase[l] # "running" /\ phase'[l] = "running" => l \notin asked
RestartDropsNothing == restarted' # restarted =>
    \A l \in Launches : phase[l] # "none" => "complete" \in said[l]
NobodyIsPassedOver == [][ServedInOrder /\ StoppedNeverStarts /\ RestartDropsNothing]_vars

(* "Confirm absence only for an exact nonce, and never while its exit        *)
(* cleanup still holds leases" (execution.ts:1962): an attempt reported as   *)
(* no longer present has no process left.                                    *)
AbsenceIsTrue == \A l \in alive : "absent" \notin said[l]

(* "when a newer attempt already owns it, its work surface is in this same   *)
(* directory, so this attempt leaves the cleanup to that one"                *)
(* (execution.ts:1870): an attempt that is prepared or runs has its Run's    *)
(* directory.                                                                *)
DirectoryStays == \A l \in launchingRuns \union activeLaunches :
    phase[l] \in {"prepared", "running"} => RunOf[l] \in dirs
=============================================================================
