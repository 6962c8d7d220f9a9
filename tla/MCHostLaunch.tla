--------------------------- MODULE MCHostLaunch ---------------------------
(* Three small daemons, of which TLC picks one in the initial state:       *)
(*   retry    two attempts of one Run in its Task's worktree, and a reader *)
(*            of the directory the first also writes, with maintenance and *)
(*            revocation                                                   *)
(*   busy     the first attempt and the reader, with a verification        *)
(*            command, sweeps of run directories and upgrades besides      *)
(*   leases   the lease table alone: a writer of both directories, two     *)
(*            readers, and a Run that reads the one and writes the other   *)
EXTENDS HostLaunch, TLC

CONSTANTS first, retry, other, peer, mixed, sweep, run1, run2, run3, run4

MCWrites == first :> {1, 2} @@ retry :> {1} @@ other :> {} @@ peer :> {} @@ mixed :> {2}
MCReads == first :> {} @@ retry :> {} @@ other :> {2} @@ peer :> {2} @@ mixed :> {1}
MCTends == sweep :> 1
MCRunOf == first :> run1 @@ retry :> run1 @@ other :> run2 @@ peer :> run3 @@ mixed :> run4

Everything == {"command", "sweep", "upgrade"}
Alone == {"nothing else"}

MCInit ==
    \/ StartsAfter({peer, mixed}, {"revoke"})
    \/ StartsAfter({retry, peer, mixed}, Everything)
    \/ StartsAfter({retry}, Alone)
Busy == may = Everything
TableOnly == may = Alone
InTurn == Busy /\ cancelling = {}
InTable == Launches \ {retry}

MCNext ==
    \/ ~TableOnly /\ HostNext
    \/ TableOnly /\ LeaseNext /\ attempt'[retry] = "idle" /\ UNCHANGED hostVars

(* A launch goes on by itself, a command and a sweep end; whoever waits for *)
(* leases resumes when granted and releases them in the end.  Stops,         *)
(* revocations and upgrades need not come.                                   *)
MCFairness ==
    /\ WF_vars(Busy /\ \E l \in cancelling : CancelWait(l))
    /\ \A l \in {first, other} : WF_vars(InTurn /\ (LaunchStep(l) \/ EndsUnspawned(l)))
    /\ \A l \in InTable : WF_leaseVars(TableOnly /\ (Resume(l) \/ Release(l)))
    /\ \A k \in TaskKeys : WF_vars(InTurn /\ CommandEnds(k))
    /\ \A h \in Maintenance :
        /\ WF_vars(InTurn /\ MaintainDone(h))
        /\ WF_leaseVars(TableOnly /\ TendDone(h))

MCSpec == MCInit /\ [][MCNext]_vars /\ MCFairness

(* Nobody waits for ever.  Two attempts that need the same directories never *)
(* wait for each other, for keys are taken in sorted order and queues move   *)
(* on (locationLease.ts:84-160); and every launch is answered, whatever      *)
(* stops it, unless it waits for directories that an attempt kept for        *)
(* recovery still holds (execution.ts:1269-1300).                            *)
Waiting(l) == \/ TableOnly /\ l \in Acquiring
              \/ Busy /\ phase[l] = "preparing"
Answered(l) == \/ TableOnly /\ attempt[l] \in {"acquired", "cancelled", "released"}
               \/ Busy /\ (said[l] # {} \/ unsettledRuns # {})
LaunchesAnswered == \A l \in InTable : Waiting(l) ~> Answered(l)
=============================================================================
