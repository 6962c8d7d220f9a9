--------------------------- MODULE Authorization ---------------------------
(***************************************************************************)
(* A grantable action of a Run that nobody authorized yet                  *)
(* (server/src/modules/policy/authorizationRequestService.ts,              *)
(* policy/actionApprovalGrantService.ts): the action is denied, the Run    *)
(* asks and is parked, a Space owner answers, a job takes the Run up or    *)
(* cancels it (runs/agentRunHandler.ts), and the action's proposal is      *)
(* accepted with the grant (proposals/applyService.ts), beside persons who *)
(* decide the same proposal.                                               *)
(*                                                                         *)
(* One Agent, one action; several Runs of it.  One action of the model is  *)
(* one transaction, but for the acceptance with a grant: it holds the rows *)
(* of the proposal and the grant while the proposal is applied.  A         *)
(* statement that waits for a held row is an action that is not enabled.   *)
(*                                                                         *)
(* An operator X_Slip is X with a slip in it; the specification uses none. *)
(***************************************************************************)
EXTENDS Integers, FiniteSets

CONSTANTS Runs, Decisions, Proposals, RunOf,   \* RunOf: of a decision, of a proposal
          Standing,       \* the grant an owner gives beforehand, for every Run
          Person, None,
          StandingUses,   \* its max_uses
          Stories         \* what a behaviour may meet: see `story`

ASSUME AuthorizationAssumption ==
    /\ RunOf \in [Decisions \cup Proposals -> Runs]
    /\ Standing \notin Decisions /\ Person \notin Decisions \cup {Standing}
    /\ None \notin Decisions \cup Proposals \cup {Standing, Person}
    /\ StandingUses \in Nat \ {0} /\ IsFiniteSet(Proposals)
    /\ \A s \in Stories :
        /\ s.runs \subseteq Runs /\ s.denials \subseteq Decisions
        /\ s.proposals \subseteq Proposals /\ s.crashes \in Nat

VARIABLES
    story,     \* fixed from the start: the `runs`, the `denials` and `proposals` there may
               \*   be, what `persons` do ("standing", "revoke", "expire", "decide",
               \*   "cancel"), and how often a worker or a job dies (`crashes`)
    run,       \* status, and the request in error_json.authorization_request_id
    lane,      \* who executes the Run: "turn" and "dead" hold the execution lock,
               \*   "left" has released it and not completed its job
    job,       \* the agent_run job: "none", "pending", "held"
    asked,     \* of each decision record: "none", "denied", or its request's status
    reconcile, \* its authorization_request_reconcile job: "none", "pending", "done"
    grant,     \* action_approval_grants; `late` once expires_at has passed
    prop,      \* the proposals, `by` what decided them
    call,      \* the tool call of each Run that makes a proposal
    crashes

table == <<run, lane, job, asked, reconcile, grant, prop, call, crashes>>
vars == <<story, table>>

(* A grant given on a request is for one use by the Run that asked.        *)
Grants == Decisions \cup {Standing}
MaxUses(g) == IF g = Standing THEN StandingUses ELSE 1
For(g, r) == g = Standing \/ RunOf[g] = r
SameScope(d) == {e \in Decisions : RunOf[e] = RunOf[d]}

Open == {"queued", "running", "waiting", "cancelling"}
Idle == [pc |-> "idle", p |-> None, g |-> None]

TypeOK ==
    /\ run \in [Runs -> [st : Open \cup {"over"}, on : Decisions \cup {None}]]
    /\ lane \in [Runs -> {"idle", "turn", "left", "dead"}]
    /\ job \in [Runs -> {"none", "pending", "held"}]
    /\ asked \in [Decisions -> {"none", "denied", "pending", "approved", "rejected"}]
    /\ reconcile \in [Decisions -> {"none", "pending", "done"}]
    /\ grant \in [Grants -> [st : {"none", "active", "revoked", "expired"},
                             used : Nat, late : BOOLEAN]]
    /\ prop \in [Proposals -> [st : {"none", "pending", "accepted", "rejected"},
                               by : Grants \cup {Person, None}]]
    /\ call \in [Runs -> [pc : {"idle", "allowed", "made", "holds"},
                          p : Proposals \cup {None}, g : Grants \cup {None}]]
    /\ story \in Stories /\ crashes \in 0 .. story.crashes

Init ==
    /\ story \in Stories
    /\ run = [r \in Runs |-> [st |-> "queued", on |-> None]]
    /\ lane = [r \in Runs |-> "idle"] /\ job = [r \in Runs |-> IF r \in story.runs THEN "pending" ELSE "none"]
    /\ asked = [d \in Decisions |-> "none"] /\ reconcile = [d \in Decisions |-> "none"]
    /\ grant = [g \in Grants |-> [st |-> "none", used |-> 0, late |-> FALSE]]
    /\ prop = [p \in Proposals |-> [st |-> "none", by |-> None]]
    /\ call = [r \in Runs |-> Idle] /\ crashes = 0

Set(r, st) == run' = [run EXCEPT ![r] = [st |-> st, on |-> None]]
Locked(r) == lane[r] \in {"turn", "dead"}      \* run_execution_locks
Held(g) == \E r \in Runs : call[r].g = g       \* the grant's row
HeldProposal(p) == \E r \in Runs : call[r].pc = "holds" /\ call[r].p = p
Stale(g) == grant[g].st = "active" /\ (grant[g].late \/ grant[g].used = MaxUses(g))

Matching_AnyUse(r) == {g \in Grants : grant[g].st = "active" /\ ~grant[g].late /\ For(g, r)}
(* The WHERE of hasMatching and consumeMatching. *)
Matching(r) == {g \in Grants : For(g, r) /\ grant[g].st = "active" /\ ~Stale(g)}

(* consumeMatching skips rows others hold and prefers the more specific.   *)
Best(r) ==
    LET free == {g \in Matching(r) : ~Held(g)}
        specific == free \ {Standing}
    IN  IF specific = {} THEN free ELSE specific

-----------------------------------------------------------------------------
(* The turn. *)

Claim(r) ==
    /\ job[r] = "pending" /\ lane[r] = "idle"
    /\ job' = [job EXCEPT ![r] = "held"]
    /\ IF run[r].st = "queued"
       THEN lane' = [lane EXCEPT ![r] = "turn"] /\ Set(r, "running")
       ELSE lane' = [lane EXCEPT ![r] = "left"] /\ UNCHANGED run
    /\ UNCHANGED <<asked, reconcile, grant, prop, call, crashes>>

(* The policy check of a tool call: it reads the grants and takes none.    *)
AskPolicy(r) ==
    /\ lane[r] = "turn" /\ run[r].st = "running" /\ call[r] = Idle
    /\ IF Matching(r) # {}
       THEN /\ \E p \in story.proposals : RunOf[p] = r /\ prop[p].st = "none"
            /\ call' = [call EXCEPT ![r].pc = "allowed"]
            /\ UNCHANGED asked
       ELSE /\ \E d \in story.denials : RunOf[d] = r /\ asked[d] = "none"
                                        /\ asked' = [asked EXCEPT ![d] = "denied"]
            /\ UNCHANGED call
    /\ UNCHANGED <<run, lane, job, reconcile, grant, prop, crashes>>

(* createFromDeniedDecision; the Agent may name any denial of its Run.     *)
RequestAuthorization(r) ==
    /\ lane[r] = "turn" /\ run[r].st = "running"
    /\ \E d \in Decisions :
        /\ RunOf[d] = r /\ asked[d] \in {"denied", "pending"}
        /\ asked' = [asked EXCEPT ![d] = "pending"]
        /\ run' = [run EXCEPT ![r] = [st |-> "waiting", on |-> d]]
    /\ UNCHANGED <<lane, job, reconcile, grant, prop, call, crashes>>

(* insertProposalRow, in a transaction of its own before the acceptance.   *)
Propose(r) ==
    /\ call[r].pc = "allowed"
    /\ \E p \in story.proposals :
        /\ RunOf[p] = r /\ prop[p].st = "none"
        /\ prop' = [prop EXCEPT ![p].st = "pending"]
        /\ call' = [call EXCEPT ![r] = [pc |-> "made", p |-> p, g |-> None]]
    /\ UNCHANGED <<run, lane, job, asked, reconcile, grant, crashes>>

(* What acceptAgentProposalIfGranted finds when it has the proposal's row. *)
Ready(r) == prop[call[r].p].st = "pending" /\ Best(r) # {}

(* acceptAgentProposalIfGranted as far as the use of a grant: without one  *)
(* the proposal is left to persons.                                        *)
TakeGrant(r) ==
    /\ call[r].pc = "made"
    /\ IF Ready(r)
       THEN \E g \in Best(r) : call' = [call EXCEPT ![r].pc = "holds", ![r].g = g]
       ELSE call' = [call EXCEPT ![r] = Idle]
    /\ UNCHANGED <<run, lane, job, asked, reconcile, grant, prop, crashes>>

(* ... and its COMMIT, or the ROLLBACK of a failed apply.                  *)
AcceptGranted(r) ==
    /\ call[r].pc = "holds"
    /\ grant' = [grant EXCEPT ![call[r].g].used = @ + 1]
    /\ prop' = [prop EXCEPT ![call[r].p] = [st |-> "accepted", by |-> call[r].g]]
    /\ call' = [call EXCEPT ![r] = Idle]
    /\ UNCHANGED <<run, lane, job, asked, reconcile, crashes>>
ApplyFails(r) ==
    /\ call[r].pc = "holds"
    /\ call' = [call EXCEPT ![r] = Idle]
    /\ UNCHANGED <<run, lane, job, asked, reconcile, grant, prop, crashes>>

(* The adapter returns: executeRun reports a pause as it finds it, else it *)
(* publishes an end; the lock is released, the job is completed after it.  *)
LeaveTurn(r) ==
    /\ lane[r] = "turn"
    /\ lane' = [lane EXCEPT ![r] = "left"]
    /\ IF run[r].st = "waiting" THEN UNCHANGED run ELSE Set(r, "over")
    /\ UNCHANGED <<job, asked, reconcile, grant, prop, call, crashes>>
CompleteJob(r) ==
    /\ lane[r] = "left"
    /\ lane' = [lane EXCEPT ![r] = "idle"] /\ job' = [job EXCEPT ![r] = "none"]
    /\ UNCHANGED <<run, asked, reconcile, grant, prop, call, crashes>>

(* The worker dies with its turn and its transactions.                     *)
Crash(r) ==
    /\ lane[r] \in {"turn", "left"} /\ crashes < story.crashes
    /\ crashes' = crashes + 1
    /\ lane' = [lane EXCEPT ![r] = "dead"] /\ call' = [call EXCEPT ![r] = Idle]
    /\ UNCHANGED <<run, job, asked, reconcile, grant, prop>>
(* The stale lock and the stuck job are reclaimed; a Run that was running  *)
(* is given up here.                                                       *)
Reclaim(r) ==
    /\ lane[r] = "dead"
    /\ lane' = [lane EXCEPT ![r] = "idle"] /\ job' = [job EXCEPT ![r] = "pending"]
    /\ IF run[r].st = "running" THEN Set(r, "over") ELSE UNCHANGED run
    /\ UNCHANGED <<asked, reconcile, grant, prop, call, crashes>>

-----------------------------------------------------------------------------
(* The persons. *)

(* decide("approved"): spent grants of the same scope are put away; one    *)
(* that is still good refuses the decision, and all of it is rolled back.  *)
Approve(d) ==
    LET good == {e \in SameScope(d) : grant[e].st = "active" /\ ~Stale(e)}
    IN  /\ asked[d] = "pending" /\ good = {} /\ \A e \in SameScope(d) : ~Held(e)
        /\ grant' = [g \in Grants |->
             CASE g = d -> [st |-> "active", used |-> 0, late |-> FALSE]
               [] g \in SameScope(d) \ {d} /\ Stale(g) -> [grant[g] EXCEPT !.st = "expired"]
               [] OTHER -> grant[g]]
        /\ asked' = [asked EXCEPT ![d] = "approved"]
        /\ reconcile' = [reconcile EXCEPT ![d] = "pending"]
        /\ UNCHANGED <<run, lane, job, prop, call, crashes>>
Reject(d) ==
    /\ asked[d] = "pending"
    /\ asked' = [asked EXCEPT ![d] = "rejected"]
    /\ reconcile' = [reconcile EXCEPT ![d] = "pending"]
    /\ UNCHANGED <<run, lane, job, grant, prop, call, crashes>>

GiveStanding ==
    /\ grant[Standing].st = "none"
    /\ grant' = [grant EXCEPT ![Standing].st = "active"]
    /\ UNCHANGED <<run, lane, job, asked, reconcile, prop, call, crashes>>
Revoke(g) ==
    /\ grant[g].st = "active" /\ ~Held(g)
    /\ grant' = [grant EXCEPT ![g].st = "revoked"]
    /\ UNCHANGED <<run, lane, job, asked, reconcile, prop, call, crashes>>
GrantExpires(g) ==
    /\ grant[g].st = "active" /\ ~grant[g].late
    /\ grant' = [grant EXCEPT ![g].late = TRUE]
    /\ UNCHANGED <<run, lane, job, asked, reconcile, prop, call, crashes>>

(* accept, reject of a proposal by a person with the authority.            *)
Decide(p, st) ==
    /\ prop[p].st = "pending" /\ ~HeldProposal(p)
    /\ prop' = [prop EXCEPT ![p] = [st |-> st, by |-> Person]]
    /\ UNCHANGED <<run, lane, job, asked, reconcile, grant, call, crashes>>

CancelRun(r) == IF run[r].st \in Open THEN Set(r, "cancelling") ELSE UNCHANGED run
PersonCancels(r) ==
    /\ run[r].st \in Open \ {"cancelling"} /\ CancelRun(r)
    /\ UNCHANGED <<lane, job, asked, reconcile, grant, prop, call, crashes>>
(* The stop of a Run that no turn holds is confirmed.                      *)
CancelEnds(r) ==
    /\ run[r].st = "cancelling" /\ lane[r] # "turn" /\ Set(r, "over")
    /\ UNCHANGED <<lane, job, asked, reconcile, grant, prop, call, crashes>>

-----------------------------------------------------------------------------
(* reconcileAuthorizationRequest: its job ends, or dies after the commit   *)
(* and comes again.                                                        *)
Reconciled(d) ==
    \/ reconcile' = [reconcile EXCEPT ![d] = "done"] /\ UNCHANGED crashes
    \/ crashes < story.crashes /\ crashes' = crashes + 1 /\ UNCHANGED reconcile

(* ensureAgentRunJob leaves a job alone that is pending or held.           *)
EnsureJob(r) == job' = IF job[r] = "none" THEN [job EXCEPT ![r] = "pending"] ELSE job

(* requeueApprovedAuthorizationRequest *)
Requeue(d) ==
    LET r == RunOf[d]
    IN  /\ reconcile[d] = "pending" /\ asked[d] = "approved"
        /\ run[r] = [st |-> "waiting", on |-> d] /\ ~Locked(r)
        /\ Set(r, "queued") /\ EnsureJob(r) /\ Reconciled(d)
        /\ UNCHANGED <<lane, asked, grant, prop, call>>

NotToWaitFor_Waiting(d) == run[RunOf[d]] # [st |-> "waiting", on |-> d] \/ Locked(RunOf[d])
(* The Run was not taken up; waiting still, the job is deferred.           *)
NotToWaitFor(d) == run[RunOf[d]].st # "waiting"

Moot(d) ==
    LET r == RunOf[d]
    IN  /\ reconcile[d] = "pending" /\ asked[d] = "approved"
        /\ NotToWaitFor(d)
        /\ IF run[r].st = "queued" THEN EnsureJob(r) ELSE UNCHANGED job
        /\ Reconciled(d)
        /\ UNCHANGED <<run, lane, asked, grant, prop, call>>
CancelRejected(d) ==
    /\ reconcile[d] = "pending" /\ asked[d] = "rejected"
    /\ CancelRun(RunOf[d]) /\ Reconciled(d)
    /\ UNCHANGED <<lane, job, asked, grant, prop, call>>

Reconcile(d) == Requeue(d) \/ Moot(d) \/ CancelRejected(d)

Meets(what) == what \in story.persons

Step ==
    \/ \E r \in story.runs :
        \/ Claim(r) \/ AskPolicy(r) \/ RequestAuthorization(r)
        \/ Propose(r) \/ TakeGrant(r) \/ AcceptGranted(r) \/ ApplyFails(r)
        \/ LeaveTurn(r) \/ CompleteJob(r) \/ Crash(r) \/ Reclaim(r)
        \/ CancelEnds(r) \/ (Meets("cancel") /\ PersonCancels(r))
    \/ \E d \in story.denials : Approve(d) \/ Reject(d) \/ Reconcile(d)
    \/ Meets("standing") /\ GiveStanding
    \/ \E g \in Grants : (Meets("revoke") /\ Revoke(g)) \/ (Meets("expire") /\ GrantExpires(g))
    \/ \E p \in Proposals, st \in {"accepted", "rejected"} : Meets("decide") /\ Decide(p, st)

Next == Step /\ UNCHANGED story

(* Turns end, locks of the dead go stale, jobs are served.                 *)
Fairness ==
    /\ \A r \in Runs : /\ WF_table(Claim(r)) /\ WF_table(LeaveTurn(r)) /\ WF_table(CompleteJob(r))
                       /\ WF_table(Reclaim(r)) /\ WF_table(CancelEnds(r))
    /\ \A d \in Decisions : WF_table(Reconcile(d))

Spec == Init /\ [][Next]_vars /\ Fairness

-----------------------------------------------------------------------------
(* Every use of a grant is one proposal that was accepted with it, of a    *)
(* Run it is for, and there are no more than it allows; a grant for a Run  *)
(* stands on an approved request (actionApprovalGrantService.ts:121-145).  *)
UsesAreAccounted ==
    \A g \in Grants :
        LET accepted == {p \in Proposals : prop[p].by = g}
        IN  /\ grant[g].used = Cardinality(accepted) /\ grant[g].used <= MaxUses(g)
            /\ \A p \in accepted : prop[p].st = "accepted" /\ For(g, RunOf[p])
            /\ g \in Decisions => (grant[g].st # "none" <=> asked[g] = "approved")

(* A grant that was revoked or put away is not used after that, and a      *)
(* proposal is decided once, by a person or with a grant                   *)
(* (applyService.ts:299-371, 667-733).                                     *)
DecisionsStand ==
    /\ \A g \in Grants : grant[g].st \in {"revoked", "expired"} =>
                            grant'[g].used = grant[g].used /\ grant'[g].st = grant[g].st
    /\ \A p \in Proposals : prop[p].st \in {"accepted", "rejected"} => prop'[p] = prop[p]

GrantsAreSpentAsGiven == [](TypeOK /\ UsesAreAccounted) /\ [][DecisionsStand]_vars

(* A parked Run goes on once its request is approved, and is over once it  *)
(* is rejected, whatever the turn that parked it, a crash or a lost job    *)
(* completion comes between (agentRunHandler.ts:49-132).  A Run that was   *)
(* taken up while its last job was still being completed may be left       *)
(* queued without one.                                                     *)
TakenUpWithJob ==
    \A r \in Runs : run[r].st = "waiting" /\ run'[r].st = "queued" =>
                      lane[r] = "left" \/ job'[r] = "pending"
ParkedRunIsAnswered ==
    /\ [][TakenUpWithJob]_vars
    /\ \A d \in Decisions :
         LET r == RunOf[d]
         IN  /\ (run[r] = [st |-> "waiting", on |-> d] /\ asked[d] = "approved")
                  ~> run[r].st \in {"running", "cancelling", "over"} \/ (run[r].st = "queued" /\ job[r] = "none")
             /\ asked[d] = "rejected" ~> run[r].st = "over"
=============================================================================
