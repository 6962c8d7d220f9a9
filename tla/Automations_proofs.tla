------------------------ MODULE Automations_proofs ------------------------
(***************************************************************************)
(* Theorems about what automations start, and when.                        *)
(*                                                                         *)
(* A graph of nodes run under a coordinator, for every graph: any nodes    *)
(* and dependencies, kinds, attempts and disturbances.  A reconcile        *)
(* computes a new table in two passes: what the Runs say is projected on   *)
(* the nodes, then the nodes that became ready are taken up.  So the       *)
(* invariant is stated of a table, Sound(st, att, sup, rn), and not only   *)
(* of the variables: each pass is shown to keep it, of whatever table the  *)
(* pass before left.                                                       *)
(*                                                                         *)
(* The schedule of an Automation, for every course: any kind of target,    *)
(* set of PATCHes, length of the clock and number of crashes.  What a      *)
(* scan, a PATCH and a fire by hand carry between reading and writing is   *)
(* the part an invariant of the rows alone cannot see: ScheduleInv says of *)
(* each what it may still be when it is written.                           *)
(***************************************************************************)
EXTENDS ExecutionGraph, AutomationSchedule, NaturalsInduction, WellFoundedInduction, TLAPS

NodeStatus == {"none", "inbox", "ready", "in_progress", "waiting_for_review",
               "done", "failed", "blocked"}
RunRecord == [status : {"none", "queued", "running", "succeeded", "failed",
                        "waiting_for_review", "cancelled"},
              physical : 0 .. MaxPhysical, outcome : {"none", "passed", "failed"},
              stage : {"open", "evaluated", "finalized", "supervised", "settled"}]

(* The Runs of node n that may speak for it: SpeakersOf, of a table. *)
Speaking(att, sup, rn, n) ==
  {k \in 1 .. att[n] : rn[<<n, k>>].status # "none" /\ k \notin sup[n]}
Last(S, k) == k \in S /\ \A j \in S : j <= k

Typed(st, att, sup, rn) ==
  /\ st \in [Nodes -> NodeStatus]
  /\ \A n \in Nodes : att[n] \in 0 .. MaxAttempts[n] /\ sup[n] \subseteq 1 .. att[n]
  /\ rn \in [Attempts -> RunRecord]

(* An attempt has a Run only once it is counted, and those of an Agent      *)
(* always do; nothing but a delegated Run of an action is set aside; what   *)
(* passed its evaluation has succeeded, and stays so.                       *)
RunsFit(att, sup, rn) ==
  /\ \A n \in Nodes : \A k \in 1 .. MaxAttempts[n] :
       /\ rn[<<n, k>>].status # "none" => k <= att[n] /\ KindOf[n] \in {"agent", "action"}
       /\ KindOf[n] = "agent" /\ k <= att[n] => rn[<<n, k>>].status # "none"
       /\ rn[<<n, k>>].outcome = "passed" =>
            rn[<<n, k>>].status = "succeeded" /\ rn[<<n, k>>].stage # "open"
  /\ \A n \in Nodes : KindOf[n] # "action" => sup[n] = {}

(* A node not taken up yet has no attempt; one that is to be taken up again *)
(* has attempts left, and an action then nobody who speaks for it; only a   *)
(* checkpoint waits for a person.  One Run at a time speaks for an action.  *)
NodesFit(st, att, sup, rn) == \A n \in Nodes :
  /\ st[n] \in {"none", "inbox"} => att[n] = 0
  /\ st[n] = "ready" => /\ att[n] < MaxAttempts[n]
                        /\ KindOf[n] = "action" => Speaking(att, sup, rn, n) = {}
  /\ st[n] = "waiting_for_review" => KindOf[n] = "approval_checkpoint"
  /\ KindOf[n] = "action" => \A j, k \in Speaking(att, sup, rn, n) : j = k

(* DoneIsEarned and LayersInOrder, of a table. *)
Earned(st, att, sup, rn) == \A n \in Nodes :
  st[n] = "done" /\ KindOf[n] \in {"agent", "action"} =>
    /\ KindOf[n] = "agent" => Speaking(att, sup, rn, n) # {}
    /\ \A k \in Nat : Last(Speaking(att, sup, rn, n), k) =>
         rn[<<n, k>>].status = "succeeded" /\ rn[<<n, k>>].outcome = "passed"
Layered(st) == \A n \in Nodes :
  st[n] \notin {"none", "inbox", "blocked"} => \A d \in DependsOn[n] : st[d] = "done"

Sound(st, att, sup, rn) ==
  /\ Typed(st, att, sup, rn)
  /\ RunsFit(att, sup, rn) /\ NodesFit(st, att, sup, rn)
  /\ Earned(st, att, sup, rn) /\ Layered(st)

(* Nothing is there before the execution begins; nodes are blocked with the *)
(* end of it; a cancelled one has no node open.                             *)
WholeFits ==
  /\ execution = "none" <=> root = "none"
  /\ \A n \in Nodes : /\ node[n] = "none" <=> execution = "none"
                      /\ node[n] = "blocked" => execution # "running"
  /\ CancelledIsClosed

IInv == TypeOK /\ Sound(node, attempts, superseded, run) /\ WholeFits

-----------------------------------------------------------------------------
(* Facts about the graph, its attempts and who speaks for a node. *)

LEMMA GraphFields ==
  ASSUME graph \in Graphs
  PROVE  /\ Container \in {"workflow", "plan"}
         /\ \A n \in Nodes : /\ DependsOn[n] \subseteq Nodes
                             /\ KindOf[n] \in {"agent", "action", "integration",
                                               "approval_checkpoint"}
                             /\ MaxAttempts[n] \in Nat \ {0}
         /\ MaxPhysical \in Nat \ {0}
<1>1. GraphOK(graph)
  BY GraphAssumption
<1>2. QED
  BY <1>1 DEF GraphOK, Container, Nodes, DependsOn, KindOf, MaxAttempts, MaxPhysical

LEMMA AttemptsAre ==
  /\ \A n \in Nodes : \A k \in 1 .. MaxAttempts[n] : <<n, k>> \in Attempts
  /\ \A l \in Attempts : \E n \in Nodes : \E k \in 1 .. MaxAttempts[n] :
       l = <<n, k>> /\ l[1] = n /\ l[2] = k
BY DEF Attempts

(* A set of naturals has a least member, and with a bound a greatest. *)
LEMMA Least ==
  ASSUME NEW T, T \subseteq Nat, T # {}
  PROVE  \E x \in T : \A y \in T : x <= y
<1>1. PICK x \in T : \A y \in T : ~(<<y, x>> \in OpToRel(<, Nat))
  BY NatLessThanWellFounded, WFMin
<1>2. \A y \in T : ~(y < x)
  BY <1>1 DEF OpToRel
<1>3. QED
  BY <1>2

LEMMA Greatest ==
  ASSUME NEW m \in Nat, NEW S, S \subseteq 0 .. m, S # {}
  PROVE  Max(S) \in S /\ \A y \in S : Max(S) >= y
<1> DEFINE T == {m - x : x \in S}
<1>1. \A x \in S : x \in Int /\ 0 <= x /\ x <= m /\ m - x \in Nat
  BY SMT
<1>2. T \subseteq Nat /\ T # {}
  BY <1>1
<1>3. PICK t \in T : \A u \in T : t <= u
  BY <1>2, Least
<1>4. PICK x \in S : t = m - x
  BY <1>3
<1>5. ASSUME NEW y \in S PROVE x >= y
  <2>1. m - y \in T
    OBVIOUS
  <2>2. m - x <= m - y
    BY <1>3, <1>4, <2>1
  <2>3. QED
    BY <1>1, <2>2
<1>6. QED
  BY <1>5 DEF Max

(* Who speaks for a node is its last Speaking Run, and exists if any does. *)
LEMMA SpeakerIsLast ==
  ASSUME NEW n \in Nodes, graph \in Graphs, Typed(node, attempts, superseded, run)
  PROVE  LET S == SpeakersOf(n) IN
         /\ S = Speaking(attempts, superseded, run, n)
         /\ S \subseteq 1 .. MaxAttempts[n]
         /\ S # {} => Last(S, Max(S)) /\ Max(S) \in Nat /\ Speaker(n) \in RunRecord
         /\ \A k \in Nat : Last(S, k) => k = Max(S)
<1> DEFINE S == SpeakersOf(n)
<1>1. attempts[n] \in 0 .. MaxAttempts[n] /\ MaxAttempts[n] \in Nat
  BY GraphFields DEF Typed
<1>2. S = Speaking(attempts, superseded, run, n) /\ S \subseteq 1 .. MaxAttempts[n]
  BY <1>1 DEF SpeakersOf, Speaking
<1>3. ASSUME S # {} PROVE Last(S, Max(S)) /\ Max(S) \in Nat /\ Speaker(n) \in RunRecord
  <2>1. S \subseteq 0 .. MaxAttempts[n]
    BY <1>1, <1>2
  <2>2. Max(S) \in S /\ \A y \in S : Max(S) >= y
    BY <1>1, <1>3, <2>1, Greatest
  <2>3. <<n, Max(S)>> \in Attempts
    BY <1>2, <2>2, AttemptsAre
  <2>4. QED
    BY <1>1, <1>2, <2>2, <2>3 DEF Last, Speaker, Typed
<1>4. ASSUME NEW k \in Nat, Last(S, k) PROVE k = Max(S)
  <2>1. S # {}
    BY <1>4 DEF Last
  <2>2. Last(S, Max(S)) /\ Max(S) \in Nat
    BY <1>3, <2>1
  <2>3. QED
    BY <1>4, <2>2 DEF Last
<1>5. QED
  BY <1>2, <1>3, <1>4

(* The invariant, as the properties state it. *)
LEMMA SoundSays ==
  ASSUME graph \in Graphs, Sound(node, attempts, superseded, run)
  PROVE  DoneIsEarned /\ LayersInOrder
<1>1. ASSUME NEW n \in Nodes, node[n] = "done", KindOf[n] \in {"agent", "action"}
      PROVE  /\ KindOf[n] = "agent" => SpeakersOf(n) # {}
             /\ SpeakersOf(n) # {} => Speaker(n).status = "succeeded" /\ Speaker(n).outcome = "passed"
  BY <1>1, SpeakerIsLast DEF Sound, Earned, Speaker
<1>2. QED
  BY <1>1 DEF DoneIsEarned, LayersInOrder, Sound, Layered

-----------------------------------------------------------------------------
(* The first pass: what the Runs say is projected on the nodes. *)

(* A status map a reconcile may be given: the nodes as they are, or with a  *)
(* checkpoint approved; the execution is not over.                          *)
Given(st) ==
  /\ st \in [Nodes -> NodeStatus]
  /\ \A n \in Nodes : st[n] \notin {"none", "blocked"}

LEMMA OutcomeSays ==
  ASSUME NEW r
  PROVE  /\ projectRunOutcome(r) \in {"done", "failed", "none"}
         /\ projectRunOutcome(r) = "done" <=> r.status = "succeeded" /\ r.outcome = "passed"
<1>1. CASE r.status \in {"failed", "cancelled"}
  <2>1. projectRunOutcome(r) = "failed"
    BY <1>1 DEF projectRunOutcome
  <2>2. QED
    BY <1>1, <2>1
<1>2. CASE r.status = "succeeded" /\ r.outcome = "passed"
  <2>1. projectRunOutcome(r) = "done"
    BY <1>2 DEF projectRunOutcome
  <2>2. QED
    BY <1>2, <2>1
<1>3. CASE r.status = "succeeded" /\ r.outcome = "failed"
  <2>1. projectRunOutcome(r) = "failed"
    BY <1>3 DEF projectRunOutcome
  <2>2. QED
    BY <1>3, <2>1
<1>4. CASE /\ r.status \notin {"failed", "cancelled"}
           /\ ~(r.status = "succeeded" /\ r.outcome = "passed")
           /\ ~(r.status = "succeeded" /\ r.outcome = "failed")
  <2>1. projectRunOutcome(r) = "none"
    BY <1>4 DEF projectRunOutcome
  <2>2. QED
    BY <1>4, <2>1
<1>5. QED
  BY <1>1, <1>2, <1>3, <1>4

(* What projection makes of one node. *)
LEMMA ProjectedNode ==
  ASSUME NEW st, NEW n \in Nodes
  PROVE  LET p == Projected(st)[n] IN
         \/ SpeakersOf(n) = {} /\ p = st[n]
         \/ SpeakersOf(n) # {} /\ projectRunOutcome(Speaker(n)) = "none" /\ p = st[n]
         \/ SpeakersOf(n) # {} /\ projectRunOutcome(Speaker(n)) = "done" /\ p = "done"
         \/ /\ SpeakersOf(n) # {} /\ projectRunOutcome(Speaker(n)) = "failed"
            /\ \/ p = "failed"
               \/ p = "ready" /\ attempts[n] < MaxAttempts[n]
BY OutcomeSays DEF Projected

(* Who speaks after it: nobody for an action that is to be tried again.     *)
LEMMA SupersedingNode ==
  ASSUME NEW st, NEW n \in Nodes, graph \in Graphs, Sound(st, attempts, superseded, run),
         Typed(node, attempts, superseded, run)
  PROVE  LET S == Speaking(attempts, superseded, run, n)
             T == Speaking(attempts, Superseding(st), run, n)
         IN /\ Superseding(st)[n] \subseteq 1 .. attempts[n]
            /\ KindOf[n] # "action" => Superseding(st)[n] = {}
            /\ T \subseteq S
            /\ ~(KindOf[n] = "action" /\ Projected(st)[n] = "ready") => T = S
            /\ KindOf[n] = "action" /\ Projected(st)[n] = "ready" => T = {}
<1> DEFINE S == Speaking(attempts, superseded, run, n)
           T == Speaking(attempts, Superseding(st), run, n)
<1>1. S = SpeakersOf(n) /\ (S # {} => Max(S) \in S)
  BY SpeakerIsLast DEF Last
<1>2. superseded[n] \subseteq 1 .. attempts[n] /\ (KindOf[n] # "action" => superseded[n] = {})
  BY DEF Sound, Typed, RunsFit
<1>3. S \subseteq 1 .. attempts[n]
  BY DEF Speaking
<1>4. CASE KindOf[n] = "action" /\ Projected(st)[n] = "ready" /\ S # {}
  <2>1. Superseding(st)[n] = superseded[n] \cup {Max(S)}
    BY <1>1, <1>4 DEF Superseding
  <2>2. \A j, k \in S : j = k
    BY <1>4 DEF Sound, NodesFit
  <2>3. T = {}
    BY <1>1, <1>4, <2>1, <2>2 DEF Speaking
  <2>4. QED
    BY <1>1, <1>2, <1>3, <1>4, <2>1, <2>3
<1>5. CASE ~(KindOf[n] = "action" /\ Projected(st)[n] = "ready" /\ S # {})
  <2>1. Superseding(st)[n] = superseded[n]
    BY <1>1, <1>5 DEF Superseding
  <2>2. T = S
    BY <2>1 DEF Speaking
  <2>3. QED
    BY <1>2, <1>5, <2>1, <2>2
<1>6. QED
  BY <1>4, <1>5

LEMMA ProjectedIsSound ==
  ASSUME NEW st, graph \in Graphs, Given(st), Sound(st, attempts, superseded, run),
         Typed(node, attempts, superseded, run)
  PROVE  LET p == Projected(st) IN
         /\ Given(p) /\ Sound(p, attempts, Superseding(st), run)
         /\ \A n \in Nodes : st[n] = "done" => p[n] = "done"
<1> DEFINE p == Projected(st)
           sup == Superseding(st)
<1>1. ASSUME NEW n \in Nodes
      PROVE  /\ p[n] \in NodeStatus \ {"none", "blocked"}
             /\ st[n] = "done" => p[n] = "done"
             /\ p[n] # "done" => st[n] # "done"
             /\ p[n] = "inbox" => st[n] = "inbox"
             /\ st[n] = "inbox" => p[n] = "inbox"
             /\ p[n] = "waiting_for_review" => st[n] = "waiting_for_review"
  <2>1. st[n] \in NodeStatus \ {"none", "blocked"}
    BY DEF Given
  <2>2. SpeakersOf(n) # {} => /\ Last(SpeakersOf(n), Max(SpeakersOf(n)))
                              /\ Max(SpeakersOf(n)) \in Nat
    BY SpeakerIsLast
  <2>3. SpeakersOf(n) = Speaking(attempts, superseded, run, n)
    BY SpeakerIsLast
  <2>4. ASSUME st[n] = "done", SpeakersOf(n) # {}
        PROVE  projectRunOutcome(Speaker(n)) = "done"
    <3>1. KindOf[n] \in {"agent", "action"}
      <4>1. PICK k \in SpeakersOf(n) : TRUE
        BY <2>4
      <4>2. k \in 1 .. MaxAttempts[n] /\ run[<<n, k>>].status # "none"
        BY <4>1, SpeakerIsLast DEF SpeakersOf
      <4>3. QED
        BY <4>2 DEF Sound, RunsFit
    <3>2. Speaker(n).status = "succeeded" /\ Speaker(n).outcome = "passed"
      BY <2>2, <2>3, <2>4, <3>1 DEF Sound, Earned, Speaker
    <3>3. QED
      BY <3>2, OutcomeSays
  <2>5. st[n] = "inbox" => SpeakersOf(n) = {}
    <3>1. st[n] = "inbox" => attempts[n] = 0
      BY DEF Sound, NodesFit
    <3>2. QED
      BY <3>1 DEF SpeakersOf
  <2>6. QED
    BY <2>1, <2>4, <2>5, ProjectedNode DEF NodeStatus
<1>2. p \in [Nodes -> NodeStatus] /\ Given(p)
  BY <1>1 DEF Projected, Given, NodeStatus
<1>3. Typed(p, attempts, sup, run)
  BY <1>2, SupersedingNode DEF Sound, Typed
<1>4. RunsFit(attempts, sup, run)
  BY SupersedingNode DEF Sound, RunsFit
<1>5. NodesFit(p, attempts, sup, run)
  <2> SUFFICES ASSUME NEW n \in Nodes
               PROVE  /\ p[n] \in {"none", "inbox"} => attempts[n] = 0
                      /\ p[n] = "ready" => /\ attempts[n] < MaxAttempts[n]
                                           /\ KindOf[n] = "action" => Speaking(attempts, sup, run, n) = {}
                      /\ p[n] = "waiting_for_review" => KindOf[n] = "approval_checkpoint"
                      /\ KindOf[n] = "action" => \A j, k \in Speaking(attempts, sup, run, n) : j = k
    BY DEF NodesFit
  <2>1. /\ st[n] = "inbox" => attempts[n] = 0
        /\ st[n] = "ready" => attempts[n] < MaxAttempts[n]
        /\ st[n] = "waiting_for_review" => KindOf[n] = "approval_checkpoint"
        /\ KindOf[n] = "action" => \A j, k \in Speaking(attempts, superseded, run, n) : j = k
    BY DEF Sound, NodesFit
  <2>2. p[n] = "ready" => attempts[n] < MaxAttempts[n]
    BY <2>1, ProjectedNode
  <2>3. QED
    BY <1>1, <2>1, <2>2, SupersedingNode
<1>6. Earned(p, attempts, sup, run)
  <2> SUFFICES ASSUME NEW n \in Nodes, p[n] = "done", KindOf[n] \in {"agent", "action"}
               PROVE  /\ KindOf[n] = "agent" => Speaking(attempts, sup, run, n) # {}
                      /\ \A k \in Nat : Last(Speaking(attempts, sup, run, n), k) =>
                           run[<<n, k>>].status = "succeeded" /\ run[<<n, k>>].outcome = "passed"
    BY DEF Earned
  <2>1. Speaking(attempts, sup, run, n) = SpeakersOf(n)
    BY SupersedingNode, SpeakerIsLast
  <2>2. CASE p[n] = st[n]
    BY <2>1, <2>2, SpeakerIsLast DEF Sound, Earned
  <2>3. CASE SpeakersOf(n) # {} /\ projectRunOutcome(Speaker(n)) = "done"
    <3>1. Speaker(n).status = "succeeded" /\ Speaker(n).outcome = "passed"
      BY <2>3, OutcomeSays
    <3>2. QED
      BY <2>1, <2>3, <3>1, SpeakerIsLast DEF Speaker
  <2>4. QED
    BY <2>2, <2>3, ProjectedNode
<1>7. Layered(p)
  <2> SUFFICES ASSUME NEW n \in Nodes, p[n] \notin {"none", "inbox", "blocked"},
                      NEW d \in DependsOn[n]
               PROVE  p[d] = "done"
    BY DEF Layered
  <2>1. st[n] \notin {"none", "inbox", "blocked"} /\ d \in Nodes
    BY <1>1, GraphFields DEF Given
  <2>2. st[d] = "done"
    BY <2>1 DEF Sound, Layered
  <2>3. QED
    BY <1>1, <2>1, <2>2
<1>8. QED
  BY <1>1, <1>2, <1>3, <1>4, <1>5, <1>6, <1>7 DEF Sound

-----------------------------------------------------------------------------
(* The second pass: the nodes that became ready are taken up. *)

(* What is taken is a fixed point: ready once what was taken itself and is  *)
(* done at once counts as done.  There is one for every graph, the union of *)
(* the sets each of whose nodes is ready by it.                             *)
LEMMA TakenIsReady ==
  ASSUME NEW st, NEW result, graph \in Graphs
  PROVE  \A n \in Taken(st, result) :
           /\ n \in Nodes /\ st[n] \in {"inbox", "ready"}
           /\ \A d \in DependsOn[n] :
                st[d] = "done" \/ (d \in Taken(st, result) /\ Scheduled(d, result[d]) = "done")
<1> DEFINE F(t) == ReadyNodes(st, {n \in t : Scheduled(n, result[n]) = "done"})
           U == UNION {t \in SUBSET Nodes : t \subseteq F(t)}
<1>1. CASE Container = "workflow"
  BY <1>1 DEF Taken, ReadyNodes
<1>2. CASE Container # "workflow"
  <2>1. \A t, u \in SUBSET Nodes : t \subseteq u => F(t) \subseteq F(u)
    BY DEF ReadyNodes
  <2>2. U \in SUBSET Nodes
    OBVIOUS
  <2>3. \A t \in SUBSET Nodes : t \subseteq F(t) => t \subseteq U
    OBVIOUS
  <2>4. U \subseteq F(U)
    <3>1. ASSUME NEW n \in U PROVE n \in F(U)
      <4>1. PICK t \in SUBSET Nodes : t \subseteq F(t) /\ n \in t
        BY <3>1
      <4>2. F(t) \subseteq F(U)
        BY <2>1, <2>2, <2>3, <4>1
      <4>3. QED
        BY <4>1, <4>2
    <3>2. QED
      BY <3>1
  <2>5. F(U) \in SUBSET Nodes /\ F(U) \subseteq F(F(U))
    <3>1. F(U) \in SUBSET Nodes
      BY DEF ReadyNodes
    <3>2. QED
      BY <2>1, <2>2, <2>4, <3>1
  <2>6. F(U) = U
    BY <2>3, <2>4, <2>5
  <2>7. Taken(st, result) = F(Taken(st, result))
    <3>1. Taken(st, result) = CHOOSE t \in SUBSET Nodes : t = F(t)
      BY <1>2 DEF Taken
    <3>2. QED
      BY <2>2, <2>6, <3>1
  <2>8. QED
    BY <2>7 DEF ReadyNodes
<1>3. QED
  BY <1>1, <1>2

LEMMA ResultsFit ==
  ASSUME NEW result \in Results, NEW n \in Nodes, graph \in Graphs
  PROVE  /\ KindOf[n] = "approval_checkpoint" => result[n] = "review"
         /\ KindOf[n] = "integration" => result[n] \in {"done", "failed"}
         /\ KindOf[n] = "agent" => result[n] \in {"failed", "run"}
         /\ KindOf[n] = "action" =>
              result[n] \in {"failed", "output", "delegated", "error", "no_handler"}
<1>1. PICK verdict \in [Having("integration") ->
                         IF Container = "plan" THEN {"done", "failed"} ELSE {"done"}],
           answer \in [Having("action") -> {"output", "delegated", "error", "no_handler"}] :
        result = [m \in Nodes |-> ResultOf(m, verdict, answer)]
  BY DEF Results
<1>2. result[n] = ResultOf(n, verdict, answer)
  BY <1>1
<1>3. KindOf[n] = "integration" => verdict[n] \in {"done", "failed"}
  BY <1>1 DEF Having
<1>4. KindOf[n] = "action" => answer[n] \in {"output", "delegated", "error", "no_handler"}
  BY <1>1 DEF Having
<1>5. CASE KindOf[n] = "approval_checkpoint"
  BY <1>2, <1>5 DEF ResultOf
<1>6. CASE KindOf[n] = "integration"
  BY <1>2, <1>3, <1>6 DEF ResultOf
<1>7. CASE KindOf[n] = "agent"
  BY <1>2, <1>7 DEF ResultOf
<1>8. CASE KindOf[n] = "action"
  BY <1>2, <1>4, <1>8 DEF ResultOf
<1>9. QED
  BY <1>5, <1>6, <1>7, <1>8, GraphFields

(* What becomes of a node that is taken up. *)
LEMMA ScheduledFits ==
  ASSUME NEW result \in Results, NEW n \in Nodes, graph \in Graphs
  PROVE  LET s == Scheduled(n, result[n]) IN
         /\ s \in {"ready", "in_progress", "waiting_for_review", "done", "failed"}
         /\ s = "ready" => result[n] = "error" /\ attempts[n] + 1 < MaxAttempts[n]
         /\ s = "waiting_for_review" => KindOf[n] = "approval_checkpoint"
         /\ s = "done" /\ KindOf[n] \in {"agent", "action"} =>
              KindOf[n] = "action" /\ result[n] = "output"
         /\ TakesAttempt(result[n]) <=>
              KindOf[n] \in {"agent", "action"} /\ result[n] # "failed"
         /\ KindOf[n] = "agent" /\ result[n] # "failed" => result[n] = "run"
         /\ result[n] = "run" => KindOf[n] = "agent"
         /\ result[n] = "delegated" => KindOf[n] = "action"
<1>1. CASE KindOf[n] = "approval_checkpoint"
  BY <1>1, ResultsFit DEF Scheduled, TakesAttempt
<1>2. CASE KindOf[n] = "integration"
  BY <1>2, ResultsFit DEF Scheduled, TakesAttempt
<1>3. CASE KindOf[n] = "agent"
  BY <1>3, ResultsFit DEF Scheduled, TakesAttempt
<1>4. CASE KindOf[n] = "action"
  <2>1. result[n] \in {"failed", "output", "delegated", "error", "no_handler"}
    BY <1>4, ResultsFit
  <2>2. CASE result[n] = "failed"
    BY <1>4, <2>2 DEF Scheduled, TakesAttempt
  <2>3. CASE result[n] # "failed"
    <3>1. Scheduled(n, result[n]) = executeActionNode(n, result[n])
      BY <2>1, <2>3 DEF Scheduled
    <3>2. CASE result[n] = "output"
      <4>1. Scheduled(n, result[n]) = "done"
        BY <3>1, <3>2 DEF executeActionNode
      <4>2. QED
        BY <1>4, <3>2, <4>1 DEF TakesAttempt
    <3>3. CASE result[n] = "error"
      <4>1. Scheduled(n, result[n]) = IF attempts[n] + 1 < MaxAttempts[n] THEN "ready" ELSE "failed"
        BY <3>1, <3>3 DEF executeActionNode
      <4>2. QED
        BY <1>4, <3>3, <4>1 DEF TakesAttempt
    <3>4. CASE result[n] = "no_handler"
      <4>1. Scheduled(n, result[n]) = "failed"
        BY <3>1, <3>4 DEF executeActionNode
      <4>2. QED
        BY <1>4, <3>4, <4>1 DEF TakesAttempt
    <3>5. CASE result[n] = "delegated"
      <4>1. Scheduled(n, result[n]) = "in_progress"
        BY <3>1, <3>5 DEF executeActionNode
      <4>2. QED
        BY <1>4, <3>5, <4>1 DEF TakesAttempt
    <3>6. QED
      BY <2>1, <2>3, <3>2, <3>3, <3>4, <3>5
  <2>4. QED
    BY <2>2, <2>3
<1>5. QED
  BY <1>1, <1>2, <1>3, <1>4, GraphFields

LEMMA AfterNode ==
  ASSUME NEW st, NEW result \in Results, graph \in Graphs, NEW n \in Nodes
  PROVE  /\ n \in Taken(st, result) => /\ After(st, result)[n] = Scheduled(n, result[n])
                                       /\ st[n] \in {"inbox", "ready"}
         /\ n \notin Taken(st, result) => After(st, result)[n] = st[n]
BY TakenIsReady DEF After

LEMMA ScheduleIsSound ==
  ASSUME NEW st, NEW sup, NEW runs, NEW result \in Results, graph \in Graphs,
         Given(st), Sound(st, attempts, sup, runs), scheduleReadyNodes(st, runs, result)
  PROVE  /\ node' = After(st, result) /\ Given(node')
         /\ Sound(node', attempts', sup, run')
         /\ \A n \in Nodes : st[n] = "done" => node'[n] = "done"
<1> DEFINE taken == Taken(st, result)
           takers == {n \in taken : TakesAttempt(result[n])}
           hired == {n \in takers : result[n] \in {"run", "delegated"}}
           fresh == [NoRun EXCEPT !.status = "queued", !.physical = 1]
<1>1. /\ node' = After(st, result)
      /\ attempts' = [n \in Nodes |-> attempts[n] + (IF n \in takers THEN 1 ELSE 0)]
      /\ run' = [l \in Attempts |->
                   IF l \in {<<n, attempts[n] + 1>> : n \in hired} THEN fresh ELSE runs[l]]
  BY DEF scheduleReadyNodes
<1>2. fresh \in RunRecord /\ fresh.status = "queued" /\ fresh.outcome = "none"
  <2>1. 1 \in 0 .. MaxPhysical /\ 0 \in 0 .. MaxPhysical
    BY GraphFields
  <2>2. NoRun \in RunRecord /\ NoRun.outcome = "none"
    BY <2>1 DEF NoRun, RunRecord
  <2>3. QED
    BY <2>1, <2>2 DEF RunRecord
<1>3. ASSUME NEW n \in Nodes
      PROVE  /\ attempts[n] \in 0 .. MaxAttempts[n] /\ MaxAttempts[n] \in Nat \ {0}
             /\ sup[n] \subseteq 1 .. attempts[n]
             /\ n \in taken => attempts[n] < MaxAttempts[n] /\ st[n] \in {"inbox", "ready"}
             /\ n \in taken => Speaking(attempts, sup, runs, n) = {} \/ KindOf[n] # "action"
             /\ attempts'[n] = attempts[n] + (IF n \in takers THEN 1 ELSE 0)
             /\ node'[n] \in NodeStatus \ {"none", "blocked"}
             /\ st[n] = "done" => node'[n] = "done"
  <2>1. attempts[n] \in 0 .. MaxAttempts[n] /\ MaxAttempts[n] \in Nat \ {0}
    BY GraphFields DEF Sound, Typed
  <2>2. sup[n] \subseteq 1 .. attempts[n]
    BY DEF Sound, Typed
  <2>3. n \in taken => st[n] \in {"inbox", "ready"}
    BY TakenIsReady
  <2>4. /\ st[n] = "inbox" => attempts[n] = 0
        /\ st[n] = "ready" => /\ attempts[n] < MaxAttempts[n]
                              /\ KindOf[n] = "action" => Speaking(attempts, sup, runs, n) = {}
    BY DEF Sound, NodesFit
  <2>5. attempts[n] = 0 => Speaking(attempts, sup, runs, n) = {}
    BY DEF Speaking
  <2>6. st[n] \in NodeStatus \ {"none", "blocked"}
    BY DEF Given
  <2>7. node'[n] \in NodeStatus \ {"none", "blocked"}
    BY <1>1, <2>6, AfterNode, ScheduledFits DEF NodeStatus
  <2>8. st[n] = "done" => node'[n] = "done"
    BY <1>1, AfterNode
  <2>9. attempts'[n] = attempts[n] + (IF n \in takers THEN 1 ELSE 0)
    BY <1>1
  <2>10. n \in taken => attempts[n] < MaxAttempts[n]
    BY <2>1, <2>3, <2>4
  <2>11. QED
    BY <2>1, <2>2, <2>3, <2>4, <2>5, <2>7, <2>8, <2>9, <2>10
<1>4. ASSUME NEW n \in Nodes, NEW k \in 1 .. MaxAttempts[n]
      PROVE  /\ n \in hired /\ k = attempts[n] + 1 => run'[<<n, k>>] = fresh
             /\ ~(n \in hired /\ k = attempts[n] + 1) => run'[<<n, k>>] = runs[<<n, k>>]
  <2>1. <<n, k>> \in Attempts
    BY AttemptsAre
  <2>2. <<n, k>> \in {<<m, attempts[m] + 1>> : m \in hired} <=> n \in hired /\ k = attempts[n] + 1
    OBVIOUS
  <2>3. QED
    BY <1>1, <2>1, <2>2
<1>5. node' \in [Nodes -> NodeStatus] /\ Given(node')
  <2>1. node' = [n \in Nodes |-> node'[n]]
    BY <1>1 DEF After
  <2>2. QED
    BY <1>3, <2>1 DEF Given
<1>6. Typed(node', attempts', sup, run')
  <2>1. runs \in [Attempts -> RunRecord]
    BY DEF Sound, Typed
  <2>2. run' \in [Attempts -> RunRecord]
    BY <1>1, <1>2, <2>1
  <2>3. ASSUME NEW n \in Nodes
        PROVE  attempts'[n] \in 0 .. MaxAttempts[n] /\ sup[n] \subseteq 1 .. attempts'[n]
    <3>1. n \in takers => n \in taken
      OBVIOUS
    <3>2. attempts'[n] \in 0 .. MaxAttempts[n] /\ attempts[n] <= attempts'[n] /\ attempts'[n] \in Nat
      BY <1>3, <3>1
    <3>3. QED
      BY <1>3, <3>2
  <2>4. QED
    BY <1>5, <2>2, <2>3 DEF Typed
(* Who speaks for a node now: who did, and the Run it was given. *)
<1>7. ASSUME NEW n \in Nodes
      PROVE  Speaking(attempts', sup, run', n) =
               IF n \in hired THEN Speaking(attempts, sup, runs, n) \cup {attempts[n] + 1}
               ELSE Speaking(attempts, sup, runs, n)
  <2>1. \A k \in 1 .. MaxAttempts[n] : k > attempts[n] => runs[<<n, k>>].status = "none"
    <3>1. \A k \in 1 .. MaxAttempts[n] : runs[<<n, k>>].status # "none" => k <= attempts[n]
      BY DEF Sound, RunsFit
    <3>2. QED
      BY <1>3, <3>1
  <2>2. attempts[n] + 1 \notin sup[n]
    BY <1>3
  <2>3. CASE n \in hired
    <3>1. attempts'[n] = attempts[n] + 1 /\ attempts[n] + 1 \in 1 .. MaxAttempts[n]
      BY <1>3, <2>3
    <3>2. ASSUME NEW k \in 1 .. attempts[n] + 1
          PROVE  k \in Speaking(attempts', sup, run', n) <=>
                   k \in Speaking(attempts, sup, runs, n) \cup {attempts[n] + 1}
      <4>1. k \in 1 .. MaxAttempts[n]
        BY <1>3, <3>1
      <4>2. CASE k = attempts[n] + 1
        BY <1>2, <1>4, <2>2, <2>3, <3>1, <4>1, <4>2 DEF Speaking
      <4>3. CASE k # attempts[n] + 1
        BY <1>3, <1>4, <2>3, <3>1, <4>1, <4>3 DEF Speaking
      <4>4. QED
        BY <4>2, <4>3
    <3>3. /\ Speaking(attempts', sup, run', n) \subseteq 1 .. attempts[n] + 1
          /\ Speaking(attempts, sup, runs, n) \subseteq 1 .. attempts[n] + 1
          /\ attempts[n] + 1 \in 1 .. attempts[n] + 1
      BY <1>3, <3>1 DEF Speaking
    <3>4. QED
      BY <2>3, <3>2, <3>3
  <2>4. CASE n \notin hired
    <3>1. attempts'[n] \in 0 .. MaxAttempts[n] /\ attempts[n] <= attempts'[n]
      BY <1>3, <1>6 DEF Typed
    <3>2. \A k \in 1 .. MaxAttempts[n] : run'[<<n, k>>] = runs[<<n, k>>]
      BY <1>4, <2>4
    <3>3. ASSUME NEW k \in 1 .. MaxAttempts[n]
          PROVE  k \in Speaking(attempts', sup, run', n) <=> k \in Speaking(attempts, sup, runs, n)
      BY <1>3, <2>1, <3>1, <3>2 DEF Speaking
    <3>4. /\ Speaking(attempts', sup, run', n) \subseteq 1 .. MaxAttempts[n]
          /\ Speaking(attempts, sup, runs, n) \subseteq 1 .. MaxAttempts[n]
      BY <1>3, <3>1 DEF Speaking
    <3>5. QED
      BY <2>4, <3>3, <3>4
  <2>5. QED
    BY <2>3, <2>4
<1>8. RunsFit(attempts', sup, run')
  <2>1. ASSUME NEW n \in Nodes, NEW k \in 1 .. MaxAttempts[n]
        PROVE  /\ run'[<<n, k>>].status # "none" => k <= attempts'[n] /\ KindOf[n] \in {"agent", "action"}
               /\ KindOf[n] = "agent" /\ k <= attempts'[n] => run'[<<n, k>>].status # "none"
               /\ run'[<<n, k>>].outcome = "passed" =>
                    run'[<<n, k>>].status = "succeeded" /\ run'[<<n, k>>].stage # "open"
    <3>1. /\ runs[<<n, k>>].status # "none" => k <= attempts[n] /\ KindOf[n] \in {"agent", "action"}
          /\ KindOf[n] = "agent" /\ k <= attempts[n] => runs[<<n, k>>].status # "none"
          /\ runs[<<n, k>>].outcome = "passed" =>
               runs[<<n, k>>].status = "succeeded" /\ runs[<<n, k>>].stage # "open"
      BY DEF Sound, RunsFit
    <3>2. n \in taken /\ KindOf[n] = "agent" /\ n \in takers => n \in hired
      BY ScheduledFits
    <3>3. n \in hired => KindOf[n] \in {"agent", "action"}
      BY ScheduledFits
    <3>4. CASE n \in hired /\ k = attempts[n] + 1
      <4>1. run'[<<n, k>>] = fresh
        BY <1>4, <3>4
      <4>2. k <= attempts'[n]
        BY <1>3, <3>4
      <4>3. QED
        BY <1>2, <3>3, <3>4, <4>1, <4>2
    <3>5. CASE ~(n \in hired /\ k = attempts[n] + 1)
      <4>1. run'[<<n, k>>] = runs[<<n, k>>]
        BY <1>4, <3>5
      <4>2. attempts[n] <= attempts'[n] /\ attempts'[n] \in Nat
        BY <1>3
      <4>3. KindOf[n] = "agent" /\ k <= attempts'[n] => k <= attempts[n]
        BY <1>3, <3>2, <3>5
      <4>4. QED
        BY <1>3, <3>1, <4>1, <4>2, <4>3
    <3>6. QED
      BY <3>4, <3>5
  <2>2. \A n \in Nodes : KindOf[n] # "action" => sup[n] = {}
    BY DEF Sound, RunsFit
  <2>3. QED
    BY <2>1, <2>2 DEF RunsFit
<1>9. NodesFit(node', attempts', sup, run')
  <2> SUFFICES ASSUME NEW n \in Nodes
               PROVE  /\ node'[n] \in {"none", "inbox"} => attempts'[n] = 0
                      /\ node'[n] = "ready" =>
                           /\ attempts'[n] < MaxAttempts[n]
                           /\ KindOf[n] = "action" => Speaking(attempts', sup, run', n) = {}
                      /\ node'[n] = "waiting_for_review" => KindOf[n] = "approval_checkpoint"
                      /\ KindOf[n] = "action" =>
                           \A j, k \in Speaking(attempts', sup, run', n) : j = k
    BY DEF NodesFit
  <2>1. /\ st[n] \in {"none", "inbox"} => attempts[n] = 0
        /\ st[n] = "ready" => /\ attempts[n] < MaxAttempts[n]
                              /\ KindOf[n] = "action" => Speaking(attempts, sup, runs, n) = {}
        /\ st[n] = "waiting_for_review" => KindOf[n] = "approval_checkpoint"
        /\ KindOf[n] = "action" => \A j, k \in Speaking(attempts, sup, runs, n) : j = k
    BY DEF Sound, NodesFit
  <2>2. CASE n \in taken
    <3>1. node'[n] = Scheduled(n, result[n])
      BY <1>1, <2>2, AfterNode
    <3>2. node'[n] # "none" /\ node'[n] # "inbox"
      BY <3>1, ScheduledFits
    <3>3. node'[n] = "ready" => attempts[n] + 1 < MaxAttempts[n] /\ n \notin hired
      BY <3>1, ScheduledFits
    <3>4. node'[n] = "ready" => attempts'[n] < MaxAttempts[n]
      BY <1>3, <3>3
    <3>5. node'[n] = "waiting_for_review" => KindOf[n] = "approval_checkpoint"
      BY <3>1, ScheduledFits
    <3>6. KindOf[n] = "action" => Speaking(attempts, sup, runs, n) = {}
      BY <1>3, <2>2
    <3>7. QED
      BY <1>7, <3>2, <3>3, <3>4, <3>5, <3>6
  <2>3. CASE n \notin taken
    <3>1. node'[n] = st[n] /\ n \notin hired /\ n \notin takers
      BY <1>1, <2>3, AfterNode
    <3>2. attempts'[n] = attempts[n]
      BY <1>3, <3>1
    <3>3. QED
      BY <1>7, <2>1, <3>1, <3>2
  <2>4. QED
    BY <2>2, <2>3
<1>10. Earned(node', attempts', sup, run')
  <2> SUFFICES ASSUME NEW n \in Nodes, node'[n] = "done", KindOf[n] \in {"agent", "action"}
               PROVE  /\ KindOf[n] = "agent" => Speaking(attempts', sup, run', n) # {}
                      /\ \A k \in Nat : Last(Speaking(attempts', sup, run', n), k) =>
                           run'[<<n, k>>].status = "succeeded" /\ run'[<<n, k>>].outcome = "passed"
    BY DEF Earned
  <2>1. CASE n \in taken
    <3>1. KindOf[n] = "action" /\ result[n] = "output"
      BY <1>1, <2>1, AfterNode, ScheduledFits
    <3>2. Speaking(attempts', sup, run', n) = {}
      BY <1>3, <1>7, <2>1, <3>1
    <3>3. QED
      BY <3>1, <3>2 DEF Last
  <2>2. CASE n \notin taken
    <3>1. node'[n] = st[n] /\ n \notin hired
      BY <1>1, <2>2, AfterNode
    <3>2. Speaking(attempts', sup, run', n) = Speaking(attempts, sup, runs, n)
      BY <1>7, <3>1
    <3>3. \A k \in Speaking(attempts, sup, runs, n) : run'[<<n, k>>] = runs[<<n, k>>]
      <4>1. Speaking(attempts, sup, runs, n) \subseteq 1 .. MaxAttempts[n]
        BY <1>3 DEF Speaking
      <4>2. QED
        BY <1>4, <3>1, <4>1
    <3>4. QED
      BY <3>1, <3>2, <3>3 DEF Sound, Earned, Last
  <2>3. QED
    BY <2>1, <2>2
<1>11. Layered(node')
  <2> SUFFICES ASSUME NEW n \in Nodes, node'[n] \notin {"none", "inbox", "blocked"},
                      NEW d \in DependsOn[n]
               PROVE  node'[d] = "done"
    BY DEF Layered
  <2>1. d \in Nodes
    BY GraphFields
  <2>2. CASE n \in taken
    BY <1>1, <1>3, <2>1, <2>2, TakenIsReady, AfterNode
  <2>3. CASE n \notin taken
    <3>1. st[d] = "done"
      BY <1>1, <2>3, AfterNode DEF Sound, Layered
    <3>2. QED
      BY <1>3, <2>1, <3>1
  <2>4. QED
    BY <2>2, <2>3
<1>12. QED
  BY <1>1, <1>3, <1>5, <1>6, <1>8, <1>9, <1>10, <1>11 DEF Sound

-----------------------------------------------------------------------------
(* A reconcile as a whole. *)

(* The nodes it is given, with a checkpoint approved or not, and the Runs:  *)
(* each still there, what passed standing.                                  *)
Approved(st) ==
  /\ st \in [Nodes -> NodeStatus]
  /\ \A n \in Nodes : st[n] = node[n] \/ (st[n] = "done" /\ node[n] = "waiting_for_review")
Continued(runs) ==
  /\ runs \in [Attempts -> RunRecord]
  /\ \A l \in Attempts :
       /\ runs[l].status = "none" <=> run[l].status = "none"
       /\ runs[l].outcome = "passed" => runs[l].status = "succeeded" /\ runs[l].stage # "open"
       /\ run[l].status = "succeeded" /\ run[l].outcome = "passed" =>
            runs[l].status = "succeeded" /\ runs[l].outcome = "passed"

LEMMA ApprovedIsSound ==
  ASSUME NEW st, graph \in Graphs, Approved(st), Sound(node, attempts, superseded, run)
  PROVE  Sound(st, attempts, superseded, run)
<1>1. Typed(st, attempts, superseded, run) /\ RunsFit(attempts, superseded, run)
  BY DEF Sound, Typed, Approved
<1>2. NodesFit(st, attempts, superseded, run)
  BY DEF Sound, NodesFit, Approved
<1>3. Earned(st, attempts, superseded, run)
  BY DEF Sound, Earned, NodesFit, Approved
<1>4. Layered(st)
  <2> SUFFICES ASSUME NEW n \in Nodes, st[n] \notin {"none", "inbox", "blocked"},
                      NEW d \in DependsOn[n]
               PROVE  st[d] = "done"
    BY DEF Layered
  <2>1. node[n] \notin {"none", "inbox", "blocked"} /\ d \in Nodes
    BY GraphFields DEF Approved
  <2>2. node[d] = "done"
    BY <2>1 DEF Sound, Layered
  <2>3. QED
    BY <2>1, <2>2 DEF Approved
<1>5. QED
  BY <1>1, <1>2, <1>3, <1>4 DEF Sound

LEMMA ContinuedIsSound ==
  ASSUME NEW st, NEW sup, NEW runs, graph \in Graphs, Continued(runs),
         Sound(st, attempts, sup, run)
  PROVE  Sound(st, attempts, sup, runs)
<1>1. ASSUME NEW n \in Nodes, NEW k \in 1 .. MaxAttempts[n]
      PROVE  LET l == <<n, k>> IN
             /\ runs[l].status = "none" <=> run[l].status = "none"
             /\ runs[l].outcome = "passed" => runs[l].status = "succeeded" /\ runs[l].stage # "open"
             /\ run[l].status = "succeeded" /\ run[l].outcome = "passed" =>
                  runs[l].status = "succeeded" /\ runs[l].outcome = "passed"
  <2>1. <<n, k>> \in Attempts
    BY AttemptsAre
  <2>2. QED
    BY <2>1 DEF Continued
<1>2. \A n \in Nodes : attempts[n] \in 0 .. MaxAttempts[n] /\ MaxAttempts[n] \in Nat
  BY GraphFields DEF Sound, Typed
<1>3. ASSUME NEW n \in Nodes
      PROVE  Speaking(attempts, sup, runs, n) = Speaking(attempts, sup, run, n)
  <2>1. \A k \in 1 .. attempts[n] : runs[<<n, k>>].status = "none" <=> run[<<n, k>>].status = "none"
    BY <1>1, <1>2
  <2>2. QED
    BY <2>1 DEF Speaking
<1>4. Typed(st, attempts, sup, runs)
  BY DEF Sound, Typed, Continued
<1>5. RunsFit(attempts, sup, runs)
  BY <1>1 DEF Sound, RunsFit
<1>6. NodesFit(st, attempts, sup, runs)
  BY <1>3 DEF Sound, NodesFit
<1>7. Earned(st, attempts, sup, runs)
  <2> SUFFICES ASSUME NEW n \in Nodes, st[n] = "done", KindOf[n] \in {"agent", "action"}
               PROVE  /\ KindOf[n] = "agent" => Speaking(attempts, sup, runs, n) # {}
                      /\ \A k \in Nat : Last(Speaking(attempts, sup, runs, n), k) =>
                           runs[<<n, k>>].status = "succeeded" /\ runs[<<n, k>>].outcome = "passed"
    BY DEF Earned
  <2>1. \A k \in Speaking(attempts, sup, run, n) : k \in 1 .. MaxAttempts[n]
    BY <1>2 DEF Speaking
  <2>2. QED
    BY <1>1, <1>3, <2>1 DEF Sound, Earned, Last
<1>8. QED
  BY <1>4, <1>5, <1>6, <1>7 DEF Sound

LEMMA FinishFits ==
  ASSUME NEW st, FinishIfSettled(st), execution = "running",
         root \in {"waiting_for_dependency", "succeeded", "failed", "cancelled"}
  PROVE  /\ execution' \in {"running", "completed", "failed"}
         /\ root' \in {"waiting_for_dependency", "succeeded", "failed", "cancelled"}
<1>1. CASE HasFailedNode(st)
  BY <1>1 DEF FinishIfSettled, Finished
<1>2. CASE ~HasFailedNode(st) /\ IsComplete(st)
  <2>1. Finished("completed") \/ Finished("failed")
    BY <1>2 DEF FinishIfSettled
  <2>2. QED
    BY <2>1 DEF Finished
<1>3. CASE ~HasFailedNode(st) /\ ~IsComplete(st)
  BY <1>3 DEF FinishIfSettled
<1>4. QED
  BY <1>1, <1>2, <1>3

(* What the rules both containers share make of the table. *)
LEMMA MovesAreSound ==
  ASSUME NEW st, NEW runs, IInv, Approved(st), Continued(runs), execution = "running",
         Moves(st, runs)
  PROVE  /\ Sound(node', attempts', superseded', run') /\ Given(node')
         /\ \A n \in Nodes : node[n] = "done" => node'[n] = "done"
         /\ execution' \in {"running", "completed", "failed"}
         /\ root' \in {"waiting_for_dependency", "succeeded", "failed", "cancelled"}
<1> DEFINE p == Projected(st)
<1>1. /\ graph \in Graphs /\ Sound(node, attempts, superseded, run)
      /\ Typed(node, attempts, superseded, run)
      /\ root \in {"waiting_for_dependency", "succeeded", "failed", "cancelled"}
  BY DEF IInv, TypeOK, Sound, WholeFits
<1>2. Sound(st, attempts, superseded, run)
  BY <1>1, ApprovedIsSound
<1>3. Given(st)
  BY DEF IInv, WholeFits, Given, Approved
<1>4. /\ Given(p) /\ Sound(p, attempts, Superseding(st), run)
      /\ \A n \in Nodes : st[n] = "done" => p[n] = "done"
  BY <1>1, <1>2, <1>3, ProjectedIsSound
<1>5. Sound(p, attempts, Superseding(st), runs)
  BY <1>1, <1>4, ContinuedIsSound
<1>6. \A n \in Nodes : node[n] = "done" => st[n] = "done"
  BY DEF Approved
<1>7. CASE Ended(st, runs)
  <2>1. /\ node' = p /\ run' = runs /\ superseded' = Superseding(st) /\ attempts' = attempts
        /\ FinishIfSettled(p)
    BY <1>7 DEF Ended
  <2>2. QED
    BY <1>1, <1>4, <1>5, <1>6, <2>1, FinishFits
<1>8. CASE Advances(st, runs)
  <2>1. PICK result \in Results :
          /\ scheduleReadyNodes(p, runs, result)
          /\ superseded' = Superseding(st)
          /\ IF Container = "plan" THEN FinishIfSettled(After(p, result)) ELSE UNCHANGED <<execution, root>>
    BY <1>8 DEF Advances
  <2>2. /\ Given(node') /\ Sound(node', attempts', superseded', run')
        /\ \A n \in Nodes : p[n] = "done" => node'[n] = "done"
    BY <1>1, <1>4, <1>5, <2>1, ScheduleIsSound
  <2>3. /\ execution' \in {"running", "completed", "failed"}
        /\ root' \in {"waiting_for_dependency", "succeeded", "failed", "cancelled"}
    BY <1>1, <2>1, FinishFits
  <2>4. QED
    BY <1>4, <1>6, <2>2, <2>3
<1>9. QED
  BY <1>7, <1>8 DEF Moves

(* What a reconcile makes of the table and of the whole. *)
LEMMA ReconcileIsSound ==
  ASSUME NEW st, NEW runs, IInv, Approved(st), Continued(runs), Reconcile(st, runs)
  PROVE  /\ Sound(node', attempts', superseded', run')
         /\ \A n \in Nodes : node[n] = "done" => node'[n] = "done"
         /\ execution # "running" =>
              execution' = execution /\ root' = root /\ attempts' = attempts /\ node' = st
         /\ execution = "running" =>
              /\ Given(node') /\ execution' \in {"running", "completed", "failed"}
              /\ root' \in {"waiting_for_dependency", "succeeded", "failed", "cancelled"}
         /\ Container = "plan" /\ root \in {"succeeded", "failed", "cancelled"} =>
              attempts' = attempts
<1>1. /\ graph \in Graphs /\ Sound(node, attempts, superseded, run)
      /\ execution = "running" =>
           root \in {"waiting_for_dependency", "succeeded", "failed", "cancelled"}
  BY DEF IInv, TypeOK, WholeFits
<1>2. Sound(st, attempts, superseded, runs)
  BY <1>1, ApprovedIsSound, ContinuedIsSound
<1>3. \A n \in Nodes : node[n] = "done" => st[n] = "done"
  BY DEF Approved
<1>4. execution = "running" => Given(st)
  BY DEF IInv, WholeFits, Given, Approved
<1>5. CASE Quiet(st, runs)
  BY <1>1, <1>2, <1>3, <1>4, <1>5 DEF Quiet
<1>6. CASE Moves(st, runs) /\ execution = "running"
           /\ (Container = "plan" => root = "waiting_for_dependency")
  BY <1>6, MovesAreSound
<1>7. CASE /\ execution = "running" /\ execution' = "failed" /\ node' = st /\ run' = runs
           /\ UNCHANGED <<root, attempts, superseded>>
  BY <1>1, <1>2, <1>3, <1>4, <1>7
<1>8. CASE Container = "workflow"
  BY <1>5, <1>6, <1>8 DEF Reconcile, reconcileWorkflow
<1>9. CASE Container = "plan"
  <2>1. reconcilePlan(st, runs)
    BY <1>9 DEF Reconcile
  <2>2. CASE execution # "running"
    BY <1>5, <2>1, <2>2 DEF reconcilePlan
  <2>3. CASE execution = "running" /\ root # "waiting_for_dependency"
    BY <1>7, <2>1, <2>3 DEF reconcilePlan
  <2>4. CASE execution = "running" /\ root = "waiting_for_dependency"
    BY <1>6, <2>1, <2>4 DEF reconcilePlan
  <2>5. QED
    BY <2>2, <2>3, <2>4
<1>10. QED
  BY <1>1, <1>8, <1>9, GraphFields

-----------------------------------------------------------------------------
(* Every step keeps the invariant, and what is over stays.  The graph is    *)
(* fixed, so that a sound table of the next state is one by the next graph. *)

LEMMA SameGraph ==
  ASSUME graph' = graph, Sound(node', attempts', superseded', run')
  PROVE  Sound(node, attempts, superseded, run)'
<1>1. /\ Nodes' = Nodes /\ MaxAttempts' = MaxAttempts /\ KindOf' = KindOf
      /\ DependsOn' = DependsOn /\ RunRecord' = RunRecord /\ Attempts' = Attempts
  BY DEF Nodes, DependsOn, KindOf, MaxAttempts, MaxPhysical, Attempts, RunRecord
<1>2. Typed(node, attempts, superseded, run)'
  BY <1>1 DEF Sound, Typed, NodeStatus
<1>3. RunsFit(attempts, superseded, run)'
  BY <1>1 DEF Sound, RunsFit
<1>4. NodesFit(node, attempts, superseded, run)'
  BY <1>1 DEF Sound, NodesFit, Speaking
<1>5. Earned(node, attempts, superseded, run)'
  BY <1>1 DEF Sound, Earned, Speaking, Last
<1>6. Layered(node)'
  BY <1>1 DEF Sound, Layered
<1>7. QED
  BY <1>2, <1>3, <1>4, <1>5, <1>6 DEF Sound

LEMMA TypeFollows ==
  ASSUME Sound(node, attempts, superseded, run)', graph' \in Graphs,
         execution' \in {"none", "running", "completed", "failed", "cancelled"},
         automation' \in {"active", "paused"}, project' \in {"active", "archived"},
         root' \in {"none", "waiting_for_dependency", "succeeded", "failed", "cancelled"}
  PROVE  TypeOK'
BY DEF TypeOK, Sound, Typed, RunRecord, NodeStatus

Stands == /\ DoneStays /\ EndedIsQuiet
          /\ Container = "plan" => EndedRootSchedulesNothing

(* A step of a reconcile. *)
LEMMA ReconcileStep ==
  ASSUME NEW st, NEW runs, IInv, Approved(st), Continued(runs), Reconcile(st, runs),
         UNCHANGED <<automation, project, graph>>
  PROVE  IInv' /\ Stands
<1>1. /\ Sound(node', attempts', superseded', run')
      /\ \A n \in Nodes : node[n] = "done" => node'[n] = "done"
      /\ execution # "running" =>
           execution' = execution /\ root' = root /\ attempts' = attempts /\ node' = st
      /\ execution = "running" =>
           /\ Given(node') /\ execution' \in {"running", "completed", "failed"}
           /\ root' \in {"waiting_for_dependency", "succeeded", "failed", "cancelled"}
      /\ Container = "plan" /\ root \in {"succeeded", "failed", "cancelled"} =>
           attempts' = attempts
  BY ReconcileIsSound
<1>2. Sound(node, attempts, superseded, run)'
  BY <1>1, SameGraph
<1>3. TypeOK'
  <2>1. /\ graph' \in Graphs
        /\ execution' \in {"none", "running", "completed", "failed", "cancelled"}
        /\ automation' \in {"active", "paused"} /\ project' \in {"active", "archived"}
        /\ root' \in {"none", "waiting_for_dependency", "succeeded", "failed", "cancelled"}
    BY <1>1 DEF IInv, TypeOK
  <2>2. QED
    BY <1>2, <2>1, TypeFollows
<1>4. WholeFits'
  <2>1. Nodes' = Nodes
    BY DEF Nodes
  <2>2. CASE execution = "running"
    BY <1>1, <2>1, <2>2 DEF WholeFits, CancelledIsClosed, Given
  <2>3. CASE execution # "running"
    <3>1. \A n \in Nodes : node'[n] = node[n] \/ (node'[n] = "done" /\ node[n] = "waiting_for_review")
      BY <1>1, <2>3 DEF Approved
    <3>2. QED
      BY <1>1, <2>1, <2>3, <3>1 DEF IInv, WholeFits, CancelledIsClosed
  <2>4. QED
    BY <2>2, <2>3
<1>5. Stands
  BY <1>1 DEF Stands, DoneStays, EndedIsQuiet, EndedRootSchedulesNothing
<1>6. QED
  BY <1>2, <1>3, <1>4, <1>5 DEF IInv

(* A step of a Run: the rest of the table stays. *)
LEMMA RunStep ==
  ASSUME IInv, Continued(run'), Kept, graph' = graph
  PROVE  IInv' /\ Stands
<1>1. Sound(node, attempts, superseded, run')
  BY ContinuedIsSound DEF IInv, TypeOK
<1>2. Sound(node, attempts, superseded, run)'
  BY <1>1, SameGraph DEF Kept
<1>3. TypeOK'
  <2>1. /\ graph' \in Graphs
        /\ execution' \in {"none", "running", "completed", "failed", "cancelled"}
        /\ automation' \in {"active", "paused"} /\ project' \in {"active", "archived"}
        /\ root' \in {"none", "waiting_for_dependency", "succeeded", "failed", "cancelled"}
    BY DEF IInv, TypeOK, Kept
  <2>2. QED
    BY <1>2, <2>1, TypeFollows
<1>4. WholeFits'
  BY DEF IInv, WholeFits, CancelledIsClosed, Kept, Nodes
<1>5. Stands
  BY DEF Stands, DoneStays, EndedIsQuiet, EndedRootSchedulesNothing, Kept
<1>6. QED
  BY <1>2, <1>3, <1>4, <1>5 DEF IInv

(* One Run takes another value: when that is a step of RunStep. *)
LEMMA RunContinues ==
  ASSUME IInv, NEW l \in Attempts, NEW x \in RunRecord, run[l].status # "none", x.status # "none",
         x.outcome = "passed" => x.status = "succeeded" /\ x.stage # "open",
         run[l].status = "succeeded" /\ run[l].outcome = "passed" =>
           x.status = "succeeded" /\ x.outcome = "passed"
  PROVE  Continued([run EXCEPT ![l] = x])
<1>1. run \in [Attempts -> RunRecord]
  BY DEF IInv, Sound, Typed
<1>2. ASSUME NEW m \in Attempts
      PROVE  run[m].outcome = "passed" => run[m].status = "succeeded" /\ run[m].stage # "open"
  BY AttemptsAre DEF IInv, Sound, RunsFit
<1>3. QED
  BY <1>1, <1>2 DEF Continued

LEMMA RunsContinue ==
  ASSUME IInv
  PROVE  Continued(run) /\ Approved(node) /\ run \in [Attempts -> RunRecord]
<1>1. run \in [Attempts -> RunRecord] /\ node \in [Nodes -> NodeStatus]
  BY DEF IInv, Sound, Typed
<1>2. ASSUME NEW m \in Attempts
      PROVE  run[m].outcome = "passed" => run[m].status = "succeeded" /\ run[m].stage # "open"
  BY AttemptsAre DEF IInv, Sound, RunsFit
<1>3. QED
  BY <1>1, <1>2 DEF Continued, Approved

LEMMA StartStep ==
  ASSUME IInv, Start, graph' = graph
  PROVE  IInv' /\ Stands
<1> DEFINE fresh == [n \in Nodes |-> "inbox"]
<1>1. /\ graph \in Graphs /\ Sound(node, attempts, superseded, run)
      /\ execution = "none" /\ root = "none" /\ \A n \in Nodes : node[n] = "none"
  BY DEF IInv, TypeOK, WholeFits, Start
<1>2. PICK result \in Results :
        /\ scheduleReadyNodes(fresh, run, result)
        /\ execution' \in {"running", "failed", "completed"}
        /\ root' \in {"waiting_for_dependency", "succeeded", "failed"}
  <2>1. PICK result \in Results :
          LET first == After(fresh, result) IN
          /\ scheduleReadyNodes(fresh, run, result)
          /\ execution' = CASE Container = "plan" -> "running"
                            [] Container = "workflow" /\ HasFailedNode(first) -> "failed"
                            [] Container = "workflow" /\ IsComplete(first) -> "completed"
                            [] OTHER -> "running"
          /\ root' = CASE execution' = "running" -> "waiting_for_dependency"
                       [] execution' = "completed" -> "succeeded"
                       [] OTHER -> "failed"
    BY DEF Start
  <2> DEFINE first == After(fresh, result)
  <2>2. execution' \in {"running", "failed", "completed"}
    <3>1. CASE Container = "plan"
      BY <2>1, <3>1
    <3>2. CASE Container = "workflow"
      BY <2>1, <3>2
    <3>3. QED
      BY <1>1, <3>1, <3>2, GraphFields
  <2>3. root' \in {"waiting_for_dependency", "succeeded", "failed"}
    BY <2>1, <2>2
  <2>4. QED
    BY <2>1, <2>2, <2>3
<1>3. Given(fresh) /\ Sound(fresh, attempts, superseded, run)
  <2>1. fresh \in [Nodes -> NodeStatus] /\ \A n \in Nodes : fresh[n] = "inbox"
    BY DEF NodeStatus
  <2>2. \A n \in Nodes : /\ attempts[n] = 0
                         /\ KindOf[n] = "action" =>
                              \A j, k \in Speaking(attempts, superseded, run, n) : j = k
    BY <1>1 DEF Sound, NodesFit
  <2>3. NodesFit(fresh, attempts, superseded, run)
    BY <2>1, <2>2 DEF NodesFit
  <2>4. Earned(fresh, attempts, superseded, run) /\ Layered(fresh)
    BY <2>1 DEF Earned, Layered
  <2>5. QED
    BY <1>1, <2>1, <2>3, <2>4 DEF Given, Sound, Typed
<1>4. Given(node') /\ Sound(node', attempts', superseded', run')
  <2>1. Given(node') /\ Sound(node', attempts', superseded, run')
    BY <1>1, <1>2, <1>3, ScheduleIsSound
  <2>2. QED
    BY <2>1 DEF Start
<1>5. Sound(node, attempts, superseded, run)'
  BY <1>4, SameGraph
<1>6. TypeOK'
  BY <1>1, <1>2, <1>5, TypeFollows DEF IInv, TypeOK, Start
<1>7. WholeFits'
  BY <1>2, <1>4 DEF WholeFits, CancelledIsClosed, Given, Nodes
<1>8. Stands
  BY <1>1 DEF Stands, DoneStays, EndedIsQuiet, EndedRootSchedulesNothing
<1>9. QED
  BY <1>5, <1>6, <1>7, <1>8 DEF IInv

LEMMA ArchiveStep ==
  ASSUME IInv, ArchiveProject, graph' = graph
  PROVE  IInv' /\ Stands
<1>1. CASE Container = "plan" /\ UNCHANGED <<automation, execution, root, run, node>>
  <2>1. /\ UNCHANGED <<execution, root, node, attempts, superseded, run>>
        /\ project' = "archived"
    BY <1>1 DEF ArchiveProject
  <2>2. Sound(node, attempts, superseded, run)'
    BY <2>1, SameGraph DEF IInv
  <2>3. QED
    BY <1>1, <2>1, <2>2, TypeFollows DEF IInv, TypeOK, WholeFits, CancelledIsClosed, Nodes,
       Stands, DoneStays, EndedIsQuiet, EndedRootSchedulesNothing
<1>2. CASE /\ Container = "workflow"
           /\ automation' = "paused"
           /\ execution' = IF execution = "running" THEN "cancelled" ELSE execution
           /\ root' = IF root = "waiting_for_dependency" THEN "cancelled" ELSE root
           /\ run' = [l \in Attempts |-> IF run[l].status \in {"queued", "waiting_for_review"}
                                         THEN [run[l] EXCEPT !.status = "cancelled"] ELSE run[l]]
           /\ node' = ArchivedNodes
  <2>1. /\ graph \in Graphs /\ Sound(node, attempts, superseded, run)
        /\ UNCHANGED <<attempts, superseded>> /\ project' = "archived"
    BY DEF IInv, TypeOK, ArchiveProject
  <2>2. ASSUME NEW n \in Nodes
        PROVE  /\ node[n] \in NodeStatus
               /\ node'[n] = IF node[n] \in {"inbox", "ready", "in_progress", "waiting_for_review"}
                             THEN "blocked" ELSE node[n]
    BY <1>2, <2>1 DEF ArchivedNodes, Sound, Typed
  <2>3. Continued(run')
    <3>1. run \in [Attempts -> RunRecord]
      BY RunsContinue
    <3>2. ASSUME NEW l \in Attempts
          PROVE  /\ run'[l] \in RunRecord
                 /\ run'[l].status = "none" <=> run[l].status = "none"
                 /\ run'[l].outcome = "passed" => run'[l].status = "succeeded" /\ run'[l].stage # "open"
                 /\ run[l].status = "succeeded" /\ run[l].outcome = "passed" =>
                      run'[l].status = "succeeded" /\ run'[l].outcome = "passed"
      <4>1. run[l] \in RunRecord
        BY <3>1
      <4>2. run[l].outcome = "passed" => run[l].status = "succeeded" /\ run[l].stage # "open"
        BY RunsContinue DEF Continued
      <4>3. CASE run[l].status \in {"queued", "waiting_for_review"}
        <5>1. run'[l] = [run[l] EXCEPT !.status = "cancelled"]
          BY <1>2, <4>3
        <5>2. QED
          BY <4>1, <4>2, <4>3, <5>1 DEF RunRecord
      <4>4. CASE run[l].status \notin {"queued", "waiting_for_review"}
        <5>1. run'[l] = run[l]
          BY <1>2, <4>4
        <5>2. QED
          BY <4>1, <4>2, <5>1
      <4>5. QED
        BY <4>3, <4>4
    <3>3. run' \in [Attempts -> RunRecord]
      <4>1. run' = [l \in Attempts |-> run'[l]]
        BY <1>2
      <4>2. QED
        BY <3>2, <4>1
    <3>4. QED
      BY <3>2, <3>3 DEF Continued
  <2>4. Sound(node, attempts, superseded, run')
    BY <2>1, <2>3, ContinuedIsSound
  <2>5. Sound(node', attempts', superseded', run')
    <3>1. node' \in [Nodes -> NodeStatus]
      <4>1. node' = [n \in Nodes |-> node'[n]]
        BY <1>2 DEF ArchivedNodes
      <4>2. QED
        BY <2>2, <4>1 DEF NodeStatus
    <3>2. Typed(node', attempts', superseded', run') /\ RunsFit(attempts', superseded', run')
      BY <2>1, <2>4, <3>1 DEF Sound, Typed
    <3>3. NodesFit(node', attempts', superseded', run')
      BY <2>1, <2>2, <2>4 DEF Sound, NodesFit
    <3>4. Earned(node', attempts', superseded', run')
      BY <2>1, <2>2, <2>4 DEF Sound, Earned
    <3>5. Layered(node')
      <4> SUFFICES ASSUME NEW n \in Nodes, node'[n] \notin {"none", "inbox", "blocked"},
                          NEW d \in DependsOn[n]
                   PROVE  node'[d] = "done"
        BY DEF Layered
      <4>1. node[n] \notin {"none", "inbox", "blocked"} /\ d \in Nodes
        BY <2>1, <2>2, GraphFields
      <4>2. node[d] = "done"
        BY <2>1, <4>1 DEF Sound, Layered
      <4>3. QED
        BY <2>2, <4>1, <4>2
    <3>6. QED
      BY <3>2, <3>3, <3>4, <3>5 DEF Sound
  <2>6. Sound(node, attempts, superseded, run)'
    BY <2>5, SameGraph
  <2>7. TypeOK'
    BY <1>2, <2>1, <2>6, TypeFollows DEF IInv, TypeOK
  <2>8. WholeFits'
    <3>1. /\ execution' = "none" <=> root' = "none"
          /\ execution' = "none" <=> execution = "none"
          /\ execution' # "running"
      BY <1>2 DEF IInv, TypeOK, WholeFits
    <3>2. \A n \in Nodes : node'[n] = "none" <=> execution' = "none"
      BY <2>2, <3>1 DEF IInv, WholeFits
    <3>3. \A n \in Nodes : node'[n] \in {"none", "done", "failed", "blocked"}
      BY <2>2 DEF NodeStatus
    <3>4. QED
      BY <3>1, <3>2, <3>3 DEF WholeFits, CancelledIsClosed, Nodes
  <2>9. Stands
    BY <1>2, <2>1, <2>2 DEF Stands, DoneStays, EndedIsQuiet, EndedRootSchedulesNothing
  <2>10. QED
    BY <2>6, <2>7, <2>8, <2>9 DEF IInv
<1>3. QED
  BY <1>1, <1>2 DEF ArchiveProject

LEMMA RequeuedFits ==
  ASSUME IInv, NEW l \in Attempts, run[l].physical < MaxPhysical
  PROVE  /\ Requeued(l) \in RunRecord /\ Requeued(l).status = "queued"
         /\ Requeued(l).outcome = run[l].outcome
<1>1. run[l] \in RunRecord /\ MaxPhysical \in Nat
  BY RunsContinue, GraphFields DEF IInv, TypeOK
<1>2. run[l].physical + 1 \in 0 .. MaxPhysical /\ 0 \in 0 .. MaxPhysical
  BY <1>1 DEF RunRecord
<1>3. run[l].outcome \in {"none", "passed", "failed"}
  BY <1>1 DEF RunRecord
<1>4. NoRun \in RunRecord
  BY <1>2 DEF NoRun, RunRecord
<1>5. QED
  BY <1>2, <1>3, <1>4 DEF Requeued, RunRecord

(* The steps of one Run. *)
RunAction(l) ==
  \/ RunStarts(l) \/ \E s \in {"succeeded", "failed"} : RunEnds(l, s)
  \/ Evaluate(l) \/ InsertFinalization(l) \/ Supervise(l)
  \/ Resume(l) \/ Abandon(l) \/ CancelRun(l)

LEMMA RunActionStep ==
  ASSUME IInv, NEW l \in Attempts, RunAction(l), graph' = graph
  PROVE  IInv' /\ Stands
<1>1. /\ run \in [Attempts -> RunRecord] /\ run[l] \in RunRecord
      /\ run[l].outcome = "passed" => run[l].status = "succeeded" /\ run[l].stage # "open"
  BY RunsContinue DEF Continued
<1>2. Kept
  BY DEF RunAction, RunStarts, RunEnds, Evaluate, InsertFinalization, Supervise, Resume, Abandon,
         CancelRun
<1>3. SUFFICES ASSUME TRUE PROVE Continued(run')
  BY <1>2, RunStep
<1>4. CASE RunStarts(l)
  <2> DEFINE x == [run[l] EXCEPT !.status = "running"]
  <2>1. run' = [run EXCEPT ![l] = x] /\ run[l].status = "queued"
    BY <1>1, <1>4 DEF RunStarts
  <2>2. x \in RunRecord /\ x.status = "running" /\ x.outcome = run[l].outcome
    BY <1>1 DEF RunRecord
  <2>3. QED
    BY <1>1, <2>1, <2>2, RunContinues
<1>5. CASE \E s \in {"succeeded", "failed"} : RunEnds(l, s)
  <2>1. PICK s \in {"succeeded", "failed"} : RunEnds(l, s)
    BY <1>5
  <2> DEFINE x == [run[l] EXCEPT !.status = s]
  <2>2. run' = [run EXCEPT ![l] = x] /\ run[l].status = "running"
    BY <1>1, <2>1 DEF RunEnds
  <2>3. x \in RunRecord /\ x.status = s /\ x.outcome = run[l].outcome
    BY <1>1 DEF RunRecord
  <2>4. QED
    BY <1>1, <2>2, <2>3, RunContinues
<1>6. CASE Evaluate(l)
  <2>1. PICK outcome \in {"passed", "failed"} :
          /\ run' = [run EXCEPT ![l].outcome = outcome, ![l].stage = "evaluated"]
          /\ outcome = "passed" => run[l].status = "succeeded"
    BY <1>6 DEF Evaluate
  <2> DEFINE x == [run[l] EXCEPT !.outcome = outcome, !.stage = "evaluated"]
  <2>2. run' = [run EXCEPT ![l] = x]
    BY <1>1, <2>1
  <2>3. x \in RunRecord /\ x.status = run[l].status /\ x.outcome = outcome /\ x.stage = "evaluated"
    BY <1>1 DEF RunRecord
  <2>4. run[l].status # "none" /\ run[l].stage = "open"
    BY <1>6 DEF Evaluate, Terminal
  <2>5. QED
    <3>1. x.outcome = "passed" => x.status = "succeeded" /\ x.stage # "open"
      BY <2>1, <2>3
    <3>2. ~(run[l].status = "succeeded" /\ run[l].outcome = "passed")
      BY <1>1, <2>4
    <3>3. x.status # "none"
      BY <2>3, <2>4
    <3>4. Continued([run EXCEPT ![l] = x])
      BY <2>3, <2>4, <3>1, <3>2, <3>3, RunContinues
    <3>5. QED
      BY <2>2, <3>4
<1>7. CASE InsertFinalization(l)
  <2> DEFINE x == [run[l] EXCEPT !.stage = "finalized"]
  <2>1. run' = [run EXCEPT ![l] = x] /\ run[l].status # "none"
    BY <1>1, <1>7 DEF InsertFinalization, Terminal
  <2>2. /\ x \in RunRecord /\ x.status = run[l].status /\ x.outcome = run[l].outcome
        /\ x.stage = "finalized"
    BY <1>1 DEF RunRecord
  <2>3. QED
    BY <1>1, <2>1, <2>2, RunContinues
<1>8. CASE Supervise(l)
  <2>1. run[l].status = "failed"
    BY <1>8 DEF Supervise
  <2>2. PICK x \in RunRecord : /\ run' = [run EXCEPT ![l] = x] /\ x.status # "none"
                               /\ x.outcome = run[l].outcome
    <3>1. CASE run[l].physical < MaxPhysical /\ run' = [run EXCEPT ![l] = Requeued(l)]
      BY <1>1, <3>1, RequeuedFits
    <3>2. CASE run' = [run EXCEPT ![l].status = "waiting_for_review", ![l].stage = "supervised"]
      <4> DEFINE x == [run[l] EXCEPT !.status = "waiting_for_review", !.stage = "supervised"]
      <4>1. run' = [run EXCEPT ![l] = x]
        BY <1>1, <3>2
      <4>2. x \in RunRecord /\ x.status # "none" /\ x.outcome = run[l].outcome
        BY <1>1 DEF RunRecord
      <4>3. QED
        BY <4>1, <4>2
    <3>3. CASE run' = [run EXCEPT ![l].stage = "supervised"]
      <4> DEFINE x == [run[l] EXCEPT !.stage = "supervised"]
      <4>1. run' = [run EXCEPT ![l] = x]
        BY <1>1, <3>3
      <4>2. x \in RunRecord /\ x.status # "none" /\ x.outcome = run[l].outcome
        BY <1>1, <2>1 DEF RunRecord
      <4>3. QED
        BY <4>1, <4>2
    <3>4. QED
      BY <1>8, <3>1, <3>2, <3>3 DEF Supervise
  <2>3. QED
    BY <1>1, <2>1, <2>2, RunContinues
<1>9. CASE Resume(l)
  <2>1. /\ run' = [run EXCEPT ![l] = Requeued(l)] /\ run[l].status = "waiting_for_review"
        /\ run[l].physical < MaxPhysical
    BY <1>9 DEF Resume
  <2>2. /\ Requeued(l) \in RunRecord /\ Requeued(l).status = "queued"
        /\ Requeued(l).outcome = run[l].outcome
    BY <2>1, RequeuedFits
  <2>3. QED
    BY <1>1, <2>1, <2>2, RunContinues
<1>10. CASE Abandon(l) \/ CancelRun(l)
  <2> DEFINE x == [run[l] EXCEPT !.status = "cancelled"]
  <2>1. run' = [run EXCEPT ![l] = x] /\ run[l].status \in {"queued", "running", "waiting_for_review"}
    BY <1>1, <1>10 DEF Abandon, CancelRun
  <2>2. x \in RunRecord /\ x.status = "cancelled" /\ x.outcome = run[l].outcome
    BY <1>1 DEF RunRecord
  <2>3. QED
    BY <1>1, <2>1, <2>2, RunContinues
<1>11. QED
  BY <1>4, <1>5, <1>6, <1>7, <1>8, <1>9, <1>10 DEF RunAction

LEMMA SettleStep ==
  ASSUME IInv, NEW l \in Attempts, Settle(l), graph' = graph
  PROVE  IInv' /\ Stands
<1> DEFINE x == [run[l] EXCEPT !.stage = "settled"]
<1>1. /\ run \in [Attempts -> RunRecord] /\ run[l] \in RunRecord /\ Approved(node)
      /\ run[l].outcome = "passed" => run[l].status = "succeeded" /\ run[l].stage # "open"
      /\ Continued(run)
  BY RunsContinue DEF Continued
<1>2. Reconcile(node, [run EXCEPT ![l] = x]) /\ UNCHANGED <<automation, project>>
  <2>1. [run EXCEPT ![l].stage = "settled"] = [run EXCEPT ![l] = x]
    BY <1>1
  <2>2. QED
    BY <2>1 DEF Settle
<1>3. Continued([run EXCEPT ![l] = x])
  <2>1. /\ x \in RunRecord /\ x.status = run[l].status /\ x.outcome = run[l].outcome
        /\ x.stage = "settled"
    BY <1>1 DEF RunRecord
  <2>2. QED
    BY <1>1, <2>1 DEF Continued
<1>4. QED
  BY <1>1, <1>2, <1>3, ReconcileStep

LEMMA CheckpointStep ==
  ASSUME IInv, NEW n \in Nodes, applyCheckpoint(n), graph' = graph
  PROVE  IInv' /\ Stands
<1>1. Approved([node EXCEPT ![n] = "done"]) /\ Continued(run)
  BY RunsContinue DEF applyCheckpoint, Approved, NodeStatus
<1>2. QED
  BY <1>1, ReconcileStep DEF applyCheckpoint

(* What people do to the whole, but for the archive. *)
LEMMA WholeStep ==
  ASSUME IInv, graph' = graph,
         CancelRoot \/ ReactivateProject \/ \E s \in {"active", "paused"} : SetAutomation(s)
  PROVE  IInv' /\ Stands
<1>1. UNCHANGED <<execution, node, attempts, superseded, run>>
  BY DEF CancelRoot, ReactivateProject, SetAutomation
<1>2. /\ automation' \in {"active", "paused"} /\ project' \in {"active", "archived"}
      /\ root' = root \/ (root = "waiting_for_dependency" /\ root' = "cancelled")
  BY DEF IInv, TypeOK, CancelRoot, ReactivateProject, SetAutomation
<1>3. Sound(node, attempts, superseded, run)'
  BY <1>1, SameGraph DEF IInv
<1>4. TypeOK'
  BY <1>1, <1>2, <1>3, TypeFollows DEF IInv, TypeOK
<1>5. WholeFits'
  BY <1>1, <1>2 DEF IInv, WholeFits, CancelledIsClosed, Nodes
<1>6. Stands
  BY <1>1 DEF Stands, DoneStays, EndedIsQuiet, EndedRootSchedulesNothing
<1>7. QED
  BY <1>3, <1>4, <1>5, <1>6 DEF IInv

LEMMA InitSound ==
  Init => IInv
<1> SUFFICES ASSUME Init PROVE IInv
  OBVIOUS
<1>1. /\ graph \in Graphs /\ execution = "none" /\ root = "none"
      /\ automation = "active" /\ project = "active"
      /\ \A n \in Nodes : node[n] = "none" /\ attempts[n] = 0 /\ superseded[n] = {}
      /\ \A l \in Attempts : run[l] = NoRun
  BY DEF Init
<1>2. NoRun \in RunRecord /\ NoRun.status = "none" /\ NoRun.outcome = "none"
  <2>1. 0 \in 0 .. MaxPhysical
    BY <1>1, GraphFields
  <2>2. QED
    BY <2>1 DEF NoRun, RunRecord
<1>3. Typed(node, attempts, superseded, run)
  BY <1>1, <1>2, GraphFields DEF Init, Typed, NodeStatus
<1>4. \A n \in Nodes : Speaking(attempts, superseded, run, n) = {}
  BY <1>1 DEF Speaking
<1>5. RunsFit(attempts, superseded, run)
  BY <1>1, <1>2, AttemptsAre, GraphFields DEF RunsFit
<1>6. NodesFit(node, attempts, superseded, run) /\ Earned(node, attempts, superseded, run)
      /\ Layered(node)
  BY <1>1, <1>4 DEF NodesFit, Earned, Layered
<1>7. WholeFits
  BY <1>1 DEF WholeFits, CancelledIsClosed
<1>8. TypeOK
  BY <1>1, <1>3 DEF TypeOK, Typed, RunRecord, NodeStatus
<1>9. QED
  BY <1>3, <1>5, <1>6, <1>7, <1>8 DEF IInv, Sound

LEMMA StepSound ==
  IInv /\ [Next]_vars => IInv' /\ (Stands \/ UNCHANGED vars)
<1> SUFFICES ASSUME IInv, [Next]_vars PROVE IInv' /\ (Stands \/ UNCHANGED vars)
  OBVIOUS
<1>1. CASE UNCHANGED vars
  <2>1. UNCHANGED <<graph, execution, automation, project, root, node, attempts, superseded, run>>
    BY <1>1 DEF vars, table
  <2>2. Sound(node, attempts, superseded, run)'
    BY <2>1, SameGraph DEF IInv
  <2>3. QED
    BY <1>1, <2>1, <2>2, TypeFollows DEF IInv, TypeOK, WholeFits, CancelledIsClosed, Nodes
<1>2. CASE Next
  <2>1. graph' = graph
    BY <1>2 DEF Next
  <2>2. CASE Start
    BY <2>1, <2>2, StartStep
  <2>3. CASE reconcileActive
    BY <2>1, <2>3, RunsContinue, ReconcileStep DEF reconcileActive
  <2>4. CASE ArchiveProject
    BY <2>1, <2>4, ArchiveStep
  <2>5. CASE CancelRoot \/ ReactivateProject \/ \E s \in {"active", "paused"} : SetAutomation(s)
    BY <2>1, <2>5, WholeStep
  <2>6. CASE \E n \in Nodes : applyCheckpoint(n)
    BY <2>1, <2>6, CheckpointStep
  <2>7. CASE \E l \in Attempts : RunAction(l)
    BY <2>1, <2>7, RunActionStep
  <2>8. CASE \E l \in Attempts : Settle(l)
    BY <2>1, <2>8, SettleStep
  <2>9. QED
    BY <1>2, <2>2, <2>3, <2>4, <2>5, <2>6, <2>7, <2>8 DEF Next, RunAction
<1>3. QED
  BY <1>1, <1>2

THEOREM InvariantHolds ==
  Spec => []IInv
<1>1. IInv /\ [Next]_vars => IInv'
  BY StepSound
<1>2. QED
  BY <1>1, InitSound, PTL DEF Spec

(* A node is done on the strength of the Run that speaks for it, was taken  *)
(* up after every node it requires was done, and is not left open by a      *)
(* cancelled execution: whatever the graph, however often its Runs are      *)
(* retried, set aside, evaluated late or given up, and whoever reconciles.  *)
THEOREM NodesAreAlwaysEarned ==
  Spec => []NodesAreEarned
<1>1. IInv => NodesAreEarned
  BY SoundSays DEF IInv, TypeOK, WholeFits, NodesAreEarned
<1>2. QED
  BY <1>1, InvariantHolds, PTL

(* What is done stays done, an execution that is over takes no attempt any  *)
(* more, and a Plan whose coordinator has ended schedules nothing.          *)
THEOREM WhatIsOverAlwaysStays ==
  Spec => WhatIsOverStays
<1>1. IInv /\ [Next]_vars =>
        [DoneStays /\ EndedIsQuiet /\ (Container = "plan" => EndedRootSchedulesNothing)]_vars
  BY StepSound DEF Stands
<1>2. QED
  BY <1>1, InvariantHolds, PTL DEF Spec, WhatIsOverStays

-----------------------------------------------------------------------------
(* The schedule of an Automation.                                          *)

(* What the scan carries: a slot that has come; no Run's fire is ever      *)
(* "working"; whoever works has an open automation run of its own.         *)
ScanIsSound ==
    /\ scan.at # "idle" => scan.slot \in 1 .. now
    /\ scan.at = "working" => course.kind # "run"
    /\ open >= AtWork(scan) + AtWork(hand)

(* What has been fired has come; neither what the scan is about to fire    *)
(* nor what it will find next has been fired.                              *)
Undisturbed == ~putBack /\ (course.kind = "run" \/ crashed = 0)
SlotsAreFresh ==
    Undisturbed =>
        /\ \A s \in Slots : fires[s] <= 1 /\ (fires[s] > 0 => s <= now)
        /\ scan.at = "read" => fires[scan.slot] = 0
        /\ status = "active" /\ scan.at # "working" /\ task.next # 0 => fires[task.next] = 0

(* What a PATCH and a fire by hand have read of an active Automation, and  *)
(* write back, is that it is active, with a next slot.                     *)
ReadsAreSound ==
    /\ \A c \in Callers : patch[c].at # "idle" => patch[c].change # "none"
    /\ ~crossed /\ status = "active" =>
        /\ task.status = "active" /\ task.next # 0
        /\ \A c \in Callers : patch[c].change \in {"reschedule", "rename"} => patch[c].status = "active"
        /\ \A c \in Callers : patch[c].change = "rename" /\ patch[c].at = "read" => patch[c].next # 0
        /\ hand.at \in {"row", "read"} => hand.status = "active"
        /\ hand.at = "read" => hand.next # 0

ScheduleInv == ScheduleTypeOK /\ ScanIsSound /\ SlotsAreFresh /\ ReadsAreSound /\ NativeIsTended

-----------------------------------------------------------------------------
LEMMA CourseFields ==
    ASSUME ScheduleTypeOK
    PROVE  /\ MaxTime \in Nat /\ course.kind \in {"run", "native", "digest"}
           /\ course.changes \subseteq {"pause", "activate", "archive", "reschedule", "rename"}
           /\ course.byHand \in BOOLEAN /\ course.time \in 0 .. MaxTime
           /\ course.crashes \in Nat /\ course.patches \in Nat
BY ScheduleAssumption DEF ScheduleTypeOK

(* A schedule written for a time that is still to come has its type. *)
LEMMA TaskType ==
    ASSUME NEW s \in Statuses, NEW n \in Times
    PROVE  /\ Task(s, n) \in [status : Statuses, next : Times]
           /\ Task(s, n).status = s
           /\ Task(s, n).next = IF s = "active" THEN n ELSE 0
BY ScheduleAssumption DEF Task, Times

LEMMA NextSlotType ==
    ASSUME ScheduleTypeOK
    PROVE  /\ NextSlot(now) \in Slots /\ NextSlot(now) > now
           /\ \A t \in 0 .. now : NextSlot(t) \in Times /\ NextSlot(t) # 0
BY CourseFields DEF ScheduleTypeOK, NextSlot, Times, Slots

LEMMA AdvancedTaskType ==
    ASSUME ScheduleTypeOK
    PROVE  AdvancedTask \in [status : Statuses, next : Times]
BY TaskType, NextSlotType DEF ScheduleTypeOK, AdvancedTask, Statuses

(* A fire is counted for its own slot. *)
LEMMA CountedType ==
    ASSUME ScheduleInv, scan.at # "idle"
    PROVE  /\ scan.slot \in Slots /\ scan.slot <= now
           /\ Counted \in [Slots -> Nat]
           /\ Counted[scan.slot] = fires[scan.slot] + 1
           /\ \A s \in Slots : s # scan.slot => Counted[s] = fires[s]
<1>1. now \in 0 .. MaxTime /\ MaxTime \in Nat /\ scan.slot \in 1 .. now
  BY ScheduleAssumption DEF ScheduleInv, ScheduleTypeOK, ScanIsSound
<1>2. scan.slot \in Slots /\ scan.slot <= now
  BY <1>1 DEF Slots
<1>3. fires \in [Slots -> Nat] /\ fires[scan.slot] + 1 \in Nat
  BY <1>2 DEF ScheduleInv, ScheduleTypeOK
<1>4. QED
  BY <1>2, <1>3 DEF Counted

(* Nobody's PATCH, and one in flight, have their type. *)
LEMMA NoPatchType ==
    NoPatch \in [at : {"idle", "row", "read"}, change : course.changes \cup {"none"},
                 status : Statuses, next : Times, since : 0 .. MaxTime]
BY ScheduleAssumption DEF NoPatch, Statuses, Times

LEMMA PatchType ==
    ASSUME ScheduleTypeOK, NEW c \in Callers
    PROVE  /\ patch[c].at \in {"idle", "row", "read"}
           /\ patch[c].change \in course.changes \cup {"none"}
           /\ patch[c].status \in Statuses /\ patch[c].next \in Times
           /\ patch[c].since \in 0 .. MaxTime
BY DEF ScheduleTypeOK

(* The row a PATCH writes has its type; when the Automation is active then *)
(* it is armed.                                                            *)
LEMMA PatchedRow ==
    ASSUME ScheduleInv, NEW c \in Callers, patch[c].at = "read",
           NEW t \in patch[c].since .. now
    PROVE  /\ PatchedStatus(patch[c]) \in Statuses
           /\ PatchedTask(patch[c], NextSlot(t)) \in [status : Statuses, next : Times]
           /\ ~crossed /\ PatchedStatus(patch[c]) = "active" =>
                /\ PatchedTask(patch[c], NextSlot(t)).status = "active"
                /\ PatchedTask(patch[c], NextSlot(t)).next # 0
<1> DEFINE p == patch[c]
           n == NextSlot(t)
<1> USE DEF PatchedStatus, PatchedTask, Task, Statuses
<1>1. /\ p.change \in course.changes /\ p.status \in Statuses /\ p.next \in Times
      /\ status \in Statuses
  BY PatchType DEF ScheduleInv, ScheduleTypeOK, ReadsAreSound
<1>2. p.change \in {"pause", "activate", "archive", "reschedule", "rename"}
  BY <1>1, CourseFields DEF ScheduleInv
<1>3. n \in Times /\ n # 0 /\ 0 \in Times
  <2>1. t \in 0 .. now
    BY PatchType, ScheduleAssumption DEF ScheduleInv, ScheduleTypeOK
  <2>2. QED
    BY <2>1, NextSlotType, ScheduleAssumption DEF ScheduleInv, Times
<1>4. ~crossed /\ status = "active" /\ p.change \in {"reschedule", "rename"} => p.status = "active"
  BY DEF ScheduleInv, ReadsAreSound
<1>5. ~crossed /\ status = "active" /\ p.change = "rename" => p.next # 0
  BY DEF ScheduleInv, ReadsAreSound
<1> HIDE DEF p, n
<1>6. /\ PatchedStatus(p) \in Statuses
      /\ PatchedTask(p, n) \in [status : Statuses, next : Times]
      /\ ~crossed /\ PatchedStatus(p) = "active" =>
           PatchedTask(p, n).status = "active" /\ PatchedTask(p, n).next # 0
  <2>1. CASE p.change \in {"pause", "archive"}
    BY <1>1, <1>3, <2>1
  <2>2. CASE p.change = "activate"
    BY <1>1, <1>3, <2>2
  <2>3. CASE p.change = "reschedule"
    BY <1>1, <1>3, <1>4, <2>3
  <2>4. CASE p.change = "rename"
    BY <1>1, <1>3, <1>4, <1>5, <2>4
  <2>5. QED
    BY <1>2, <2>1, <2>2, <2>3, <2>4
<1>7. QED
  BY <1>6 DEF p, n

-----------------------------------------------------------------------------
LEMMA Initially == ScheduleInit => ScheduleInv
<1> SUFFICES ASSUME ScheduleInit PROVE ScheduleInv
  OBVIOUS
<1> USE ScheduleAssumption DEF ScheduleInit, IdleScan, NoHand, NoPatch, Task
<1>1. ScheduleTypeOK
  <2>1. patch \in [Callers -> [at : {"idle", "row", "read"}, change : course.changes \cup {"none"},
                              status : Statuses, next : Times, since : 0 .. MaxTime]]
    <3> HIDE DEF NoPatch
    <3> QED
      BY NoPatchType
  <2>2. /\ task \in [status : Statuses, next : Times]
        /\ scan \in [at : {"idle", "read", "working"}, slot : Times]
        /\ hand \in [at : {"idle", "working", "fired", "row", "read"}, status : Statuses, next : Times]
    BY DEF Statuses, Times
  <2>3. /\ course \in Courses /\ now \in 0 .. MaxTime /\ status \in Statuses
        /\ fires \in [Slots -> Nat] /\ open \in Nat
        /\ crossed \in BOOLEAN /\ putBack \in BOOLEAN
        /\ sent \in 0 .. course.patches /\ crashed \in 0 .. course.crashes
    <3>1. MaxTime \in Nat /\ course.patches \in Nat /\ course.crashes \in Nat
      OBVIOUS
    <3>2. sent = 0 /\ crashed = 0 /\ now = 0 /\ fires \in [Slots -> Nat]
      OBVIOUS
    <3>3. crossed \in BOOLEAN /\ putBack \in BOOLEAN
      OBVIOUS
    <3>4. QED
      BY <3>1, <3>2, <3>3 DEF Statuses
  <2>4. QED
    BY <2>1, <2>2, <2>3 DEF ScheduleTypeOK
<1>2. ScanIsSound /\ ReadsAreSound /\ NativeIsTended
  BY DEF ScanIsSound, ReadsAreSound, NativeIsTended, AtWork
<1>3. SlotsAreFresh
  BY DEF SlotsAreFresh, Slots
<1>4. QED
  BY <1>1, <1>2, <1>3 DEF ScheduleInv

(* The type of every variable survives every step. *)
LEMMA StepKeepsTypes == ScheduleInv /\ ScheduleNext => ScheduleTypeOK'
<1> SUFFICES ASSUME ScheduleInv, ScheduleNext PROVE ScheduleTypeOK'
  OBVIOUS
<1> USE DEF ScheduleInv, history
<1>1. /\ course' = course /\ ScheduleTypeOK /\ ScanIsSound
      /\ now \in 0 .. MaxTime /\ MaxTime \in Nat
  BY ScheduleAssumption DEF ScheduleNext, ScheduleTypeOK
<1>2. CASE Tick
  BY <1>1, <1>2, CourseFields DEF Tick, ScheduleTypeOK
<1>3. CASE listDue
  BY <1>1, <1>3 DEF listDue, ScheduleTypeOK
<1>4. CASE fireRefused \/ scanFails
  BY <1>1, <1>4, AdvancedTaskType DEF fireRefused, scanFails, ScheduleTypeOK, IdleScan, Times
<1>5. CASE executeAgentRun
  BY <1>1, <1>5, AdvancedTaskType, CountedType DEF executeAgentRun, ScheduleTypeOK, IdleScan, Times
<1>6. CASE startNative
  BY <1>1, <1>6, CountedType DEF startNative, ScheduleTypeOK
<1>7. CASE finishNative \/ skipDigest
  BY <1>1, <1>7, AdvancedTaskType DEF finishNative, skipDigest, ScanIsSound, AtWork, ScheduleTypeOK, IdleScan, Times
<1>8. CASE fire
  BY <1>1, <1>8, CourseFields DEF fire, ScheduleTypeOK, NoHand, Statuses, Times
<1>9. CASE finishByHand
  BY <1>1, <1>9 DEF finishByHand, ScanIsSound, AtWork, ScheduleTypeOK, NoHand, Statuses, Times
<1>10. CASE recordFireReads
  BY <1>1, <1>10 DEF recordFireReads, ScheduleTypeOK
<1>11. CASE recordFireWrites
  BY <1>1, <1>11, TaskType DEF recordFireWrites, ScheduleTypeOK, NoHand, PutsBack, Statuses, Times
<1>12. ASSUME NEW c \in Callers, updateReads(c) PROVE ScheduleTypeOK'
  <2>1. PICK change \in course.changes : patch' = [patch EXCEPT ![c] =
              [at |-> IF change = "rename" THEN "row" ELSE "read",
               change |-> change, status |-> status, next |-> 0, since |-> now]]
    BY <1>12 DEF updateReads
  <2>2. [at |-> IF change = "rename" THEN "row" ELSE "read",
         change |-> change, status |-> status, next |-> 0, since |-> now]
          \in [at : {"idle", "row", "read"}, change : course.changes \cup {"none"},
              status : Statuses, next : Times, since : 0 .. MaxTime]
    BY <1>1 DEF ScheduleTypeOK, Times
  <2>3. patch' \in [Callers -> [at : {"idle", "row", "read"}, change : course.changes \cup {"none"},
                               status : Statuses, next : Times, since : 0 .. MaxTime]]
    BY <2>1, <2>2 DEF ScheduleTypeOK
  <2>4. QED
    BY <1>1, <1>12, <2>3, CourseFields DEF updateReads, ScheduleTypeOK
<1>13. ASSUME NEW c \in Callers, updateReadsSchedule(c) PROVE ScheduleTypeOK'
  <2>1. [patch[c] EXCEPT !.at = "read", !.next = task.next]
          \in [at : {"idle", "row", "read"}, change : course.changes \cup {"none"},
              status : Statuses, next : Times, since : 0 .. MaxTime]
    BY <1>1 DEF ScheduleTypeOK
  <2>2. patch' = [patch EXCEPT ![c] = [patch[c] EXCEPT !.at = "read", !.next = task.next]]
    BY <1>1, <1>13 DEF updateReadsSchedule, ScheduleTypeOK
  <2>3. patch' \in [Callers -> [at : {"idle", "row", "read"}, change : course.changes \cup {"none"},
                               status : Statuses, next : Times, since : 0 .. MaxTime]]
    BY <2>1, <2>2 DEF ScheduleTypeOK
  <2>4. QED
    BY <1>1, <1>13, <2>3 DEF updateReadsSchedule, ScheduleTypeOK
<1>14. ASSUME NEW c \in Callers, updateWrites(c) PROVE ScheduleTypeOK'
  <2>1. status' \in Statuses /\ task' \in [status : Statuses, next : Times]
    BY <1>14, PatchedRow DEF updateWrites
  <2>2. patch' = [patch EXCEPT ![c] = NoPatch] /\ crossed' \in BOOLEAN /\ putBack' \in BOOLEAN
    BY <1>1, <1>14 DEF updateWrites, WritesBack, PutsBack, ScheduleTypeOK
  <2>3. QED
    BY <1>1, <1>14, <2>1, <2>2, NoPatchType DEF updateWrites, ScheduleTypeOK
<1>15. CASE pauseArchivedProject
  BY <1>1, <1>15, CourseFields DEF pauseArchivedProject, ScheduleTypeOK, Statuses
<1>16. CASE Crash
  BY <1>1, <1>16, CourseFields
     DEF Crash, ScheduleTypeOK, IdleScan, NoHand, NoPatch, Statuses, Times
<1>17. QED
  BY <1>2, <1>3, <1>4, <1>5, <1>6, <1>7, <1>8, <1>9, <1>10, <1>11, <1>12, <1>13, <1>14, <1>15, <1>16
     DEF ScheduleNext, ScanStep

LEMMA StepKeepsScanSound == ScheduleInv /\ ScheduleNext => (ScanIsSound /\ NativeIsTended)'
<1> SUFFICES ASSUME ScheduleInv, ScheduleNext PROVE (ScanIsSound /\ NativeIsTended)'
  OBVIOUS
<1>1. /\ course' = course /\ ScheduleTypeOK /\ ScanIsSound /\ NativeIsTended
      /\ now \in Nat /\ open \in Nat /\ crashed \in Nat
      /\ scan \in [at : {"idle", "read", "working"}, slot : Times]
      /\ hand \in [at : {"idle", "working", "fired", "row", "read"}, status : Statuses, next : Times]
  BY CourseFields DEF ScheduleNext, ScheduleInv, ScheduleTypeOK
<1> USE <1>1 DEF ScanIsSound, NativeIsTended, AtWork, history
<1>2. CASE Tick
  BY <1>2 DEF Tick
<1>3. CASE listDue
  <2>1. task.next \in 1 .. now /\ scan' = [at |-> "read", slot |-> task.next] /\ scan.at = "idle"
    BY <1>3, ScheduleAssumption DEF listDue, IsDue, ScheduleTypeOK, Times
  <2>2. QED
    BY <1>3, <2>1 DEF listDue
<1>4. CASE fireRefused \/ scanFails \/ executeAgentRun
  BY <1>4 DEF fireRefused, scanFails, executeAgentRun, IdleScan
<1>5. CASE startNative
  BY <1>5 DEF startNative
<1>6. CASE finishNative \/ skipDigest
  BY <1>6 DEF finishNative, skipDigest, IdleScan
<1>7. CASE Crash
  BY <1>7 DEF Crash, IdleScan, NoHand
<1>8. CASE fire
  BY <1>8 DEF fire, NoHand
<1>9. CASE finishByHand
  BY <1>9 DEF finishByHand, NoHand
<1>10. CASE recordFireReads \/ recordFireWrites
  <2>1. /\ hand.at # "working" /\ hand'.at # "working"
        /\ UNCHANGED <<now, scan, open, crashed>>
    <3>1. CASE recordFireReads
      BY <3>1 DEF recordFireReads
    <3>2. CASE recordFireWrites
      BY <3>2 DEF recordFireWrites, NoHand
    <3>3. QED
      BY <1>10, <3>1, <3>2
  <2>2. QED
    BY <2>1
<1>11. CASE pauseArchivedProject \/ \E c \in Callers : updateReads(c) \/ updateReadsSchedule(c) \/ updateWrites(c)
  BY <1>11 DEF updateReads, updateReadsSchedule, updateWrites, pauseArchivedProject
<1>12. QED
  BY <1>2, <1>3, <1>4, <1>5, <1>6, <1>7, <1>8, <1>9, <1>10, <1>11 DEF ScheduleNext, ScanStep

(* No slot is fired twice: what is fired was fresh, and what is written    *)
(* instead of it is still to come.                                         *)
LEMMA StepKeepsSlotsFresh == ScheduleInv /\ ScheduleNext => SlotsAreFresh'
<1> SUFFICES ASSUME ScheduleInv, ScheduleNext, Undisturbed'
             PROVE  /\ \A s \in Slots : fires'[s] <= 1 /\ (fires'[s] > 0 => s <= now')
                    /\ scan'.at = "read" => fires'[scan'.slot] = 0
                    /\ status' = "active" /\ scan'.at # "working" /\ task'.next # 0
                         => fires'[task'.next] = 0
  BY DEF SlotsAreFresh
<1>1. /\ course' = course /\ ScheduleTypeOK /\ ScanIsSound
      /\ now \in 0 .. MaxTime /\ MaxTime \in Nat /\ crashed \in Nat
      /\ scan \in [at : {"idle", "read", "working"}, slot : Times]
      /\ fires \in [Slots -> Nat]
      /\ course.kind = "run" \/ crashed' = 0
  BY CourseFields DEF ScheduleNext, ScheduleInv, ScheduleTypeOK, Undisturbed
<1> USE DEF history
<1>2. (crashed' = crashed \/ crashed' = crashed + 1) /\ (putBack => putBack')
  <2>1. CASE Tick \/ ScanStep
    BY <2>1 DEF ScanStep, Tick, listDue, fireRefused, executeAgentRun, startNative,
                finishNative, scanFails, skipDigest
  <2>2. CASE fire \/ finishByHand \/ recordFireReads \/ pauseArchivedProject \/ Crash
    BY <2>2 DEF fire, finishByHand, recordFireReads, pauseArchivedProject, Crash
  <2>3. CASE recordFireWrites
    BY <2>3 DEF recordFireWrites
  <2>4. ASSUME NEW c \in Callers, updateReads(c) \/ updateReadsSchedule(c) \/ updateWrites(c)
        PROVE  crashed' = crashed /\ (putBack => putBack')
    <3>1. CASE updateReads(c) \/ updateReadsSchedule(c)
      BY <3>1 DEF updateReads, updateReadsSchedule
    <3>2. CASE updateWrites(c)
      BY <3>2 DEF updateWrites
    <3>3. QED
      BY <2>4, <3>1, <3>2
  <2>5. QED
    BY <2>1, <2>2, <2>3, <2>4 DEF ScheduleNext
<1>3. Undisturbed
  BY <1>1, <1>2 DEF Undisturbed
<1>4. /\ \A s \in Slots : fires[s] <= 1 /\ (fires[s] > 0 => s <= now)
      /\ scan.at = "read" => fires[scan.slot] = 0
      /\ status = "active" /\ scan.at # "working" /\ task.next # 0 => fires[task.next] = 0
      /\ ~putBack'
  BY <1>3 DEF ScheduleInv, SlotsAreFresh, Undisturbed
<1>5. /\ NextSlot(now) \in Slots /\ NextSlot(now) > now
      /\ \A s \in Slots : s > now => fires[s] = 0
  <2>1. NextSlot(now) \in Slots /\ NextSlot(now) > now
    BY <1>1, NextSlotType
  <2>2. ASSUME NEW s \in Slots, s > now PROVE fires[s] = 0
    BY <1>1, <1>4, <2>2 DEF Slots
  <2>3. QED
    BY <2>1, <2>2
<1>6. ASSUME UNCHANGED <<now, fires, scan>>, ~PutsBack(status', task')
      PROVE  status' = "active" /\ scan'.at # "working" /\ task'.next # 0 => fires'[task'.next] = 0
  <2>1. CASE <<status', task'>> = <<status, task>>
    BY <1>4, <1>6, <2>1
  <2>2. CASE task'.next \notin 1 .. now
    <3>1. task'.next \in Times
      BY StepKeepsTypes DEF ScheduleTypeOK
    <3>2. task'.next # 0 => task'.next \in Slots /\ task'.next > now
      BY <1>1, <2>2, <3>1 DEF Times, Slots
    <3>3. QED
      BY <1>5, <1>6, <3>2
  <2>3. QED
    BY <1>6, <2>1, <2>2 DEF PutsBack
<1>7. CASE Tick
  BY <1>1, <1>4, <1>7 DEF Tick, Slots
<1>8. CASE listDue
  BY <1>1, <1>4, <1>8 DEF listDue, IsDue
<1>9. CASE fireRefused
  BY <1>1, <1>4, <1>9 DEF fireRefused, StillActive, IdleScan
<1>10. CASE scanFails \/ finishNative \/ skipDigest
  <2>1. /\ UNCHANGED <<now, status, fires>> /\ scan'.at = "idle"
        /\ status = "active" => task'.next = NextSlot(now)
    BY <1>10 DEF scanFails, finishNative, skipDigest, AdvancedTask, Task, IdleScan
  <2>2. QED
    BY <1>4, <1>5, <2>1
<1>11. CASE executeAgentRun
  <2>1. /\ UNCHANGED <<now, status>> /\ scan'.at = "idle" /\ scan.at = "read"
        /\ task'.next = NextSlot(now) /\ fires' = Counted
    BY <1>11 DEF executeAgentRun, StillActive, AdvancedTask, Task, IdleScan
  <2>2. /\ scan.slot \in Slots /\ scan.slot <= now /\ fires'[scan.slot] = 1
        /\ \A s \in Slots : s # scan.slot => fires'[s] = fires[s]
    BY <1>4, <2>1, CountedType
  <2>3. NextSlot(now) # scan.slot
    BY <1>1, <1>5, <2>2 DEF Slots
  <2>4. QED
    BY <1>4, <1>5, <2>1, <2>2, <2>3
<1>12. CASE startNative
  <2>1. UNCHANGED now /\ scan'.at = "working" /\ scan.at = "read" /\ fires' = Counted
    BY <1>1, <1>12 DEF startNative
  <2>2. /\ scan.slot \in Slots /\ scan.slot <= now /\ fires'[scan.slot] = 1
        /\ \A s \in Slots : s # scan.slot => fires'[s] = fires[s]
    BY <1>4, <2>1, CountedType
  <2>3. QED
    BY <1>4, <2>1, <2>2
<1>13. CASE \E c \in Callers : updateReads(c) \/ updateReadsSchedule(c)
  BY <1>4, <1>13 DEF updateReads, updateReadsSchedule
<1>14. CASE \E c \in Callers : updateWrites(c)
  <2>1. UNCHANGED <<now, fires, scan>> /\ ~PutsBack(status', task')
    BY <1>4, <1>14 DEF updateWrites
  <2>2. QED
    BY <1>4, <1>6, <2>1
<1>15. CASE recordFireWrites
  <2>1. UNCHANGED <<now, status, fires, scan>> /\ ~PutsBack(status', task')
    BY <1>4, <1>15 DEF recordFireWrites
  <2>2. QED
    BY <1>4, <1>6, <2>1
<1>16. CASE Crash
  <2>1. course.kind = "run" /\ scan.at # "working"
    BY <1>1, <1>16, CourseFields DEF Crash, ScanIsSound
  <2>2. UNCHANGED <<now, status, task, fires>> /\ scan'.at = "idle"
    BY <1>16 DEF Crash, IdleScan
  <2>3. QED
    BY <1>4, <2>1, <2>2
<1>17. CASE fire \/ finishByHand \/ recordFireReads \/ pauseArchivedProject
  BY <1>4, <1>17 DEF fire, finishByHand, recordFireReads, pauseArchivedProject
<1>18. QED
  BY <1>7, <1>8, <1>9, <1>10, <1>11, <1>12, <1>13, <1>14, <1>15, <1>16, <1>17
     DEF ScheduleNext, ScanStep

(* What was read of an active Automation stays true of it until it is      *)
(* written: only a PATCH makes it active again, and unless that one crosses *)
(* them nothing has read it as stopped.                                    *)
LEMMA StepKeepsReadsSound == ScheduleInv /\ ScheduleNext => ReadsAreSound'
<1> SUFFICES ASSUME ScheduleInv, ScheduleNext PROVE ReadsAreSound'
  OBVIOUS
<1>1. /\ course' = course /\ ScheduleTypeOK /\ ReadsAreSound
      /\ NextSlot(now) # 0 /\ status \in Statuses
      /\ \A c \in Callers : patch[c].at = "read" \/ patch[c].at = "row" \/ patch[c].at = "idle"
      /\ "none" \notin course.changes
  <2>1. now \in 0 .. now
    BY ScheduleAssumption DEF ScheduleInv, ScheduleTypeOK
  <2>2. QED
    BY <2>1, NextSlotType, CourseFields, PatchType DEF ScheduleNext, ScheduleInv, ScheduleTypeOK
<1> USE <1>1 DEF ReadsAreSound, history
<1>2. CASE Tick \/ listDue \/ fireRefused \/ startNative
  BY <1>2 DEF Tick, listDue, fireRefused, startNative
<1>3. CASE executeAgentRun \/ finishNative \/ scanFails \/ skipDigest
  <2>1. UNCHANGED <<status, hand, patch, crossed>> /\ task' = AdvancedTask
    BY <1>3 DEF executeAgentRun, finishNative, scanFails, skipDigest
  <2>2. status = "active" => task'.status = "active" /\ task'.next # 0
    BY <2>1 DEF AdvancedTask, Task
  <2>3. QED
    BY <2>1, <2>2
<1>4. CASE fire \/ finishByHand
  BY <1>4 DEF fire, finishByHand, NoHand
<1>5. CASE recordFireReads
  BY <1>5 DEF recordFireReads, ScheduleTypeOK
<1>6. CASE recordFireWrites
  BY <1>6 DEF recordFireWrites, NoHand, Task
<1>7. ASSUME NEW c \in Callers, updateReads(c) PROVE ReadsAreSound'
  <2>1. PICK change \in course.changes : patch' = [patch EXCEPT ![c] =
              [at |-> IF change = "rename" THEN "row" ELSE "read",
               change |-> change, status |-> status, next |-> 0, since |-> now]]
    BY <1>7 DEF updateReads
  <2>2. /\ patch'[c].change = change /\ change # "none" /\ patch'[c].status = status
        /\ patch'[c].at = (IF change = "rename" THEN "row" ELSE "read")
        /\ \A d \in Callers : d # c => patch'[d] = patch[d]
    BY <2>1 DEF ScheduleTypeOK
  <2>3. UNCHANGED <<status, task, hand, crossed>>
    BY <1>7 DEF updateReads
  <2>4. QED
    BY <2>2, <2>3
<1>8. ASSUME NEW c \in Callers, updateReadsSchedule(c) PROVE ReadsAreSound'
  <2>1. /\ patch'[c].change = patch[c].change /\ patch'[c].status = patch[c].status
        /\ patch'[c].at = "read" /\ patch'[c].next = task.next /\ patch[c].at = "row"
        /\ \A d \in Callers : d # c => patch'[d] = patch[d]
    BY <1>8 DEF updateReadsSchedule, ScheduleTypeOK
  <2>2. UNCHANGED <<status, task, hand, crossed>>
    BY <1>8 DEF updateReadsSchedule
  <2>3. QED
    BY <2>1, <2>2
<1>9. ASSUME NEW c \in Callers, updateWrites(c) PROVE ReadsAreSound'
  <2>1. /\ patch[c].at = "read" /\ UNCHANGED hand /\ status' = PatchedStatus(patch[c])
        /\ ~crossed' => ~crossed /\ ~(patch[c].change = "activate" /\ status # "active" /\ WritesBack)
    BY <1>9 DEF updateWrites
  <2>2. /\ patch'[c] = NoPatch
        /\ \A d \in Callers : d # c => patch'[d] = patch[d]
    BY <1>9 DEF updateWrites, ScheduleTypeOK
  <2>3. ~crossed /\ status' = "active" => task'.status = "active" /\ task'.next # 0
    BY <1>9, PatchedRow DEF updateWrites
  <2>4. CASE status' = "active" /\ status # "active"
    <3>1. patch[c].change = "activate"
      BY <2>1, <2>4 DEF PatchedStatus
    <3>2. ~crossed' => /\ ~crossed /\ hand.at \notin {"row", "read"}
                       /\ \A d \in Callers : patch'[d].change \notin {"reschedule", "rename"}
      BY <2>1, <2>2, <2>4, <3>1 DEF WritesBack, NoPatch
    <3>3. \A d \in Callers : patch'[d].at # "idle" => patch'[d].change # "none"
      BY <2>2 DEF NoPatch
    <3>4. QED
      BY <2>1, <2>3, <3>2, <3>3
  <2>5. CASE status' # "active" \/ status = "active"
    BY <2>1, <2>2, <2>3, <2>5 DEF NoPatch
  <2>6. QED
    BY <2>4, <2>5
<1>10. CASE pauseArchivedProject
  BY <1>10 DEF pauseArchivedProject
<1>11. CASE Crash
  BY <1>11 DEF Crash, NoHand, NoPatch
<1>12. QED
  BY <1>2, <1>3, <1>4, <1>5, <1>6, <1>7, <1>8, <1>9, <1>10, <1>11 DEF ScheduleNext, ScanStep

-----------------------------------------------------------------------------
LEMMA Inductively == ScheduleInv /\ [ScheduleNext]_scheduleVars => ScheduleInv'
<1> SUFFICES ASSUME ScheduleInv, [ScheduleNext]_scheduleVars PROVE ScheduleInv'
  OBVIOUS
<1>1. CASE ScheduleNext
  BY <1>1, StepKeepsTypes, StepKeepsScanSound, StepKeepsSlotsFresh, StepKeepsReadsSound DEF ScheduleInv
<1>2. CASE UNCHANGED scheduleVars
  BY <1>2 DEF scheduleVars, schedule, history, ScheduleInv, ScheduleTypeOK, ScanIsSound, SlotsAreFresh,
              ReadsAreSound, NativeIsTended, AtWork, Undisturbed
<1>3. QED
  BY <1>1, <1>2

(* The schedule, the fires and the automation runs agree after every       *)
(* transaction, for every course and however many PATCHes overlap: unless  *)
(* one wrote back a slot that had come no slot is fired twice, an active   *)
(* Automation has a slot to come unless its activation crossed a PATCH or  *)
(* a fire that had read it as stopped, and an automation run that is open  *)
(* is worked on (repository.ts:375-441, 567-609, 660-681).                 *)
THEOREM ScheduleAlwaysAgrees == ScheduleSpec => []ScheduleAgrees
<1>1. ScheduleInv => ScheduleAgrees
  BY DEF ScheduleInv, SlotsAreFresh, ReadsAreSound, Undisturbed, ScheduleAgrees, OncePerSlot,
         ActiveIsArmed
<1>2. QED
  BY <1>1, Initially, Inductively, PTL DEF ScheduleSpec

(* Whatever was read before it, a stop stands: nothing is fired for an     *)
(* Automation that is not active, and no scan arms its schedule again      *)
(* (targetSupport.ts:117-140, repository.ts:567-572).                      *)
THEOREM StopsStand == ScheduleSpec => StopStands
<1>1. ScheduleInv /\ [ScheduleNext]_scheduleVars => [OnlyActiveFires /\ StoppedStays]_scheduleVars
  <2> SUFFICES ASSUME ScheduleInv, ScheduleNext PROVE OnlyActiveFires /\ StoppedStays
    OBVIOUS
  <2>1. OnlyActiveFires
    <3>1. fires \in [Slots -> Nat]
      BY DEF ScheduleInv, ScheduleTypeOK
    <3>2. fires' = fires \/ StillActive
      BY DEF ScheduleNext, ScanStep, Tick, listDue, fireRefused, executeAgentRun, startNative,
             finishNative, scanFails, skipDigest, fire, finishByHand, recordFireReads,
             recordFireWrites, updateReads, updateReadsSchedule, updateWrites,
             pauseArchivedProject, Crash
    <3>3. \A s \in Slots : ~(fires[s] > fires[s])
      BY <3>1
    <3>4. QED
      BY <3>2, <3>3 DEF OnlyActiveFires, StillActive
  <2>2. StoppedStays
    BY DEF StoppedStays, ScheduleNext, ScanStep, Tick, listDue, fireRefused, executeAgentRun,
           startNative, finishNative, scanFails, skipDigest, fire, finishByHand,
           recordFireReads, recordFireWrites, updateReads, updateReadsSchedule, updateWrites,
           pauseArchivedProject, Crash,
           AdvancedTask, StillActive
  <2>3. QED
    BY <2>1, <2>2
<1>2. QED
  BY <1>1, Initially, Inductively, PTL DEF ScheduleSpec, StopStands
=============================================================================
