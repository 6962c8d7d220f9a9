-------------------------- MODULE Approvals_proofs --------------------------
(***************************************************************************)
(* Theorems about what people and standing grants approve.                 *)
(*                                                                         *)
(* Grants and the Runs parked for them, for any Runs, requests, proposals  *)
(* and number of uses of a standing grant.  The acceptance with a grant    *)
(* takes a use before the proposal is applied and writes it at the end.    *)
(* The invariant says what the rows it holds still are meanwhile, whatever *)
(* the others do.                                                          *)
(*                                                                         *)
(* Code patches on the files of a Folder, for any patches, requests, edits *)
(* and tales.  Two invariants are built on one of shape: what a checked    *)
(* file may hold as long as nobody overtook the check, from which edits    *)
(* stand, and which patches are in the files (`In`), from which a status   *)
(* is true of its files.                                                   *)
(***************************************************************************)
EXTENDS Authorization, CodePatch, FiniteSetTheorems, TLAPS

AcceptedWith(g) == {p \in Proposals : prop[p].by = g}

(* What an action that proposes is about to write is still there to be     *)
(* written: the use of the grant and the proposal, both held.              *)
HoldsWhatItUses ==
    \A r \in Runs : LET c == call[r] IN
        /\ c.pc \in {"made", "holds"} => c.p \in Proposals /\ RunOf[c.p] = r
        /\ c.pc = "holds" => /\ c.g \in Grants /\ For(c.g, r) /\ prop[c.p].st = "pending"
                             /\ grant[c.g].st = "active" /\ grant[c.g].used < MaxUses(c.g)
        /\ c.pc # "holds" => c.g = None

(* A grant's row is held by one transaction.                               *)
HeldOnce == \A r, q \in Runs : call[r].pc = "holds" /\ call[q].pc = "holds" /\ call[r].g = call[q].g => r = q

(* What nobody decided was decided by nobody, and a grant nobody gave is   *)
(* unused.                                                                 *)
Undecided ==
    /\ \A p \in Proposals : prop[p].st \in {"none", "pending"} => prop[p].by = None
    /\ \A g \in Grants : grant[g].st = "none" => grant[g].used = 0

(* Nobody holds the job of a Run whose lane is free.                       *)
IdleHoldsNoJob == \A r \in Runs : lane[r] = "idle" => job[r] # "held"

IInv == TypeOK /\ UsesAreAccounted /\ HoldsWhatItUses /\ HeldOnce /\ Undecided /\ IdleHoldsNoJob

-----------------------------------------------------------------------------

LEMMA Fields ==
  ASSUME TypeOK
  PROVE  /\ \A r \in Runs : /\ run[r].st \in Open \cup {"over"} /\ run[r].on \in Decisions \cup {None}
                            /\ call[r].pc \in {"idle", "allowed", "made", "holds"}
                            /\ call[r].p \in Proposals \cup {None} /\ call[r].g \in Grants \cup {None}
         /\ \A g \in Grants : /\ grant[g].st \in {"none", "active", "revoked", "expired"}
                              /\ grant[g].used \in Nat /\ grant[g].late \in BOOLEAN
                              /\ MaxUses(g) \in Nat
         /\ \A p \in Proposals : /\ prop[p].st \in {"none", "pending", "accepted", "rejected"}
                                 /\ prop[p].by \in Grants \cup {Person, None}
         /\ story.crashes \in Nat /\ story.runs \subseteq Runs /\ story.denials \subseteq Decisions
         /\ story.proposals \subseteq Proposals
         /\ None \notin Grants /\ Person \notin Grants /\ None # Person /\ None \notin Proposals
<1>1. story \in Stories
  BY DEF TypeOK
<1>2. \A g \in Grants : MaxUses(g) \in Nat
  BY AuthorizationAssumption DEF MaxUses
<1>3. /\ None \notin Grants /\ Person \notin Grants /\ None # Person /\ None \notin Proposals
  BY AuthorizationAssumption DEF Grants
<1>4. \A r \in Runs : /\ run[r].st \in Open \cup {"over"} /\ run[r].on \in Decisions \cup {None}
                      /\ call[r].pc \in {"idle", "allowed", "made", "holds"}
                      /\ call[r].p \in Proposals \cup {None} /\ call[r].g \in Grants \cup {None}
  BY DEF TypeOK
<1>5. \A g \in Grants : /\ grant[g].st \in {"none", "active", "revoked", "expired"}
                        /\ grant[g].used \in Nat /\ grant[g].late \in BOOLEAN
  BY DEF TypeOK
<1>6. \A p \in Proposals : /\ prop[p].st \in {"none", "pending", "accepted", "rejected"}
                           /\ prop[p].by \in Grants \cup {Person, None}
  BY DEF TypeOK
<1>7. QED
  BY <1>1, <1>2, <1>3, <1>4, <1>5, <1>6, AuthorizationAssumption

(* A step that leaves grants, proposals and calls as they are, and decides  *)
(* no request favourably.                                                   *)
LEMMA GrantsAlone ==
  ASSUME IInv, UNCHANGED <<grant, prop, call>>,
         \A d \in Decisions : asked'[d] = "approved" <=> asked[d] = "approved"
  PROVE  UsesAreAccounted' /\ HoldsWhatItUses' /\ HeldOnce' /\ Undecided'
<1>1. UsesAreAccounted'
  BY DEF IInv, UsesAreAccounted
<1>2. HoldsWhatItUses'
  BY DEF IInv, HoldsWhatItUses
<1>3. HeldOnce' /\ Undecided'
  BY DEF IInv, HeldOnce, Undecided
<1>4. QED
  BY <1>1, <1>2, <1>3

(* A call that takes hold of nothing, or lets go.                           *)
LEMMA CallsAlone ==
  ASSUME IInv, UNCHANGED <<grant, prop>>,
         \A d \in Decisions : asked'[d] = "approved" <=> asked[d] = "approved",
         NEW r \in Runs, NEW c, call' = [call EXCEPT ![r] = c],
         c.pc # "holds" /\ c.g = None, c.pc = "made" => c.p \in Proposals /\ RunOf[c.p] = r
  PROVE  UsesAreAccounted' /\ HoldsWhatItUses' /\ HeldOnce' /\ Undecided'
<1>1. call'[r] = c /\ \A q \in Runs : q # r => call'[q] = call[q]
  BY DEF IInv, TypeOK
<1>2. UsesAreAccounted' /\ Undecided'
  BY DEF IInv, UsesAreAccounted, Undecided
<1>3. HoldsWhatItUses'
  BY <1>1 DEF IInv, HoldsWhatItUses
<1>4. HeldOnce'
  BY <1>1 DEF IInv, HeldOnce
<1>5. QED
  BY <1>2, <1>3, <1>4

LEMMA LanesTyped ==
  ASSUME TypeOK, NEW r \in Runs
  PROVE  /\ \A l \in {"idle", "turn", "left", "dead"} :
              [lane EXCEPT ![r] = l] \in [Runs -> {"idle", "turn", "left", "dead"}]
         /\ \A j \in {"none", "pending", "held"} :
              [job EXCEPT ![r] = j] \in [Runs -> {"none", "pending", "held"}]
         /\ \A st \in Open \cup {"over"}, on \in Decisions \cup {None} :
              [run EXCEPT ![r] = [st |-> st, on |-> on]]
                \in [Runs -> [st : Open \cup {"over"}, on : Decisions \cup {None}]]
BY DEF TypeOK

-----------------------------------------------------------------------------
(* The steps of a Run. *)

LEMMA LaneSteps ==
  ASSUME IInv, UNCHANGED story, NEW r \in story.runs,
         \/ Claim(r) \/ LeaveTurn(r) \/ CompleteJob(r) \/ Reclaim(r) \/ CancelEnds(r) \/ PersonCancels(r)
  PROVE  IInv'
<1>1. r \in Runs
  BY Fields DEF IInv
<1>2. UNCHANGED <<asked, reconcile, grant, prop, call, crashes>>
  BY DEF Claim, LeaveTurn, CompleteJob, Reclaim, CancelEnds, PersonCancels
<1>3. UsesAreAccounted' /\ HoldsWhatItUses' /\ HeldOnce' /\ Undecided'
  BY <1>2, GrantsAlone
<1>4. run' \in [Runs -> [st : Open \cup {"over"}, on : Decisions \cup {None}]]
  <2>1. run' = run \/ \E st \in Open \cup {"over"} : run' = [run EXCEPT ![r] = [st |-> st, on |-> None]]
    BY DEF Claim, LeaveTurn, CompleteJob, Reclaim, CancelEnds, PersonCancels, CancelRun, Set, Open
  <2>2. run \in [Runs -> [st : Open \cup {"over"}, on : Decisions \cup {None}]]
    BY DEF IInv, TypeOK
  <2>3. \A st \in Open \cup {"over"} : [run EXCEPT ![r] = [st |-> st, on |-> None]]
          \in [Runs -> [st : Open \cup {"over"}, on : Decisions \cup {None}]]
    BY <1>1, LanesTyped DEF IInv
  <2>4. QED
    BY <2>1, <2>2, <2>3
<1>5. lane' \in [Runs -> {"idle", "turn", "left", "dead"}]
  <2>1. lane' = lane \/ \E l \in {"idle", "turn", "left", "dead"} : lane' = [lane EXCEPT ![r] = l]
    BY DEF Claim, LeaveTurn, CompleteJob, Reclaim, CancelEnds, PersonCancels
  <2>2. QED
    BY <1>1, <2>1, LanesTyped DEF IInv, TypeOK
<1>6. job' \in [Runs -> {"none", "pending", "held"}]
  BY <1>1, LanesTyped, ZenonT(30) DEF IInv, TypeOK, Claim, LeaveTurn, CompleteJob, Reclaim, CancelEnds, PersonCancels
<1>7. TypeOK'
  BY <1>2, <1>4, <1>5, <1>6 DEF IInv, TypeOK
<1>8. IdleHoldsNoJob'
  BY <1>1 DEF IInv, TypeOK, IdleHoldsNoJob, Claim, LeaveTurn, CompleteJob, Reclaim, CancelEnds, PersonCancels
<1>9. QED
  BY <1>3, <1>7, <1>8 DEF IInv

LEMMA CallsTyped ==
  ASSUME TypeOK, NEW r \in Runs, NEW pc \in {"idle", "allowed", "made", "holds"},
         NEW p \in Proposals \cup {None}, NEW g \in Grants \cup {None}
  PROVE  [call EXCEPT ![r] = [pc |-> pc, p |-> p, g |-> g]] \in
           [Runs -> [pc : {"idle", "allowed", "made", "holds"},
                     p : Proposals \cup {None}, g : Grants \cup {None}]]
BY DEF TypeOK

LEMMA AskSteps ==
  ASSUME IInv, UNCHANGED story, NEW r \in story.runs, AskPolicy(r) \/ RequestAuthorization(r)
  PROVE  IInv'
<1>1. r \in Runs
  BY Fields DEF IInv
<1>2. \A d \in Decisions : asked'[d] = "approved" <=> asked[d] = "approved"
  BY DEF IInv, TypeOK, AskPolicy, RequestAuthorization
<1>3. asked' \in [Decisions -> {"none", "denied", "pending", "approved", "rejected"}]
  BY Fields, ZenonT(30) DEF IInv, TypeOK, AskPolicy, RequestAuthorization
<1>4. run' \in [Runs -> [st : Open \cup {"over"}, on : Decisions \cup {None}]]
  <2>1. run' = run \/ \E d \in Decisions : run' = [run EXCEPT ![r] = [st |-> "waiting", on |-> d]]
    BY DEF AskPolicy, RequestAuthorization
  <2>2. run \in [Runs -> [st : Open \cup {"over"}, on : Decisions \cup {None}]]
    BY DEF IInv, TypeOK
  <2>3. \A d \in Decisions : [run EXCEPT ![r] = [st |-> "waiting", on |-> d]]
          \in [Runs -> [st : Open \cup {"over"}, on : Decisions \cup {None}]]
    <3>1. "waiting" \in Open \cup {"over"} /\ \A d \in Decisions : d \in Decisions \cup {None}
      BY DEF Open
    <3>2. QED
      BY <1>1, <3>1, LanesTyped DEF IInv
  <2>4. QED
    BY <2>1, <2>2, <2>3
<1>5. UNCHANGED <<lane, job, reconcile, grant, prop, crashes>>
  BY DEF AskPolicy, RequestAuthorization
<1>6. IdleHoldsNoJob'
  BY <1>5 DEF IInv, IdleHoldsNoJob
<1>7. CASE UNCHANGED call
  BY <1>2, <1>3, <1>4, <1>5, <1>6, <1>7, GrantsAlone DEF IInv, TypeOK
<1>8. CASE AskPolicy(r) /\ call' # call
  <2>1. PICK c : c = [pc |-> "allowed", p |-> None, g |-> None]
    OBVIOUS
  <2>2. call' = [call EXCEPT ![r] = c] /\ c.pc = "allowed" /\ c.g = None
    BY <1>1, <1>8, <2>1 DEF AskPolicy, Idle
  <2>3. call' \in [Runs -> [pc : {"idle", "allowed", "made", "holds"},
                            p : Proposals \cup {None}, g : Grants \cup {None}]]
    BY <1>1, <2>1, <2>2, CallsTyped DEF IInv
  <2>4. UsesAreAccounted' /\ HoldsWhatItUses' /\ HeldOnce' /\ Undecided'
    BY <1>1, <1>2, <1>5, <2>2, CallsAlone
  <2>5. QED
    BY <1>3, <1>4, <1>5, <1>6, <2>3, <2>4 DEF IInv, TypeOK
<1>9. QED
  BY <1>7, <1>8 DEF RequestAuthorization

(* A call that ends or is given up, whatever it held.                       *)
LEMMA CallEnds ==
  ASSUME IInv, UNCHANGED <<story, grant, prop, asked>>, NEW r \in Runs,
         call' = [call EXCEPT ![r] = Idle]
  PROVE  /\ UsesAreAccounted' /\ HoldsWhatItUses' /\ HeldOnce' /\ Undecided'
         /\ call' \in [Runs -> [pc : {"idle", "allowed", "made", "holds"},
                                p : Proposals \cup {None}, g : Grants \cup {None}]]
<1>1. PICK c : c = Idle
  OBVIOUS
<1>2. c.pc = "idle" /\ c.g = None
  BY <1>1 DEF Idle
<1>3. UsesAreAccounted' /\ HoldsWhatItUses' /\ HeldOnce' /\ Undecided'
  BY <1>1, <1>2, CallsAlone
<1>4. QED
  BY <1>3, CallsTyped DEF IInv, Idle

LEMMA EndSteps ==
  ASSUME IInv, UNCHANGED story, NEW r \in story.runs, ApplyFails(r) \/ Crash(r)
  PROVE  IInv'
<1>1. r \in Runs
  BY Fields DEF IInv
<1>2. UNCHANGED <<run, job, asked, reconcile, grant, prop>> /\ call' = [call EXCEPT ![r] = Idle]
  BY DEF ApplyFails, Crash
<1>3. crashes' \in 0 .. story.crashes
  BY Fields DEF IInv, TypeOK, ApplyFails, Crash
<1>4. lane' \in [Runs -> {"idle", "turn", "left", "dead"}] /\ IdleHoldsNoJob'
  BY <1>1, <1>2, SMTT(30) DEF IInv, TypeOK, IdleHoldsNoJob, ApplyFails, Crash
<1>5. QED
  BY <1>1, <1>2, <1>3, <1>4, CallEnds DEF IInv, TypeOK

LEMMA AccountedFor ==
  ASSUME IInv, UNCHANGED <<grant, asked>>,
         \A g \in Grants : AcceptedWith(g)' = AcceptedWith(g)
                         /\ \A q \in AcceptedWith(g) : prop'[q] = prop[q]
  PROVE  UsesAreAccounted'
<1>1. SUFFICES ASSUME NEW g \in Grants
               PROVE  /\ grant'[g].used = Cardinality(AcceptedWith(g)')
                      /\ grant'[g].used <= MaxUses(g)
                      /\ \A p \in AcceptedWith(g)' : prop'[p].st = "accepted" /\ For(g, RunOf[p])
                      /\ g \in Decisions => (grant'[g].st # "none" <=> asked'[g] = "approved")
  BY DEF UsesAreAccounted, AcceptedWith
<1>2. /\ grant[g].used = Cardinality(AcceptedWith(g)) /\ grant[g].used <= MaxUses(g)
      /\ \A p \in AcceptedWith(g) : prop[p].st = "accepted" /\ For(g, RunOf[p])
      /\ g \in Decisions => (grant[g].st # "none" <=> asked[g] = "approved")
  BY DEF IInv, UsesAreAccounted, AcceptedWith
<1>3. AcceptedWith(g)' = AcceptedWith(g) /\ \A q \in AcceptedWith(g) : prop'[q] = prop[q]
  OBVIOUS
<1>4. QED
  BY <1>2, <1>3

LEMMA ProposeSteps ==
  ASSUME IInv, UNCHANGED story, NEW r \in story.runs, Propose(r)
  PROVE  IInv'
<1>1. r \in Runs /\ story.proposals \subseteq Proposals
  BY Fields DEF IInv
<1>2. PICK p \in story.proposals : /\ RunOf[p] = r /\ prop[p].st = "none"
                                   /\ prop' = [prop EXCEPT ![p].st = "pending"]
                                   /\ call' = [call EXCEPT ![r] = [pc |-> "made", p |-> p, g |-> None]]
  BY DEF Propose
<1>3. UNCHANGED <<run, lane, job, asked, reconcile, grant, crashes>>
  BY DEF Propose
<1>4. /\ prop' \in [Proposals -> [st : {"none", "pending", "accepted", "rejected"},
                                  by : Grants \cup {Person, None}]]
      /\ \A q \in Proposals : prop'[q].by = prop[q].by /\ (q # p => prop'[q] = prop[q])
      /\ prop'[p].st = "pending" /\ prop[p].by = None
  BY <1>1, <1>2 DEF IInv, TypeOK, Undecided
<1>5. call' \in [Runs -> [pc : {"idle", "allowed", "made", "holds"},
                          p : Proposals \cup {None}, g : Grants \cup {None}]]
  BY <1>1, <1>2, CallsTyped DEF IInv
<1>6. \A q \in Runs : q # r => call'[q] = call[q]
  BY <1>2 DEF IInv, TypeOK
<1>7. call'[r].pc = "made" /\ call'[r].p = p /\ call'[r].g = None
  BY <1>1, <1>2 DEF IInv, TypeOK
<1>8. HoldsWhatItUses'
  BY <1>1, <1>2, <1>3, <1>4, <1>6, <1>7 DEF IInv, HoldsWhatItUses
<1>9. HeldOnce'
  BY <1>6, <1>7 DEF IInv, HeldOnce
<1>10. Undecided'
  BY <1>3, <1>4 DEF IInv, Undecided
<1>11. UsesAreAccounted'
  <2>1. \A g \in Grants : AcceptedWith(g)' = AcceptedWith(g)
    BY <1>4 DEF AcceptedWith
  <2>2. \A g \in Grants : p \notin AcceptedWith(g)
    BY <1>4, Fields DEF IInv, AcceptedWith
  <2>3. \A g \in Grants : \A q \in AcceptedWith(g) : prop'[q] = prop[q]
    BY <1>4, <2>2 DEF AcceptedWith
  <2>4. QED
    BY <1>3, <2>1, <2>3, AccountedFor
<1>12. QED
  BY <1>3, <1>4, <1>5, <1>8, <1>9, <1>10, <1>11 DEF IInv, TypeOK, IdleHoldsNoJob

LEMMA TakeSteps ==
  ASSUME IInv, UNCHANGED story, NEW r \in story.runs, TakeGrant(r)
  PROVE  IInv'
<1>1. r \in Runs /\ call[r].pc = "made" /\ call[r].p \in Proposals /\ RunOf[call[r].p] = r
  BY Fields DEF IInv, TakeGrant, HoldsWhatItUses
<1>2. UNCHANGED <<run, lane, job, asked, reconcile, grant, prop, crashes>>
  BY DEF TakeGrant
<1>3. CASE ~Ready(r)
  <2>1. call' = [call EXCEPT ![r] = Idle]
    BY <1>3 DEF TakeGrant
  <2>2. QED
    BY <1>1, <1>2, <2>1, CallEnds DEF IInv, TypeOK, IdleHoldsNoJob
<1>4. CASE Ready(r)
  <2>1. PICK g \in Best(r) : call' = [call EXCEPT ![r].pc = "holds", ![r].g = g]
    BY <1>4 DEF TakeGrant
  <2>2. /\ g \in Grants /\ For(g, r) /\ grant[g].st = "active" /\ ~Stale(g) /\ ~Held(g)
    BY <2>1 DEF Best, Matching
  <2>3. grant[g].used < MaxUses(g)
    <3>1. grant[g].used # MaxUses(g)
      BY <2>2 DEF Stale
    <3>2. grant[g].used <= MaxUses(g)
      BY <2>2 DEF IInv, UsesAreAccounted
    <3>3. grant[g].used \in Nat /\ MaxUses(g) \in Nat
      BY <2>2, Fields DEF IInv
    <3>4. QED
      BY <3>1, <3>2, <3>3
  <2>4. call'[r].pc = "holds" /\ call'[r].g = g /\ call'[r].p = call[r].p
        /\ \A q \in Runs : q # r => call'[q] = call[q]
    BY <1>1, <2>1 DEF IInv, TypeOK
  <2>5. prop[call[r].p].st = "pending"
    BY <1>4 DEF Ready
  <2>6. HoldsWhatItUses'
    BY <1>1, <1>2, <2>2, <2>3, <2>4, <2>5 DEF IInv, HoldsWhatItUses
  <2>7. HeldOnce'
    BY <2>2, <2>4 DEF IInv, HeldOnce, Held
  <2>8. call' \in [Runs -> [pc : {"idle", "allowed", "made", "holds"},
                            p : Proposals \cup {None}, g : Grants \cup {None}]]
    <3>1. PICK c : c = [pc |-> "holds", p |-> call[r].p, g |-> g]
      OBVIOUS
    <3>2. [call EXCEPT ![r] = c] = [call EXCEPT ![r].pc = "holds", ![r].g = g]
      BY <1>1, <3>1, ZenonT(30) DEF IInv, TypeOK
    <3>3. g \in Grants \cup {None} /\ call[r].p \in Proposals \cup {None}
      BY <1>1, <2>2
    <3>4. QED
      BY <1>1, <2>1, <3>1, <3>2, <3>3, CallsTyped DEF IInv
  <2>9. UsesAreAccounted' /\ Undecided'
    BY <1>2 DEF IInv, UsesAreAccounted, Undecided
  <2>10. QED
    BY <1>2, <2>6, <2>7, <2>8, <2>9 DEF IInv, TypeOK, IdleHoldsNoJob
<1>5. QED
  BY <1>3, <1>4

LEMMA AcceptSteps ==
  ASSUME IInv, UNCHANGED story, NEW r \in story.runs, AcceptGranted(r)
  PROVE  IInv'
<1>1. r \in Runs
  BY Fields DEF IInv
<1>2. PICK g, p : g = call[r].g /\ p = call[r].p
  OBVIOUS
<1>3. /\ grant' = [grant EXCEPT ![g].used = @ + 1] /\ call' = [call EXCEPT ![r] = Idle]
      /\ prop' = [prop EXCEPT ![p] = [st |-> "accepted", by |-> g]]
      /\ UNCHANGED <<run, lane, job, asked, reconcile, crashes>> /\ call[r].pc = "holds"
  BY <1>2 DEF AcceptGranted
<1>4. /\ g \in Grants /\ p \in Proposals /\ RunOf[p] = r /\ For(g, r)
      /\ prop[p].st = "pending" /\ prop[p].by = None
      /\ grant[g].st = "active" /\ grant[g].used < MaxUses(g)
  BY <1>1, <1>2, <1>3 DEF IInv, HoldsWhatItUses, Undecided
<1>5. /\ \A h \in Grants : grant'[h].st = grant[h].st /\ grant'[h].late = grant[h].late
                          /\ (h # g => grant'[h].used = grant[h].used)
      /\ grant'[g].used = grant[g].used + 1
      /\ grant' \in [Grants -> [st : {"none", "active", "revoked", "expired"},
                                used : Nat, late : BOOLEAN]]
  BY <1>3, <1>4 DEF IInv, TypeOK
<1>6. /\ \A q \in Proposals : q # p => prop'[q] = prop[q]
      /\ prop'[p].st = "accepted" /\ prop'[p].by = g
      /\ prop' \in [Proposals -> [st : {"none", "pending", "accepted", "rejected"},
                                  by : Grants \cup {Person, None}]]
  <2>1. PICK e : e = [st |-> "accepted", by |-> g]
    OBVIOUS
  <2>2. e \in [st : {"none", "pending", "accepted", "rejected"}, by : Grants \cup {Person, None}]
    BY <1>4, <2>1
  <2>3. QED
    BY <1>3, <1>4, <2>1, <2>2 DEF IInv, TypeOK
<1>7. call' \in [Runs -> [pc : {"idle", "allowed", "made", "holds"},
                          p : Proposals \cup {None}, g : Grants \cup {None}]]
  BY <1>1, <1>3, CallsTyped DEF IInv, Idle
<1>8. (\A q \in Runs : q # r => call'[q] = call[q]) /\ call'[r].pc = "idle" /\ call'[r].g = None
  BY <1>1, <1>3 DEF IInv, TypeOK, Idle
<1>9. \A q \in Runs : q # r /\ call[q].pc = "holds" => call[q].g # g /\ call[q].p # p
  BY <1>1, <1>2, <1>3, <1>4 DEF IInv, HeldOnce, HoldsWhatItUses
<1>10. HoldsWhatItUses'
  <2>1. SUFFICES ASSUME NEW q \in Runs, q # r, call[q].pc = "holds"
                 PROVE  /\ prop'[call[q].p] = prop[call[q].p]
                        /\ grant'[call[q].g].st = grant[call[q].g].st
                        /\ grant'[call[q].g].used = grant[call[q].g].used
    BY <1>8 DEF IInv, HoldsWhatItUses
  <2>2. call[q].g \in Grants /\ call[q].p \in Proposals
    BY <2>1 DEF IInv, HoldsWhatItUses
  <2>3. QED
    BY <1>5, <1>6, <1>9, <2>1, <2>2
<1>11. HeldOnce'
  BY <1>8 DEF IInv, HeldOnce
<1>12. Undecided'
  BY <1>4, <1>5, <1>6 DEF IInv, Undecided
<1>13. UsesAreAccounted'
  <2>1. SUFFICES ASSUME NEW h \in Grants
                 PROVE  /\ grant'[h].used = Cardinality(AcceptedWith(h)')
                        /\ grant'[h].used <= MaxUses(h)
                        /\ \A q \in AcceptedWith(h)' : prop'[q].st = "accepted" /\ For(h, RunOf[q])
                        /\ h \in Decisions => (grant'[h].st # "none" <=> asked'[h] = "approved")
    BY DEF UsesAreAccounted, AcceptedWith
  <2>2. /\ grant[h].used = Cardinality(AcceptedWith(h)) /\ grant[h].used <= MaxUses(h)
        /\ \A q \in AcceptedWith(h) : prop[q].st = "accepted" /\ For(h, RunOf[q])
        /\ h \in Decisions => (grant[h].st # "none" <=> asked[h] = "approved")
    BY DEF IInv, UsesAreAccounted, AcceptedWith
  <2>3. p \notin AcceptedWith(h)
    BY <1>4, Fields DEF IInv, AcceptedWith
  <2>4. CASE h # g
    <3>1. AcceptedWith(h)' = AcceptedWith(h) /\ \A q \in AcceptedWith(h) : prop'[q] = prop[q]
      BY <1>6, <2>3, <2>4 DEF AcceptedWith
    <3>2. QED
      BY <1>3, <1>5, <2>2, <2>4, <3>1
  <2>5. CASE h = g
    <3>1. AcceptedWith(h)' = AcceptedWith(h) \cup {p}
          /\ \A q \in AcceptedWith(h) : prop'[q] = prop[q]
      BY <1>4, <1>6, <2>3, <2>5 DEF AcceptedWith
    <3>2. IsFiniteSet(AcceptedWith(h))
      BY FS_Subset, AuthorizationAssumption DEF AcceptedWith
    <3>3. Cardinality(AcceptedWith(h) \cup {p}) = Cardinality(AcceptedWith(h)) + 1
      BY <2>3, <3>2, FS_AddElement
    <3>4. grant'[h].used <= MaxUses(h)
      <4>1. grant[h].used \in Nat /\ MaxUses(h) \in Nat
        BY Fields DEF IInv
      <4>2. QED
        BY <1>4, <1>5, <2>5, <4>1
    <3>5. \A q \in AcceptedWith(h)' : prop'[q].st = "accepted" /\ For(h, RunOf[q])
      BY <1>4, <1>6, <2>2, <2>5, <3>1
    <3>6. QED
      BY <1>3, <1>5, <2>2, <2>5, <3>1, <3>3, <3>4, <3>5
  <2>6. QED
    BY <2>4, <2>5
<1>14. QED
  BY <1>3, <1>5, <1>6, <1>7, <1>10, <1>11, <1>12, <1>13 DEF IInv, TypeOK, IdleHoldsNoJob

-----------------------------------------------------------------------------
(* The steps of the persons. *)

(* What a change of grants that uses none must leave.                       *)
LEMMA GrantsChange ==
  ASSUME IInv, UNCHANGED <<prop, call>>,
         \A g \in Grants : /\ grant'[g].used = grant[g].used
                           /\ Held(g) => grant'[g].st = grant[g].st
                           /\ grant'[g].st = "none" => grant[g].st = "none"
                           /\ g \in Decisions => (grant'[g].st # "none" <=> asked'[g] = "approved")
  PROVE  UsesAreAccounted' /\ HoldsWhatItUses' /\ HeldOnce' /\ Undecided'
<1>1. UsesAreAccounted'
  <2>1. SUFFICES ASSUME NEW g \in Grants
                 PROVE  /\ grant'[g].used = Cardinality(AcceptedWith(g)')
                        /\ grant'[g].used <= MaxUses(g)
                        /\ \A p \in AcceptedWith(g)' : prop'[p].st = "accepted" /\ For(g, RunOf[p])
                        /\ g \in Decisions => (grant'[g].st # "none" <=> asked'[g] = "approved")
    BY DEF UsesAreAccounted, AcceptedWith
  <2>2. /\ grant[g].used = Cardinality(AcceptedWith(g)) /\ grant[g].used <= MaxUses(g)
        /\ \A p \in AcceptedWith(g) : prop[p].st = "accepted" /\ For(g, RunOf[p])
    BY DEF IInv, UsesAreAccounted, AcceptedWith
  <2>3. AcceptedWith(g)' = AcceptedWith(g) /\ grant'[g].used = grant[g].used
    BY DEF AcceptedWith
  <2>4. QED
    BY <2>2, <2>3
<1>2. HoldsWhatItUses'
  <2>1. SUFFICES ASSUME NEW r \in Runs, call[r].pc = "holds"
                 PROVE  /\ grant'[call[r].g].st = grant[call[r].g].st
                        /\ grant'[call[r].g].used = grant[call[r].g].used
    BY DEF IInv, HoldsWhatItUses
  <2>2. call[r].g \in Grants /\ Held(call[r].g)
    BY <2>1 DEF IInv, HoldsWhatItUses, Held
  <2>3. QED
    BY <2>2
<1>3. HeldOnce' /\ Undecided'
  BY DEF IInv, HeldOnce, Undecided
<1>4. QED
  BY <1>1, <1>2, <1>3

LEMMA ApproveSteps ==
  ASSUME IInv, UNCHANGED story, NEW d \in story.denials, Approve(d)
  PROVE  IInv'
<1>1. d \in Decisions /\ d \in Grants /\ asked[d] = "pending"
  BY Fields DEF IInv, Approve, Grants
<1>2. /\ \A e \in SameScope(d) : ~Held(e)
      /\ asked' = [asked EXCEPT ![d] = "approved"] /\ reconcile' = [reconcile EXCEPT ![d] = "pending"]
      /\ UNCHANGED <<run, lane, job, prop, call, crashes>>
      /\ grant' = [g \in Grants |->
           CASE g = d -> [st |-> "active", used |-> 0, late |-> FALSE]
             [] g \in SameScope(d) \ {d} /\ Stale(g) -> [grant[g] EXCEPT !.st = "expired"]
             [] OTHER -> grant[g]]
  BY DEF Approve
<1>3. grant[d].st = "none" /\ grant[d].used = 0
  BY <1>1 DEF IInv, UsesAreAccounted, Undecided
<1>4. /\ grant'[d].st = "active" /\ grant'[d].used = 0 /\ grant'[d].late = FALSE
      /\ \A g \in Grants \ {d} : \/ grant'[g] = grant[g]
                                 \/ /\ g \in SameScope(d) /\ grant[g].st = "active"
                                    /\ grant'[g].st = "expired" /\ grant'[g].used = grant[g].used
                                    /\ grant'[g].late = grant[g].late
  <2>1. \A g \in Grants \ {d} : grant'[g] = grant[g]
                               \/ (g \in SameScope(d) /\ Stale(g) /\ grant'[g] = [grant[g] EXCEPT !.st = "expired"])
    BY <1>2
  <2>2. \A g \in Grants : Stale(g) => grant[g].st = "active"
    BY DEF Stale
  <2>3. PICK e : e = [st |-> "active", used |-> 0, late |-> FALSE]
    OBVIOUS
  <2>4. grant'[d] = e
    BY <1>1, <1>2, <2>3
  <2>5. grant'[d].st = "active" /\ grant'[d].used = 0 /\ grant'[d].late = FALSE
    BY <2>3, <2>4
  <2>6. \A g \in Grants : grant[g] \in [st : {"none", "active", "revoked", "expired"},
                                       used : Nat, late : BOOLEAN]
    BY DEF IInv, TypeOK
  <2>7. QED
    BY <2>1, <2>2, <2>5, <2>6, ZenonT(30)
<1>5. grant' \in [Grants -> [st : {"none", "active", "revoked", "expired"}, used : Nat, late : BOOLEAN]]
  <2>1. \A g \in Grants : grant[g] \in [st : {"none", "active", "revoked", "expired"},
                                       used : Nat, late : BOOLEAN]
    BY DEF IInv, TypeOK
  <2>2. \A g \in Grants : [grant[g] EXCEPT !.st = "expired"]
                              \in [st : {"none", "active", "revoked", "expired"}, used : Nat, late : BOOLEAN]
    BY <2>1
  <2>3. [st |-> "active", used |-> 0, late |-> FALSE]
          \in [st : {"none", "active", "revoked", "expired"}, used : Nat, late : BOOLEAN]
    OBVIOUS
  <2>4. QED
    BY <1>2, <2>1, <2>2, <2>3
<1>6. /\ asked' \in [Decisions -> {"none", "denied", "pending", "approved", "rejected"}]
      /\ reconcile' \in [Decisions -> {"none", "pending", "done"}]
      /\ asked'[d] = "approved" /\ \A e \in Decisions \ {d} : asked'[e] = asked[e]
  BY <1>1, <1>2 DEF IInv, TypeOK
<1>7. UsesAreAccounted' /\ HoldsWhatItUses' /\ HeldOnce' /\ Undecided'
  <2>1. SUFFICES ASSUME NEW g \in Grants
                 PROVE  /\ grant'[g].used = grant[g].used
                        /\ Held(g) => grant'[g].st = grant[g].st
                        /\ grant'[g].st = "none" => grant[g].st = "none"
                        /\ g \in Decisions => (grant'[g].st # "none" <=> asked'[g] = "approved")
    BY <1>2, GrantsChange
  <2>2. CASE g = d
    <3>1. ~Held(d)
      BY <1>1, <1>2 DEF SameScope
    <3>2. QED
      BY <1>3, <1>4, <1>6, <2>2, <3>1
  <2>3. CASE g # d
    <3>1. g \in Decisions => (grant[g].st # "none" <=> asked[g] = "approved") /\ asked'[g] = asked[g]
      BY <1>6, <2>3 DEF IInv, UsesAreAccounted
    <3>2. QED
      BY <1>2, <1>4, <2>3, <3>1
  <2>4. QED
    BY <2>2, <2>3
<1>8. QED
  BY <1>2, <1>5, <1>6, <1>7 DEF IInv, TypeOK, IdleHoldsNoJob

LEMMA RejectSteps ==
  ASSUME IInv, UNCHANGED story, NEW d \in story.denials, Reject(d)
  PROVE  IInv'
<1>1. d \in Decisions /\ asked[d] = "pending"
  BY Fields DEF IInv, Reject
<1>2. /\ asked' = [asked EXCEPT ![d] = "rejected"] /\ reconcile' = [reconcile EXCEPT ![d] = "pending"]
      /\ UNCHANGED <<run, lane, job, grant, prop, call, crashes>>
  BY DEF Reject
<1>3. /\ asked' \in [Decisions -> {"none", "denied", "pending", "approved", "rejected"}]
      /\ reconcile' \in [Decisions -> {"none", "pending", "done"}]
      /\ \A e \in Decisions : asked'[e] = "approved" <=> asked[e] = "approved"
  BY <1>1, <1>2 DEF IInv, TypeOK
<1>4. UsesAreAccounted' /\ HoldsWhatItUses' /\ HeldOnce' /\ Undecided'
  BY <1>2, <1>3, GrantsAlone
<1>5. QED
  BY <1>2, <1>3, <1>4 DEF IInv, TypeOK, IdleHoldsNoJob

LEMMA GrantSteps ==
  ASSUME IInv, UNCHANGED story, NEW g \in Grants,
         (g = Standing /\ GiveStanding) \/ Revoke(g) \/ GrantExpires(g)
  PROVE  IInv'
<1>1. UNCHANGED <<run, lane, job, asked, reconcile, prop, call, crashes>>
  BY DEF GiveStanding, Revoke, GrantExpires
<1>2. /\ \A h \in Grants \ {g} : grant'[h] = grant[h]
      /\ grant' \in [Grants -> [st : {"none", "active", "revoked", "expired"}, used : Nat, late : BOOLEAN]]
      /\ grant'[g].used = grant[g].used
  <2>1. \E v \in [st : {"none", "active", "revoked", "expired"}, used : Nat, late : BOOLEAN] :
          grant' = [grant EXCEPT ![g] = v] /\ v.used = grant[g].used
    <3>1. grant \in [Grants -> [st : {"none", "active", "revoked", "expired"}, used : Nat, late : BOOLEAN]]
      BY DEF IInv, TypeOK
    <3>2. CASE g = Standing /\ GiveStanding
      <4>1. PICK v : v = [grant[g] EXCEPT !.st = "active"]
        OBVIOUS
      <4>2. v \in [st : {"none", "active", "revoked", "expired"}, used : Nat, late : BOOLEAN]
            /\ v.used = grant[g].used
        BY <3>1, <4>1
      <4>3. QED
        BY <3>1, <3>2, <4>1, <4>2 DEF GiveStanding
    <3>3. CASE Revoke(g)
      <4>1. PICK v : v = [grant[g] EXCEPT !.st = "revoked"]
        OBVIOUS
      <4>2. v \in [st : {"none", "active", "revoked", "expired"}, used : Nat, late : BOOLEAN]
            /\ v.used = grant[g].used
        BY <3>1, <4>1
      <4>3. QED
        BY <3>1, <3>3, <4>1, <4>2 DEF Revoke
    <3>4. CASE GrantExpires(g)
      <4>1. PICK v : v = [grant[g] EXCEPT !.late = TRUE]
        OBVIOUS
      <4>2. v \in [st : {"none", "active", "revoked", "expired"}, used : Nat, late : BOOLEAN]
            /\ v.used = grant[g].used
        BY <3>1, <4>1
      <4>3. QED
        BY <3>1, <3>4, <4>1, <4>2 DEF GrantExpires
    <3>5. QED
      BY <3>2, <3>3, <3>4
  <2>2. QED
    BY <2>1 DEF IInv, TypeOK
<1>3. \/ g = Standing /\ grant[g].st = "none" /\ grant'[g].st = "active"
      \/ grant[g].st = "active" /\ ~Held(g) /\ grant'[g].st = "revoked"
      \/ grant[g].st = "active" /\ grant'[g].st = grant[g].st
  BY DEF IInv, TypeOK, GiveStanding, Revoke, GrantExpires
<1>4. g = Standing /\ grant[g].st = "none" => ~Held(g)
  <2>1. SUFFICES ASSUME g = Standing, grant[g].st = "none", NEW r \in Runs, call[r].g = g
                 PROVE  FALSE
    BY DEF Held
  <2>2. call[r].pc # "holds" => call[r].g = None
    BY DEF IInv, HoldsWhatItUses
  <2>3. call[r].pc = "holds" => grant[call[r].g].st = "active"
    BY DEF IInv, HoldsWhatItUses
  <2>4. QED
    BY <2>1, <2>2, <2>3, Fields DEF IInv
<1>5. UsesAreAccounted' /\ HoldsWhatItUses' /\ HeldOnce' /\ Undecided'
  <2>1. SUFFICES ASSUME NEW h \in Grants
                 PROVE  /\ grant'[h].used = grant[h].used
                        /\ Held(h) => grant'[h].st = grant[h].st
                        /\ grant'[h].st = "none" => grant[h].st = "none"
                        /\ h \in Decisions => (grant'[h].st # "none" <=> asked'[h] = "approved")
    BY <1>1, GrantsChange
  <2>2. h \in Decisions => (grant[h].st # "none" <=> asked[h] = "approved") /\ h # Standing
    BY AuthorizationAssumption DEF IInv, UsesAreAccounted
  <2>3. QED
    BY <1>1, <1>2, <1>3, <1>4, <2>2
<1>6. QED
  BY <1>1, <1>2, <1>5 DEF IInv, TypeOK, IdleHoldsNoJob

LEMMA DecideSteps ==
  ASSUME IInv, UNCHANGED story, NEW p \in Proposals, NEW st \in {"accepted", "rejected"}, Decide(p, st)
  PROVE  IInv'
<1>1. PICK e : e = [st |-> st, by |-> Person]
  OBVIOUS
<1>2. /\ prop[p].st = "pending" /\ ~HeldProposal(p) /\ prop' = [prop EXCEPT ![p] = e]
      /\ UNCHANGED <<run, lane, job, asked, reconcile, grant, call, crashes>>
  BY <1>1 DEF Decide
<1>3. /\ prop' \in [Proposals -> [st : {"none", "pending", "accepted", "rejected"},
                                  by : Grants \cup {Person, None}]]
      /\ prop'[p].st = st /\ prop'[p].by = Person
      /\ \A q \in Proposals \ {p} : prop'[q] = prop[q]
  <2>1. e \in [st : {"none", "pending", "accepted", "rejected"}, by : Grants \cup {Person, None}]
    BY <1>1
  <2>2. e.st = st /\ e.by = Person
    BY <1>1
  <2>3. QED
    BY <1>2, <2>1, <2>2 DEF IInv, TypeOK
<1>4. UsesAreAccounted'
  <2>1. prop[p].by = None
    BY <1>2 DEF IInv, Undecided
  <2>2. SUFFICES ASSUME NEW g \in Grants
                 PROVE  AcceptedWith(g)' = AcceptedWith(g) /\ \A q \in AcceptedWith(g) : prop'[q] = prop[q]
    BY <1>2, AccountedFor
  <2>3. p \notin AcceptedWith(g) /\ Person # g
    BY <2>1, Fields DEF IInv, AcceptedWith
  <2>4. QED
    BY <1>3, <2>3 DEF AcceptedWith
<1>5. HoldsWhatItUses'
  <2>1. SUFFICES ASSUME NEW r \in Runs, call[r].pc = "holds"
                 PROVE  prop'[call[r].p] = prop[call[r].p]
    BY <1>2 DEF IInv, HoldsWhatItUses
  <2>2. call[r].p \in Proposals /\ call[r].p # p
    BY <1>2, <2>1 DEF IInv, HoldsWhatItUses, HeldProposal
  <2>3. QED
    BY <1>3, <2>2
<1>6. HeldOnce' /\ Undecided'
  BY <1>2, <1>3 DEF IInv, HeldOnce, Undecided
<1>7. QED
  BY <1>2, <1>3, <1>4, <1>5, <1>6 DEF IInv, TypeOK, IdleHoldsNoJob

-----------------------------------------------------------------------------
(* The steps of the job that carries an answer to the Run. *)

LEMMA ReconcileSteps ==
  ASSUME IInv, UNCHANGED story, NEW d \in story.denials, Reconcile(d)
  PROVE  IInv'
<1>1. d \in Decisions
  BY Fields DEF IInv
<1>2. PICK r \in Runs : r = RunOf[d]
  BY <1>1, AuthorizationAssumption
<1>3. UNCHANGED <<lane, asked, grant, prop, call>> /\ Reconciled(d)
  BY DEF Reconcile, Requeue, Moot, CancelRejected
<1>4. UsesAreAccounted' /\ HoldsWhatItUses' /\ HeldOnce' /\ Undecided'
  BY <1>3, GrantsAlone
<1>5. reconcile' \in [Decisions -> {"none", "pending", "done"}] /\ crashes' \in 0 .. story.crashes
  <2>1. reconcile \in [Decisions -> {"none", "pending", "done"}] /\ crashes \in 0 .. story.crashes
    BY DEF IInv, TypeOK
  <2>2. story.crashes \in Nat
    BY Fields DEF IInv
  <2>3. QED
    BY <1>1, <1>3, <2>1, <2>2 DEF Reconciled
<1>6. run' \in [Runs -> [st : Open \cup {"over"}, on : Decisions \cup {None}]]
  <2>1. run' = run \/ \E st \in Open \cup {"over"} : run' = [run EXCEPT ![r] = [st |-> st, on |-> None]]
    BY <1>2 DEF Reconcile, Requeue, Moot, CancelRejected, CancelRun, Set, Open
  <2>2. run \in [Runs -> [st : Open \cup {"over"}, on : Decisions \cup {None}]]
    BY DEF IInv, TypeOK
  <2>3. \A st \in Open \cup {"over"} : [run EXCEPT ![r] = [st |-> st, on |-> None]]
          \in [Runs -> [st : Open \cup {"over"}, on : Decisions \cup {None}]]
    BY <1>2, LanesTyped DEF IInv
  <2>4. QED
    BY <2>1, <2>2, <2>3
<1>7. job' = job \/ (job[r] = "none" /\ job' = [job EXCEPT ![r] = "pending"])
  BY <1>2 DEF Reconcile, Requeue, Moot, CancelRejected, EnsureJob
<1>8. job' \in [Runs -> {"none", "pending", "held"}] /\ IdleHoldsNoJob'
  BY <1>2, <1>3, <1>7, SMTT(30) DEF IInv, TypeOK, IdleHoldsNoJob
<1>9. QED
  BY <1>3, <1>4, <1>5, <1>6, <1>8 DEF IInv, TypeOK

-----------------------------------------------------------------------------

LEMMA Initially == ASSUME Init PROVE IInv
<1>2. story \in Stories /\ story.crashes \in Nat
  BY AuthorizationAssumption DEF Init
<1>3. TypeOK
  <2>1. run \in [Runs -> [st : Open \cup {"over"}, on : Decisions \cup {None}]]
    BY DEF Init, Open
  <2>2. lane \in [Runs -> {"idle", "turn", "left", "dead"}] /\ job \in [Runs -> {"none", "pending", "held"}]
    BY DEF Init
  <2>3. call \in [Runs -> [pc : {"idle", "allowed", "made", "holds"},
                           p : Proposals \cup {None}, g : Grants \cup {None}]]
    BY DEF Init, Idle
  <2>4. QED
    BY <1>2, <2>1, <2>2, <2>3 DEF Init, TypeOK
<1>4. \A r \in Runs : call[r].pc = "idle" /\ call[r].g = None
  BY DEF Init, Idle
<1>5. HoldsWhatItUses /\ HeldOnce
  BY <1>4 DEF HoldsWhatItUses, HeldOnce
<1>6. /\ \A g \in Grants : grant[g].st = "none" /\ grant[g].used = 0
      /\ \A p \in Proposals : prop[p].by = None
      /\ \A d \in Decisions : asked[d] = "none"
  BY DEF Init
<1>7. Undecided /\ IdleHoldsNoJob
  BY <1>6 DEF Init, Undecided, IdleHoldsNoJob
<1>8. UsesAreAccounted
  <2>1. SUFFICES ASSUME NEW g \in Grants
                 PROVE  /\ grant[g].used = Cardinality(AcceptedWith(g)) /\ grant[g].used <= MaxUses(g)
                        /\ \A p \in AcceptedWith(g) : prop[p].st = "accepted" /\ For(g, RunOf[p])
                        /\ g \in Decisions => (grant[g].st # "none" <=> asked[g] = "approved")
    BY DEF UsesAreAccounted, AcceptedWith
  <2>2. AcceptedWith(g) = {}
    BY <1>3, <1>6, Fields DEF AcceptedWith
  <2>3. Cardinality(AcceptedWith(g)) = 0
    BY <2>2, FS_EmptySet
  <2>4. MaxUses(g) \in Nat
    BY <1>3, Fields
  <2>5. QED
    BY <1>6, <2>2, <2>3, <2>4
<1>9. QED
  BY <1>3, <1>5, <1>7, <1>8 DEF IInv

LEMMA Inductively == ASSUME IInv, [Next]_vars PROVE IInv'
<1>2. CASE UNCHANGED vars
  <2>1. UsesAreAccounted' /\ HoldsWhatItUses' /\ HeldOnce' /\ Undecided'
    BY <1>2, GrantsAlone DEF vars, table
  <2>2. TypeOK' /\ IdleHoldsNoJob'
    BY <1>2 DEF IInv, TypeOK, IdleHoldsNoJob, vars, table
  <2>3. QED
    BY <2>1, <2>2 DEF IInv
<1>3. CASE Next
  <2>1. UNCHANGED story
    BY <1>3 DEF Next
  <2>2. CASE \E r \in story.runs :
               \/ Claim(r) \/ AskPolicy(r) \/ RequestAuthorization(r)
               \/ Propose(r) \/ TakeGrant(r) \/ AcceptGranted(r) \/ ApplyFails(r)
               \/ LeaveTurn(r) \/ CompleteJob(r) \/ Crash(r) \/ Reclaim(r)
               \/ CancelEnds(r) \/ PersonCancels(r)
    BY <2>1, <2>2, LaneSteps, AskSteps, ProposeSteps, TakeSteps, AcceptSteps, EndSteps
  <2>3. CASE \E d \in story.denials : Approve(d) \/ Reject(d) \/ Reconcile(d)
    BY <2>1, <2>3, ApproveSteps, RejectSteps, ReconcileSteps
  <2>4. CASE GiveStanding \/ \E g \in Grants : Revoke(g) \/ GrantExpires(g)
    BY <2>1, <2>4, GrantSteps DEF Grants
  <2>5. CASE \E p \in Proposals, st \in {"accepted", "rejected"} : Decide(p, st)
    BY <2>1, <2>5, DecideSteps
  <2>6. QED
    BY <1>3, <2>2, <2>3, <2>4, <2>5 DEF Next, Step
<1>4. QED
  BY <1>2, <1>3

LEMMA Invariantly == Spec => []IInv
<1>1. Init => IInv
  BY Initially
<1>2. IInv /\ [Next]_vars => IInv'
  BY Inductively
<1>3. QED
  BY <1>1, <1>2, PTL DEF Spec

-----------------------------------------------------------------------------
(* No step takes anything back.                                             *)
LEMMA DecisionsStandStep == ASSUME IInv, Next PROVE DecisionsStand
<1>2. ASSUME NEW g \in Grants, grant[g].st \in {"revoked", "expired"}
      PROVE  grant'[g].used = grant[g].used /\ grant'[g].st = grant[g].st
  <2>1. CASE UNCHANGED grant
    BY <2>1
  <2>2. ASSUME NEW r \in Runs, AcceptGranted(r)
        PROVE  grant'[g].used = grant[g].used /\ grant'[g].st = grant[g].st
    <3>1. PICK h \in Grants : h = call[r].g /\ grant[h].st = "active"
      BY <2>2 DEF AcceptGranted, IInv, HoldsWhatItUses
    <3>2. g # h
      BY <1>2, <3>1
    <3>3. grant' = [grant EXCEPT ![h].used = @ + 1]
      BY <2>2, <3>1 DEF AcceptGranted
    <3>4. QED
      BY <3>2, <3>3 DEF IInv, TypeOK
  <2>3. ASSUME NEW d \in Decisions, Approve(d)
        PROVE  grant'[g].used = grant[g].used /\ grant'[g].st = grant[g].st
    <3>1. asked[d] = "pending" /\ d \in Grants
      BY <2>3 DEF Approve, Grants
    <3>2. g # d
      BY <1>2, <2>3, <3>1 DEF IInv, UsesAreAccounted
    <3>3. ~Stale(g)
      BY <1>2 DEF Stale
    <3>4. grant'[g] = grant[g]
      BY <2>3, <3>2, <3>3 DEF Approve
    <3>5. QED
      BY <3>4
  <2>4. ASSUME NEW h \in Grants, (h = Standing /\ GiveStanding) \/ Revoke(h) \/ GrantExpires(h)
        PROVE  grant'[g].used = grant[g].used /\ grant'[g].st = grant[g].st
    BY <1>2, <2>4 DEF IInv, TypeOK, GiveStanding, Revoke, GrantExpires
  <2>5. story.denials \subseteq Decisions /\ story.runs \subseteq Runs /\ Standing \in Grants
    BY Fields DEF IInv, Grants
  <2>6. QED
    BY <2>1, <2>2, <2>3, <2>4, <2>5
    DEF Next, Step, Claim, AskPolicy, RequestAuthorization, Propose, TakeGrant, ApplyFails,
        LeaveTurn, CompleteJob, Crash, Reclaim, CancelEnds, PersonCancels, Reject,
        Reconcile, Requeue, Moot, CancelRejected, Decide
<1>3. ASSUME NEW p \in Proposals, prop[p].st \in {"accepted", "rejected"}
      PROVE  prop'[p] = prop[p]
  <2>1. CASE UNCHANGED prop
    BY <2>1
  <2>2. ASSUME NEW r \in Runs, Propose(r)
        PROVE  prop'[p] = prop[p]
    BY <1>3, <2>2 DEF Propose, IInv, TypeOK
  <2>3. ASSUME NEW r \in Runs, AcceptGranted(r)
        PROVE  prop'[p] = prop[p]
    <3>1. PICK q \in Proposals : q = call[r].p /\ prop[q].st = "pending"
      BY <2>3 DEF AcceptGranted, IInv, HoldsWhatItUses
    <3>2. q # p /\ prop' = [prop EXCEPT ![q] = [st |-> "accepted", by |-> call[r].g]]
      BY <1>3, <2>3, <3>1 DEF AcceptGranted
    <3>3. QED
      BY <3>2 DEF IInv, TypeOK
  <2>4. ASSUME NEW q \in Proposals, NEW st, Decide(q, st)
        PROVE  prop'[p] = prop[p]
    BY <1>3, <2>4 DEF Decide, IInv, TypeOK
  <2>5. story.runs \subseteq Runs
    BY Fields DEF IInv
  <2>6. QED
    BY <2>1, <2>2, <2>3, <2>4, <2>5
    DEF Next, Step, Claim, AskPolicy, RequestAuthorization, TakeGrant, ApplyFails,
        LeaveTurn, CompleteJob, Crash, Reclaim, CancelEnds, PersonCancels, Approve, Reject,
        GiveStanding, Revoke, GrantExpires, Reconcile, Requeue, Moot, CancelRejected
<1>4. QED
  BY <1>2, <1>3 DEF DecisionsStand

(* Grants are spent as they were given: every use is one proposal accepted  *)
(* for a Run the grant is for, within its max_uses, and neither a grant put *)
(* away nor a decided proposal changes (actionApprovalGrantService.ts,      *)
(* applyService.ts).                                                        *)
THEOREM GrantsAreAlwaysSpentAsGiven == Spec => GrantsAreSpentAsGiven
<1>1. IInv => TypeOK /\ UsesAreAccounted
  BY DEF IInv
<1>2. Spec => [](TypeOK /\ UsesAreAccounted)
  BY <1>1, Invariantly, PTL
<1>3. IInv /\ [Next]_vars => [DecisionsStand]_vars
  BY DecisionsStandStep
<1>4. Spec => [][DecisionsStand]_vars
  BY <1>3, Invariantly, PTL DEF Spec
<1>5. QED
  BY <1>2, <1>4 DEF GrantsAreSpentAsGiven

LEMMA TakenUpStep ==
  ASSUME IInv, Next
  PROVE  TakenUpWithJob
<1>1. SUFFICES ASSUME NEW r \in Runs, run[r].st = "waiting", run'[r].st = "queued"
               PROVE  lane[r] = "left" \/ job'[r] = "pending"
  BY DEF TakenUpWithJob
<1>2. \A q \in Runs : Claim(q) \/ RequestAuthorization(q) \/ LeaveTurn(q) \/ Reclaim(q)
                        \/ CancelEnds(q) \/ PersonCancels(q) => run'[r].st # "queued"
  BY <1>1 DEF IInv, TypeOK, Set, CancelRun, Claim, RequestAuthorization, LeaveTurn, Reclaim,
              CancelEnds, PersonCancels
<1>3. \A d \in Decisions : CancelRejected(d) => run'[r].st # "queued"
  <2>1. SUFFICES ASSUME NEW d \in Decisions, CancelRejected(d)
                 PROVE  run'[r].st # "queued"
    OBVIOUS
  <2>2. PICK q \in Runs : q = RunOf[d]
    BY AuthorizationAssumption
  <2>3. run' = run \/ run' = [run EXCEPT ![q] = [st |-> "cancelling", on |-> None]]
    BY <2>1, <2>2 DEF CancelRejected, CancelRun, Set
  <2>4. QED
    BY <1>1, <2>2, <2>3 DEF IInv, TypeOK
<1>4. run' # run
  BY <1>1
<1>5. PICK d \in Decisions : Requeue(d)
  <2>1. story.denials \subseteq Decisions /\ story.runs \subseteq Runs
    BY <1>1, Fields DEF IInv
  <2>2. QED
    BY <1>1, <1>2, <1>3, <1>4, <2>1
    DEF Next, Step, AskPolicy, Propose, TakeGrant, AcceptGranted, ApplyFails, CompleteJob, Crash,
        Approve, Reject, GiveStanding, Revoke, GrantExpires, Decide, Reconcile, Moot
<1>6. RunOf[d] \in Runs
  BY AuthorizationAssumption
<1>7. r = RunOf[d]
  BY <1>1, <1>4, <1>5, <1>6 DEF Requeue, Set, IInv, TypeOK
<1>8. lane[r] \in {"idle", "left"}
  BY <1>5, <1>7 DEF Requeue, Locked, IInv, TypeOK
<1>9. job'[r] = "pending" \/ job[r] = "held"
  BY <1>5, <1>7 DEF Requeue, EnsureJob, IInv, TypeOK
<1>10. QED
  BY <1>8, <1>9 DEF IInv, IdleHoldsNoJob

(* A parked Run is queued again with a job that is still to come, unless    *)
(* its last turn has left and not completed its job yet                     *)
(* (agentRunHandler.ts: requeueApprovedAuthorizationRequest,                *)
(* ensureAgentRunJob).                                                      *)
THEOREM TakenUpWithAJob == Spec => [][TakenUpWithJob]_vars
<1>1. IInv /\ [Next]_vars => [TakenUpWithJob]_vars
  BY TakenUpStep
<1>2. QED
  BY <1>1, Invariantly, PTL DEF Spec

-----------------------------------------------------------------------------
(* The files of a Folder.                                                  *)

Asking == DOMAIN tale.asks
Accepts(q) == tale.asks[q].kind = "accept"
FilesOf(p) == ToSet(tale.files[p])
Made == Patches \cup edited \cup {Base}

(* The files a request remembers, and those it wrote on its way forward.     *)
Remembered(q) == {h[1] : h \in ToSet(request[q].held)}
Before(q) == {Files(q)[n] : n \in 1..(request[q].i - 1)}
Written(q) ==
    CASE request[q].pc = "save" -> FilesOf(PatchOf(q))
      [] request[q].pc \in {"read", "write"} -> Before(q)
      [] OTHER -> {}

(* A file that changed in no other hands since the request checked it.       *)
Intact(q, f) ==
    f \in request[q].checked /\ f \notin request[q].overtaken["request"]

-----------------------------------------------------------------------------
Requested ==
    [pc : At, i : Nat \ {0}, held : Seq(Paths \X Contents), row : BOOLEAN,
     checked : SUBSET Paths, overtaken : [Others -> SUBSET Paths]]

TInv ==
    /\ tale \in Tales
    /\ disk \in [Paths -> Made]
    /\ status \in [Patches -> Statuses]
    /\ preimage \in [Patches -> [Paths -> Made]]
    /\ snapshot \in [Patches -> [there : BOOLEAN, files : [Paths -> Contents]]]
    /\ request \in [Requests -> Requested]
    /\ \A q \in Requests :
         /\ \A o \in Others : request[q].overtaken[o] \subseteq request[q].checked
         /\ \A h \in ToSet(request[q].held) : h[2] \in Made
    /\ edited \subseteq Edits /\ faults \subseteq {"crash", "lost", "undo"} /\ raced \in BOOLEAN

(* Where a request may be, by what its proposal says and what it holds.      *)
SoundRequest(q) ==
    LET r == request[q]
        p == PatchOf(q)
    IN  /\ r.pc \in {"check", "read", "write", "save"} => r.row
        /\ r.row => AtWork(q)
        /\ ~AtWork(q) => r.held = <<>> /\ r.checked = {}
        /\ AtWork(q) => status[p] # "none"
        /\ AtWork(q) /\ Accepts(q) /\ r.row => status[p] = "pending"
        /\ AtWork(q) /\ ~Accepts(q) => status[p] \in {"accepted", "rolled_back"}
        /\ AtWork(q) /\ ~Accepts(q) /\ r.row => status[p] = "accepted"
        /\ r.pc = "check" => ~Accepts(q) /\ Before(q) \subseteq r.checked
        /\ r.pc \in {"check", "read", "write"} => r.i \in 1..Len(Files(q))

(* What it checked and remembers of its files.                               *)
SoundFiles(q) ==
    LET r == request[q]
        p == PatchOf(q)
    IN  /\ r.pc \in {"read", "write", "save"} /\ ~Accepts(q) => FilesOf(p) \subseteq r.checked
        /\ r.pc = "check" => r.held = <<>>
        /\ r.pc = "write" => File(q) \in Remembered(q)
        /\ Remembered(q) \subseteq r.checked \cap FilesOf(p)
        /\ Accepts(q) => \A h \in ToSet(r.held) : h[2] = preimage[p][h[1]]
        /\ Written(q) \subseteq Remembered(q)

(* One request at a time holds a proposal's row, and those that let it go    *)
(* before are overtaken in what it wrote.                                    *)
Turns ==
    \A q, o \in Asking : q # o /\ PatchOf(q) = PatchOf(o) =>
        /\ ~(request[q].row /\ request[o].row)
        /\ request[q].row =>
             Written(q) \cap request[o].checked \subseteq request[o].overtaken["request"]

(* A request that outlives its proposal's decision is overtaken wherever it  *)
(* has still something to put back.                                          *)
Outlived(q) ==
    LET p == PatchOf(q)
        over == IF Accepts(q) THEN {"accepted", "rolled_back"} ELSE {"rolled_back"}
    IN  AtWork(q) /\ status[p] \in over /\ "lost" \notin faults =>
        request[q].pc = "undo" /\ Remembered(q) \subseteq request[q].overtaken["request"]

SnapshotsAreExact ==
    \A p \in tale.patches : status[p] \in {"accepted", "rolled_back"} =>
        \A f \in FilesOf(p) : snapshot[p].files[f] = preimage[p][f]

SInv ==
    /\ TInv /\ Turns /\ SnapshotsAreExact
    /\ \A q \in Asking : SoundRequest(q) /\ SoundFiles(q) /\ Outlived(q)

-----------------------------------------------------------------------------
(* What a checked file may hold, and what is remembered of it, as long as    *)
(* nobody changed it since.                                                  *)
Checked(q) ==
    LET p == PatchOf(q)
    IN  AtWork(q) =>
        \A f \in request[q].checked :
            \/ \E o \in Others : f \in request[q].overtaken[o]
            \/ /\ disk[f] \in {p, preimage[p][f]}
               /\ \A h \in ToSet(request[q].held) :
                    h[1] = f => h[2] \in {p, preimage[p][f]}

EInv == \A q \in Asking : Checked(q)

-----------------------------------------------------------------------------
(* The patches S that are in a file f: an acceptance wrote them there and    *)
(* nobody took them back.  What the file holds follows from them.            *)
Traced(S, f) ==
    /\ \A h \in S :
         /\ f \in FilesOf(h) /\ status[h] # "none" /\ preimage[h][f] # disk[f]
         /\ preimage[h][f] \in Patches => preimage[h][f] \in S
         /\ \A g \in S \ {h} : preimage[g][f] # preimage[h][f]
    /\ disk[f] \in Patches => disk[f] \in S
    /\ \A p \in tale.patches : status[p] # "none" => preimage[p][f] # p

(* Nothing else that is in the file replaced p or what p replaced there,     *)
(* which is a content that may be in it.                                     *)
Alone(S, p, f) ==
    /\ \A h \in S \ {p} : preimage[h][f] \notin {p, preimage[p][f]}
    /\ preimage[p][f] \in Patches => preimage[p][f] \in S

(* A rollback that fails may put back what it found.                         *)
MayReturn(S, p, f, content) ==
    /\ content \in {p} \cup Edits /\ content # preimage[p][f]
    /\ \A h \in S : preimage[h][f] # content

Follows(S, q, f) ==
    LET r == request[q]
        p == PatchOf(q)
    IN  AtWork(q) =>
        /\ Intact(q, f) =>
             /\ Alone(S, p, f)
             /\ ~Accepts(q) => \A h \in ToSet(r.held) : h[1] = f => MayReturn(S, p, f, h[2])
             /\ ~Accepts(q) /\ r.pc \in {"check", "read", "write"} /\ f \notin Written(q) =>
                  p \in S /\ disk[f] \in {p} \cup Edits
        /\ f \in Written(q) => (p \in S <=> Accepts(q))

(* A request at work on p that is to answer for what it did to the file.     *)
Answers(q, p, f) == PatchOf(q) = p /\ AtWork(q) /\ f \in Remembered(q)

(* A patch is in its files if it was accepted and not if it was not, but     *)
(* where a request answers for it.                                           *)
Settled(S, p, f) ==
    f \in FilesOf(p) =>
        /\ status[p] \in {"pending", "rejected"} /\ p \in S =>
             \E q \in Asking : Answers(q, p, f) /\ Accepts(q)
        /\ status[p] = "accepted" /\ p \notin S =>
             \E q \in Asking : Answers(q, p, f) /\ ~Accepts(q)
        /\ status[p] = "rolled_back" => p \notin S

Ledger(S, f) ==
    /\ Traced(S, f)
    /\ \A q \in Asking : Follows(S, q, f)
    /\ \A p \in tale.patches : Settled(S, p, f)

Undisturbed == faults = {} /\ ~raced
LInv == Undisturbed => \A f \in Paths : \E S \in SUBSET tale.patches : Ledger(S, f)

-----------------------------------------------------------------------------
(* The tale a behaviour is in, and the records of requests.                  *)
LEMMA Tale ==
    ASSUME TInv
    PROVE  /\ \A p \in tale.patches :
                /\ p \in Patches /\ FilesOf(p) \subseteq Paths
                /\ tale.files[p] \in Seq(FilesOf(p)) /\ tale.files[p] # <<>>
                /\ IsInjective(tale.files[p])
           /\ \A q \in Asking :
                /\ q \in Requests /\ PatchOf(q) \in tale.patches /\ PatchOf(q) \in Patches
                /\ Files(q) \in Seq(FilesOf(PatchOf(q))) /\ Len(Files(q)) \in Nat \ {0}
                /\ FilesOf(PatchOf(q)) \subseteq Paths
           /\ tale.edits \subseteq Edits
<1>1. tale \in Tales
  BY DEF TInv
<1>2. \A p \in tale.patches :
         /\ p \in Patches /\ FilesOf(p) \subseteq Paths
         /\ tale.files[p] \in Seq(FilesOf(p)) /\ tale.files[p] # <<>>
         /\ IsInjective(tale.files[p])
  BY <1>1, CodePatchAssumption DEF FilesOf, Paths
<1>3. \A q \in Asking :
         q \in Requests /\ PatchOf(q) \in tale.patches
  BY <1>1, CodePatchAssumption DEF Asking, PatchOf
<1>4. \A s, S : s \in Seq(S) /\ s # <<>> => Len(s) \in Nat \ {0}
  OBVIOUS
<1>5. \A q \in Asking :
         /\ Files(q) \in Seq(FilesOf(PatchOf(q))) /\ Len(Files(q)) \in Nat \ {0}
  BY <1>2, <1>3, <1>4 DEF Files, PatchOf
<1>6. QED
  BY <1>1, <1>2, <1>3, <1>5, CodePatchAssumption

LEMMA OverFields ==
    /\ Over.pc = "done" /\ Over.i = 1 /\ Over.held = <<>> /\ Over.row = FALSE
    /\ Over.checked = {} /\ \A o \in Others : Over.overtaken[o] = {}
    /\ Over \in Requested /\ Waiting \in Requested
<1>1. \A S : <<>> \in Seq(S)
  OBVIOUS
<1>2. Waiting \in Requested
  BY <1>1 DEF Waiting, Requested, At
<1>3. /\ Waiting.i = 1 /\ Waiting.held = <<>> /\ Waiting.row = FALSE
      /\ Waiting.checked = {} /\ \A o \in Others : Waiting.overtaken[o] = {}
  BY DEF Waiting
<1>4. QED
  BY <1>2, <1>3 DEF Over, Requested, At

LEMMA OnwardFields ==
    ASSUME NEW q, NEW r \in Requested, NEW pc \in At, NEW after \in At,
           NEW n, n = Onward(r, q, pc, after)
    PROVE  /\ n \in Requested
           /\ n.held = r.held /\ n.row = r.row /\ n.checked = r.checked
           /\ n.overtaken = r.overtaken
           /\ IF r.i = Len(Files(q)) THEN n.pc = after /\ n.i = 1
                                     ELSE n.pc = pc /\ n.i = r.i + 1
<1>1. CASE r.i = Len(Files(q))
  <2>1. Onward(r, q, pc, after) = [r EXCEPT !.pc = after, !.i = 1]
    BY <1>1 DEF Onward
  <2>2. [r EXCEPT !.pc = after] \in Requested
    BY DEF Requested
  <2>3. 1 \in Nat \ {0}
    OBVIOUS
  <2>4. [[r EXCEPT !.pc = after] EXCEPT !.i = 1] \in Requested
    BY <2>2, <2>3 DEF Requested
  <2>5. QED
    BY <1>1, <2>1, <2>4 DEF Requested
<1>2. CASE r.i # Len(Files(q))
  <2>1. Onward(r, q, pc, after) = [r EXCEPT !.pc = pc, !.i = r.i + 1]
    BY <1>2 DEF Onward
  <2>2. [r EXCEPT !.pc = pc] \in Requested
    BY DEF Requested
  <2>3. r.i + 1 \in Nat \ {0}
    BY DEF Requested
  <2>4. [[r EXCEPT !.pc = pc] EXCEPT !.i = r.i + 1] \in Requested
    BY <2>2, <2>3 DEF Requested
  <2>5. QED
    BY <1>2, <2>1, <2>4 DEF Requested
<1>3. QED
  BY <1>1, <1>2

(* Who is overtaken keeps everything else.                                   *)
Kept(o) ==
    /\ request'[o].pc = request[o].pc /\ request'[o].i = request[o].i
    /\ request'[o].held = request[o].held /\ request'[o].row = request[o].row
    /\ request'[o].checked = request[o].checked
    /\ \A b \in Others : request[o].overtaken[b] \subseteq request'[o].overtaken[b]

OvertakenBy(r, f, by) ==
    IF f \in r.checked THEN [r EXCEPT !.overtaken[by] = @ \cup {f}] ELSE r

LEMMA OvertakenFields ==
    ASSUME NEW r \in Requested, NEW f \in Paths, NEW by \in Others,
           NEW n, n = OvertakenBy(r, f, by)
    PROVE  /\ n \in Requested
           /\ n.pc = r.pc /\ n.i = r.i /\ n.held = r.held /\ n.row = r.row
           /\ n.checked = r.checked
           /\ \A b \in Others : n.overtaken[b] =
                IF b = by /\ f \in r.checked THEN r.overtaken[b] \cup {f} ELSE r.overtaken[b]
BY DEF OvertakenBy, Requested

LEMMA OvertakeFields ==
    ASSUME TInv, NEW f \in Paths, NEW by \in Others, NEW o \in Requests
    PROVE  Overtake(f, by)[o] = OvertakenBy(request[o], f, by)
BY DEF Overtake, OvertakenBy

(* The parts of each step of a request, as they are told apart below.        *)
LEMMA WritesFields ==
    ASSUME TInv, NEW q \in Asking, NEW f \in Paths, NEW c, NEW r, Writes(q, f, c, r)
    PROVE  /\ request'[q] = r
           /\ \A o \in Requests \ {q} : request'[o] = OvertakenBy(request[o], f, "request")
           /\ DOMAIN request' = Requests
           /\ disk'[f] = c /\ \A g \in Paths \ {f} : disk'[g] = disk[g]
           /\ DOMAIN disk' = Paths
           /\ raced' = (raced \/ f \in request[q].overtaken["request"])
<1>1. q \in Requests /\ "request" \in Others
  BY Tale DEF Others
<1>2. /\ disk' = [disk EXCEPT ![f] = c]
      /\ request' = [Overtake(f, "request") EXCEPT ![q] = r]
  BY DEF Writes
<1>3. Overtake(f, "request") = [o \in Requests |-> OvertakenBy(request[o], f, "request")]
  BY DEF Overtake, OvertakenBy
<1>4. DOMAIN disk = Paths
  BY DEF TInv
<1>5. QED
  BY <1>1, <1>2, <1>3, <1>4 DEF Writes

LEMMA BecomesFields ==
    ASSUME TInv, NEW q \in Asking, NEW r, Becomes(q, r)
    PROVE  /\ request'[q] = r /\ DOMAIN request' = Requests
           /\ \A o \in Requests \ {q} : request'[o] = request[o]
<1>1. q \in Requests /\ DOMAIN request = Requests
  BY Tale DEF TInv
<1>2. QED
  BY <1>1 DEF Becomes

(* A record a request may take on.                                           *)
SoundRecord(r) ==
    /\ r \in Requested
    /\ \A o \in Others : r.overtaken[o] \subseteq r.checked
    /\ \A h \in ToSet(r.held) : h[2] \in Made

LEMMA BecomesTyped ==
    ASSUME TInv, NEW q \in Asking, NEW r, SoundRecord(r), Becomes(q, r),
           UNCHANGED <<tale, disk, preimage, edited, raced>>,
           status' \in [Patches -> Statuses],
           snapshot' \in [Patches -> [there : BOOLEAN, files : [Paths -> Contents]]],
           faults' \subseteq {"crash", "lost", "undo"}
    PROVE  TInv'
<1>1. q \in Requests
  BY Tale
<1>2. /\ Made' = Made /\ Paths' = Paths
  BY DEF Made, Paths
<1>3. request' \in [Requests -> Requested]
  BY <1>1 DEF TInv, SoundRecord, Becomes
<1>4. \A o \in Requests : request'[o] = (IF o = q THEN r ELSE request[o])
  BY <1>1, BecomesFields
<1>5. Requested' = Requested
  BY <1>2 DEF Requested
<1>6. QED
  BY <1>2, <1>3, <1>4, <1>5 DEF TInv, SoundRecord

LEMMA WritesTyped ==
    ASSUME TInv, NEW q \in Asking, NEW f \in Paths, NEW c \in Made, NEW r,
           SoundRecord(r), Writes(q, f, c, r),
           UNCHANGED <<tale, status, preimage, snapshot, edited, faults>>
    PROVE  TInv'
<1>1. q \in Requests /\ "request" \in Others
  BY Tale DEF Others
<1>2. /\ Made' = Made /\ Paths' = Paths
  BY DEF Made, Paths
<1>3. disk' \in [Paths -> Made] /\ raced' \in BOOLEAN
  BY DEF TInv, Writes
<1>4. /\ \A o \in Requests : request'[o] =
           (IF o = q THEN r ELSE OvertakenBy(request[o], f, "request"))
      /\ DOMAIN request' = Requests
  BY <1>1, WritesFields
<1>5. \A o \in Requests : request[o] \in Requested
  BY DEF TInv
<1>6. \A o \in Requests : SoundRecord(request[o])
  BY DEF TInv, SoundRecord
<1>7. \A o \in Requests : SoundRecord(OvertakenBy(request[o], f, "request"))
  <2> TAKE o \in Requests
  <2> DEFINE n == OvertakenBy(request[o], f, "request")
  <2>1. /\ n \in Requested /\ n.held = request[o].held /\ n.checked = request[o].checked
        /\ \A b \in Others : n.overtaken[b] =
             IF b = "request" /\ f \in request[o].checked
             THEN request[o].overtaken[b] \cup {f} ELSE request[o].overtaken[b]
    BY <1>1, <1>5, ZenonT(30) DEF OvertakenBy, Requested
  <2> HIDE DEF n
  <2>2. SoundRecord(n)
    BY <2>1, <1>6 DEF SoundRecord
  <2>3. QED
    BY <2>2 DEF n
<1>8. \A o \in Requests : SoundRecord(request'[o])
  BY <1>4, <1>7
<1>9. request' = [o \in Requests |-> request'[o]]
  <2>1. request' = [Overtake(f, "request") EXCEPT ![q] = r]
    BY DEF Writes
  <2>2. QED
    BY <2>1, <1>1, <1>4 DEF Overtake
<1>10. request' \in [Requests -> Requested]
  BY <1>8, <1>9 DEF SoundRecord
<1>11. Requested' = Requested
  BY <1>2 DEF Requested
<1>12. QED
  BY <1>2, <1>3, <1>8, <1>10, <1>11 DEF TInv, SoundRecord

LEMMA InitTyped == PatchInit => TInv
<1> SUFFICES ASSUME PatchInit PROVE TInv
  OBVIOUS
<1>1. disk \in [Paths -> Made] /\ disk \in [Paths -> Contents]
  BY DEF PatchInit, Made, Contents
<1>2. request \in [Requests -> Requested] /\ \A q \in Requests : request[q] = Waiting
  BY OverFields DEF PatchInit
<1>3. ToSet(Waiting.held) = {} /\ \A o \in Others : Waiting.overtaken[o] = {}
  BY DEF Waiting, ToSet
<1>4. /\ status \in [Patches -> Statuses]
      /\ preimage \in [Patches -> [Paths -> Made]]
      /\ snapshot \in [Patches -> [there : BOOLEAN, files : [Paths -> Contents]]]
  BY <1>1 DEF PatchInit, Statuses
<1>5. QED
  BY <1>1, <1>2, <1>3, <1>4 DEF PatchInit, TInv

LEMMA TypeFromInv == TInv => PatchTypeOK
<1> SUFFICES ASSUME TInv PROVE PatchTypeOK
  OBVIOUS
<1>1. Made \subseteq Contents
  BY DEF TInv, Made, Contents
<1>2. \A q \in Requests :
        /\ request[q].pc \in At /\ request[q].row \in BOOLEAN
        /\ request[q].checked \subseteq Paths
        /\ request[q].held \in Seq(Paths \X Contents)
        /\ request[q].overtaken \in [Others -> SUBSET Paths]
        /\ \A o \in Others : request[q].overtaken[o] \subseteq request[q].checked
  BY DEF TInv, Requested
<1>3. \A q \in Requests : request[q].overtaken \in [Others -> SUBSET request[q].checked]
  BY <1>2
<1>4. \A q \in Requests : \A n \in DOMAIN request[q].held :
        request[q].held[n] \in Paths \X Contents
  BY <1>2
<1>5. disk \in [Paths -> Contents] /\ preimage \in [Patches -> [Paths -> Contents]]
  BY <1>1 DEF TInv
<1>6. QED
  BY <1>2, <1>3, <1>4, <1>5 DEF TInv, PatchTypeOK

-----------------------------------------------------------------------------
(* What is seen of a request that is overtaken, or left alone.               *)
LEMMA KeptViews ==
    ASSUME NEW o, Kept(o), UNCHANGED tale
    PROVE  /\ Asking' = Asking /\ Paths' = Paths /\ \A p : FilesOf(p)' = FilesOf(p)
           /\ PatchOf(o)' = PatchOf(o) /\ Files(o)' = Files(o) /\ Accepts(o)' = Accepts(o)
           /\ AtWork(o)' = AtWork(o) /\ Remembered(o)' = Remembered(o)
           /\ Before(o)' = Before(o) /\ Written(o)' = Written(o) /\ File(o)' = File(o)
<1>1. /\ Asking' = Asking /\ Paths' = Paths /\ \A p : FilesOf(p)' = FilesOf(p)
      /\ PatchOf(o)' = PatchOf(o) /\ Files(o)' = Files(o) /\ Accepts(o)' = Accepts(o)
  BY DEF Asking, Paths, FilesOf, PatchOf, Files, Accepts
<1>2. AtWork(o)' = AtWork(o) /\ Remembered(o)' = Remembered(o)
  BY DEF AtWork, Remembered, Kept
<1>3. Before(o)' = Before(o)
  BY <1>1 DEF Before, Kept
<1>4. Written(o)' = Written(o)
  BY <1>1, <1>3 DEF Written, Kept
<1>5. File(o)' = File(o)
  BY <1>1 DEF File, Kept
<1>6. QED
  BY <1>1, <1>2, <1>3, <1>4, <1>5

LEMMA KeptIsSound ==
    ASSUME NEW o, Kept(o), UNCHANGED tale, SoundRequest(o), SoundFiles(o),
           AtWork(o) => status'[PatchOf(o)] = status[PatchOf(o)],
           AtWork(o) => preimage'[PatchOf(o)] = preimage[PatchOf(o)]
    PROVE  (SoundRequest(o) /\ SoundFiles(o))'
<1>1. SoundRequest(o)'
  BY KeptViews DEF SoundRequest, Kept
<1>2. ~AtWork(o) => ToSet(request[o].held) = {}
  BY DEF ToSet, SoundRequest
<1>3. SoundFiles(o)'
  BY <1>2, KeptViews DEF SoundFiles, Kept
<1>4. QED
  BY <1>1, <1>3

(* The shape survives a step of one request that is sound after it.          *)
LEMMA ShapeStays ==
    ASSUME SInv, TInv', NEW q \in Asking,
           UNCHANGED <<tale, status, preimage, snapshot>>, faults \subseteq faults',
           \A o \in Asking \ {q} : Kept(o),
           (SoundRequest(q) /\ SoundFiles(q) /\ Outlived(q))',
           request'[q].row => request[q].row \/ ~Row(PatchOf(q)),
           \A o \in Asking \ {q} : PatchOf(o) = PatchOf(q) /\ request'[q].row =>
               Written(q)' \cap request[o].checked \subseteq request'[o].overtaken["request"],
           \/ request[q].row
           \/ request'[q].checked = {}
           \/ /\ request'[q].checked = request[q].checked
              /\ request[q].overtaken["request"] \subseteq request'[q].overtaken["request"]
    PROVE  SInv'
<1>1. /\ Asking' = Asking /\ \A p : FilesOf(p)' = FilesOf(p)
      /\ \A o : PatchOf(o)' = PatchOf(o) /\ Accepts(o)' = Accepts(o)
      /\ tale'.patches = tale.patches
  BY DEF Asking, FilesOf, PatchOf, Accepts
<1>2. \A o \in Asking \ {q} : (SoundRequest(o) /\ SoundFiles(o))'
  BY KeptIsSound DEF SInv
<1>3. "request" \in Others
  BY DEF Others
<1>4. \A o \in Asking \ {q} : Outlived(o)'
  BY <1>1, <1>3, KeptViews DEF SInv, Outlived, Kept
<1>5. Turns'
  <2> SUFFICES ASSUME NEW a \in Asking, NEW b \in Asking, a # b, PatchOf(a) = PatchOf(b)
               PROVE  /\ ~(request'[a].row /\ request'[b].row)
                      /\ request'[a].row =>
                           Written(a)' \cap request'[b].checked
                               \subseteq request'[b].overtaken["request"]
    BY <1>1 DEF Turns
  <2>1. ~(request[a].row /\ request[b].row)
    BY DEF SInv, Turns
  <2>2. request[a].row =>
          Written(a) \cap request[b].checked \subseteq request[b].overtaken["request"]
    BY DEF SInv, Turns
  <2>3. request[a].row => Row(PatchOf(a))
    BY DEF Row, Asking
  <2>4. request[b].row => Row(PatchOf(b))
    BY DEF Row, Asking
  <2>5. CASE a = q
    <3>1. Kept(b)
      BY <2>5
    <3>2. QED
      BY <2>1, <2>4, <2>5, <3>1 DEF Kept
  <2>6. CASE b = q
    <3>1. Kept(a)
      BY <2>6
    <3>2. Written(a)' = Written(a)
      BY <3>1, KeptViews
    <3>3. QED
      BY <2>1, <2>2, <2>3, <2>6, <3>1, <3>2 DEF Kept
  <2>7. CASE a # q /\ b # q
    <3>1. Kept(a) /\ Kept(b)
      BY <2>7
    <3>2. Written(a)' = Written(a)
      BY <3>1, KeptViews
    <3>3. QED
      BY <1>3, <2>1, <2>2, <3>1, <3>2 DEF Kept
  <2>8. QED
    BY <2>5, <2>6, <2>7
<1>6. SnapshotsAreExact'
  BY <1>1 DEF SInv, SnapshotsAreExact
<1>7. QED
  BY <1>1, <1>2, <1>4, <1>5, <1>6 DEF SInv

-----------------------------------------------------------------------------
(* What each step makes of its request.                                      *)
LEMMA Left ==
    ASSUME TInv, NEW q \in Asking, NEW r, Becomes(q, r)
    PROVE  \A o \in Asking \ {q} : request'[o] = request[o] /\ Kept(o)
BY BecomesFields, Tale DEF Kept

LEMMA Overtaken ==
    ASSUME TInv, NEW q \in Asking, NEW f \in Paths, NEW c, NEW r, Writes(q, f, c, r)
    PROVE  \A o \in Asking \ {q} :
             /\ Kept(o)
             /\ request'[o] = OvertakenBy(request[o], f, "request")
             /\ f \in request[o].checked => f \in request'[o].overtaken["request"]
             /\ \A b \in Others : \A g \in Paths \ {f} :
                  g \in request'[o].overtaken[b] => g \in request[o].overtaken[b]
<1> TAKE o \in Asking \ {q}
<1>1. o \in Requests /\ "request" \in Others
  BY Tale DEF Others
<1>2. request'[o] = OvertakenBy(request[o], f, "request")
  BY <1>1, WritesFields
<1>3. request[o] \in Requested
  BY <1>1 DEF TInv
<1>4. ASSUME NEW n, n = OvertakenBy(request[o], f, "request")
      PROVE
        /\ n.pc = request[o].pc /\ n.i = request[o].i /\ n.held = request[o].held
        /\ n.row = request[o].row /\ n.checked = request[o].checked
        /\ \A b \in Others : n.overtaken[b] =
             IF b = "request" /\ f \in request[o].checked
             THEN request[o].overtaken[b] \cup {f} ELSE request[o].overtaken[b]
  BY <1>1, <1>3, <1>4 DEF OvertakenBy, Requested
<1>5. QED
  BY <1>1, <1>2, <1>4 DEF Kept

LEMMA OverIsSound == SoundRecord(Over)
BY OverFields DEF SoundRecord, ToSet

LEMMA BeginFacts ==
    ASSUME SInv, NEW q \in Asking, Begin(q), UNCHANGED tale
    PROVE  LET p == PatchOf(q) IN
           /\ TInv' /\ \A o \in Asking \ {q} : request'[o] = request[o] /\ Kept(o)
           /\ request[q].pc = "new" /\ ~Row(p) /\ status[p] # "none"
           /\ request'[q].held = <<>> /\ request'[q].checked = {} /\ request'[q].i = 1
           /\ \/ request'[q].pc = "done" /\ ~request'[q].row
              \/ /\ request'[q].row /\ Accepts(q) /\ request'[q].pc = "read"
                 /\ status[p] = "pending"
              \/ /\ request'[q].row /\ ~Accepts(q) /\ request'[q].pc = "check"
                 /\ status[p] = "accepted"
<1> DEFINE p == PatchOf(q)
           first == IF Accepts(q) THEN "read" ELSE "check"
           go == [Waiting EXCEPT !.row = TRUE, !.pc = first]
<1>1. TInv
  BY DEF SInv
<1>2. /\ go \in Requested /\ go.pc = first /\ go.row /\ go.held = <<>>
      /\ go.checked = {} /\ go.i = 1 /\ \A o \in Others : go.overtaken[o] = {}
  <2>1. first \in At
    BY DEF At
  <2> HIDE DEF first
  <2>2. [Waiting EXCEPT !.row = TRUE] \in Requested
    BY OverFields DEF Requested
  <2>3. [[Waiting EXCEPT !.row = TRUE] EXCEPT !.pc = first] \in Requested
    BY <2>1, <2>2 DEF Requested
  <2>4. go = [[Waiting EXCEPT !.row = TRUE] EXCEPT !.pc = first]
    OBVIOUS
  <2>5. QED
    BY <2>3, <2>4 DEF Waiting
<1>3. SoundRecord(go)
  <2> HIDE DEF go
  <2>1. QED
    BY <1>2 DEF SoundRecord, ToSet
<1>4. PICK r :
        /\ Becomes(q, r)
        /\ \/ r = Over
           \/ r = go /\ status[p] = (IF Accepts(q) THEN "pending" ELSE "accepted")
  <2>1. CASE Becomes(q, Over)
    BY <2>1
  <2>2. CASE ~Becomes(q, Over)
    BY <2>2 DEF Begin, Accepts
  <2>3. QED
    BY <2>1, <2>2
<1>5. UNCHANGED <<disk, status, preimage, snapshot, edited, faults, raced>>
  BY DEF Begin
<1>6. TInv'
  BY <1>1, <1>3, <1>4, <1>5, OverIsSound, BecomesTyped DEF TInv
<1>7. request'[q] = r
  BY <1>1, <1>4, BecomesFields
<1>8. request[q].pc = "new" /\ ~Row(p) /\ status[p] # "none"
  BY DEF Begin
<1>9. \/ r.pc = "done" /\ ~r.row /\ r.held = <<>> /\ r.checked = {} /\ r.i = 1
      \/ /\ r.row /\ Accepts(q) /\ r.pc = "read" /\ status[p] = "pending"
         /\ r.held = <<>> /\ r.checked = {} /\ r.i = 1
      \/ /\ r.row /\ ~Accepts(q) /\ r.pc = "check" /\ status[p] = "accepted"
         /\ r.held = <<>> /\ r.checked = {} /\ r.i = 1
  <2> HIDE DEF go
  <2>1. CASE r = Over
    BY <2>1, OverFields
  <2>2. CASE r = go
    BY <2>2, <1>2, <1>4, OverFields
  <2>3. QED
    BY <2>1, <2>2, <1>4
<1>10. QED
  BY <1>1, <1>4, <1>6, <1>7, <1>8, <1>9, Left

LEMMA BeginShape ==
    ASSUME SInv, NEW q \in Asking, Begin(q), UNCHANGED tale
    PROVE  SInv'
<1> DEFINE p == PatchOf(q)
<1>1. UNCHANGED <<disk, status, preimage, snapshot, edited, faults, raced>>
  BY DEF Begin
<1>2. /\ PatchOf(q)' = p /\ Accepts(q)' = Accepts(q) /\ Files(q)' = Files(q)
      /\ FilesOf(p)' = FilesOf(p)
  BY DEF PatchOf, Accepts, Files, FilesOf
<1>3. Len(Files(q)) \in Nat \ {0}
  BY Tale DEF SInv
<1>4. Before(q)' = {}
  BY BeginFacts DEF Before
<1>5. Written(q)' = {}
  BY <1>4, BeginFacts DEF Written
<1>6. ToSet(request'[q].held) = {} /\ Remembered(q)' = {}
  BY BeginFacts DEF Remembered, ToSet
<1>7. SoundRequest(q)'
  BY <1>1, <1>2, <1>3, <1>4, BeginFacts DEF SoundRequest, AtWork
<1>8. request'[q].pc = "read" => Accepts(q)
  BY BeginFacts
<1>9. SoundFiles(q)'
  BY <1>2, <1>5, <1>6, <1>8, BeginFacts DEF SoundFiles
<1>10. Outlived(q)'
  BY <1>1, <1>2, BeginFacts DEF Outlived, AtWork
<1>11. QED
  BY <1>1, <1>5, <1>7, <1>9, <1>10, BeginFacts, ShapeStays

(* The file a request is at, and those before it.                            *)
LEMMA FileFacts ==
    ASSUME SInv, NEW q \in Asking, request[q].pc \in {"check", "read", "write"}
    PROVE  /\ File(q) \in FilesOf(PatchOf(q)) /\ File(q) \in Paths
           /\ Before(q) \subseteq FilesOf(PatchOf(q)) /\ File(q) \notin Before(q)
           /\ request[q].i = Len(Files(q)) =>
                Before(q) \cup {File(q)} = FilesOf(PatchOf(q))
<1> DEFINE p == PatchOf(q)
           s == Files(q)
           i == request[q].i
<1>1. /\ s \in Seq(FilesOf(p)) /\ Len(s) \in Nat \ {0} /\ FilesOf(p) \subseteq Paths
      /\ IsInjective(s) /\ FilesOf(p) = ToSet(s)
  BY Tale DEF SInv, Files, PatchOf, FilesOf
<1>2. i \in 1..Len(s)
  BY DEF SInv, SoundRequest
<1>3. File(q) = s[i] /\ Before(q) = {s[n] : n \in 1..(i - 1)}
  BY DEF File, Before
<1>4. DOMAIN s = 1..Len(s)
  BY <1>1
<1> HIDE DEF s, i, p
<1>5. ToSet(s) = {s[n] : n \in 1..Len(s)}
  BY <1>4 DEF ToSet
<1>6. s[i] \in ToSet(s) /\ {s[n] : n \in 1..(i - 1)} \subseteq ToSet(s)
  BY <1>1, <1>2, <1>5
<1>7. s[i] \notin {s[n] : n \in 1..(i - 1)}
  BY <1>1, <1>2, <1>4 DEF IsInjective
<1>8. i = Len(s) => {s[n] : n \in 1..(i - 1)} \cup {s[i]} = ToSet(s)
  BY <1>1, <1>2, <1>5
<1>9. QED
  BY <1>1, <1>3, <1>6, <1>7, <1>8 DEF s, i, p

LEMMA NextFile ==
    ASSUME SInv, NEW q \in Asking, request[q].pc \in {"check", "read", "write"},
           request[q].i # Len(Files(q)), request'[q].i = request[q].i + 1, UNCHANGED tale
    PROVE  /\ Before(q)' = Before(q) \cup {File(q)}
           /\ request'[q].i \in 1..Len(Files(q))
<1> DEFINE s == Files(q)
           i == request[q].i
<1>1. Len(s) \in Nat \ {0} /\ i \in 1..Len(s)
  BY Tale DEF SInv, SoundRequest
<1>2. Before(q)' = {s[n] : n \in 1..((i + 1) - 1)}
  BY DEF Before, Files
<1>3. File(q) = s[i] /\ Before(q) = {s[n] : n \in 1..(i - 1)}
  BY DEF File, Before
<1> HIDE DEF s, i
<1>4. {s[n] : n \in 1..((i + 1) - 1)} = {s[n] : n \in 1..(i - 1)} \cup {s[i]}
  BY <1>1
<1>5. QED
  BY <1>1, <1>2, <1>3, <1>4 DEF s, i

LEMMA CheckFacts ==
    ASSUME SInv, NEW q \in Asking, CheckApplied(q), UNCHANGED tale
    PROVE  LET r == request[q]
               n == request'[q]
           IN
           /\ TInv' /\ \A o \in Asking \ {q} : request'[o] = request[o] /\ Kept(o)
           /\ r.pc = "check"
           /\ \/ n = Over
              \/ /\ disk[File(q)] = PatchOf(q)
                 /\ n.held = r.held /\ n.row = r.row /\ n.overtaken = r.overtaken
                 /\ n.checked = r.checked \cup {File(q)}
                 /\ IF r.i = Len(Files(q)) THEN n.pc = "read" /\ n.i = 1
                                           ELSE n.pc = "check" /\ n.i = r.i + 1
<1>r. PICK r : r = request[q]
  OBVIOUS
<1>0. PICK check \in At, read \in At : check = "check" /\ read = "read"
  BY DEF At
<1> DEFINE on == Onward(r, q, check, read)
           next == [on EXCEPT !.checked = @ \cup {File(q)}]
<1>1. TInv /\ r \in Requested /\ r.pc = "check" /\ SoundRecord(r)
  BY <1>r, Tale DEF SInv, TInv, SoundRecord, CheckApplied
<1>3. /\ on \in Requested
      /\ on.held = r.held /\ on.row = r.row /\ on.checked = r.checked
      /\ on.overtaken = r.overtaken
      /\ r.i = Len(Files(q)) => on.pc = read /\ on.i = 1
      /\ r.i # Len(Files(q)) => on.pc = check /\ on.i = r.i + 1
  BY <1>1, OnwardFields
<1>4. File(q) \in Paths
  BY <1>r, <1>1, FileFacts
<1> HIDE DEF on
<1>5. /\ next \in Requested /\ next.checked = r.checked \cup {File(q)}
      /\ next.held = on.held /\ next.row = on.row /\ next.overtaken = on.overtaken
      /\ next.pc = on.pc /\ next.i = on.i
  BY <1>3, <1>4 DEF Requested
<1> HIDE DEF next
<1>6. SoundRecord(next)
  BY <1>1, <1>3, <1>5 DEF SoundRecord
<1>7. \/ Becomes(q, Over)
      \/ disk[File(q)] = PatchOf(q) /\ Becomes(q, next)
  BY <1>r, <1>0 DEF CheckApplied, Untouched, on, next
<1>8. UNCHANGED <<disk, status, preimage, snapshot, edited, faults, raced>>
  BY DEF CheckApplied
<1>9. TInv'
  BY <1>1, <1>6, <1>7, <1>8, OverIsSound, BecomesTyped DEF TInv
<1>10. \/ request'[q] = Over
       \/ disk[File(q)] = PatchOf(q) /\ request'[q] = next
  BY <1>1, <1>7, BecomesFields
<1>11. \A o \in Asking \ {q} : request'[o] = request[o] /\ Kept(o)
  BY <1>1, <1>7, Left
<1>12. QED
  BY <1>r, <1>0, <1>1, <1>3, <1>5, <1>9, <1>10, <1>11

(* A request that is over keeps the shape.                                   *)
LEMMA OverShape ==
    ASSUME SInv, TInv', NEW q \in Asking, request'[q] = Over,
           UNCHANGED <<tale, status, preimage, snapshot>>, faults \subseteq faults',
           \A o \in Asking \ {q} : Kept(o)
    PROVE  SInv'
<1>1. /\ request'[q].pc = "done" /\ request'[q].held = <<>> /\ ~request'[q].row
      /\ request'[q].checked = {}
  BY OverFields
<1>2. Written(q)' = {}
  BY <1>1 DEF Written
<1>3. ToSet(request'[q].held) = {} /\ Remembered(q)' = {}
  BY <1>1 DEF Remembered, ToSet
<1>4. SoundRequest(q)'
  BY <1>1 DEF SoundRequest, AtWork
<1>5. SoundFiles(q)'
  BY <1>1, <1>2, <1>3 DEF SoundFiles
<1>6. Outlived(q)'
  BY <1>1 DEF Outlived, AtWork
<1>7. QED
  BY <1>1, <1>2, <1>4, <1>5, <1>6, ShapeStays

LEMMA CheckShape ==
    ASSUME SInv, NEW q \in Asking, CheckApplied(q), UNCHANGED tale
    PROVE  SInv'
<1> DEFINE p == PatchOf(q)
<1>1. UNCHANGED <<disk, status, preimage, snapshot, edited, faults, raced>>
  BY DEF CheckApplied
<1>2. CASE request'[q] = Over
  BY <1>1, <1>2, CheckFacts, OverShape
<1>3. CASE request'[q] # Over
  <2>1. /\ PatchOf(q)' = p /\ Accepts(q)' = Accepts(q) /\ Files(q)' = Files(q)
        /\ FilesOf(p)' = FilesOf(p)
    BY DEF PatchOf, Accepts, Files, FilesOf
  <2>2. /\ SoundRequest(q) /\ SoundFiles(q) /\ Outlived(q)
        /\ Len(Files(q)) \in Nat \ {0} /\ request[q].pc = "check"
    BY CheckFacts, Tale DEF SInv
  <2>3. /\ request'[q].held = request[q].held /\ request'[q].row = request[q].row
        /\ request'[q].checked = request[q].checked \cup {File(q)}
    BY <1>3, CheckFacts
  <2>4. Remembered(q)' = Remembered(q) /\ request[q].row
    BY <2>2, <2>3 DEF Remembered, SoundRequest
  <2>5. CASE request[q].i = Len(Files(q))
    <3>1. request'[q].pc = "read" /\ request'[q].i = 1
      BY <1>3, <2>5, CheckFacts
    <3>2. Before(q)' = {} /\ Written(q)' = {}
      BY <3>1 DEF Before, Written
    <3>3. FilesOf(p) \subseteq request'[q].checked
      BY <2>2, <2>3, <2>5, FileFacts DEF SoundRequest
    <3>4. SoundRequest(q)'
      BY <1>1, <2>1, <2>2, <2>3, <3>1, <3>2 DEF SoundRequest, AtWork
    <3>5. SoundFiles(q)'
      BY <1>1, <2>1, <2>2, <2>3, <2>4, <3>1, <3>2, <3>3 DEF SoundFiles
    <3>6. Outlived(q)'
      BY <1>1, <2>1, <2>2, <2>4, <3>1 DEF Outlived, AtWork, SoundRequest
    <3>7. QED
      BY <1>1, <2>3, <2>4, <3>2, <3>4, <3>5, <3>6, CheckFacts, ShapeStays
  <2>6. CASE request[q].i # Len(Files(q))
    <3>1. request'[q].pc = "check" /\ request'[q].i = request[q].i + 1
      BY <1>3, <2>6, CheckFacts
    <3>2. Written(q)' = {}
      BY <3>1 DEF Written
    <3>3. Before(q)' = Before(q) \cup {File(q)} /\ request'[q].i \in 1..Len(Files(q))
      BY <2>2, <2>6, <3>1, NextFile
    <3>4. SoundRequest(q)'
      BY <1>1, <2>1, <2>2, <2>3, <3>1, <3>3 DEF SoundRequest, AtWork
    <3>5. SoundFiles(q)'
      BY <1>1, <2>1, <2>2, <2>3, <2>4, <3>1, <3>2 DEF SoundFiles
    <3>6. Outlived(q)'
      BY <1>1, <2>1, <2>2, <2>4, <3>1 DEF Outlived, AtWork, SoundRequest
    <3>7. QED
      BY <1>1, <2>3, <2>4, <3>2, <3>4, <3>5, <3>6, CheckFacts, ShapeStays
  <2>7. QED
    BY <2>5, <2>6
<1>4. QED
  BY <1>2, <1>3

-----------------------------------------------------------------------------
(* What is remembered grows at its end and is put back from there.           *)
LEMMA AppendFacts ==
    ASSUME NEW S, NEW s \in Seq(S), NEW e \in S
    PROVE  Append(s, e) \in Seq(S) /\ ToSet(Append(s, e)) = ToSet(s) \cup {e}
<1>1. Len(s) \in Nat /\ DOMAIN s = 1..Len(s)
  OBVIOUS
<1>2. /\ Append(s, e) \in Seq(S) /\ Len(Append(s, e)) = Len(s) + 1
      /\ \A n \in 1..Len(s) : Append(s, e)[n] = s[n]
      /\ Append(s, e)[Len(s) + 1] = e
  OBVIOUS
<1>3. DOMAIN Append(s, e) = 1..(Len(s) + 1)
  BY <1>2
<1>4. \A x : x \in ToSet(Append(s, e)) <=> x \in ToSet(s) \/ x = e
  BY <1>1, <1>2, <1>3 DEF ToSet
<1>5. QED
  BY <1>2, <1>4

LEMMA FrontFacts ==
    ASSUME NEW S, NEW s \in Seq(S), s # <<>>
    PROVE  /\ Front(s) \in Seq(S) /\ Last(s) \in S /\ Last(s) \in ToSet(s)
           /\ ToSet(s) = ToSet(Front(s)) \cup {Last(s)} /\ Front(s) # s
<1>1. Len(s) \in Nat \ {0} /\ DOMAIN s = 1..Len(s)
  OBVIOUS
<1>2. /\ Front(s) \in Seq(S) /\ Len(Front(s)) = Len(s) - 1
      /\ \A n \in 1..(Len(s) - 1) : Front(s)[n] = s[n]
  BY <1>1 DEF Front
<1>3. ToSet(Front(s)) = {s[n] : n \in 1..(Len(s) - 1)}
  BY <1>1, <1>2 DEF ToSet
<1>4. ToSet(s) = {s[n] : n \in 1..Len(s)} /\ Last(s) = s[Len(s)]
  BY <1>1 DEF ToSet, Last
<1>5. QED
  BY <1>1, <1>2, <1>3, <1>4

LEMMA ReadFacts ==
    ASSUME SInv, NEW q \in Asking, ReadFile(q), UNCHANGED tale
    PROVE  LET r == request[q]
               n == request'[q]
               f == File(q)
           IN
           /\ TInv' /\ \A o \in Asking \ {q} : request'[o] = request[o] /\ Kept(o)
           /\ r.pc = "read" /\ n.i = r.i /\ n.row = r.row /\ n.overtaken = r.overtaken
           /\ \/ Accepts(q) /\ n.pc = "undo" /\ n.held = r.held /\ n.checked = r.checked
              \/ /\ n.pc = "write"
                 /\ ToSet(n.held) = ToSet(r.held) \cup {<<f, disk[f]>>}
                 /\ n.checked = (IF Accepts(q) THEN r.checked \cup {f} ELSE r.checked)
                 /\ Accepts(q) => disk[f] = preimage[PatchOf(q)][f]
<1>r. PICK r : r = request[q]
  OBVIOUS
<1>f. PICK f : f = File(q)
  OBVIOUS
<1> DEFINE stale == [r EXCEPT !.pc = "undo"]
           look == IF Accepts(q) THEN r.checked \cup {f} ELSE r.checked
           held == Append(r.held, <<f, disk[f]>>)
           read == [r EXCEPT !.pc = "write", !.held = held, !.checked = look]
<1>1. TInv /\ r \in Requested /\ r.pc = "read" /\ SoundRecord(r)
  BY <1>r, Tale DEF SInv, TInv, SoundRecord, ReadFile
<1>2. f \in Paths /\ disk[f] \in Made /\ disk[f] \in Contents
  <2>1. Made \subseteq Contents
    BY <1>1 DEF TInv, Made, Contents
  <2>2. QED
    BY <1>r, <1>f, <1>1, <2>1, FileFacts DEF TInv
<1>3. /\ held \in Seq(Paths \X Contents)
      /\ ToSet(held) = ToSet(r.held) \cup {<<f, disk[f]>>}
  <2>1. PICK h : h = <<f, disk[f]>>
    OBVIOUS
  <2>2. PICK S : S = Paths \X Contents
    OBVIOUS
  <2>3. PICK s : s = r.held
    OBVIOUS
  <2>4. s \in Seq(S) /\ h \in S
    <3>1. r.held \in Seq(Paths \X Contents)
      BY <1>1 DEF Requested
    <3>2. <<f, disk[f]>> \in Paths \X Contents
      BY <1>2
    <3>3. QED
      BY <2>1, <2>2, <2>3, <3>1, <3>2
  <2>5. Append(s, h) \in Seq(S) /\ ToSet(Append(s, h)) = ToSet(s) \cup {h}
    BY <2>4, AppendFacts
  <2>6. QED
    BY <2>1, <2>2, <2>3, <2>5
<1>4. /\ stale.pc = "undo" /\ stale.held = r.held /\ stale.checked = r.checked
      /\ stale.i = r.i /\ stale.row = r.row /\ stale.overtaken = r.overtaken
      /\ SoundRecord(stale)
  <2>1. stale \in Requested
    BY <1>1 DEF Requested, At
  <2>2. /\ stale.pc = "undo" /\ stale.held = r.held /\ stale.checked = r.checked
        /\ stale.i = r.i /\ stale.row = r.row /\ stale.overtaken = r.overtaken
    BY <1>1 DEF Requested
  <2> HIDE DEF stale
  <2>3. QED
    BY <1>1, <2>1, <2>2 DEF SoundRecord
<1>5. /\ read.pc = "write" /\ read.held = held /\ read.checked = look
      /\ read.i = r.i /\ read.row = r.row /\ read.overtaken = r.overtaken
      /\ SoundRecord(read)
  <2>1. look \subseteq Paths /\ r.checked \subseteq look
    BY <1>1, <1>2 DEF Requested
  <2> HIDE DEF look, held
  <2>2. [r EXCEPT !.pc = "write"] \in Requested
    BY <1>1 DEF Requested, At
  <2>3. [[r EXCEPT !.pc = "write"] EXCEPT !.held = held] \in Requested
    BY <1>3, <2>2 DEF Requested
  <2>4. read \in Requested
    BY <2>1, <2>3 DEF Requested
  <2>5. /\ read.pc = "write" /\ read.held = held /\ read.checked = look
        /\ read.i = r.i /\ read.row = r.row /\ read.overtaken = r.overtaken
    BY <1>1 DEF Requested
  <2> HIDE DEF read
  <2>6. \A o \in Others : read.overtaken[o] \subseteq read.checked
    BY <1>1, <2>1, <2>5 DEF SoundRecord
  <2>7. \A h \in ToSet(read.held) : h[2] \in Made
    BY <1>1, <1>2, <1>3, <2>5 DEF SoundRecord
  <2>8. QED
    BY <2>4, <2>5, <2>6, <2>7 DEF SoundRecord
<1>6. \/ Accepts(q) /\ Becomes(q, stale)
      \/ (Accepts(q) => disk[f] = preimage[PatchOf(q)][f]) /\ Becomes(q, read)
  BY <1>r, <1>f DEF ReadFile, Accepts
<1> HIDE DEF stale, read, look, held
<1>7. UNCHANGED <<disk, status, preimage, snapshot, edited, faults, raced>>
  BY DEF ReadFile
<1>8. TInv'
  BY <1>1, <1>4, <1>5, <1>6, <1>7, BecomesTyped DEF TInv
<1>9. \/ Accepts(q) /\ request'[q] = stale
      \/ (Accepts(q) => disk[f] = preimage[PatchOf(q)][f]) /\ request'[q] = read
  BY <1>1, <1>6, BecomesFields
<1>10. \A o \in Asking \ {q} : request'[o] = request[o] /\ Kept(o)
  BY <1>1, <1>6, Left
<1>11. QED
  BY <1>r, <1>f, <1>1, <1>3, <1>4, <1>5, <1>8, <1>9, <1>10 DEF look

LEMMA ReadShape ==
    ASSUME SInv, NEW q \in Asking, ReadFile(q), UNCHANGED tale
    PROVE  SInv'
<1> DEFINE p == PatchOf(q)
           f == File(q)
<1>1. UNCHANGED <<disk, status, preimage, snapshot, edited, faults, raced>>
  BY DEF ReadFile
<1>2. /\ PatchOf(q)' = p /\ Accepts(q)' = Accepts(q) /\ Files(q)' = Files(q)
      /\ FilesOf(p)' = FilesOf(p)
  BY DEF PatchOf, Accepts, Files, FilesOf
<1>3. /\ SoundRequest(q) /\ SoundFiles(q) /\ Outlived(q)
      /\ request[q].pc = "read" /\ request'[q].i = request[q].i
      /\ request'[q].row = request[q].row /\ request'[q].overtaken = request[q].overtaken
  BY ReadFacts DEF SInv
<1>4. request[q].row /\ File(q)' = f
  BY <1>2, <1>3 DEF SoundRequest, File
<1>5. Before(q)' = Before(q)
  BY <1>2, <1>3 DEF Before
<1>6. CASE Accepts(q) /\ request'[q].pc = "undo"
  <2>1. request'[q].held = request[q].held /\ request'[q].checked = request[q].checked
    BY <1>6, ReadFacts
  <2>2. Written(q)' = {} /\ Remembered(q)' = Remembered(q)
    BY <1>6, <2>1 DEF Written, Remembered
  <2>3. SoundRequest(q)'
    BY <1>1, <1>2, <1>3, <1>6 DEF SoundRequest, AtWork
  <2>4. SoundFiles(q)'
    BY <1>1, <1>2, <1>3, <1>6, <2>1, <2>2 DEF SoundFiles
  <2>5. Outlived(q)'
    BY <1>1, <1>2, <1>3, <1>4, <1>6, <2>2 DEF SoundRequest, Outlived, AtWork
  <2>6. QED
    BY <1>1, <1>4, <2>2, <2>3, <2>4, <2>5, ReadFacts, ShapeStays
<1>7. CASE request'[q].pc = "write"
  <2>1. /\ ToSet(request'[q].held) = ToSet(request[q].held) \cup {<<f, disk[f]>>}
        /\ request'[q].checked =
             (IF Accepts(q) THEN request[q].checked \cup {f} ELSE request[q].checked)
        /\ Accepts(q) => disk[f] = preimage[p][f]
    BY <1>7, ReadFacts
  <2>2. Remembered(q)' = Remembered(q) \cup {f}
    <3>1. <<f, disk[f]>>[1] = f
      OBVIOUS
    <3>2. QED
      BY <2>1, <3>1 DEF Remembered
  <2>3. f \in FilesOf(p)
    BY <1>3, FileFacts
  <2>4. Written(q)' = Written(q)
    BY <1>3, <1>5, <1>7 DEF Written
  <2>5. SoundRequest(q)'
    BY <1>1, <1>2, <1>3, <1>7 DEF SoundRequest, AtWork
  <2>6. SoundFiles(q)'
    BY <1>1, <1>2, <1>3, <1>4, <1>7, <2>1, <2>2, <2>3, <2>4 DEF SoundFiles
  <2>7. Outlived(q)'
    BY <1>1, <1>2, <1>3, <1>4, <1>7 DEF SoundRequest, Outlived, AtWork
  <2>8. request[q].row => \A o \in Asking \ {q} : PatchOf(o) = p =>
          Written(q) \cap request[o].checked \subseteq request[o].overtaken["request"]
    BY DEF SInv, Turns
  <2>9. QED
    BY <1>1, <1>4, <2>4, <2>5, <2>6, <2>7, <2>8, ReadFacts, ShapeStays
<1>8. QED
  BY <1>6, <1>7, ReadFacts

LEMMA WriteFacts ==
    ASSUME SInv, NEW q \in Asking, WriteFile(q), UNCHANGED tale
    PROVE  LET r == request[q]
               n == request'[q]
               f == File(q)
               p == PatchOf(q)
           IN
           /\ TInv' /\ r.pc = "write"
           /\ n.held = r.held /\ n.row = r.row /\ n.checked = r.checked
           /\ n.overtaken = r.overtaken
           /\ IF r.i = Len(Files(q)) THEN n.pc = "save" /\ n.i = 1
                                     ELSE n.pc = "read" /\ n.i = r.i + 1
           /\ disk'[f] = (IF Accepts(q) THEN p ELSE preimage[p][f])
           /\ \A g \in Paths \ {f} : disk'[g] = disk[g]
           /\ raced' = (raced \/ f \in r.overtaken["request"])
           /\ \A o \in Asking \ {q} :
                /\ Kept(o)
                /\ f \in request[o].checked => f \in request'[o].overtaken["request"]
                /\ \A b \in Others : \A g \in Paths \ {f} :
                     g \in request'[o].overtaken[b] => g \in request[o].overtaken[b]
<1>r. PICK r : r = request[q]
  OBVIOUS
<1>f. PICK f : f = File(q)
  OBVIOUS
<1>p. PICK p : p = PatchOf(q)
  OBVIOUS
<1>a. PICK read \in At, save \in At : read = "read" /\ save = "save"
  BY DEF At
<1> DEFINE on == Onward(r, q, read, save)
           c == IF Accepts(q) THEN p ELSE snapshot[p].files[f]
<1>1. TInv /\ r \in Requested /\ r.pc = "write" /\ SoundRecord(r)
  BY <1>r, Tale DEF SInv, TInv, SoundRecord, WriteFile
<1>2. f \in Paths /\ f \in FilesOf(p) /\ p \in Patches /\ p \in tale.patches
  BY <1>r, <1>f, <1>p, <1>1, FileFacts, Tale
<1>3. /\ on \in Requested
      /\ on.held = r.held /\ on.row = r.row /\ on.checked = r.checked
      /\ on.overtaken = r.overtaken
      /\ r.i = Len(Files(q)) => on.pc = save /\ on.i = 1
      /\ r.i # Len(Files(q)) => on.pc = read /\ on.i = r.i + 1
  BY <1>1, OnwardFields
<1>4. c = (IF Accepts(q) THEN p ELSE preimage[p][f])
  <2>1. ~Accepts(q) => status[p] = "accepted"
    BY <1>r, <1>p, <1>1 DEF SInv, SoundRequest, AtWork
  <2>2. QED
    BY <1>2, <2>1 DEF SInv, SnapshotsAreExact
<1>5. c \in Made
  BY <1>1, <1>2, <1>4 DEF TInv, Made
<1>6. Writes(q, f, c, on)
  BY <1>r, <1>f, <1>p, <1>a DEF WriteFile, Accepts
<1> HIDE DEF on, c
<1>7. SoundRecord(on)
  BY <1>1, <1>3 DEF SoundRecord
<1>8. TInv'
  BY <1>1, <1>2, <1>5, <1>6, <1>7, WritesTyped DEF WriteFile
<1>9. /\ request'[q] = on
      /\ disk'[f] = c /\ \A g \in Paths \ {f} : disk'[g] = disk[g]
      /\ raced' = (raced \/ f \in request[q].overtaken["request"])
  BY <1>1, <1>2, <1>6, WritesFields
<1>10. \A o \in Asking \ {q} :
         /\ Kept(o)
         /\ f \in request[o].checked => f \in request'[o].overtaken["request"]
         /\ \A b \in Others : \A g \in Paths \ {f} :
              g \in request'[o].overtaken[b] => g \in request[o].overtaken[b]
  BY <1>1, <1>2, <1>6, Overtaken
<1>11. QED
  BY <1>r, <1>f, <1>p, <1>a, <1>1, <1>3, <1>4, <1>8, <1>9, <1>10

LEMMA WriteShape ==
    ASSUME SInv, NEW q \in Asking, WriteFile(q), UNCHANGED tale
    PROVE  SInv'
<1> DEFINE p == PatchOf(q)
           f == File(q)
<1>1. UNCHANGED <<status, preimage, snapshot, edited, faults>>
  BY DEF WriteFile
<1>2. /\ PatchOf(q)' = p /\ Accepts(q)' = Accepts(q) /\ Files(q)' = Files(q)
      /\ FilesOf(p)' = FilesOf(p)
  BY DEF PatchOf, Accepts, Files, FilesOf
<1>3. /\ SoundRequest(q) /\ SoundFiles(q) /\ Outlived(q)
      /\ request[q].pc = "write" /\ request'[q].held = request[q].held
      /\ request'[q].row = request[q].row /\ request'[q].overtaken = request[q].overtaken
      /\ request'[q].checked = request[q].checked
  BY WriteFacts DEF SInv
<1>4. request[q].row /\ Remembered(q)' = Remembered(q)
  BY <1>3 DEF SoundRequest, Remembered
<1>5. Len(Files(q)) \in Nat \ {0}
  BY Tale DEF SInv
<1>6. /\ Written(q) = Before(q) /\ Written(q)' = Before(q) \cup {f}
      /\ \/ request'[q].pc = "save"
         \/ request'[q].pc = "read" /\ request'[q].i \in 1..Len(Files(q))
  <2>1. CASE request[q].i = Len(Files(q))
    <3>1. request'[q].pc = "save"
      BY <2>1, WriteFacts
    <3>2. QED
      BY <1>2, <1>3, <2>1, <3>1, FileFacts DEF Written
  <2>2. CASE request[q].i # Len(Files(q))
    <3>1. request'[q].pc = "read" /\ request'[q].i = request[q].i + 1
      BY <2>2, WriteFacts
    <3>2. Before(q)' = Before(q) \cup {f} /\ request'[q].i \in 1..Len(Files(q))
      BY <1>3, <2>2, <3>1, NextFile
    <3>3. QED
      BY <1>3, <3>1, <3>2 DEF Written
  <2>3. QED
    BY <2>1, <2>2
<1>7. SoundRequest(q)'
  BY <1>1, <1>2, <1>3, <1>4, <1>6 DEF SoundRequest, AtWork
<1>8. SoundFiles(q)'
  BY <1>1, <1>2, <1>3, <1>4, <1>6 DEF SoundFiles
<1>9. Outlived(q)'
  BY <1>1, <1>2, <1>3, <1>4, <1>6 DEF SoundRequest, Outlived, AtWork
<1>10. \A o \in Asking \ {q} : PatchOf(o) = p =>
         Written(q)' \cap request[o].checked \subseteq request'[o].overtaken["request"]
  <2> SUFFICES ASSUME NEW o \in Asking \ {q}, PatchOf(o) = p
               PROVE  Written(q)' \cap request[o].checked
                          \subseteq request'[o].overtaken["request"]
    OBVIOUS
  <2>1. Written(q) \cap request[o].checked \subseteq request[o].overtaken["request"]
    BY <1>4 DEF SInv, Turns
  <2>2. /\ request[o].overtaken["request"] \subseteq request'[o].overtaken["request"]
        /\ f \in request[o].checked => f \in request'[o].overtaken["request"]
    BY WriteFacts DEF Kept, Others
  <2>3. QED
    BY <1>6, <2>1, <2>2
<1>11. QED
  BY <1>1, <1>4, <1>7, <1>8, <1>9, <1>10, WriteFacts, ShapeStays

(* A write or a statement fails, or the COMMIT: the request turns back.      *)
TurnsBack(q) == Fails(q) \/ CommitRefused(q)

LEMMA TurnFacts ==
    ASSUME SInv, NEW q \in Asking, TurnsBack(q), UNCHANGED tale
    PROVE  LET r == request[q]
               n == request'[q]
           IN
           /\ TInv' /\ \A o \in Asking \ {q} : request'[o] = request[o] /\ Kept(o)
           /\ r.pc \in {"write", "save"} /\ n.pc = "undo"
           /\ n.row => r.row /\ Accepts(q)
           /\ n.held = r.held /\ n.checked = r.checked /\ n.overtaken = r.overtaken
           /\ UNCHANGED <<disk, status, preimage, snapshot, edited, faults, raced>>
<1>r. PICK r : r = request[q]
  OBVIOUS
<1>1. TInv /\ r \in Requested /\ r.pc \in {"write", "save"} /\ SoundRecord(r)
  BY <1>r, Tale DEF SInv, TInv, SoundRecord, TurnsBack, Fails, CommitRefused
<1>2. r.row = TRUE
  BY <1>r, <1>1 DEF SInv, SoundRequest, Requested
<1>3. PICK row \in BOOLEAN : (row => Accepts(q)) /\ Becomes(q, [r EXCEPT !.pc = "undo", !.row = row])
  <2>1. CASE Fails(q)
    BY <1>r, <2>1 DEF Fails, Accepts
  <2>2. CASE CommitRefused(q)
    BY <1>r, <2>2 DEF CommitRefused, CommitFails
  <2>3. QED
    BY <2>1, <2>2 DEF TurnsBack
<1> DEFINE n == [r EXCEPT !.pc = "undo", !.row = row]
<1>4. /\ n.pc = "undo" /\ n.row = row
      /\ n.held = r.held /\ n.checked = r.checked /\ n.overtaken = r.overtaken
      /\ n \in Requested
  <2>1. [r EXCEPT !.pc = "undo"] \in Requested
    BY <1>1 DEF Requested, At
  <2>2. [[r EXCEPT !.pc = "undo"] EXCEPT !.row = row] \in Requested
    BY <2>1 DEF Requested
  <2>3. QED
    BY <1>1, <2>2 DEF Requested
<1> HIDE DEF n
<1>5. SoundRecord(n)
  BY <1>1, <1>4 DEF SoundRecord
<1>6. Becomes(q, n)
  BY <1>3 DEF n
<1>7. UNCHANGED <<disk, status, preimage, snapshot, edited, faults, raced>>
  BY DEF TurnsBack, Fails, CommitRefused
<1>8. TInv'
  BY <1>1, <1>5, <1>6, <1>7, BecomesTyped DEF TInv
<1>9. request'[q] = n
  BY <1>1, <1>6, BecomesFields
<1>10. \A o \in Asking \ {q} : request'[o] = request[o] /\ Kept(o)
  BY <1>1, <1>6, Left
<1>11. QED
  BY <1>r, <1>1, <1>2, <1>3, <1>4, <1>7, <1>8, <1>9, <1>10

LEMMA TurnShape ==
    ASSUME SInv, NEW q \in Asking, TurnsBack(q), UNCHANGED tale
    PROVE  SInv'
<1> DEFINE p == PatchOf(q)
<1>1. /\ PatchOf(q)' = p /\ Accepts(q)' = Accepts(q) /\ Files(q)' = Files(q)
      /\ FilesOf(p)' = FilesOf(p)
  BY DEF PatchOf, Accepts, Files, FilesOf
<1>2. SoundRequest(q) /\ SoundFiles(q) /\ Outlived(q)
  BY DEF SInv
<1>3. request'[q].held = request[q].held /\ request'[q].pc = "undo"
  BY TurnFacts
<1>4. Remembered(q)' = Remembered(q) /\ Written(q)' = {}
  BY <1>3 DEF Remembered, Written
<1>5. SoundRequest(q)'
  BY <1>1, <1>2, TurnFacts DEF SoundRequest, AtWork
<1>6. SoundFiles(q)'
  BY <1>1, <1>2, <1>4, TurnFacts DEF SoundFiles
<1>7. Outlived(q)'
  BY <1>1, <1>2, <1>4, TurnFacts DEF SoundRequest, Outlived, AtWork
<1>8. QED
  BY <1>4, <1>5, <1>6, <1>7, TurnFacts, ShapeStays

(* The files are put back, the latest first.                                 *)
PutsBack(q, h) ==
    LET r == request[q]
        n == request'[q]
    IN  /\ h \in ToSet(r.held) /\ h[1] \in Paths /\ h[2] \in Made
        /\ ToSet(r.held) = ToSet(n.held) \cup {h}
        /\ n.pc = "undo" /\ n.row = r.row /\ n.checked = r.checked
        /\ n.overtaken = r.overtaken /\ n.held # r.held
        /\ disk'[h[1]] = h[2]
        /\ \A g \in Paths \ {h[1]} : disk'[g] = disk[g]
        /\ raced' = (raced \/ h[1] \in r.overtaken["request"])
        /\ \A o \in Asking \ {q} :
             /\ h[1] \in request[o].checked => h[1] \in request'[o].overtaken["request"]
             /\ \A b \in Others : \A g \in Paths \ {h[1]} :
                  g \in request'[o].overtaken[b] => g \in request[o].overtaken[b]

LEMMA UndoFacts ==
    ASSUME SInv, NEW q \in Asking, UndoFile(q), UNCHANGED tale
    PROVE  /\ TInv' /\ request[q].pc = "undo" /\ \A o \in Asking \ {q} : Kept(o)
           /\ \/ /\ request'[q] = Over /\ request[q].held = <<>> /\ UNCHANGED <<disk, raced>>
                 /\ \A o \in Asking \ {q} : request'[o] = request[o]
              \/ \E h : PutsBack(q, h)
<1>r. PICK r : r = request[q]
  OBVIOUS
<1>1. TInv /\ r \in Requested /\ r.pc = "undo" /\ SoundRecord(r)
  BY <1>r, Tale DEF SInv, TInv, SoundRecord, UndoFile
<1>2. UNCHANGED <<status, preimage, snapshot, edited, faults>>
  BY DEF UndoFile
<1>3. CASE r.held = <<>>
  <2>1. Becomes(q, Over) /\ UNCHANGED <<disk, raced>>
    BY <1>r, <1>3 DEF UndoFile
  <2>2. TInv'
    BY <1>1, <1>2, <2>1, OverIsSound, BecomesTyped DEF TInv
  <2>3. QED
    BY <1>r, <1>1, <1>3, <2>1, <2>2, BecomesFields, Left
<1>4. CASE r.held # <<>>
  <2>1. PICK h : h = Last(r.held)
    OBVIOUS
  <2>2. PICK rest : rest = Front(r.held)
    OBVIOUS
  <2>3. /\ h \in Paths \X Contents /\ h \in ToSet(r.held)
        /\ rest \in Seq(Paths \X Contents) /\ ToSet(r.held) = ToSet(rest) \cup {h}
        /\ rest # r.held
    <3>1. PICK S : S = Paths \X Contents
      OBVIOUS
    <3>2. PICK s : s = r.held
      OBVIOUS
    <3>3. r.held \in Seq(Paths \X Contents)
      BY <1>1 DEF Requested
    <3>4. s \in Seq(S) /\ s # <<>>
      BY <1>4, <3>1, <3>2, <3>3
    <3>5. /\ Front(s) \in Seq(S) /\ Last(s) \in S /\ Last(s) \in ToSet(s)
          /\ ToSet(s) = ToSet(Front(s)) \cup {Last(s)} /\ Front(s) # s
      BY <3>4, FrontFacts
    <3>6. QED
      BY <2>1, <2>2, <3>1, <3>2, <3>5
  <2>4. PICK f, c : f = h[1] /\ c = h[2]
    OBVIOUS
  <2>5. f \in Paths /\ c \in Made
    BY <1>1, <2>3, <2>4 DEF SoundRecord
  <2> DEFINE n == [r EXCEPT !.held = rest]
  <2>6. /\ n \in Requested /\ n.held = rest
        /\ n.pc = "undo" /\ n.row = r.row /\ n.checked = r.checked /\ n.overtaken = r.overtaken
    BY <1>1, <2>3 DEF Requested
  <2>7. Writes(q, f, c, n)
    BY <1>r, <1>4, <2>1, <2>2, <2>4 DEF UndoFile
  <2> HIDE DEF n
  <2>8. SoundRecord(n)
    BY <1>1, <2>3, <2>6 DEF SoundRecord
  <2>9. TInv'
    BY <1>1, <1>2, <2>5, <2>7, <2>8, WritesTyped
  <2>10. /\ request'[q] = n
         /\ disk'[f] = c /\ \A g \in Paths \ {f} : disk'[g] = disk[g]
         /\ raced' = (raced \/ f \in request[q].overtaken["request"])
    BY <1>1, <2>5, <2>7, WritesFields
  <2>11. \A o \in Asking \ {q} :
           /\ Kept(o)
           /\ f \in request[o].checked => f \in request'[o].overtaken["request"]
           /\ \A b \in Others : \A g \in Paths \ {f} :
                g \in request'[o].overtaken[b] => g \in request[o].overtaken[b]
    BY <1>1, <2>5, <2>7, Overtaken
  <2>12. QED
    <3>1. PutsBack(q, h)
      BY <1>r, <2>3, <2>4, <2>5, <2>6, <2>10, <2>11 DEF PutsBack
    <3>2. QED
      BY <1>r, <1>1, <2>9, <2>11, <3>1
<1>5. QED
  BY <1>3, <1>4

LEMMA UndoShape ==
    ASSUME SInv, NEW q \in Asking, UndoFile(q), UNCHANGED tale
    PROVE  SInv'
<1> DEFINE p == PatchOf(q)
<1>1. UNCHANGED <<status, preimage, snapshot, edited, faults>>
  BY DEF UndoFile
<1>2. CASE request'[q] = Over
  BY <1>1, <1>2, UndoFacts, OverShape
<1>3. CASE request'[q] # Over
  <2>1. PICK h : PutsBack(q, h)
    BY <1>3, UndoFacts
  <2>2. /\ request'[q].pc = "undo" /\ request'[q].row = request[q].row
        /\ request'[q].checked = request[q].checked
        /\ request'[q].overtaken = request[q].overtaken /\ request[q].pc = "undo"
        /\ ToSet(request'[q].held) \subseteq ToSet(request[q].held)
    BY <2>1, UndoFacts DEF PutsBack
  <2>3. /\ PatchOf(q)' = p /\ Accepts(q)' = Accepts(q) /\ Files(q)' = Files(q)
        /\ FilesOf(p)' = FilesOf(p)
    BY DEF PatchOf, Accepts, Files, FilesOf
  <2>4. SoundRequest(q) /\ SoundFiles(q) /\ Outlived(q)
    BY DEF SInv
  <2>5. Remembered(q)' \subseteq Remembered(q) /\ Written(q)' = {}
    BY <2>2 DEF Remembered, Written
  <2>6. SoundRequest(q)'
    BY <1>1, <2>2, <2>3, <2>4 DEF SoundRequest, AtWork
  <2>7. SoundFiles(q)'
    BY <1>1, <2>2, <2>3, <2>4, <2>5 DEF SoundFiles
  <2>8. Outlived(q)'
    BY <1>1, <2>2, <2>3, <2>4, <2>5 DEF Outlived, AtWork
  <2>9. QED
    BY <1>1, <2>2, <2>5, <2>6, <2>7, <2>8, UndoFacts, ShapeStays
<1>4. QED
  BY <1>2, <1>3

LEMMA UndoFailsShape ==
    ASSUME SInv, NEW q \in Asking, UndoFails(q), UNCHANGED tale
    PROVE  SInv'
<1>1. TInv /\ Becomes(q, Over) /\ UNCHANGED <<disk, status, preimage, snapshot, edited, raced>>
  BY DEF SInv, UndoFails
<1>2. faults' \subseteq {"crash", "lost", "undo"} /\ faults \subseteq faults'
  BY DEF UndoFails, Fault, SInv, TInv
<1>3. TInv'
  BY <1>1, <1>2, OverIsSound, BecomesTyped DEF TInv
<1>4. request'[q] = Over /\ \A o \in Asking \ {q} : Kept(o)
  BY <1>1, BecomesFields, Left
<1>5. QED
  BY <1>1, <1>2, <1>3, <1>4, OverShape

(* The transaction is committed, whether or not the server hears of it.      *)
Commits(q) == Commit(q) \/ CommitUnheard(q)

LEMMA SavedFacts ==
    ASSUME SInv, NEW q \in Asking, request[q].pc = "save", Saved(q), UNCHANGED preimage
    PROVE  LET p == PatchOf(q) IN
           /\ status' = [status EXCEPT ![p] = IF Accepts(q) THEN "accepted" ELSE "rolled_back"]
           /\ snapshot' \in [Patches -> [there : BOOLEAN, files : [Paths -> Contents]]]
           /\ \A x \in Patches \ {p} : snapshot'[x] = snapshot[x]
           /\ \A f \in FilesOf(p) : snapshot'[p].files[f] = preimage[p][f]
<1>p. PICK p : p = PatchOf(q)
  OBVIOUS
<1>1. /\ TInv /\ SoundRequest(q) /\ SoundFiles(q) /\ p \in Patches /\ p \in tale.patches
      /\ FilesOf(p) \subseteq Paths /\ q \in Requests /\ FilesOf(p) = ToSet(Files(q))
  BY <1>p, Tale DEF SInv, FilesOf, Files, PatchOf
<1>2. snapshot \in [Patches -> [there : BOOLEAN, files : [Paths -> Contents]]]
  BY <1>1 DEF TInv
<1>3. CASE Accepts(q)
  <2> DEFINE kept(f) == CHOOSE h \in ToSet(request[q].held) : h[1] = f
             files == [f \in Paths |->
                         IF f \in ToSet(Files(q)) THEN kept(f)[2] ELSE Base]
  <2>1. \A f \in FilesOf(p) : kept(f) \in ToSet(request[q].held) /\ kept(f)[1] = f
    <3>1. FilesOf(p) \subseteq Remembered(q)
      BY <1>p, <1>1 DEF SoundFiles, Written
    <3>2. QED
      BY <3>1 DEF Remembered
  <2>2. \A f \in FilesOf(p) : kept(f)[2] = preimage[p][f]
    BY <1>p, <1>1, <1>3, <2>1 DEF SoundFiles
  <2>3. status' = [status EXCEPT ![p] = "accepted"]
        /\ snapshot' = [snapshot EXCEPT ![p] = [there |-> TRUE, files |-> files]]
    BY <1>p, <1>3 DEF Saved, Accepts
  <2> HIDE DEF kept
  <2>4. \A f \in FilesOf(p) : files[f] = preimage[p][f]
    BY <1>1, <2>2
  <2>5. \A f \in Paths : files[f] \in Contents
    BY <1>1, <2>2 DEF TInv, Made, Contents
  <2>6. files \in [Paths -> Contents]
    BY <2>5
  <2> HIDE DEF files
  <2>7. QED
    BY <1>p, <1>1, <1>2, <1>3, <2>3, <2>4, <2>6
<1>4. CASE ~Accepts(q)
  <2>1. status' = [status EXCEPT ![p] = "rolled_back"]
        /\ snapshot' = [snapshot EXCEPT ![p].there = FALSE]
    BY <1>p, <1>4 DEF Saved, Accepts
  <2>2. status[p] = "accepted"
    BY <1>p, <1>1, <1>4 DEF SoundRequest, AtWork
  <2>3. \A f \in FilesOf(p) : snapshot[p].files[f] = preimage[p][f]
    BY <1>1, <2>2 DEF SInv, SnapshotsAreExact
  <2>4. snapshot' \in [Patches -> [there : BOOLEAN, files : [Paths -> Contents]]]
        /\ snapshot'[p].files = snapshot[p].files
    BY <1>1, <1>2, <2>1
  <2>5. QED
    BY <1>p, <1>1, <1>2, <1>4, <2>1, <2>3, <2>4
<1>5. QED
  BY <1>3, <1>4

LEMMA CommitFacts ==
    ASSUME SInv, NEW q \in Asking, Commits(q), UNCHANGED tale
    PROVE  LET r == request[q]
               n == request'[q]
           IN
           /\ TInv' /\ \A o \in Asking \ {q} : request'[o] = request[o] /\ Kept(o)
           /\ r.pc = "save" /\ Saved(q)
           /\ faults \subseteq faults' /\ UNCHANGED <<disk, preimage, edited, raced>>
           /\ \/ n = Over
              \/ /\ "lost" \in faults' /\ n.pc = "undo" /\ ~n.row
                 /\ n.held = r.held /\ n.checked = r.checked /\ n.overtaken = r.overtaken
<1>r. PICK r : r = request[q]
  OBVIOUS
<1>1. TInv /\ r \in Requested /\ r.pc = "save" /\ SoundRecord(r) /\ Saved(q)
  BY <1>r, Tale DEF SInv, TInv, SoundRecord, Commits, Commit, CommitUnheard
<1>2. UNCHANGED <<disk, preimage, edited, raced>>
  BY DEF Commits, Commit, CommitUnheard
<1>3. faults' \subseteq {"crash", "lost", "undo"} /\ faults \subseteq faults'
  BY DEF Commits, Commit, CommitUnheard, Fault, SInv, TInv
<1>4. status' \in [Patches -> Statuses]
  <2>1. status' = [status EXCEPT ![PatchOf(q)] =
                     IF Accepts(q) THEN "accepted" ELSE "rolled_back"]
    BY <1>r, <1>1, <1>2, SavedFacts
  <2>2. QED
    BY <1>1, <2>1 DEF TInv, Statuses
<1>5. snapshot' \in [Patches -> [there : BOOLEAN, files : [Paths -> Contents]]]
  BY <1>r, <1>1, <1>2, SavedFacts
<1> DEFINE n == [r EXCEPT !.pc = "undo", !.row = FALSE]
<1>6. /\ n.pc = "undo" /\ n.row = FALSE
      /\ n.held = r.held /\ n.checked = r.checked /\ n.overtaken = r.overtaken
      /\ n \in Requested
  <2>1. [r EXCEPT !.pc = "undo"] \in Requested
    BY <1>1 DEF Requested, At
  <2>2. [[r EXCEPT !.pc = "undo"] EXCEPT !.row = FALSE] \in Requested
    BY <2>1 DEF Requested
  <2>3. QED
    BY <1>1, <2>2 DEF Requested
<1>7. Becomes(q, Over) \/ ("lost" \in faults' /\ Becomes(q, n))
  BY <1>r DEF Commits, Commit, CommitUnheard, CommitFails, Fault
<1> HIDE DEF n
<1>8. SoundRecord(n)
  BY <1>1, <1>6 DEF SoundRecord
<1>9. TInv'
  BY <1>1, <1>2, <1>3, <1>4, <1>5, <1>7, <1>8, OverIsSound, BecomesTyped
<1>10. request'[q] = Over \/ ("lost" \in faults' /\ request'[q] = n)
  BY <1>1, <1>7, BecomesFields
<1>11. \A o \in Asking \ {q} : request'[o] = request[o] /\ Kept(o)
  BY <1>1, <1>7, Left
<1>12. QED
  BY <1>r, <1>1, <1>2, <1>3, <1>6, <1>9, <1>10, <1>11

LEMMA CommitShape ==
    ASSUME SInv, NEW q \in Asking, Commits(q), UNCHANGED tale
    PROVE  SInv'
<1>p. PICK p : p = PatchOf(q)
  OBVIOUS
<1>1. /\ Asking' = Asking /\ \A x : FilesOf(x)' = FilesOf(x)
      /\ \A o : PatchOf(o)' = PatchOf(o) /\ Accepts(o)' = Accepts(o) /\ Files(o)' = Files(o)
      /\ tale'.patches = tale.patches
  BY DEF Asking, FilesOf, PatchOf, Accepts, Files
<1>2. /\ SoundRequest(q) /\ SoundFiles(q) /\ request[q].pc = "save" /\ request[q].row
      /\ Written(q) = FilesOf(p)
      /\ status[p] = (IF Accepts(q) THEN "pending" ELSE "accepted")
  BY <1>p, CommitFacts DEF SInv, SoundRequest, AtWork, Written
<1>3. /\ status'[p] = (IF Accepts(q) THEN "accepted" ELSE "rolled_back")
      /\ \A x \in Patches \ {p} : status'[x] = status[x]
      /\ \A x \in Patches \ {p} : snapshot'[x] = snapshot[x]
      /\ \A f \in FilesOf(p) : snapshot'[p].files[f] = preimage[p][f]
      /\ preimage' = preimage /\ p \in Patches /\ p \in tale.patches
      /\ \A o \in Asking : PatchOf(o) \in Patches
  <2>1. TInv /\ preimage' = preimage /\ Saved(q)
    BY CommitFacts DEF SInv
  <2>2. status' = [status EXCEPT ![p] = IF Accepts(q) THEN "accepted" ELSE "rolled_back"]
    BY <1>p, <1>2, <2>1, SavedFacts
  <2>3. /\ \A x \in Patches \ {p} : snapshot'[x] = snapshot[x]
        /\ \A f \in FilesOf(p) : snapshot'[p].files[f] = preimage[p][f]
    BY <1>p, <1>2, <2>1, SavedFacts
  <2>4. QED
    BY <1>p, <2>1, <2>2, <2>3, Tale DEF TInv
<1>4. /\ request'[q].pc \in {"undo", "done"} /\ ~request'[q].row
      /\ request'[q].pc = "done" => request'[q].held = <<>> /\ request'[q].checked = {}
      /\ request'[q].pc = "undo" =>
           /\ "lost" \in faults' /\ request'[q].held = request[q].held
           /\ request'[q].checked = request[q].checked
           /\ request'[q].overtaken = request[q].overtaken
  BY CommitFacts, OverFields
<1>5. \A o \in Asking \ {q} : request'[o] = request[o] /\ Kept(o)
  BY CommitFacts
<1>6. (SoundRequest(q) /\ SoundFiles(q) /\ Outlived(q))'
  <2>1. Written(q)' = {}
    BY <1>4 DEF Written
  <2>2. request'[q].pc = "done" => ToSet(request'[q].held) = {}
    BY <1>4 DEF ToSet
  <2>3. Remembered(q)' \subseteq Remembered(q)
    BY <1>4, <2>2 DEF Remembered
  <2>4. SoundRequest(q)'
    BY <1>p, <1>1, <1>2, <1>3, <1>4 DEF SoundRequest, AtWork
  <2>5. request'[q].pc = "done" => SoundFiles(q)'
    BY <1>4, <2>1, <2>2 DEF SoundFiles, Remembered
  <2>6. request'[q].pc = "undo" => SoundFiles(q)'
    BY <1>p, <1>1, <1>2, <1>3, <1>4, <2>1, <2>3 DEF SoundFiles
  <2>7. Outlived(q)'
    BY <1>4 DEF Outlived, AtWork
  <2>8. QED
    BY <1>4, <2>4, <2>5, <2>6, <2>7
<1>7. ASSUME NEW o \in Asking \ {q}
      PROVE  (SoundRequest(o) /\ SoundFiles(o) /\ Outlived(o))'
  <2>1. /\ SoundRequest(o) /\ SoundFiles(o) /\ Outlived(o) /\ Kept(o)
        /\ request'[o] = request[o] /\ request[o].pc \in At
    BY <1>5, Tale DEF SInv, TInv, Requested
  <2>2. CASE PatchOf(o) # p
    <3>1. status'[PatchOf(o)] = status[PatchOf(o)] /\ faults \subseteq faults'
      BY <1>3, <2>2, CommitFacts
    <3>2. (SoundRequest(o) /\ SoundFiles(o))'
      BY <1>3, <2>1, <3>1, KeptIsSound
    <3>3. Outlived(o)'
      BY <1>1, <2>1, <3>1, KeptViews DEF Outlived
    <3>4. QED
      BY <3>2, <3>3
  <2>3. CASE PatchOf(o) = p
    <3>1. /\ ~request[o].row
          /\ FilesOf(p) \cap request[o].checked \subseteq request[o].overtaken["request"]
      BY <1>p, <1>2, <2>3 DEF SInv, Turns
    <3>2. AtWork(o) => request[o].pc = "undo" /\ (~Accepts(o) => ~Accepts(q))
      BY <1>2, <2>1, <2>3, <3>1 DEF SoundRequest, AtWork, At
    <3>3. SoundRequest(o)'
      BY <1>1, <1>2, <1>3, <2>1, <2>3, <3>1, <3>2, KeptViews DEF SoundRequest, AtWork
    <3>4. SoundFiles(o)'
      BY <1>1, <1>3, <2>1, KeptViews DEF SoundFiles
    <3>5. Remembered(o) \subseteq request[o].overtaken["request"]
      BY <2>1, <2>3, <3>1 DEF SoundFiles
    <3>6. Outlived(o)'
      BY <2>1, <3>2, <3>5, KeptViews DEF Outlived
    <3>7. QED
      BY <3>3, <3>4, <3>6
  <2>4. QED
    BY <2>2, <2>3
<1>8. Turns'
  <2> SUFFICES ASSUME NEW a \in Asking, NEW b \in Asking, a # b, PatchOf(a) = PatchOf(b)
               PROVE  /\ ~(request'[a].row /\ request'[b].row)
                      /\ request'[a].row =>
                           Written(a)' \cap request'[b].checked
                               \subseteq request'[b].overtaken["request"]
    BY <1>1 DEF Turns
  <2>1. CASE a = q \/ PatchOf(a) = p
    <3>1. ~request'[a].row
      BY <1>p, <1>2, <1>4, <1>5, <2>1 DEF SInv, Turns
    <3>2. QED
      BY <3>1
  <2>2. CASE a # q /\ PatchOf(a) # p
    <3>1. request'[a] = request[a] /\ Kept(a) /\ b # q /\ request'[b] = request[b]
      BY <1>p, <1>5, <2>2
    <3>2. Written(a)' = Written(a)
      BY <3>1, KeptViews
    <3>3. QED
      BY <3>1, <3>2 DEF SInv, Turns
  <2>3. QED
    BY <2>1, <2>2
<1>9. SnapshotsAreExact'
  <2> SUFFICES ASSUME NEW x \in tale.patches, status'[x] \in {"accepted", "rolled_back"},
                      NEW f \in FilesOf(x)
               PROVE  snapshot'[x].files[f] = preimage'[x][f]
    BY <1>1 DEF SnapshotsAreExact
  <2>1. CASE x = p
    BY <1>3, <2>1
  <2>2. CASE x # p
    <3>1. x \in Patches
      BY Tale DEF SInv
    <3>2. QED
      BY <1>3, <2>2, <3>1 DEF SInv, SnapshotsAreExact
  <2>3. QED
    BY <2>1, <2>2
<1>10. QED
  BY <1>1, <1>6, <1>7, <1>8, <1>9, CommitFacts DEF SInv

-----------------------------------------------------------------------------
(* The steps of nobody's request.                                            *)
LEMMA KeptShape ==
    ASSUME SInv, TInv', UNCHANGED tale, faults \subseteq faults',
           \A o \in Asking : Kept(o),
           \A o \in Asking : (SoundRequest(o) /\ SoundFiles(o) /\ Outlived(o))',
           SnapshotsAreExact'
    PROVE  SInv'
<1>1. /\ Asking' = Asking /\ \A o : PatchOf(o)' = PatchOf(o)
  BY DEF Asking, PatchOf
<1>2. \A o \in Asking : Written(o)' = Written(o)
  BY KeptViews
<1>3. Turns'
  BY <1>1, <1>2 DEF SInv, Turns, Kept, Others
<1>4. QED
  BY <1>1, <1>3 DEF SInv

LEMMA SameRequests ==
    ASSUME TInv, UNCHANGED request
    PROVE  \A o \in Asking : Kept(o)
BY DEF Kept

LEMMA RowStatusShape ==
    ASSUME SInv, UNCHANGED <<tale, disk, request, edited, faults, raced, snapshot>>,
           NEW p \in tale.patches, ProposePatch(p) \/ RejectPatch(p)
    PROVE  /\ SInv' /\ \A x \in Patches \ {p} : status'[x] = status[x] /\ preimage'[x] = preimage[x]
           /\ \/ status[p] = "none" /\ status'[p] = "pending" /\ preimage'[p] = disk
              \/ status[p] = "pending" /\ status'[p] = "rejected" /\ preimage'[p] = preimage[p]
<1>1. TInv /\ p \in Patches
  BY Tale DEF SInv
<1>2. /\ \A x \in Patches \ {p} : status'[x] = status[x] /\ preimage'[x] = preimage[x]
      /\ \/ status[p] = "none" /\ status'[p] = "pending" /\ preimage'[p] = disk
         \/ status[p] = "pending" /\ status'[p] = "rejected" /\ preimage' = preimage /\ ~Row(p)
      /\ status' \in [Patches -> Statuses]
      /\ preimage' \in [Patches -> [Paths -> Made]]
  <2>1. CASE ProposePatch(p)
    BY <1>1, <2>1 DEF ProposePatch, TInv, Statuses
  <2>2. CASE RejectPatch(p)
    BY <1>1, <2>2 DEF RejectPatch, TInv, Statuses
  <2>3. QED
    BY <2>1, <2>2
<1>3. TInv'
  <2>1. Made' = Made /\ Paths' = Paths
    BY DEF Made, Paths, SnapshotGoes
  <2>2. Requested' = Requested
    BY <2>1 DEF Requested
  <2>3. QED
    BY <1>1, <1>2, <2>1, <2>2 DEF TInv
<1>4. \A o \in Asking : Kept(o)
  BY <1>1, SameRequests
<1>5. /\ Asking' = Asking /\ \A x : FilesOf(x)' = FilesOf(x) /\ tale'.patches = tale.patches
  BY DEF Asking, FilesOf
<1>6. ASSUME NEW o \in Asking
      PROVE  (SoundRequest(o) /\ SoundFiles(o) /\ Outlived(o))'
  <2>1. SoundRequest(o) /\ SoundFiles(o) /\ Outlived(o) /\ Kept(o) /\ PatchOf(o) \in Patches
    BY <1>1, <1>4, Tale DEF SInv
  <2>2. AtWork(o) => preimage'[PatchOf(o)] = preimage[PatchOf(o)]
    BY <1>2, <2>1 DEF SoundRequest
  <2>3. \/ status'[PatchOf(o)] = status[PatchOf(o)]
        \/ PatchOf(o) = p /\ status[p] = "none" /\ status'[p] = "pending"
        \/ PatchOf(o) = p /\ status[p] = "pending" /\ status'[p] = "rejected" /\ ~Row(p)
    BY <1>2, <2>1
  <2>4. request[o].row => Row(PatchOf(o))
    BY DEF Row, Asking
  <2>5. SoundRequest(o)'
    BY <2>1, <2>3, <2>4, KeptViews DEF SoundRequest, Kept
  <2>6. SoundFiles(o)'
    <3>1. ~AtWork(o) => ToSet(request[o].held) = {}
      BY <2>1 DEF SoundRequest, ToSet
    <3>2. QED
      BY <2>1, <2>2, <3>1, KeptViews DEF SoundFiles, Kept
  <2>7. Outlived(o)'
    BY <2>1, <2>3, KeptViews DEF Outlived, SoundRequest
  <2>8. QED
    BY <2>5, <2>6, <2>7
<1>7. SnapshotsAreExact'
  <2>1. \A x \in tale.patches : x \in Patches
    BY <1>1, Tale
  <2>2. QED
    BY <1>2, <1>5, <2>1 DEF SInv, SnapshotsAreExact
<1>8. QED
  BY <1>2, <1>3, <1>4, <1>6, <1>7, KeptShape

LEMMA SnapshotGoesShape ==
    ASSUME SInv, UNCHANGED tale, NEW p \in tale.patches, SnapshotGoes(p)
    PROVE  SInv'
<1>1. TInv /\ p \in Patches /\ UNCHANGED <<disk, status, preimage, request, edited, faults, raced>>
  BY Tale DEF SInv, SnapshotGoes
<1>2. /\ snapshot' \in [Patches -> [there : BOOLEAN, files : [Paths -> Contents]]]
      /\ \A x \in Patches : snapshot'[x].files = snapshot[x].files
  BY <1>1 DEF SnapshotGoes, TInv
<1>3. TInv'
  <2>1. Made' = Made /\ Paths' = Paths
    BY DEF Made, Paths, SnapshotGoes
  <2>2. Requested' = Requested
    BY <2>1 DEF Requested
  <2>3. QED
    BY <1>1, <1>2, <2>1, <2>2 DEF TInv
<1>4. \A o \in Asking : Kept(o)
  BY <1>1, SameRequests
<1>5. \A o \in Asking : (SoundRequest(o) /\ SoundFiles(o))'
  BY <1>1, <1>4, KeptIsSound DEF SInv
<1>6. \A o \in Asking : Outlived(o)'
  BY <1>1 DEF SInv, Outlived, Accepts, PatchOf, AtWork, Remembered
<1>7. SnapshotsAreExact'
  <2>1. \A x \in tale.patches : x \in Patches
    BY <1>1, Tale
  <2>2. QED
    BY <1>1, <1>2, <2>1 DEF SInv, SnapshotsAreExact, FilesOf
<1>8. QED
  BY <1>1, <1>3, <1>4, <1>5, <1>6, <1>7, KeptShape

LEMMA EditFacts ==
    ASSUME SInv, UNCHANGED tale, NEW f \in Paths, NEW e \in tale.edits, EditFile(f, e)
    PROVE  /\ TInv' /\ e \in Edits /\ e \notin edited /\ edited' = edited \cup {e}
           /\ UNCHANGED <<status, preimage, snapshot, faults, raced>>
           /\ disk'[f] = e /\ \A g \in Paths \ {f} : disk'[g] = disk[g]
           /\ \A o \in Asking :
                /\ Kept(o) /\ request'[o].overtaken["request"] = request[o].overtaken["request"]
                /\ f \in request[o].checked => f \in request'[o].overtaken["person"]
                /\ \A b \in Others : \A g \in Paths \ {f} :
                     g \in request'[o].overtaken[b] => g \in request[o].overtaken[b]
<1>1. TInv /\ e \in Edits /\ "person" \in Others /\ "request" \in Others
  BY Tale DEF SInv, Others
<1>2. /\ e \notin edited /\ edited' = edited \cup {e}
      /\ UNCHANGED <<status, preimage, snapshot, faults, raced>>
      /\ disk' = [disk EXCEPT ![f] = e]
  BY DEF EditFile
<1>3. request' = [o \in Requests |-> OvertakenBy(request[o], f, "person")]
  BY DEF EditFile, Overtake, OvertakenBy
<1>4. Made' = Made \cup {e} /\ Paths' = Paths /\ Requested' = Requested
  BY <1>2 DEF Made, Paths, Requested
<1>5. disk' \in [Paths -> Made'] /\ disk'[f] = e /\ \A g \in Paths \ {f} : disk'[g] = disk[g]
  BY <1>1, <1>2, <1>4 DEF TInv
<1>6. ASSUME NEW o \in Requests
      PROVE  /\ Kept(o) /\ SoundRecord(request'[o])
             /\ request'[o].overtaken["request"] = request[o].overtaken["request"]
             /\ f \in request[o].checked => f \in request'[o].overtaken["person"]
             /\ \A b \in Others : \A g \in Paths \ {f} :
                  g \in request'[o].overtaken[b] => g \in request[o].overtaken[b]
  <2>1. PICK r : r = request[o]
    OBVIOUS
  <2>0. PICK by \in Others : by = "person"
    BY <1>1
  <2>2. PICK n : n = OvertakenBy(r, f, by)
    OBVIOUS
  <2>3. r \in Requested /\ SoundRecord(r)
    BY <1>1, <2>1 DEF TInv, SoundRecord
  <2>4. /\ n \in Requested
        /\ n.pc = r.pc /\ n.i = r.i /\ n.held = r.held /\ n.row = r.row
        /\ n.checked = r.checked
        /\ \A b \in Others : n.overtaken[b] =
             IF b = by /\ f \in r.checked THEN r.overtaken[b] \cup {f} ELSE r.overtaken[b]
    BY <1>1, <2>2, <2>3 DEF OvertakenBy, Requested
  <2>5. request'[o] = n
    BY <1>3, <2>0, <2>1, <2>2
  <2>6. SoundRecord(n)
    BY <2>3, <2>4 DEF SoundRecord
  <2>7. QED
    BY <1>1, <2>0, <2>1, <2>4, <2>5, <2>6 DEF Kept
<1>7. request' \in [Requests -> Requested]
  <2>1. \A o \in Requests : request'[o] \in Requested
    BY <1>6 DEF SoundRecord
  <2>2. QED
    BY <1>3, <2>1
<1>8. TInv'
  <2>1. preimage' \in [Patches -> [Paths -> Made']]
    BY <1>1, <1>2, <1>4 DEF TInv
  <2>2. \A o \in Requests : \A h \in ToSet(request'[o].held) : h[2] \in Made'
    BY <1>4, <1>6 DEF SoundRecord
  <2>3. \A o \in Requests : \A b \in Others : request'[o].overtaken[b] \subseteq request'[o].checked
    BY <1>6 DEF SoundRecord
  <2>4. QED
    BY <1>1, <1>2, <1>4, <1>5, <1>7, <2>1, <2>2, <2>3 DEF TInv
<1>9. \A o \in Asking : o \in Requests
  BY <1>1, Tale
<1>10. QED
  BY <1>1, <1>2, <1>5, <1>6, <1>8, <1>9

LEMMA EditShape ==
    ASSUME SInv, UNCHANGED tale, NEW f \in Paths, NEW e \in tale.edits, EditFile(f, e)
    PROVE  SInv'
<1>1. UNCHANGED <<status, preimage, snapshot, faults, raced>> /\ \A o \in Asking : Kept(o)
  BY EditFacts
<1>2. \A o \in Asking : (SoundRequest(o) /\ SoundFiles(o))'
  BY <1>1, KeptIsSound DEF SInv
<1>3. \A o \in Asking : Outlived(o)'
  <2> TAKE o \in Asking
  <2>1. Kept(o) /\ Outlived(o) /\ "request" \in Others
    BY <1>1 DEF SInv, Others
  <2>2. QED
    BY <1>1, <2>1, KeptViews DEF Outlived, Kept
<1>4. SnapshotsAreExact'
  BY <1>1 DEF SInv, SnapshotsAreExact, FilesOf
<1>5. QED
  BY <1>1, <1>2, <1>3, <1>4, EditFacts, KeptShape

LEMMA DeathFacts ==
    ASSUME SInv, UNCHANGED tale, ServerDies
    PROVE  /\ TInv' /\ UNCHANGED <<disk, status, preimage, snapshot, edited, raced>>
           /\ faults \subseteq faults' /\ faults' # {}
           /\ \A o \in Asking : request'[o] = (IF AtWork(o) THEN Over ELSE request[o])
<1>1. TInv /\ UNCHANGED <<disk, status, preimage, snapshot, edited, raced>>
  BY DEF SInv, ServerDies
<1>2. faults \subseteq faults' /\ faults' # {} /\ faults' \subseteq {"crash", "lost", "undo"}
  BY <1>1 DEF ServerDies, Fault, TInv
<1>3. request' = [o \in Requests |-> IF AtWork(o) THEN Over ELSE request[o]]
  BY DEF ServerDies
<1>4. request' \in [Requests -> Requested]
  BY <1>1, <1>3, OverFields DEF TInv
<1>5. \A o \in Requests : SoundRecord(request'[o])
  BY <1>1, <1>3, OverIsSound DEF TInv, SoundRecord
<1>6. TInv'
  <2>1. Made' = Made /\ Paths' = Paths
    BY <1>1 DEF Made, Paths
  <2>2. Requested' = Requested
    BY <2>1 DEF Requested
  <2>3. QED
    BY <1>1, <1>2, <1>4, <1>5, <2>1, <2>2 DEF TInv, SoundRecord
<1>7. QED
  BY <1>1, <1>2, <1>3, <1>6, Tale

LEMMA DeathShape ==
    ASSUME SInv, UNCHANGED tale, ServerDies
    PROVE  SInv'
<1>1. /\ Asking' = Asking /\ \A x : FilesOf(x)' = FilesOf(x) /\ tale'.patches = tale.patches
      /\ \A o : PatchOf(o)' = PatchOf(o) /\ Accepts(o)' = Accepts(o)
  BY DEF Asking, FilesOf, PatchOf, Accepts
<1>2. ASSUME NEW o \in Asking
      PROVE  /\ ~request'[o].row /\ request'[o].pc \notin {"check", "read", "write", "save"}
             /\ ~AtWork(o)' /\ request'[o].held = <<>> /\ request'[o].checked = {}
  <2>1. CASE AtWork(o)
    BY <2>1, DeathFacts, OverFields DEF AtWork
  <2>2. CASE ~AtWork(o)
    <3>1. request'[o] = request[o] /\ SoundRequest(o)
      BY <2>2, DeathFacts DEF SInv
    <3>2. QED
      BY <2>2, <3>1 DEF SoundRequest, AtWork
  <2>3. QED
    BY <2>1, <2>2
<1>3. ASSUME NEW o \in Asking
      PROVE  (SoundRequest(o) /\ SoundFiles(o) /\ Outlived(o))'
  <2>1. Written(o)' = {} /\ ToSet(request'[o].held) = {}
    BY <1>2 DEF Written, ToSet
  <2>2. Remembered(o)' = {}
    BY <2>1 DEF Remembered
  <2>3. SoundRequest(o)'
    BY <1>2 DEF SoundRequest
  <2>4. SoundFiles(o)'
    BY <1>2, <2>1, <2>2 DEF SoundFiles
  <2>5. Outlived(o)'
    BY <1>2 DEF Outlived
  <2>6. QED
    BY <2>3, <2>4, <2>5
<1>4. Turns'
  BY <1>1, <1>2 DEF Turns
<1>5. SnapshotsAreExact'
  BY <1>1, DeathFacts DEF SInv, SnapshotsAreExact
<1>6. QED
  BY <1>1, <1>3, <1>4, <1>5, DeathFacts DEF SInv

LEMMA InitShape == PatchInit => SInv
<1> SUFFICES ASSUME PatchInit PROVE SInv
  OBVIOUS
<1>1. TInv
  BY InitTyped
<1>2. \A q \in Asking : q \in Requests /\ PatchOf(q) \in Patches
  BY <1>1, Tale
<1>3. \A q \in Asking : request[q] = Waiting
  BY <1>2 DEF PatchInit
<1>4. Waiting.pc = "new" /\ Waiting.row = FALSE /\ Waiting.held = <<>> /\ Waiting.checked = {}
  BY DEF Waiting
<1>5. ToSet(Waiting.held) = {}
  BY <1>4 DEF ToSet
<1>6. \A q \in Asking : Remembered(q) = {} /\ Written(q) = {} /\ ~AtWork(q)
  BY <1>3, <1>4, <1>5 DEF Remembered, Written, AtWork
<1>7. \A q \in Asking : SoundRequest(q) /\ SoundFiles(q) /\ Outlived(q)
  BY <1>3, <1>4, <1>5, <1>6 DEF SoundRequest, SoundFiles, Outlived
<1>8. Turns
  BY <1>3, <1>4 DEF Turns
<1>9. SnapshotsAreExact
  <2>1. \A p \in tale.patches : status[p] = "none"
    BY <1>1, Tale DEF PatchInit
  <2>2. QED
    BY <2>1 DEF SnapshotsAreExact
<1>10. QED
  BY <1>1, <1>7, <1>8, <1>9 DEF SInv

LEMMA StutterShape == SInv /\ UNCHANGED patchVars => SInv'
<1> SUFFICES ASSUME SInv, UNCHANGED patchVars PROVE SInv'
  OBVIOUS
<1>1. UNCHANGED <<tale, disk, status, preimage, snapshot, request, edited, faults, raced>>
  BY DEF patchVars, work
<1>2. TInv'
  <2>1. Made' = Made /\ Paths' = Paths
    BY <1>1 DEF Made, Paths
  <2>2. Requested' = Requested
    BY <2>1 DEF Requested
  <2>3. QED
    BY <1>1, <2>1, <2>2 DEF SInv, TInv
<1>3. \A o \in Asking : Kept(o)
  BY <1>1 DEF Kept
<1>4. \A o \in Asking : (SoundRequest(o) /\ SoundFiles(o))'
  BY <1>1, <1>3, KeptIsSound DEF SInv
<1>5. \A o \in Asking : Outlived(o)'
  BY <1>1 DEF SInv, Outlived, Accepts, PatchOf, AtWork, Remembered
<1>6. SnapshotsAreExact'
  BY <1>1 DEF SInv, SnapshotsAreExact, FilesOf
<1>7. QED
  BY <1>1, <1>2, <1>3, <1>4, <1>5, <1>6, KeptShape

LEMMA StepShape == SInv /\ [PatchNext]_patchVars => SInv'
<1> SUFFICES ASSUME SInv, PatchNext PROVE SInv'
  BY StutterShape
<1>1. UNCHANGED tale
  BY DEF PatchNext
<1>2. ASSUME NEW q \in Asking, Serve(q)
      PROVE  SInv'
  <2>1. CASE Begin(q)
    BY <1>1, <2>1, BeginShape
  <2>2. CASE CheckApplied(q)
    BY <1>1, <2>2, CheckShape
  <2>3. CASE ReadFile(q)
    BY <1>1, <2>3, ReadShape
  <2>4. CASE WriteFile(q)
    BY <1>1, <2>4, WriteShape
  <2>5. CASE TurnsBack(q)
    BY <1>1, <2>5, TurnShape
  <2>6. CASE Commits(q)
    BY <1>1, <2>6, CommitShape
  <2>7. CASE UndoFile(q)
    BY <1>1, <2>7, UndoShape
  <2>8. CASE UndoFails(q)
    BY <1>1, <2>8, UndoFailsShape
  <2>9. QED
    BY <1>2, <2>1, <2>2, <2>3, <2>4, <2>5, <2>6, <2>7, <2>8 DEF Serve, TurnsBack, Commits
<1>3. ASSUME NEW p \in tale.patches, ProposePatch(p) \/ RejectPatch(p) \/ SnapshotGoes(p)
      PROVE  SInv'
  <2>1. CASE ProposePatch(p)
    BY <1>1, <2>1, RowStatusShape DEF ProposePatch
  <2>2. CASE RejectPatch(p)
    BY <1>1, <2>2, RowStatusShape DEF RejectPatch
  <2>3. CASE SnapshotGoes(p)
    BY <1>1, <2>3, SnapshotGoesShape
  <2>4. QED
    BY <1>3, <2>1, <2>2, <2>3
<1>4. ASSUME NEW f \in Paths, NEW e \in tale.edits, EditFile(f, e)
      PROVE  SInv'
  BY <1>1, <1>4, EditShape
<1>5. CASE ServerDies
  BY <1>1, <1>5, DeathShape
<1>6. QED
  BY <1>2, <1>3, <1>4, <1>5 DEF PatchNext, PatchStep, Asking

-----------------------------------------------------------------------------
(* A checked file that nobody else changed is as it was, or as written.      *)
LEMMA KeptIsChecked ==
    ASSUME NEW o, Kept(o), Checked(o), UNCHANGED tale,
           AtWork(o) => preimage'[PatchOf(o)] = preimage[PatchOf(o)],
           \A f \in request[o].checked :
               disk'[f] = disk[f] \/ \E b \in Others : f \in request'[o].overtaken[b]
    PROVE  Checked(o)'
<1>1. AtWork(o)' = AtWork(o) /\ PatchOf(o)' = PatchOf(o)
  BY KeptViews
<1>2. QED
  BY <1>1 DEF Checked, Kept

(* The step of a request that reads, writes or ends.                         *)
LEMMA OwnChecked ==
    ASSUME SInv, NEW q \in Asking, Checked(q), UNCHANGED <<tale, preimage>>,
           Begin(q) \/ CheckApplied(q) \/ ReadFile(q) \/ WriteFile(q)
    PROVE  Checked(q)'
<1> DEFINE p == PatchOf(q)
           f == File(q)
<1>1. PatchOf(q)' = p /\ SoundRequest(q) /\ SoundFiles(q)
  BY DEF PatchOf, SInv
<1>2. CASE Begin(q)
  BY <1>2, BeginFacts DEF Checked
<1>3. CASE CheckApplied(q)
  <2>1. CASE request'[q] = Over
    BY <2>1, OverFields DEF Checked, AtWork
  <2>2. CASE request'[q] # Over
    <3>1. /\ disk[f] = p /\ request[q].pc = "check"
          /\ request'[q].held = request[q].held
          /\ request'[q].overtaken = request[q].overtaken
          /\ request'[q].checked = request[q].checked \cup {f}
      BY <1>3, <2>2, CheckFacts
    <3>2. AtWork(q) /\ disk' = disk
      BY <1>3, <3>1 DEF AtWork, CheckApplied
    <3>3. \A h \in ToSet(request[q].held) : h[1] \in request[q].checked
      BY <1>1 DEF SoundFiles, Remembered
    <3>4. QED
      BY <1>1, <3>1, <3>2, <3>3 DEF Checked
  <2>3. QED
    BY <2>1, <2>2
<1>4. CASE ReadFile(q)
  <2>1. /\ AtWork(q) /\ disk' = disk /\ request[q].pc = "read"
        /\ request'[q].overtaken = request[q].overtaken
    BY <1>4, ReadFacts DEF AtWork, ReadFile
  <2>2. CASE request'[q].held = request[q].held /\ request'[q].checked = request[q].checked
    BY <1>1, <2>1, <2>2 DEF Checked
  <2>3. CASE /\ ToSet(request'[q].held) = ToSet(request[q].held) \cup {<<f, disk[f]>>}
             /\ request'[q].checked =
                  (IF Accepts(q) THEN request[q].checked \cup {f} ELSE request[q].checked)
             /\ Accepts(q) => disk[f] = preimage[p][f]
    <3>1. <<f, disk[f]>>[1] = f /\ <<f, disk[f]>>[2] = disk[f]
      OBVIOUS
    <3>2. \A h \in ToSet(request[q].held) : h[1] \in request[q].checked
      BY <1>1 DEF SoundFiles, Remembered
    <3>3. f \in FilesOf(p)
      BY <2>1, FileFacts
    <3>4. f \in request'[q].checked /\ request'[q].checked \subseteq request[q].checked \cup {f}
      BY <1>1, <2>1, <2>3, <3>3 DEF SoundFiles
    <3>5. \/ \E b \in Others : f \in request[q].overtaken[b]
          \/ disk[f] \in {p, preimage[p][f]}
      BY <1>1, <2>1, <2>3, <3>4 DEF Checked
    <3>6. QED
      BY <1>1, <2>1, <2>3, <3>1, <3>2, <3>4, <3>5 DEF Checked
  <2>4. QED
    BY <1>4, <2>2, <2>3, ReadFacts
<1>5. CASE WriteFile(q)
  <2>1. /\ AtWork(q) /\ request'[q].overtaken = request[q].overtaken
        /\ request'[q].held = request[q].held /\ request'[q].checked = request[q].checked
        /\ disk'[f] \in {p, preimage[p][f]} /\ \A g \in Paths \ {f} : disk'[g] = disk[g]
    BY <1>5, WriteFacts DEF AtWork
  <2>2. request[q].checked \subseteq Paths
    BY Tale DEF SInv, TInv, Requested
  <2>3. QED
    BY <1>1, <2>1, <2>2 DEF Checked
<1>6. QED
  BY <1>2, <1>3, <1>4, <1>5

(* The step of a request that turns back, commits or restores.               *)
LEMMA BackChecked ==
    ASSUME SInv, NEW q \in Asking, Checked(q), UNCHANGED tale,
           TurnsBack(q) \/ Commits(q) \/ UndoFile(q) \/ UndoFails(q)
    PROVE  Checked(q)' /\ preimage' = preimage
<1> DEFINE p == PatchOf(q)
<1>1. PatchOf(q)' = p /\ TInv
  BY DEF PatchOf, SInv
<1>2. CASE TurnsBack(q)
  BY <1>1, <1>2, TurnFacts DEF Checked, AtWork
<1>3. CASE Commits(q)
  <2>1. CASE request'[q] = Over
    BY <1>3, <2>1, OverFields, CommitFacts DEF Checked, AtWork
  <2>2. CASE request'[q] # Over
    BY <1>1, <1>3, <2>2, CommitFacts DEF Checked, AtWork
  <2>3. QED
    BY <2>1, <2>2
<1>4. CASE UndoFile(q)
  <2>1. preimage' = preimage /\ request[q].pc = "undo"
    BY <1>4 DEF UndoFile
  <2>2. CASE request'[q] = Over
    BY <2>1, <2>2, OverFields DEF Checked, AtWork
  <2>3. CASE request'[q] # Over
    <3>1. PICK h : PutsBack(q, h)
      BY <1>4, <2>3, UndoFacts
    <3>2. request[q].checked \subseteq Paths
      BY Tale DEF SInv, TInv, Requested
    <3>3. ASSUME NEW f \in request[q].checked,
                 ~\E o \in Others : f \in request[q].overtaken[o]
          PROVE  /\ disk[f] \in {p, preimage[p][f]}
                 /\ \A e \in ToSet(request[q].held) :
                      e[1] = f => e[2] \in {p, preimage[p][f]}
      BY <2>1, <3>3 DEF Checked, AtWork
    <3>4. ASSUME NEW f \in request[q].checked,
                 ~\E o \in Others : f \in request[q].overtaken[o]
          PROVE  disk'[f] \in {p, preimage[p][f]}
      <4>1. CASE f = h[1]
        BY <3>1, <3>3, <3>4, <4>1 DEF PutsBack
      <4>2. CASE f # h[1]
        BY <3>1, <3>2, <3>3, <3>4, <4>2 DEF PutsBack
      <4>3. QED
        BY <4>1, <4>2
    <3>5. QED
      BY <1>1, <2>1, <3>1, <3>3, <3>4 DEF Checked, PutsBack
  <2>4. QED
    BY <2>2, <2>3
<1>5. CASE UndoFails(q)
  <2>1. request'[q] = Over
    BY <1>1, <1>5, BecomesFields DEF UndoFails
  <2>2. QED
    BY <1>5, <2>1, OverFields DEF Checked, AtWork, UndoFails
<1>6. QED
  BY <1>2, <1>3, <1>4, <1>5

(* Whoever serves a request, the others are only overtaken by it.            *)
LEMMA ServeOthers ==
    ASSUME SInv, NEW q \in Asking, Serve(q), UNCHANGED tale
    PROVE  \A o \in Asking \ {q} :
             /\ Kept(o)
             /\ \A f \in request[o].checked :
                  disk'[f] = disk[f] \/ f \in request'[o].overtaken["request"]
<1>1. TInv /\ \A o \in Asking : request[o].checked \subseteq Paths
  BY Tale DEF SInv, TInv, Requested
<1>2. CASE Begin(q)
  BY <1>2, BeginFacts DEF Begin
<1>3. CASE CheckApplied(q)
  BY <1>3, CheckFacts DEF CheckApplied
<1>4. CASE ReadFile(q)
  BY <1>4, ReadFacts DEF ReadFile
<1>5. CASE WriteFile(q)
  BY <1>1, <1>5, WriteFacts
<1>6. CASE TurnsBack(q)
  BY <1>6, TurnFacts
<1>7. CASE Commits(q)
  BY <1>7, CommitFacts
<1>8. CASE UndoFile(q)
  BY <1>1, <1>8, UndoFacts DEF PutsBack
<1>9. CASE UndoFails(q)
  BY <1>1, <1>9, Left DEF UndoFails
<1>10. QED
  BY <1>2, <1>3, <1>4, <1>5, <1>6, <1>7, <1>8, <1>9 DEF Serve, TurnsBack, Commits

LEMMA StepChecked == SInv /\ EInv /\ [PatchNext]_patchVars => EInv'
<1> SUFFICES ASSUME SInv, EInv, [PatchNext]_patchVars, NEW q \in Asking' PROVE Checked(q)'
  BY DEF EInv
<1>1. UNCHANGED tale /\ Asking' = Asking
  BY DEF PatchNext, patchVars, Asking
<1>2. q \in Asking /\ Checked(q) /\ SoundRequest(q) /\ TInv /\ request[q].checked \subseteq Paths
  BY <1>1, Tale DEF EInv, SInv, TInv, Requested
<1>3. ASSUME NEW r \in Asking, Serve(r)
      PROVE  Checked(q)'
  <2>1. preimage' = preimage
    BY <1>3 DEF Serve, Begin, CheckApplied, ReadFile, WriteFile, Fails, Commit, CommitRefused,
                CommitUnheard, UndoFile, UndoFails
  <2>2. CASE r = q
    BY <1>1, <1>2, <1>3, <2>1, <2>2, OwnChecked, BackChecked DEF Serve, TurnsBack, Commits
  <2>3. CASE r # q
    <3>1. /\ Kept(q)
          /\ \A f \in request[q].checked :
               disk'[f] = disk[f] \/ f \in request'[q].overtaken["request"]
      BY <1>1, <1>2, <1>3, <2>3, ServeOthers
    <3>2. QED
      BY <1>1, <1>2, <2>1, <3>1, KeptIsChecked DEF Others
  <2>4. QED
    BY <2>2, <2>3
<1>4. ASSUME NEW p \in tale.patches, ProposePatch(p) \/ RejectPatch(p) \/ SnapshotGoes(p)
      PROVE  Checked(q)'
  <2>1. disk' = disk /\ request' = request
    BY <1>4 DEF ProposePatch, RejectPatch, SnapshotGoes
  <2>2. Kept(q)
    BY <2>1 DEF Kept
  <2>3. AtWork(q) => preimage'[PatchOf(q)] = preimage[PatchOf(q)]
    <3>1. PatchOf(q) \in Patches /\ p \in Patches /\ preimage \in [Patches -> [Paths -> Made]]
      BY <1>2, Tale DEF TInv
    <3>2. QED
      BY <1>2, <1>4, <3>1 DEF ProposePatch, RejectPatch, SnapshotGoes, SoundRequest
  <2>4. QED
    BY <1>1, <1>2, <2>1, <2>2, <2>3, KeptIsChecked
<1>5. ASSUME NEW f \in Paths, NEW e \in tale.edits, EditFile(f, e)
      PROVE  Checked(q)'
  <2>1. /\ Kept(q) /\ preimage' = preimage
        /\ \A g \in request[q].checked :
             disk'[g] = disk[g] \/ g \in request'[q].overtaken["person"]
    BY <1>1, <1>2, <1>5, EditFacts
  <2>2. QED
    BY <1>1, <1>2, <2>1, KeptIsChecked DEF Others
<1>6. CASE ServerDies
  <2>1. CASE AtWork(q)
    BY <1>1, <1>2, <1>6, <2>1, DeathFacts, OverFields DEF Checked, AtWork
  <2>2. CASE ~AtWork(q)
    BY <1>1, <1>2, <1>6, <2>2, DeathFacts DEF Checked, AtWork
  <2>3. QED
    BY <2>1, <2>2
<1>7. CASE UNCHANGED patchVars
  <2>1. disk' = disk /\ request' = request /\ preimage' = preimage
    BY <1>7 DEF patchVars, work
  <2>2. Kept(q)
    BY <2>1 DEF Kept
  <2>3. QED
    BY <1>1, <1>2, <2>1, <2>2, KeptIsChecked
<1>8. QED
  BY <1>3, <1>4, <1>5, <1>6, <1>7 DEF PatchNext, PatchStep, Asking

LEMMA StepKeepsEdits == SInv /\ EInv /\ [PatchNext]_patchVars => [NoEditIsLost]_patchVars
<1> SUFFICES ASSUME SInv, EInv, PatchNext PROVE NoEditIsLost
  OBVIOUS
<1> SUFFICES ASSUME NEW f \in Paths, disk[f] \in Edits, disk'[f] \notin Edits
             PROVE  \E q \in Asking :
                      /\ request'[q] # request[q]
                      /\ \/ \E o \in Others : f \in request[q].overtaken[o]
                         \/ Accepts(q) /\ preimage[PatchOf(q)][f] = disk[f]
                         \/ /\ tale.asks[q].kind = "rollback"
                            /\ snapshot[PatchOf(q)].files[f] = disk[f]
  BY DEF NoEditIsLost, Asking, Accepts
<1>1. UNCHANGED tale /\ TInv /\ disk' # disk
  BY DEF PatchNext, SInv
<1>2. ASSUME NEW q \in Asking, AtWork(q), request'[q] # request[q],
             f \in request[q].checked, f \in FilesOf(PatchOf(q))
      PROVE  \/ \E o \in Others : f \in request[q].overtaken[o]
             \/ Accepts(q) /\ preimage[PatchOf(q)][f] = disk[f]
             \/ /\ tale.asks[q].kind = "rollback"
                /\ snapshot[PatchOf(q)].files[f] = disk[f]
  <2>1. \/ \E o \in Others : f \in request[q].overtaken[o]
        \/ disk[f] \in {PatchOf(q), preimage[PatchOf(q)][f]}
    BY <1>2 DEF EInv, Checked
  <2>2. PatchOf(q) \notin Edits /\ PatchOf(q) \in tale.patches
    BY <1>1, Tale, CodePatchAssumption
  <2>3. ~Accepts(q) => /\ tale.asks[q].kind = "rollback"
                       /\ snapshot[PatchOf(q)].files[f] = preimage[PatchOf(q)][f]
    <3>1. tale.asks[q].kind \in {"accept", "rollback"}
      BY <1>1, CodePatchAssumption DEF TInv, Asking
    <3>2. ~Accepts(q) => status[PatchOf(q)] \in {"accepted", "rolled_back"}
      BY <1>2 DEF SInv, SoundRequest
    <3>3. QED
      BY <1>2, <2>2, <3>1, <3>2 DEF SInv, SnapshotsAreExact, Accepts
  <2>4. QED
    BY <2>1, <2>2, <2>3
<1>3. ASSUME NEW q \in Asking, Serve(q)
      PROVE  /\ AtWork(q) /\ request'[q] # request[q]
             /\ f \in request[q].checked /\ f \in FilesOf(PatchOf(q))
  <2>1. Remembered(q) \subseteq request[q].checked \cap FilesOf(PatchOf(q))
        /\ (request[q].pc = "write" => File(q) \in Remembered(q))
    BY DEF SInv, SoundFiles
  <2>2. CASE WriteFile(q)
    <3>1. /\ request[q].pc = "write" /\ request'[q].pc # "write"
          /\ \A g \in Paths \ {File(q)} : disk'[g] = disk[g]
      BY <1>1, <2>2, WriteFacts
    <3>2. f = File(q)
      BY <3>1
    <3>3. QED
      BY <2>1, <3>1, <3>2 DEF AtWork
  <2>3. CASE UndoFile(q)
    <3>1. PICK h : PutsBack(q, h)
      BY <1>1, <2>3, UndoFacts DEF PutsBack
    <3>2. f = h[1] /\ f \in Remembered(q)
      BY <1>1, <3>1 DEF Remembered, PutsBack
    <3>3. request[q].pc = "undo"
      BY <2>3 DEF UndoFile
    <3>4. QED
      BY <2>1, <3>1, <3>2, <3>3 DEF AtWork, PutsBack
  <2>4. CASE ~WriteFile(q) /\ ~UndoFile(q)
    BY <1>1, <1>3, <2>4 DEF Serve, Begin, CheckApplied, ReadFile, Fails, Commit, CommitRefused,
                            CommitUnheard, UndoFails
  <2>5. QED
    BY <2>2, <2>3, <2>4
<1>4. \E q \in Asking : Serve(q)
  <2>1. ASSUME NEW p \in tale.patches, ProposePatch(p) \/ RejectPatch(p) \/ SnapshotGoes(p)
        PROVE  FALSE
    BY <1>1, <2>1 DEF ProposePatch, RejectPatch, SnapshotGoes
  <2>2. ASSUME NEW g \in Paths, NEW e \in tale.edits, EditFile(g, e)
        PROVE  FALSE
    BY <1>1, <2>2, EditFacts
  <2>3. ~ServerDies
    BY <1>1 DEF ServerDies
  <2>4. QED
    BY <2>1, <2>2, <2>3 DEF PatchNext, PatchStep, Asking
<1>5. QED
  BY <1>2, <1>3, <1>4

LEMMA InitChecked == PatchInit => EInv
<1> SUFFICES ASSUME PatchInit, NEW q \in Asking PROVE Checked(q)
  BY DEF EInv
<1>1. q \in Requests
  BY InitTyped, Tale
<1>2. request[q].pc = "new"
  BY <1>1 DEF PatchInit, Waiting
<1>3. QED
  BY <1>2 DEF Checked, AtWork

(* Every state a behaviour reaches has the types of PatchTypeOK, with the    *)
(* rows, snapshots and checked files as the invariants have them.            *)
THEOREM ShapeHolds == PatchSpec => [](SInv /\ EInv)
<1>1. PatchInit => SInv /\ EInv
  BY InitShape, InitChecked
<1>2. SInv /\ EInv /\ [PatchNext]_patchVars => (SInv /\ EInv)'
  BY StepShape, StepChecked
<1>3. QED
  BY <1>1, <1>2, PTL DEF PatchSpec

(* "Writing pre-apply content over a file someone has changed since would    *)
(* silently discard that work" (applyService.ts:581-583): whatever fails or  *)
(* is lost, what a person wrote is overwritten only by what was made over    *)
(* it, or by a request that had checked the file before.                     *)
THEOREM EditsAlwaysStand == PatchSpec => EditsStand
<1>1. SInv /\ EInv /\ [PatchNext]_patchVars => [NoEditIsLost]_patchVars
  BY StepKeepsEdits
<1>2. QED
  BY <1>1, ShapeHolds, PTL DEF PatchSpec, EditsStand

-----------------------------------------------------------------------------
(* What a written file traces back to.                                       *)
LEMMA TracedWith ==
    ASSUME UNCHANGED <<tale, status, preimage>>,
           NEW f \in Paths, NEW p \in tale.patches, NEW S \in SUBSET tale.patches,
           Traced(S, f), Alone(S, p, f), f \in FilesOf(p), status[p] # "none",
           disk'[f] # preimage[p][f], \A h \in S \ {p} : preimage[h][f] # disk'[f],
           disk'[f] \in Patches => disk'[f] = p
    PROVE  Traced(S \cup {p}, f)'
<1> DEFINE T == S \cup {p}
<1>1. \A h : FilesOf(h)' = FilesOf(h)
  BY DEF FilesOf
<1>2. ASSUME NEW h \in T
      PROVE  /\ f \in FilesOf(h) /\ status[h] # "none" /\ preimage[h][f] # disk'[f]
             /\ preimage[h][f] \in Patches => preimage[h][f] \in T
             /\ \A g \in T \ {h} : preimage[g][f] # preimage[h][f]
  <2>1. CASE h = p
    BY <2>1 DEF Alone
  <2>2. CASE h # p
    BY <1>2, <2>2 DEF Traced, Alone
  <2>3. QED
    BY <2>1, <2>2
<1>3. QED
  BY <1>1, <1>2 DEF Traced

LEMMA TracedWithout ==
    ASSUME UNCHANGED <<tale, status, preimage>>,
           NEW f \in Paths, NEW p \in tale.patches, NEW S \in SUBSET tale.patches,
           Traced(S, f), Alone(S, p, f), status[p] # "none", disk'[f] = preimage[p][f]
    PROVE  Traced(S \ {p}, f)'
<1> DEFINE T == S \ {p}
<1>1. \A h : FilesOf(h)' = FilesOf(h)
  BY DEF FilesOf
<1>2. ASSUME NEW h \in T
      PROVE  /\ f \in FilesOf(h) /\ status[h] # "none" /\ preimage[h][f] # disk'[f]
             /\ preimage[h][f] \in Patches => preimage[h][f] \in T
             /\ \A g \in T \ {h} : preimage[g][f] # preimage[h][f]
  BY <1>2 DEF Traced, Alone
<1>3. disk'[f] \in Patches => disk'[f] \in T
  BY DEF Traced, Alone
<1>4. QED
  BY <1>1, <1>2, <1>3 DEF Traced

LEMMA TracedStays ==
    ASSUME UNCHANGED <<tale, preimage>>, NEW f \in Paths, NEW S, Traced(S, f),
           disk'[f] = disk[f], \A h \in tale.patches : status'[h] = "none" <=> status[h] = "none",
           S \in SUBSET tale.patches
    PROVE  Traced(S, f)'
<1>1. \A h : FilesOf(h)' = FilesOf(h)
  BY DEF FilesOf
<1>2. QED
  BY <1>1 DEF Traced

(* What is followed of a request that is not the one that steps: either the  *)
(* file stays what it was, or the request is overtaken in it.                *)
LEMMA FollowsStays ==
    ASSUME UNCHANGED tale, NEW f \in Paths, NEW S, NEW o, Kept(o), Follows(S, o, f),
           disk'[f] = disk[f] \/ disk'[f] \in Edits,
           AtWork(o) => preimage'[PatchOf(o)] = preimage[PatchOf(o)],
           \A h \in S : preimage'[h] = preimage[h]
    PROVE  Follows(S, o, f)'
<1>1. Intact(o, f)' => Intact(o, f)
  BY DEF Intact, Kept, Others
<1>2. /\ PatchOf(o)' = PatchOf(o) /\ Accepts(o)' = Accepts(o) /\ AtWork(o)' = AtWork(o)
      /\ Written(o)' = Written(o) /\ request'[o].held = request[o].held
      /\ request'[o].pc = request[o].pc
  BY KeptViews DEF Kept
<1>3. AtWork(o) /\ Alone(S, PatchOf(o), f) => Alone(S, PatchOf(o), f)'
  BY <1>2 DEF Alone
<1>4. ASSUME NEW c, AtWork(o), MayReturn(S, PatchOf(o), f, c)
      PROVE  MayReturn(S, PatchOf(o), f, c)'
  BY <1>2, <1>4 DEF MayReturn
<1>5. QED
  BY <1>1, <1>2, <1>3, <1>4 DEF Follows

LEMMA FollowsOvertaken ==
    ASSUME UNCHANGED tale, NEW f \in Paths, NEW S, NEW T, NEW o, Kept(o), Follows(S, o, f),
           f \in request[o].checked => f \in request'[o].overtaken["request"],
           AtWork(o) /\ f \in Written(o) => (PatchOf(o) \in T <=> PatchOf(o) \in S)
    PROVE  Follows(T, o, f)'
<1>1. ~Intact(o, f)'
  BY DEF Intact, Kept
<1>2. /\ PatchOf(o)' = PatchOf(o) /\ Accepts(o)' = Accepts(o) /\ AtWork(o)' = AtWork(o)
      /\ Written(o)' = Written(o)
  BY KeptViews
<1>3. QED
  BY <1>1, <1>2 DEF Follows

LEMMA SettledStays ==
    ASSUME UNCHANGED tale, NEW f \in Paths, NEW S, NEW p \in tale.patches, Settled(S, p, f),
           \/ status'[p] = status[p]
           \/ {status[p], status'[p]} \subseteq {"pending", "rejected"},
           \A o \in Asking : Answers(o, p, f) => Answers(o, p, f)'
    PROVE  Settled(S, p, f)'
<1>1. Asking' = Asking /\ FilesOf(p)' = FilesOf(p) /\ \A o : Accepts(o)' = Accepts(o)
  BY DEF Asking, FilesOf, Accepts
<1>2. QED
  BY <1>1 DEF Settled

(* The ledger of a file stands through a step that leaves the file alone.    *)
LEMMA LedgerStays ==
    ASSUME UNCHANGED <<tale, status, preimage>>,
           NEW f \in Paths, NEW S \in SUBSET tale.patches, Ledger(S, f), disk'[f] = disk[f],
           NEW q \in Asking, \A o \in Asking \ {q} : Kept(o), Follows(S, q, f)',
           Answers(q, PatchOf(q), f) => Answers(q, PatchOf(q), f)'
    PROVE  Ledger(S, f)'
<1>1. Asking' = Asking /\ tale'.patches = tale.patches /\ \A o : PatchOf(o)' = PatchOf(o)
  BY DEF Asking, PatchOf
<1>2. Traced(S, f)'
  BY TracedStays DEF Ledger
<1>3. \A o \in Asking \ {q} : Follows(S, o, f)'
  BY FollowsStays DEF Ledger
<1>4. ASSUME NEW p \in tale.patches PROVE Settled(S, p, f)'
  <2>1. ASSUME NEW o \in Asking, Answers(o, p, f) PROVE Answers(o, p, f)'
    <3>1. CASE o = q
      BY <1>1, <2>1, <3>1 DEF Answers
    <3>2. CASE o # q
      BY <1>1, <2>1, <3>2, KeptViews DEF Answers
    <3>3. QED
      BY <3>1, <3>2
  <2>2. QED
    BY <2>1, SettledStays DEF Ledger
<1>5. QED
  BY <1>1, <1>2, <1>3, <1>4 DEF Ledger

(* A request that goes on, or back, and does nothing to the file.            *)
LEMMA FollowsOn ==
    ASSUME UNCHANGED <<tale, preimage>>, NEW f \in Paths, NEW S, NEW q,
           Follows(S, q, f), AtWork(q), disk'[f] = disk[f],
           Intact(q, f)' => Intact(q, f),
           \A h \in ToSet(request'[q].held) : h[1] = f => h \in ToSet(request[q].held),
           request'[q].pc \in {"check", "read", "write"} =>
             /\ request[q].pc \in {"check", "read", "write"}
             /\ f \in Written(q) => f \in Written(q)',
           f \in Written(q)' => f \in Written(q)
    PROVE  Follows(S, q, f)'
<1>1. PatchOf(q)' = PatchOf(q) /\ Accepts(q)' = Accepts(q)
  BY DEF PatchOf, Accepts
<1>2. Alone(S, PatchOf(q), f) => Alone(S, PatchOf(q), f)'
  BY <1>1 DEF Alone
<1>3. ASSUME NEW c, MayReturn(S, PatchOf(q), f, c)
      PROVE  MayReturn(S, PatchOf(q), f, c)'
  BY <1>1, <1>3 DEF MayReturn
<1>4. QED
  BY <1>1, <1>2, <1>3 DEF Follows

LEMMA BeginLedger ==
    ASSUME SInv, UNCHANGED tale, NEW q \in Asking, Begin(q),
           NEW f \in Paths, NEW S \in SUBSET tale.patches, Ledger(S, f)
    PROVE  Ledger(S, f)'
<1>1. UNCHANGED <<disk, status, preimage>> /\ ~AtWork(q)
  BY DEF Begin, AtWork
<1>2. Written(q)' = {}
  BY BeginFacts DEF Written, Before
<1>3. ~Intact(q, f)'
  BY BeginFacts DEF Intact
<1>4. Follows(S, q, f)'
  BY <1>2, <1>3 DEF Follows
<1>5. ~Answers(q, PatchOf(q), f)
  BY <1>1 DEF Answers
<1>6. QED
  BY <1>1, <1>4, <1>5, BeginFacts, LedgerStays

(* What a file that was just checked may be taken for.                       *)
LEMMA AloneHere ==
    ASSUME NEW S, NEW f, NEW p \in tale.patches, p \in Patches, Traced(S, f), status[p] # "none",
           disk[f] \in {p, preimage[p][f]}
    PROVE  Alone(S, p, f)
BY DEF Traced, Alone

LEMMA CheckLedger ==
    ASSUME SInv, UNCHANGED tale, NEW q \in Asking, CheckApplied(q),
           NEW f \in Paths, NEW S \in SUBSET tale.patches, Ledger(S, f)
    PROVE  Ledger(S, f)'
<1> DEFINE p == PatchOf(q)
<1>1. /\ UNCHANGED <<disk, status, preimage>> /\ AtWork(q) /\ request[q].pc = "check"
  BY DEF CheckApplied, AtWork
<1>2. SoundRequest(q) /\ SoundFiles(q) /\ p \in tale.patches /\ p \in Patches
  BY Tale DEF SInv
<1>3. Follows(S, q, f) /\ Traced(S, f)
  BY DEF Ledger
<1>4. ToSet(request[q].held) = {} /\ ~Answers(q, p, f)
  BY <1>1, <1>2 DEF ToSet, SoundFiles, Answers, Remembered
<1>5. CASE request'[q] = Over
  <2>1. ~AtWork(q)'
    BY <1>5, OverFields DEF AtWork
  <2>2. QED
    BY <1>1, <1>4, <2>1, CheckFacts, LedgerStays DEF Follows
<1>6. CASE request'[q] # Over
  <2>1. /\ disk[File(q)] = p /\ request'[q].held = request[q].held
        /\ request'[q].overtaken = request[q].overtaken
        /\ request'[q].checked = request[q].checked \cup {File(q)}
        /\ \/ request'[q].pc = "read" /\ request'[q].i = 1
           \/ request'[q].pc = "check"
    BY <1>6, CheckFacts
  <2>2. Written(q)' = {} /\ Written(q) = {}
    BY <1>1, <2>1 DEF Written, Before
  <2>3. ~Accepts(q) /\ status[p] # "none"
    BY <1>1, <1>2 DEF SoundRequest
  <2>4. CASE f = File(q)
    <3>1. Alone(S, p, f) /\ p \in S /\ disk[f] = p
      BY <1>2, <1>3, <2>1, <2>3, <2>4, AloneHere DEF Traced
    <3>2. PatchOf(q)' = p /\ Alone(S, p, f)'
      BY <1>1, <3>1 DEF Alone, PatchOf
    <3>3. Follows(S, q, f)'
      BY <1>1, <1>4, <2>1, <2>2, <3>1, <3>2 DEF Follows
    <3>4. QED
      BY <1>1, <1>4, <3>3, CheckFacts, LedgerStays
  <2>5. CASE f # File(q)
    <3>1. Intact(q, f)' => Intact(q, f)
      BY <2>1, <2>5 DEF Intact
    <3>2. Follows(S, q, f)'
      BY <1>1, <1>3, <2>1, <2>2, <3>1, FollowsOn
    <3>3. QED
      BY <1>1, <1>4, <3>2, CheckFacts, LedgerStays
  <2>6. QED
    BY <2>4, <2>5
<1>7. QED
  BY <1>5, <1>6

LEMMA ReadLedger ==
    ASSUME SInv, UNCHANGED tale, NEW q \in Asking, ReadFile(q),
           NEW f \in Paths, NEW S \in SUBSET tale.patches, Ledger(S, f)
    PROVE  Ledger(S, f)'
<1> DEFINE p == PatchOf(q)
<1>1. /\ UNCHANGED <<disk, status, preimage>> /\ AtWork(q) /\ request[q].pc = "read"
  BY DEF ReadFile, AtWork
<1>2. SoundRequest(q) /\ SoundFiles(q) /\ p \in tale.patches /\ p \in Patches
  BY Tale DEF SInv
<1>3. Follows(S, q, f) /\ Traced(S, f) /\ status[p] # "none"
  BY <1>1, <1>2 DEF Ledger, SoundRequest
<1>4. /\ PatchOf(q)' = p /\ Accepts(q)' = Accepts(q) /\ Before(q)' = Before(q)
  <2>1. request'[q].i = request[q].i
    BY ReadFacts
  <2>2. QED
    BY <2>1 DEF PatchOf, Accepts, Before, Files
<1>5. /\ request'[q].overtaken = request[q].overtaken /\ request'[q].pc \in {"undo", "write"}
      /\ \/ /\ request'[q].held = request[q].held /\ request'[q].checked = request[q].checked
            /\ request'[q].pc = "undo"
         \/ /\ ToSet(request'[q].held) = ToSet(request[q].held) \cup {<<File(q), disk[File(q)]>>}
            /\ request'[q].checked \subseteq request[q].checked \cup {File(q)}
            /\ ~Accepts(q) => request'[q].checked = request[q].checked
            /\ Accepts(q) => disk[File(q)] = preimage[p][File(q)]
            /\ request'[q].pc = "write"
  BY ReadFacts
<1>6. Answers(q, p, f) => Answers(q, p, f)'
  BY <1>4, <1>5 DEF Answers, AtWork, Remembered
<1>7. /\ request'[q].pc = "undo" => Written(q)' = {}
      /\ request'[q].pc = "write" => Written(q)' = Written(q)
      /\ Written(q) = Before(q)
  BY <1>1, <1>4 DEF Written
<1>8. Follows(S, q, f)'
  <2>1. CASE request'[q].pc = "undo"
    <3>1. request'[q].held = request[q].held /\ (Intact(q, f)' => Intact(q, f))
      BY <1>5, <2>1 DEF Intact
    <3>2. QED
      BY <1>1, <1>3, <1>7, <2>1, <3>1, FollowsOn
  <2>2. CASE request'[q].pc = "write" /\ f # File(q)
    <3>1. Intact(q, f)' => Intact(q, f)
      BY <1>5, <2>2 DEF Intact
    <3>2. \A h \in ToSet(request'[q].held) : h[1] = f => h \in ToSet(request[q].held)
      BY <1>5, <2>2
    <3>3. QED
      BY <1>1, <1>3, <1>7, <2>2, <3>1, <3>2, FollowsOn
  <2>3. CASE request'[q].pc = "write" /\ f = File(q) /\ Accepts(q)
    <3>1. Alone(S, p, f)
      BY <1>2, <1>3, <1>5, <2>3, AloneHere
    <3>2. Alone(S, p, f)'
      BY <1>1, <1>4, <3>1 DEF Alone
    <3>3. QED
      BY <1>1, <1>3, <1>4, <1>7, <2>3, <3>2 DEF Follows
  <2>4. CASE request'[q].pc = "write" /\ f = File(q) /\ ~Accepts(q)
    <3>1. f \notin Written(q)
      BY <1>1, <1>7, <2>4, FileFacts
    <3>2. Intact(q, f)' => Intact(q, f)
      BY <1>5, <2>4 DEF Intact
    <3>3. Intact(q, f) => MayReturn(S, p, f, disk[f])
      BY <1>1, <1>3, <2>4, <3>1 DEF Follows, MayReturn, Traced
    <3>4. \A c : MayReturn(S, p, f, c) => MayReturn(S, p, f, c)'
      BY <1>1, <1>4 DEF MayReturn
    <3>5. Alone(S, p, f) => Alone(S, p, f)'
      BY <1>1, <1>4 DEF Alone
    <3>6. QED
      <4>1. ASSUME Intact(q, f)', NEW h \in ToSet(request'[q].held), h[1] = f
            PROVE  MayReturn(S, p, f, h[2])'
        <5>1. h \in ToSet(request[q].held) \/ h[2] = disk[f]
          BY <1>5, <2>4, <4>1
        <5>2. QED
          BY <1>1, <1>3, <2>4, <3>2, <3>3, <3>4, <4>1, <5>1 DEF Follows
      <4>2. QED
        BY <1>1, <1>3, <1>4, <1>7, <2>4, <3>2, <3>5, <4>1 DEF Follows
  <2>5. QED
    BY <1>5, <2>1, <2>2, <2>3, <2>4
<1>9. QED
  BY <1>1, <1>6, <1>8, ReadFacts, LedgerStays

LEMMA TurnLedger ==
    ASSUME SInv, UNCHANGED tale, NEW q \in Asking, TurnsBack(q),
           NEW f \in Paths, NEW S \in SUBSET tale.patches, Ledger(S, f)
    PROVE  Ledger(S, f)'
<1>1. /\ UNCHANGED <<disk, status, preimage>> /\ AtWork(q) /\ request'[q].pc = "undo"
      /\ request'[q].held = request[q].held /\ request'[q].checked = request[q].checked
      /\ request'[q].overtaken = request[q].overtaken
  BY TurnFacts DEF AtWork
<1>2. Written(q)' = {} /\ (Intact(q, f)' => Intact(q, f))
  BY <1>1 DEF Written, Intact
<1>3. Follows(S, q, f)'
  BY <1>1, <1>2, FollowsOn DEF Ledger
<1>4. Answers(q, PatchOf(q), f) => Answers(q, PatchOf(q), f)'
  BY <1>1 DEF Answers, AtWork, Remembered, PatchOf
<1>5. QED
  BY <1>1, <1>3, <1>4, TurnFacts, LedgerStays

(* A commit makes true what the request did to the files of its patch.       *)
LEMMA CommitLedger ==
    ASSUME SInv, UNCHANGED tale, NEW q \in Asking, Commits(q), faults' = {},
           NEW f \in Paths, NEW S \in SUBSET tale.patches, Ledger(S, f)
    PROVE  Ledger(S, f)'
<1> DEFINE p == PatchOf(q)
<1>1. /\ request[q].pc = "save" /\ AtWork(q) /\ request'[q] = Over
      /\ UNCHANGED <<disk, preimage>> /\ \A o \in Asking \ {q} : Kept(o)
  BY CommitFacts DEF AtWork
<1>2. SoundRequest(q) /\ p \in tale.patches /\ p \in Patches /\ tale.patches \subseteq Patches
  BY Tale DEF SInv
<1>3. /\ status' = [status EXCEPT ![p] = IF Accepts(q) THEN "accepted" ELSE "rolled_back"]
      /\ status[p] # "none" /\ DOMAIN status = Patches
  BY <1>1, <1>2, CommitFacts, SavedFacts DEF SoundRequest, SInv, TInv
<1>4. /\ Asking' = Asking /\ tale'.patches = tale.patches /\ FilesOf(p)' = FilesOf(p)
      /\ \A o : PatchOf(o)' = PatchOf(o)
  BY DEF Asking, FilesOf, PatchOf
<1>5. \A h \in tale.patches : status'[h] = "none" <=> status[h] = "none"
  BY <1>2, <1>3
<1>6. Traced(S, f)'
  BY <1>1, <1>5, TracedStays DEF Ledger
<1>7. \A o \in Asking \ {q} : Follows(S, o, f)'
  BY <1>1, FollowsStays DEF Ledger
<1>8. ~AtWork(q)'
  BY <1>1, OverFields DEF AtWork
<1>9. Follows(S, q, f)'
  BY <1>8 DEF Follows
<1>10. Settled(S, p, f)'
  <2>1. f \in FilesOf(p) => (p \in S <=> Accepts(q))
    BY <1>1 DEF Ledger, Follows, Written
  <2>2. status'[p] = (IF Accepts(q) THEN "accepted" ELSE "rolled_back")
    BY <1>2, <1>3
  <2>3. f \in FilesOf(p) =>
          /\ status'[p] \in {"accepted", "rolled_back"}
          /\ status'[p] = "accepted" => p \in S
          /\ status'[p] = "rolled_back" => p \notin S
    BY <2>1, <2>2
  <2>4. QED
    BY <1>4, <2>3 DEF Settled
<1>11. ASSUME NEW x \in tale.patches \ {p} PROVE Settled(S, x, f)'
  <2>1. ASSUME NEW o \in Asking, Answers(o, x, f) PROVE Answers(o, x, f)'
    <3>1. Kept(o)
      BY <1>1, <1>11, <2>1 DEF Answers
    <3>2. QED
      BY <1>4, <2>1, <3>1, KeptViews DEF Answers
  <2>2. status'[x] = status[x]
    BY <1>2, <1>3
  <2>3. QED
    BY <2>1, <2>2, SettledStays DEF Ledger
<1>12. QED
  BY <1>4, <1>6, <1>7, <1>9, <1>10, <1>11 DEF Ledger

(* A write of a file the request was not overtaken in puts the patch there,  *)
(* or takes it out.                                                          *)
LEMMA WriteLedger ==
    ASSUME SInv, UNCHANGED tale, NEW q \in Asking, WriteFile(q), ~raced',
           NEW f \in Paths, NEW S \in SUBSET tale.patches, Ledger(S, f)
    PROVE  \E T \in SUBSET tale.patches : Ledger(T, f)'
<1>0. PICK p \in tale.patches : p = PatchOf(q)
  BY Tale DEF SInv
<1> USE <1>0
<1>1. /\ UNCHANGED <<status, preimage>> /\ AtWork(q) /\ request[q].pc = "write"
  BY DEF WriteFile, AtWork
<1>2. /\ SoundRequest(q) /\ SoundFiles(q) /\ p \in tale.patches /\ p \in Patches
      /\ tale.patches \subseteq Patches
  BY Tale DEF SInv
<1>3. Follows(S, q, f) /\ Traced(S, f) /\ status[p] # "none" /\ request[q].row
  BY <1>1, <1>2 DEF Ledger, SoundRequest
<1>4. /\ PatchOf(q)' = p /\ Accepts(q)' = Accepts(q) /\ Files(q)' = Files(q)
      /\ FilesOf(p)' = FilesOf(p) /\ Asking' = Asking /\ tale'.patches = tale.patches
      /\ \A o : PatchOf(o)' = PatchOf(o) /\ Accepts(o)' = Accepts(o)
  BY DEF PatchOf, Accepts, Files, FilesOf, Asking
<1>5. /\ request'[q].held = request[q].held /\ request'[q].checked = request[q].checked
      /\ request'[q].overtaken = request[q].overtaken
      /\ \A o \in Asking \ {q} : Kept(o)
      /\ File(q) \notin request[q].overtaken["request"]
  BY WriteFacts
<1>6. \/ request'[q].pc = "save" /\ request[q].i = Len(Files(q))
      \/ /\ request'[q].pc = "read" /\ request'[q].i = request[q].i + 1
         /\ request[q].i # Len(Files(q))
  BY WriteFacts
<1>7. Written(q) = Before(q) /\ Written(q)' = Before(q) \cup {File(q)}
  <2>1. CASE request'[q].pc = "save" /\ request[q].i = Len(Files(q))
    BY <1>1, <1>4, <2>1, FileFacts DEF Written
  <2>2. CASE /\ request'[q].pc = "read" /\ request'[q].i = request[q].i + 1
             /\ request[q].i # Len(Files(q))
    BY <1>1, <2>2, NextFile DEF Written
  <2>3. QED
    BY <1>6, <2>1, <2>2
<1>8. \A o \in Asking : Answers(o, p, f) => Answers(o, p, f)'
  BY <1>4, <1>5, <1>6, KeptViews DEF Answers, AtWork, Remembered
<1>9. (Intact(q, f)' <=> Intact(q, f)) /\ AtWork(q)'
  BY <1>5, <1>6 DEF Intact, AtWork
<1>10. CASE f # File(q)
  <2>1. disk'[f] = disk[f]
    BY <1>10, WriteFacts
  <2>2. Follows(S, q, f)'
    BY <1>1, <1>3, <1>5, <1>6, <1>7, <1>9, <1>10, <2>1, FollowsOn
  <2>3. Answers(q, PatchOf(q), f) => Answers(q, PatchOf(q), f)'
    BY <1>4, <1>8
  <2>4. QED
    BY <1>1, <1>5, <2>1, <2>2, <2>3, LedgerStays
<1>11. CASE f = File(q)
  <2>1. /\ disk'[f] = (IF Accepts(q) THEN p ELSE preimage[p][f])
        /\ \A o \in Asking \ {q} :
             f \in request[o].checked => f \in request'[o].overtaken["request"]
    BY <1>11, WriteFacts
  <2>2. f \in FilesOf(p) /\ f \in Remembered(q) /\ f \in request[q].checked
    BY <1>1, <1>2, <1>11 DEF SoundFiles
  <2>3. Intact(q, f) /\ f \notin Written(q)
    BY <1>1, <1>5, <1>7, <1>11, <2>2, FileFacts DEF Intact
  <2>4. Alone(S, p, f) /\ preimage[p][f] # p
    BY <1>1, <1>2, <1>3, <2>3 DEF Follows, Traced
  <2>5. ASSUME NEW o \in Asking \ {q}, AtWork(o), f \in Written(o)
        PROVE  PatchOf(o) # p
    <3>1. request[o].row
      BY <2>5 DEF SInv, SoundRequest, Written
    <3>2. QED
      BY <1>3, <3>1 DEF SInv, Turns
  <2>6. Answers(q, p, f)'
    BY <1>4, <1>5, <1>9, <2>2 DEF Answers, Remembered
  <2>7. CASE Accepts(q)
    <3> DEFINE T == S \cup {p}
    <3>1. Traced(T, f)'
      BY <1>1, <1>2, <1>3, <2>1, <2>2, <2>4, <2>7, TracedWith DEF Alone
    <3>2. Alone(T, p, f)'
      BY <1>1, <1>4, <2>4 DEF Alone
    <3>3. Follows(T, q, f)'
      BY <1>4, <2>7, <3>2 DEF Follows
    <3>4. \A o \in Asking \ {q} : Follows(T, o, f)'
      BY <1>5, <2>1, <2>5, FollowsOvertaken DEF Ledger
    <3>5. status[p] = "pending"
      BY <1>1, <1>2, <1>3, <2>7 DEF SoundRequest
    <3>6. Settled(T, p, f)'
      BY <1>1, <1>4, <2>6, <2>7, <3>5 DEF Settled
    <3>7. ASSUME NEW x \in tale.patches \ {p} PROVE Settled(T, x, f)'
      <4>1. Settled(S, x, f)'
        <5>1. ASSUME NEW o \in Asking, Answers(o, x, f) PROVE Answers(o, x, f)'
          <6>1. Kept(o)
            BY <1>5, <3>7, <5>1 DEF Answers
          <6>2. QED
            BY <1>4, <5>1, <6>1, KeptViews DEF Answers
        <5>2. QED
          BY <1>1, <5>1, SettledStays DEF Ledger
      <4>2. QED
        BY <4>1 DEF Settled
    <3>8. QED
      BY <1>2, <1>4, <3>1, <3>3, <3>4, <3>6, <3>7 DEF Ledger
  <2>8. CASE ~Accepts(q)
    <3> DEFINE T == S \ {p}
    <3>1. Traced(T, f)'
      BY <1>1, <1>2, <1>3, <2>1, <2>4, <2>8, TracedWithout
    <3>2. Alone(T, p, f)'
      BY <1>1, <1>4, <2>4 DEF Alone
    <3>3. ASSUME NEW h \in ToSet(request'[q].held), h[1] = f
          PROVE  MayReturn(T, p, f, h[2])'
      BY <1>1, <1>3, <1>4, <1>5, <2>3, <2>8, <3>3 DEF Follows, MayReturn
    <3>4. f \in Written(q)'
      BY <1>7, <1>11
    <3>5. Follows(T, q, f)'
      BY <1>4, <2>8, <3>2, <3>3, <3>4 DEF Follows
    <3>6. \A o \in Asking \ {q} : Follows(T, o, f)'
      BY <1>5, <2>1, <2>5, FollowsOvertaken DEF Ledger
    <3>7. status[p] = "accepted"
      BY <1>1, <1>2, <1>3, <2>8 DEF SoundRequest
    <3>8. Settled(T, p, f)'
      BY <1>1, <1>4, <2>6, <2>8, <3>7 DEF Settled
    <3>9. ASSUME NEW x \in tale.patches \ {p} PROVE Settled(T, x, f)'
      <4>1. Settled(S, x, f)'
        <5>1. ASSUME NEW o \in Asking, Answers(o, x, f) PROVE Answers(o, x, f)'
          <6>1. Kept(o)
            BY <1>5, <3>9, <5>1 DEF Answers
          <6>2. QED
            BY <1>4, <5>1, <6>1, KeptViews DEF Answers
        <5>2. QED
          BY <1>1, <5>1, SettledStays DEF Ledger
      <4>2. QED
        BY <4>1 DEF Settled
    <3>10. QED
      BY <1>4, <3>1, <3>5, <3>6, <3>8, <3>9 DEF Ledger
  <2>9. QED
    BY <2>7, <2>8
<1>12. QED
  BY <1>10, <1>11

(* The file a request puts back.  Its proposal was not decided meanwhile by  *)
(* another: that one would have overtaken it there.                          *)
LEMMA UndoLedger ==
    ASSUME SInv, UNCHANGED tale, NEW q \in Asking, UndoFile(q), ~raced', faults = {},
           NEW f \in Paths, NEW S \in SUBSET tale.patches, Ledger(S, f)
    PROVE  \E T \in SUBSET tale.patches : Ledger(T, f)'
<1>0. PICK p \in tale.patches : p = PatchOf(q)
  BY Tale DEF SInv
<1> USE <1>0
<1>1. /\ UNCHANGED <<status, preimage>> /\ AtWork(q) /\ request[q].pc = "undo"
  BY DEF UndoFile, AtWork
<1>2. /\ SoundRequest(q) /\ SoundFiles(q) /\ Outlived(q) /\ p \in Patches
      /\ tale.patches \subseteq Patches
  BY Tale DEF SInv
<1>3. Follows(S, q, f) /\ Traced(S, f) /\ status[p] # "none"
  BY <1>1, <1>2 DEF Ledger, SoundRequest
<1>4. /\ PatchOf(q)' = p /\ Accepts(q)' = Accepts(q) /\ FilesOf(p)' = FilesOf(p)
      /\ Asking' = Asking /\ tale'.patches = tale.patches
      /\ \A o : PatchOf(o)' = PatchOf(o) /\ Accepts(o)' = Accepts(o)
  BY DEF PatchOf, Accepts, FilesOf, Asking
<1>5. \A o \in Asking \ {q} : Kept(o)
  BY UndoFacts
<1>6. CASE request'[q] = Over /\ request[q].held = <<>> /\ UNCHANGED <<disk, raced>>
  <2>1. ~AtWork(q)' /\ ToSet(request[q].held) = {}
    BY <1>6, OverFields DEF AtWork, ToSet
  <2>2. Follows(S, q, f)' /\ ~Answers(q, PatchOf(q), f)
    BY <2>1 DEF Follows, Answers, Remembered
  <2>3. QED
    BY <1>1, <1>5, <1>6, <2>2, LedgerStays
<1>7. ASSUME NEW h, PutsBack(q, h)
      PROVE  \E T \in SUBSET tale.patches : Ledger(T, f)'
  <2>1. /\ h \in ToSet(request[q].held) /\ h[1] \in Paths
        /\ request'[q].pc = "undo" /\ request'[q].checked = request[q].checked
        /\ request'[q].overtaken = request[q].overtaken
        /\ ToSet(request[q].held) = ToSet(request'[q].held) \cup {h}
        /\ h[1] \notin request[q].overtaken["request"]
    BY <1>7 DEF PutsBack
  <2>2. Written(q)' = {} /\ (Intact(q, f)' <=> Intact(q, f)) /\ AtWork(q)'
    BY <2>1 DEF Written, Intact, AtWork
  <2>3. h[1] \in Remembered(q) /\ h[1] \in request[q].checked /\ h[1] \in FilesOf(p)
    BY <1>2, <2>1 DEF SoundFiles, Remembered
  <2>4. CASE f # h[1]
    <3>1. disk'[f] = disk[f]
      BY <1>7, <2>4 DEF PutsBack
    <3>2. Follows(S, q, f)'
      BY <1>1, <1>3, <2>1, <2>2, <3>1, FollowsOn
    <3>3. f \in Remembered(q) => f \in Remembered(q)'
      BY <2>1, <2>4 DEF Remembered
    <3>4. Answers(q, PatchOf(q), f) => Answers(q, PatchOf(q), f)'
      BY <1>4, <2>2, <3>3 DEF Answers
    <3>5. QED
      BY <1>1, <1>5, <3>1, <3>2, <3>4, LedgerStays
  <2>5. CASE f = h[1]
    <3>1. /\ disk'[f] = h[2]
          /\ \A o \in Asking \ {q} :
               f \in request[o].checked => f \in request'[o].overtaken["request"]
      BY <1>7, <2>5 DEF PutsBack
    <3>2. Intact(q, f)
      BY <2>1, <2>3, <2>5 DEF Intact
    <3>3. Alone(S, p, f) /\ preimage[p][f] # p
      BY <1>1, <1>2, <1>3, <3>2 DEF Follows, Traced
    <3>4. ASSUME NEW o \in Asking \ {q}, AtWork(o), f \in Written(o)
          PROVE  PatchOf(o) # p
      <4>1. request[o].row
        BY <3>4 DEF SInv, SoundRequest, Written
      <4>2. PatchOf(o) = p =>
              Written(o) \cap request[q].checked \subseteq request[q].overtaken["request"]
        BY <4>1 DEF SInv, Turns
      <4>3. QED
        BY <2>1, <2>3, <2>5, <3>4, <4>2
    <3>5. IF Accepts(q) THEN status[p] \notin {"accepted", "rolled_back"}
                        ELSE status[p] = "accepted"
      BY <1>1, <1>2, <2>1, <2>3, <2>5 DEF Outlived, SoundRequest
    <3>6. ASSUME NEW x \in tale.patches \ {p} PROVE Settled(S, x, f)'
      <4>1. ASSUME NEW o \in Asking, Answers(o, x, f) PROVE Answers(o, x, f)'
        <5>1. Kept(o)
          BY <1>5, <3>6, <4>1 DEF Answers
        <5>2. QED
          BY <1>4, <4>1, <5>1, KeptViews DEF Answers
      <4>2. QED
        BY <1>1, <4>1, SettledStays DEF Ledger
    <3>7. CASE Accepts(q)
      <4> DEFINE T == S \ {p}
      <4>1. disk'[f] = preimage[p][f]
        BY <1>2, <2>1, <2>5, <3>1, <3>7 DEF SoundFiles
      <4>2. Traced(T, f)'
        BY <1>1, <1>3, <3>3, <4>1, TracedWithout
      <4>3. Alone(T, p, f)'
        BY <1>1, <1>4, <3>3 DEF Alone
      <4>4. Follows(T, q, f)'
        BY <1>4, <2>2, <3>7, <4>3 DEF Follows
      <4>5. \A o \in Asking \ {q} : Follows(T, o, f)'
        BY <1>5, <3>1, <3>4, FollowsOvertaken DEF Ledger
      <4>6. Settled(T, p, f)'
        BY <1>1, <1>4, <3>5, <3>7 DEF Settled
      <4>7. \A x \in tale.patches \ {p} : Settled(T, x, f)'
        BY <3>6 DEF Settled
      <4>8. QED
        BY <1>4, <4>2, <4>4, <4>5, <4>6, <4>7 DEF Ledger
    <3>8. CASE ~Accepts(q)
      <4> DEFINE T == S \cup {p}
      <4>1. MayReturn(S, p, f, h[2])
        BY <1>1, <1>3, <2>1, <2>5, <3>2, <3>8 DEF Follows
      <4>2. /\ disk'[f] # preimage[p][f] /\ \A g \in S \ {p} : preimage[g][f] # disk'[f]
            /\ disk'[f] \in Patches => disk'[f] = p
        BY <3>1, <4>1, CodePatchAssumption DEF MayReturn
      <4>3. Traced(T, f)'
        BY <1>1, <1>3, <2>3, <2>5, <3>3, <4>2, TracedWith
      <4>4. Alone(T, p, f)'
        BY <1>1, <1>4, <3>3 DEF Alone
      <4>5. ASSUME NEW g \in ToSet(request'[q].held), g[1] = f
            PROVE  MayReturn(T, p, f, g[2])'
        <5>1. MayReturn(S, p, f, g[2])
          BY <1>1, <1>3, <2>1, <3>2, <3>8, <4>5 DEF Follows
        <5>2. QED
          BY <1>1, <5>1 DEF MayReturn
      <4>6. Follows(T, q, f)'
        BY <1>4, <2>1, <2>2, <3>8, <4>4, <4>5 DEF Follows
      <4>7. \A o \in Asking \ {q} : Follows(T, o, f)'
        BY <1>5, <3>1, <3>4, FollowsOvertaken DEF Ledger
      <4>8. Settled(T, p, f)'
        BY <1>1, <1>4, <3>5, <3>8 DEF Settled
      <4>9. \A x \in tale.patches \ {p} : Settled(T, x, f)'
        BY <3>6 DEF Settled
      <4>10. QED
        BY <1>2, <1>4, <4>3, <4>6, <4>7, <4>8, <4>9 DEF Ledger
    <3>9. QED
      BY <3>7, <3>8
  <2>6. QED
    BY <2>4, <2>5
<1>8. QED
  BY <1>6, <1>7, UndoFacts

(* The steps that no request takes: a proposal is of what the files hold,    *)
(* which no patch did that is in none of them.                               *)
LEMMA RowLedger ==
    ASSUME SInv, UNCHANGED tale, NEW p \in tale.patches,
           ProposePatch(p) \/ RejectPatch(p) \/ SnapshotGoes(p),
           NEW f \in Paths, NEW S \in SUBSET tale.patches, Ledger(S, f)
    PROVE  Ledger(S, f)'
<1>1. /\ disk' = disk /\ \A o \in Asking : Kept(o)
      /\ p \in Patches /\ tale.patches \subseteq Patches /\ TInv
  BY SameRequests, Tale DEF SInv, ProposePatch, RejectPatch, SnapshotGoes
<1>2. /\ Asking' = Asking /\ tale'.patches = tale.patches
      /\ \A o : PatchOf(o)' = PatchOf(o) /\ \A h : FilesOf(h)' = FilesOf(h)
  BY DEF Asking, PatchOf, FilesOf
<1>3. ASSUME NEW x \in tale.patches, NEW o \in Asking, Answers(o, x, f)
      PROVE  Answers(o, x, f)'
  BY <1>1, <1>2, <1>3, KeptViews DEF Answers
<1>4. CASE ProposePatch(p)
  <2>1. /\ status[p] = "none" /\ status' = [status EXCEPT ![p] = "pending"]
        /\ preimage' = [preimage EXCEPT ![p] = disk]
    BY <1>4 DEF ProposePatch
  <2>2. Traced(S, f) /\ p \notin S
    BY <2>1 DEF Ledger, Traced
  <2>3. /\ \A h \in tale.patches \ {p} : status'[h] = status[h] /\ preimage'[h] = preimage[h]
        /\ status'[p] = "pending" /\ preimage'[p] = disk
    BY <1>1, <2>1 DEF TInv
  <2>4. Traced(S, f)'
    BY <1>1, <1>2, <2>2, <2>3 DEF Traced
  <2>5. ASSUME NEW o \in Asking PROVE Follows(S, o, f)'
    <3>1. AtWork(o) => PatchOf(o) # p /\ PatchOf(o) \in tale.patches
      BY <1>1, <2>1, Tale DEF SInv, SoundRequest
    <3>2. QED
      BY <1>1, <2>2, <2>3, <3>1, FollowsStays DEF Ledger
  <2>6. Settled(S, p, f)'
    BY <2>2, <2>3 DEF Settled
  <2>7. \A x \in tale.patches \ {p} : Settled(S, x, f)'
    BY <1>3, <2>3, SettledStays DEF Ledger
  <2>8. QED
    BY <1>2, <2>4, <2>5, <2>6, <2>7 DEF Ledger
<1>5. CASE RejectPatch(p) \/ SnapshotGoes(p)
  <2>1. /\ preimage' = preimage
        /\ \A h \in tale.patches :
             \/ status'[h] = status[h]
             \/ status[h] = "pending" /\ status'[h] = "rejected"
    <3>1. CASE RejectPatch(p)
      <4>1. /\ preimage' = preimage /\ status[p] = "pending"
            /\ status' = [status EXCEPT ![p] = "rejected"]
        BY <3>1 DEF RejectPatch
      <4>2. QED
        BY <1>1, <4>1 DEF TInv
    <3>2. CASE SnapshotGoes(p)
      BY <3>2 DEF SnapshotGoes
    <3>3. QED
      BY <1>5, <3>1, <3>2
  <2>2. Traced(S, f)'
    BY <1>1, <2>1, TracedStays DEF Ledger
  <2>3. \A o \in Asking : Follows(S, o, f)'
    BY <1>1, <2>1, FollowsStays DEF Ledger
  <2>4. \A x \in tale.patches : Settled(S, x, f)'
    BY <1>3, <2>1, SettledStays DEF Ledger
  <2>5. QED
    BY <1>2, <2>2, <2>3, <2>4 DEF Ledger
<1>6. QED
  BY <1>4, <1>5

LEMMA EditLedger ==
    ASSUME SInv, UNCHANGED tale, NEW g \in Paths, NEW e \in tale.edits, EditFile(g, e),
           NEW f \in Paths, NEW S \in SUBSET tale.patches, Ledger(S, f)
    PROVE  Ledger(S, f)'
<1>1. /\ UNCHANGED <<status, preimage>> /\ \A o \in Asking : Kept(o)
      /\ e \in Edits \ edited /\ disk'[f] \in {disk[f], e}
      /\ tale.patches \subseteq Patches /\ TInv
  BY EditFacts, Tale DEF SInv
<1>2. /\ Asking' = Asking /\ tale'.patches = tale.patches
      /\ \A o : PatchOf(o)' = PatchOf(o) /\ \A h : FilesOf(h)' = FilesOf(h)
  BY DEF Asking, PatchOf, FilesOf
<1>3. Traced(S, f)'
  <2>1. \A h \in S : preimage[h][f] # e
    BY <1>1, CodePatchAssumption DEF TInv, Made
  <2>2. e \notin Patches
    BY <1>1, CodePatchAssumption
  <2>3. QED
    BY <1>1, <1>2, <2>1, <2>2 DEF Ledger, Traced
<1>4. \A o \in Asking : Follows(S, o, f)'
  BY <1>1, FollowsStays DEF Ledger
<1>5. ASSUME NEW x \in tale.patches PROVE Settled(S, x, f)'
  <2>1. ASSUME NEW o \in Asking, Answers(o, x, f) PROVE Answers(o, x, f)'
    BY <1>1, <1>2, <2>1, KeptViews DEF Answers
  <2>2. QED
    BY <1>1, <2>1, SettledStays DEF Ledger
<1>6. QED
  BY <1>2, <1>3, <1>4, <1>5 DEF Ledger

LEMMA StutterLedger ==
    ASSUME UNCHANGED patchVars, NEW f, NEW S, Ledger(S, f)
    PROVE  Ledger(S, f)'
<1>1. /\ \A h : FilesOf(h)' = FilesOf(h) /\ Asking' = Asking
      /\ \A o : /\ PatchOf(o)' = PatchOf(o) /\ Accepts(o)' = Accepts(o)
                /\ AtWork(o)' = AtWork(o) /\ Intact(o, f)' = Intact(o, f)
                /\ Remembered(o)' = Remembered(o) /\ Before(o)' = Before(o)
  BY DEF patchVars, work, FilesOf, Asking, PatchOf, Accepts, AtWork, Intact, Remembered,
         Before, Files
<1>2. UNCHANGED <<tale, disk, status, preimage, request>>
  BY DEF patchVars, work
<1>3. \A o : Written(o)' = Written(o)
  BY <1>1, <1>2 DEF Written
<1>4. Traced(S, f)'
  BY <1>1, <1>2 DEF Ledger, Traced
<1>5. \A o \in Asking : Follows(S, o, f)'
  BY <1>1, <1>2, <1>3 DEF Ledger, Follows, Alone, MayReturn
<1>6. \A p \in tale.patches : Settled(S, p, f)'
  BY <1>1, <1>2 DEF Ledger, Settled, Answers
<1>7. QED
  BY <1>1, <1>2, <1>4, <1>5, <1>6 DEF Ledger

LEMMA InitLedger == PatchInit => LInv
<1> SUFFICES ASSUME PatchInit, NEW f \in Paths PROVE Ledger({}, f)
  BY DEF LInv
<1>1. Traced({}, f)
  <2>1. \A p \in tale.patches : p \in Patches
    BY InitTyped, Tale
  <2>2. disk[f] \notin Patches
    BY CodePatchAssumption DEF PatchInit
  <2>3. \A p \in tale.patches : status[p] = "none"
    BY <2>1 DEF PatchInit
  <2>4. QED
    BY <2>2, <2>3 DEF Traced
<1>2. ASSUME NEW q \in Asking PROVE Follows({}, q, f)
  <2>1. q \in Requests
    BY InitTyped, Tale
  <2>2. request[q].pc = "new"
    BY <2>1 DEF PatchInit, Waiting
  <2>3. QED
    BY <2>2 DEF Follows, AtWork
<1>3. ASSUME NEW p \in tale.patches PROVE Settled({}, p, f)
  <2>1. p \in Patches
    BY InitTyped, Tale
  <2>2. status[p] = "none"
    BY <2>1 DEF PatchInit
  <2>3. QED
    BY <2>2 DEF Settled
<1>4. QED
  BY <1>1, <1>2, <1>3 DEF Ledger

LEMMA StepLedger == SInv /\ LInv /\ [PatchNext]_patchVars => LInv'
<1> SUFFICES ASSUME SInv, LInv, [PatchNext]_patchVars, Undisturbed', NEW f \in Paths'
             PROVE  \E T \in SUBSET tale'.patches : Ledger(T, f)'
  BY DEF LInv
<1>1. UNCHANGED tale /\ f \in Paths /\ tale'.patches = tale.patches
  BY DEF PatchNext, patchVars, Paths
<1>2. ASSUME NEW S \in SUBSET tale.patches, Ledger(S, f), Undisturbed
      PROVE  \E T \in SUBSET tale.patches : Ledger(T, f)'
  <2>1. ASSUME NEW q \in Asking, Serve(q)
        PROVE  \E T \in SUBSET tale.patches : Ledger(T, f)'
    <3>1. CASE Begin(q)
      BY <1>1, <1>2, <3>1, BeginLedger
    <3>2. CASE CheckApplied(q)
      BY <1>1, <1>2, <3>2, CheckLedger
    <3>3. CASE ReadFile(q)
      BY <1>1, <1>2, <3>3, ReadLedger
    <3>4. CASE WriteFile(q)
      BY <1>1, <1>2, <3>4, WriteLedger DEF Undisturbed
    <3>5. CASE TurnsBack(q)
      BY <1>1, <1>2, <3>5, TurnLedger
    <3>6. CASE Commits(q)
      BY <1>1, <1>2, <3>6, CommitLedger DEF Undisturbed
    <3>7. CASE UndoFile(q)
      BY <1>1, <1>2, <3>7, UndoLedger DEF Undisturbed
    <3>8. ~UndoFails(q)
      BY DEF UndoFails, Fault, Undisturbed
    <3>9. QED
      BY <2>1, <3>1, <3>2, <3>3, <3>4, <3>5, <3>6, <3>7, <3>8 DEF Serve, TurnsBack, Commits
  <2>2. ASSUME NEW p \in tale.patches, ProposePatch(p) \/ RejectPatch(p) \/ SnapshotGoes(p)
        PROVE  Ledger(S, f)'
    BY <1>1, <1>2, <2>2, RowLedger
  <2>3. ASSUME NEW g \in Paths, NEW e \in tale.edits, EditFile(g, e)
        PROVE  Ledger(S, f)'
    BY <1>1, <1>2, <2>3, EditLedger
  <2>4. ~ServerDies
    BY DEF ServerDies, Fault, Undisturbed
  <2>5. CASE UNCHANGED patchVars
    BY <1>2, <2>5, StutterLedger
  <2>6. QED
    BY <2>1, <2>2, <2>3, <2>4, <2>5 DEF PatchNext, PatchStep, Asking
<1>3. Undisturbed
  <2>1. faults \subseteq faults' /\ (raced => raced')
    <3>1. ASSUME NEW q \in Asking, Serve(q) PROVE faults \subseteq faults' /\ (raced => raced')
      <4>1. CASE Begin(q) \/ CheckApplied(q) \/ ReadFile(q) \/ TurnsBack(q)
        BY <4>1 DEF Begin, CheckApplied, ReadFile, TurnsBack, Fails, CommitRefused
      <4>2. CASE WriteFile(q)
        BY <4>2 DEF WriteFile, Writes
      <4>3. CASE Commits(q)
        BY <4>3 DEF Commits, Commit, CommitUnheard, Fault
      <4>4. CASE UndoFile(q)
        BY <4>4 DEF UndoFile, Writes
      <4>5. CASE UndoFails(q)
        BY <4>5 DEF UndoFails, Fault
      <4>6. QED
        BY <3>1, <4>1, <4>2, <4>3, <4>4, <4>5 DEF Serve, TurnsBack, Commits
    <3>2. ASSUME NEW p, ProposePatch(p) \/ RejectPatch(p) \/ SnapshotGoes(p)
          PROVE  faults \subseteq faults' /\ (raced => raced')
      BY <3>2 DEF ProposePatch, RejectPatch, SnapshotGoes
    <3>3. ASSUME NEW g, NEW e, EditFile(g, e)
          PROVE  faults \subseteq faults' /\ (raced => raced')
      BY <3>3 DEF EditFile
    <3>4. ServerDies => faults \subseteq faults' /\ (raced => raced')
      BY DEF ServerDies, Fault
    <3>5. UNCHANGED patchVars => faults \subseteq faults' /\ (raced => raced')
      BY DEF patchVars, work
    <3>6. QED
      BY <3>1, <3>2, <3>3, <3>4, <3>5 DEF PatchNext, PatchStep, Asking
  <2>2. QED
    BY <2>1 DEF Undisturbed
<1>4. PICK S \in SUBSET tale.patches : Ledger(S, f)
  BY <1>1, <1>3 DEF LInv
<1>5. QED
  BY <1>1, <1>2, <1>3, <1>4

(* What a proposal says of its files is true of them, once no request works  *)
(* on them, in every state that no fault and no race came before: what was   *)
(* accepted replaced what its snapshot keeps, and what was not accepted, or  *)
(* was rolled back, left nothing behind (applyService.ts:199-297, 530-643,   *)
(* codePatch.ts:376-439), for any number of patches of the same files and of *)
(* requests on the same patch, and whoever edits the files.                  *)
THEOREM StatusIsAlwaysTrue == PatchSpec => []StatusIsTrue
<1>1. SInv /\ LInv => StatusIsTrue
  <2> SUFFICES ASSUME SInv, LInv, faults = {}, ~raced, NEW p \in tale.patches,
                      \A q \in Asking : ~(PatchOf(q) = p /\ AtWork(q)),
                      NEW f \in ToSet(tale.files[p])
               PROVE  IF status[p] = "accepted" THEN disk[f] # snapshot[p].files[f]
                                                ELSE disk[f] # p
    BY TypeFromInv DEF StatusIsTrue, FilesAgree, SInv, Asking
  <2>1. f \in FilesOf(p) /\ f \in Paths /\ p \in Patches
    BY Tale DEF SInv, FilesOf
  <2>2. PICK S \in SUBSET tale.patches : Ledger(S, f)
    BY <2>1 DEF LInv, Undisturbed
  <2>3. \A q : ~Answers(q, p, f) \/ q \notin Asking
    BY DEF Answers
  <2>4. Traced(S, f) /\ Settled(S, p, f)
    BY <2>2 DEF Ledger
  <2>5. CASE status[p] = "accepted"
    <3>1. p \in S
      BY <2>1, <2>3, <2>4, <2>5 DEF Settled
    <3>2. snapshot[p].files[f] = preimage[p][f]
      BY <2>1, <2>5 DEF SInv, SnapshotsAreExact
    <3>3. QED
      BY <2>4, <2>5, <3>1, <3>2 DEF Traced
  <2>6. CASE status[p] # "accepted"
    <3>1. status[p] \in Statuses
      BY <2>1 DEF SInv, TInv
    <3>2. p \notin S
      BY <2>1, <2>3, <2>4, <2>6, <3>1 DEF Settled, Statuses, Traced
    <3>3. QED
      BY <2>1, <2>4, <2>6, <3>2 DEF Traced
  <2>7. QED
    BY <2>5, <2>6
<1>2. SInv /\ LInv /\ [PatchNext]_patchVars => (SInv /\ LInv)'
  BY StepShape, StepLedger
<1>3. PatchInit => SInv /\ LInv
  BY InitShape, InitLedger
<1>4. QED
  BY <1>1, <1>2, <1>3, PTL DEF PatchSpec
=============================================================================
