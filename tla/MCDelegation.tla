---------------------------- MODULE MCDelegation ----------------------------
(* Two recipients, a writing and a reviewing child, a person who speaks.   *)
EXTENDS Delegation

CONSTANTS a, b, c, d, q

MCRecipients == <<a, b>>
MCKids == {c, d}
MCReads == {d}
MCPersons == {q}

(* A message, the Runs that may come of it, and how often it parks, is     *)
(* cancelled, crashes, is paused, and the window fills.                    *)
Message(agent, scopes, to, kids, persons, n) ==
  [fromAgent |-> agent, scopes |-> scopes, recipients |-> to, kids |-> kids,
   persons |-> persons,
   parks |-> n[1], cancels |-> n[2], crashes |-> n[3], pauses |-> n[4], quota |-> n[5]]

(* Recipients and a child wait for each other; reviews go beside writers;  *)
(* two recipients have children of their own.                              *)
Waits == {Message(FALSE, {"own", "turn"}, 2, {c}, {}, <<2, 0, 0, 0, 0>>),
          Message(FALSE, {"own"}, 1, {c, d}, {}, <<2, 0, 0, 0, 0>>),
          Message(FALSE, {"own"}, 2, {c, d}, {}, <<1, 0, 0, 0, 0>>)}
(* An Agent's message passes the gate, beside a person's.                  *)
Gate == {Message(TRUE, {"own"}, 2, {c}, {q}, <<1, 1, 0, 0, 0>>),
         Message(TRUE, {"own"}, 2, {c}, {q}, <<1, 0, 0, 0, 1>>),
         Message(TRUE, {"own"}, 1, {c}, {q}, <<1, 1, 0, 0, 1>>)}
(* A child and a parent that parks twice, is paused and cancelled, and     *)
(* finds the window full.                                                  *)
Goes == Message(FALSE, {"own"}, 1, {c}, {}, <<2, 1, 0, 1, 1>>)
(* The process dies twice beside a child.                                  *)
Dies == Message(FALSE, {"own"}, 1, {c}, {}, <<1, 0, 2, 0, 0>>)

MCMessages == Waits \cup Gate \cup {Goes, Dies}

(* Workers go on, the scheduler's pass comes every minute, the window      *)
(* resets and a paused group is taken up again, in the behaviours whose    *)
(* end is asked for.                                                       *)
Live == message \in {Goes, Dies}
MCFairness ==
  /\ \A r \in {a, c} : /\ WF_table(Live /\ Serve(r))
                       /\ WF_table(Live /\ AdmitTurnParked(r)) /\ WF_table(Live /\ ReleaseHeld(r))
  /\ WF_table(Live /\ Window /\ full) /\ WF_table(Live /\ Reactivate)

MCSpec == Spec /\ MCFairness

(* A Run whose delegated results are all there goes on, whichever of its    *)
(* park, the end of its children and the release of its lock comes first    *)
(* (orchestrationService.ts:1645-1657, runs/repository.ts:2497-2500); a     *)
(* delegated child is admitted (orchestrationService.ts:1651-1654); and one *)
(* that ended is settled, whatever dies between its end, the close of its   *)
(* delegation and the completion of its job (lifecycleProjector.ts:73-172). *)
DelegationMovesOn ==
  /\ (message = Goes /\ run[a].status = "waiting" /\ \A x \in run[a].deps : run[x].status \in Ended)
       ~> run[a].status # "waiting"
  /\ (message = Goes /\ run[c].status = "queued") ~> run[c].status # "queued"
  /\ (message = Dies /\ run[c].status \in Ended) ~> ~run[c].open
=============================================================================
