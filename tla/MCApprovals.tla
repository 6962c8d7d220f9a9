---------------------------- MODULE MCApprovals ----------------------------
(* A behaviour is about the grants of an Agent's Runs or about the code     *)
(* patches of a Folder; the other half then has nothing to do.              *)
EXTENDS Authorization, CodePatch

CONSTANTS ra, rb, a1, a2, b1, p1, p2, p3, standing, x, y, z, w, e1, e2

MCRuns == {ra, rb}
MCRunOf == [k \in {a1, a2, b1, p1, p2, p3} |-> IF k \in {b1, p3} THEN rb ELSE ra]

Story(runs, denials, proposals, persons, n) ==
    [runs |-> runs, denials |-> denials, proposals |-> proposals, persons |-> persons,
     crashes |-> n]

NoStory == Story({}, {}, {}, {}, 0)
MCStories ==
    {NoStory,
     \* a Run asks twice, with one proposal and a crash, and with two
     Story({ra}, {a1, a2}, {p1}, {"revoke", "expire"}, 1),
     Story({ra}, {a1, a2}, {p1, p2}, {"expire"}, 0),
     \* persons decide the proposal and cancel the Run
     Story({ra}, {a1}, {p1}, {"cancel", "decide", "expire"}, 1),
     \* two Runs and one standing grant, without requests and with
     Story({ra, rb}, {}, {p1, p3}, {"standing", "revoke", "decide"}, 0),
     Story({ra, rb}, {a1, b1}, {p1, p3}, {"standing"}, 0)}

Tale(files, asks, edits, harms) ==
    [files |-> files, patches |-> DOMAIN files, asks |-> asks, edits |-> edits, faults |-> harms]
Accept(r) == [patch |-> r, kind |-> "accept"]
RollBack(r) == [patch |-> r, kind |-> "rollback"]

(* The name of a patch is what it writes, here and in the sets of asks.    *)
NoTale == Tale(<<>>, <<>>, {}, {})
Twice == (x :> Accept(p1)) @@ (y :> Accept(p1)) @@ (z :> RollBack(p1))
Both == (x :> Accept(p1)) @@ (y :> Accept(p2)) @@ (z :> RollBack(p1))
MCTales ==
    {NoTale,
     \* two patches of one file, alone, with their rollbacks, and beside an edit
     Tale((p1 :> <<1, 2>>) @@ (p2 :> <<1>>), Both, {}, {}),
     Tale((p1 :> <<1>>) @@ (p2 :> <<1>>), Both @@ (w :> RollBack(p2)), {}, {}),
     Tale((p1 :> <<1, 2>>) @@ (p2 :> <<2>>), Both, {e1}, {}),
     \* one patch, accepted again after a failure, beside two edits
     Tale(p1 :> <<1, 2>>, Twice, {e1, e2}, {}),
     \* a crash, a lost answer and a compensation that fails
     Tale(p1 :> <<1, 2>>, (x :> Accept(p1)) @@ (z :> RollBack(p1)), {e1}, {"crash", "lost", "undo"})}

MCInit == Init /\ PatchInit /\ (story = NoStory <=> tale # NoTale)
MCNext == \/ tale = NoTale /\ Next /\ UNCHANGED patchVars
          \/ story = NoStory /\ PatchNext /\ UNCHANGED vars

MCSpec == MCInit /\ [][MCNext]_<<vars, patchVars>> /\ Fairness
=============================================================================
