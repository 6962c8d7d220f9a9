------------------------ MODULE MCAutomationSchedule ------------------------
(* Instances of AutomationSchedule for TLC.                                *)
EXTENDS AutomationSchedule

CONSTANTS c1, c2

MCCallers == {c1, c2}

Course(kind, callers, changes, byHand, n) ==
    [kind |-> kind, callers |-> callers, changes |-> changes, byHand |-> byHand,
     crashes |-> n[1], time |-> n[2], patches |-> n[3]]

Stops == {"pause", "activate", "archive", "reschedule"}
Undone == {"pause", "activate", "reschedule", "rename"}

(* A Run is fired, its schedule changed at length, and the server may      *)
(* crash; two callers' PATCHes overlap; a native target works between two  *)
(* transactions; a digest is fired by hand and renamed besides; and a fire *)
(* by hand and a crash beside every other change, for less long.           *)
MCCourses == {Course("run", {c1}, Stops, FALSE, <<1, 3, 4>>),
              Course("run", {c1, c2}, Undone, FALSE, <<0, 2, 3>>),
              Course("native", {c1}, Stops, FALSE, <<0, 3, 4>>),
              Course("digest", {c1}, {"rename"}, TRUE, <<0, 3, 2>>),
              Course("native", {c1}, Stops, TRUE, <<1, 2, 3>>)}
=============================================================================
