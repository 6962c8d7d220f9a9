---------------------------- MODULE RunPromise ----------------------------
(***************************************************************************)
(* What a Run promises to whoever asked for it, with no lane, lock, job,   *)
(* process or cause: its attempts follow one another, at most MaxTries of  *)
(* them; only a failure whose effects were made is decided on, and once; a *)
(* new attempt begins behind such a decision or behind a person's resume;  *)
(* and an attempt that is over, or was superseded, stays as it is.         *)
(***************************************************************************)
EXTENDS Integers

CONSTANT MaxTries

VARIABLES state,    \* of each attempt: none, open, held for a person, or how it ended
          latest,   \* the attempt under way, or the last one
          final,    \* attempts that were finalized: their effects were made
          decided   \* attempts whose failure the Supervisor decided on

vars == <<state, latest, final, decided>>

Tries == 1 .. MaxTries
Open == {"queued", "running", "stopping"}
Over == {"succeeded", "failed", "cancelled"}

Init ==
    /\ state = [i \in Tries |-> IF i = 1 THEN "queued" ELSE "none"]
    /\ latest = 1
    /\ final = {}
    /\ decided = {}

Becomes(s) == state' = [state EXCEPT ![latest] = s] /\ UNCHANGED latest

Begin ==
    /\ state[latest] = "queued"
    /\ Becomes("running")
    /\ UNCHANGED <<final, decided>>

(* A person asks for a stop; a held Run, too, may be stopped. *)
Stop ==
    /\ state[latest] \in Open \cup {"held"}
    /\ Becomes("stopping")
    /\ UNCHANGED <<final, decided>>

Finish ==
    /\ state[latest] \in Open \cup {"held"}
    /\ \E s \in Over : Becomes(s)
    /\ UNCHANGED <<final, decided>>

(* The effects of the attempt that is over are made. *)
Finalize ==
    /\ state[latest] \in Over
    /\ final' = final \cup {latest}
    /\ UNCHANGED <<state, latest, decided>>

Decide ==
    /\ state[latest] = "failed" /\ latest \in final \ decided
    /\ decided' = decided \cup {latest}
    /\ UNCHANGED final

Retry ==
    /\ Decide
    /\ latest < MaxTries
    /\ latest' = latest + 1
    /\ state' = [state EXCEPT ![latest + 1] = "queued"]

Hold == Decide /\ Becomes("held")

(* A person resumes a held Run: what was held counts as failed. *)
Resume ==
    /\ state[latest] = "held" /\ latest < MaxTries
    /\ latest' = latest + 1
    /\ state' = [state EXCEPT ![latest] = "failed", ![latest + 1] = "queued"]
    /\ UNCHANGED <<final, decided>>

Next == Begin \/ Stop \/ Finish \/ Finalize \/ Retry \/ Hold \/ Resume

Spec == Init /\ [][Next]_vars
=============================================================================
