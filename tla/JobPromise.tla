---------------------------- MODULE JobPromise ----------------------------
(***************************************************************************)
(* What the job queue promises to the rest of the server, with no table,   *)
(* lease or heartbeat: each job is tried by one worker at a time, at most  *)
(* MaxAttempts times net of what is given back, and settles once.          *)
(***************************************************************************)
EXTENDS Integers

CONSTANTS Jobs, Workers, NoWorker, MaxAttempts

VARIABLES state,    \* of each job: absent, pending, held, or how it settled
          by,       \* the worker whose claim is the latest, while the job is held
          tries,    \* claims of the job, net of those given back
          doing     \* the job each worker believes it is working on, if any

vars == <<state, by, tries, doing>>

Init ==
    /\ state = [j \in Jobs |-> "absent"]
    /\ by = [j \in Jobs |-> NoWorker]
    /\ tries = [j \in Jobs |-> 0]
    /\ doing = [w \in Workers |-> {}]

(* Only the latest claimant of a held job speaks for it. *)
SpeaksFor(w, j) == state[j] = "held" /\ by[j] = w /\ j \in doing[w]

(* A worker may stop working on its job at any time: it is done, it saw that *)
(* it lost the job, or it died.                                              *)
MayLeave(w) == doing' = doing \/ doing' = [doing EXCEPT ![w] = {}]

Submit(j) ==
    /\ state[j] = "absent"
    /\ state' = [state EXCEPT ![j] = "pending"]
    /\ UNCHANGED <<by, tries, doing>>

Take(w, j) ==
    /\ state[j] = "pending" /\ tries[j] < MaxAttempts /\ doing[w] = {}
    /\ state' = [state EXCEPT ![j] = "held"]
    /\ by' = [by EXCEPT ![j] = w]
    /\ tries' = [tries EXCEPT ![j] = @ + 1]
    /\ doing' = [doing EXCEPT ![w] = {j}]

Settle(w, j) ==
    /\ SpeaksFor(w, j)
    /\ \/ state' = [state EXCEPT ![j] = "completed"]
       \/ tries[j] = MaxAttempts /\ state' = [state EXCEPT ![j] = "failed"]
    /\ by' = [by EXCEPT ![j] = NoWorker]
    /\ UNCHANGED tries
    /\ MayLeave(w)

(* The claimant hands the job back: for another try, or with the try         *)
(* refunded.                                                                 *)
HandBack(w, j) ==
    /\ SpeaksFor(w, j)
    /\ state' = [state EXCEPT ![j] = "pending"]
    /\ by' = [by EXCEPT ![j] = NoWorker]
    /\ \/ tries[j] < MaxAttempts /\ UNCHANGED tries
       \/ tries[j] > 0 /\ tries' = [tries EXCEPT ![j] = @ - 1]
    /\ MayLeave(w)

Leave(w) ==
    /\ doing' = [doing EXCEPT ![w] = {}]
    /\ UNCHANGED <<state, by, tries>>

Cancel(j) ==
    /\ state[j] \in {"pending", "held"}
    /\ state' = [state EXCEPT ![j] = "cancelled"]
    /\ by' = [by EXCEPT ![j] = NoWorker]
    /\ UNCHANGED <<tries, doing>>

(* Held jobs may be taken from their claimants, several at once: given to    *)
(* another try, at the latest possible one if the budget is spent, or failed *)
(* when it is.                                                               *)
TakenBack(j) ==
    /\ state[j] = "held"
    /\ by'[j] = NoWorker
    /\ \/ state'[j] = "pending" /\ tries[j] < MaxAttempts /\ tries'[j] = tries[j]
       \/ state'[j] = "pending" /\ tries[j] = MaxAttempts /\ tries'[j] = MaxAttempts - 1
       \/ state'[j] = "failed" /\ tries[j] = MaxAttempts /\ tries'[j] = tries[j]

Untouched(j) == state'[j] = state[j] /\ by'[j] = by[j] /\ tries'[j] = tries[j]

TakeBack ==
    /\ state' \in [Jobs -> {"absent", "pending", "held", "completed", "failed", "cancelled"}]
    /\ by' \in [Jobs -> Workers \cup {NoWorker}]
    /\ tries' \in [Jobs -> 0 .. MaxAttempts]
    /\ \A j \in Jobs : TakenBack(j) \/ Untouched(j)
    /\ UNCHANGED doing

Next ==
    \/ \E j \in Jobs : Submit(j) \/ Cancel(j)
    \/ \E w \in Workers, j \in Jobs : Take(w, j) \/ Settle(w, j) \/ HandBack(w, j)
    \/ \E w \in Workers : Leave(w)
    \/ TakeBack

Spec == Init /\ [][Next]_vars
=============================================================================
