--------------------------- MODULE MCRunExecution ---------------------------
(* Instances of the execution of a Run small enough for TLC. *)
EXTENDS RunExecution, TLC

(* Lanes are interchangeable, and so are the rows. *)
LaneAndRowSymmetry == Permutations(Lanes) \cup Permutations(Jobs)

(* The behaviours in which the server stays up, the connection holds and     *)
(* nobody cancels: attempts fail and are retried, and nothing else happens.  *)
(* They may stop, with the Run ended or held.  Three attempts are enough in  *)
(* them to leave a queued Run without a job (README, section 6).             *)
Undisturbed == Next /\ UNCHANGED <<online, asker>> /\ ~ServerCrash
UndisturbedSpec == Init /\ [][Undisturbed]_vars
=============================================================================
