---------------------------- MODULE MCTaskMerge ----------------------------
(* Instances of TaskMerge for TLC.                                         *)
EXTENDS TaskMerge

MCRuns == {1, 2}
MCMerges == {1, 2, 3}

Bound(runs, merges, faults, kinds, tries, n) ==
    [runs |-> runs, merges |-> merges, faults |-> faults, kinds |-> kinds, tries |-> tries,
     moves |-> n[1], closes |-> n[2], waits |-> n[3],
     resumes |-> FALSE, lag |-> FALSE, checks |-> {"passed", "failed"}]

(* One Run, a close, a move of main and a wait, and one fault of any kind; *)
(* a merge whose only attempt throws.                                      *)
Faulty == {Bound(1, 2, 1, {"lost", "cut", "throw", "crash"}, 2, <<1, 1, 1>>),
           Bound(1, 2, 1, {"throw"}, 1, <<0, 1, 0>>)}
(* The Task is closed twice, and the server crashes.                       *)
Reclosed == Bound(1, 3, 1, {"crash"}, 2, <<0, 2, 0>>)
(* Two Runs, one admitted before the close and started after it.           *)
Behind == [Bound(2, 3, 0, {}, 1, <<0, 1, 0>>) EXCEPT !.lag = TRUE]
(* A held Run is resumed, beside a lost answer or a move of main.          *)
Resumed == {[Bound(1, 2, 1, {"lost"}, 1, <<0, 1, 0>>) EXCEPT !.resumes = TRUE],
            [Bound(1, 2, 0, {}, 1, <<1, 1, 0>>) EXCEPT !.resumes = TRUE]}
(* The Task is closed twice, and an answer is lost or a step cut short.    *)
Ends == Bound(1, 3, 1, {"lost", "cut"}, 2, <<0, 2, 0>>)

MCBounds == Faulty \cup Resumed \cup {Reclosed, Behind, Ends}

(* The job workers, the host and the Run go on; people need not.           *)
Live == left.merges = 3 /\ left.kinds = {"lost", "cut"}
MCFairness ==
    /\ WF_vars(Live /\ (Admit(1) \/ Launch(1) \/ End(1) \/ Settle(1)))
    /\ \A m \in Merges : /\ WF_vars(Live /\ Take(m)) /\ WF_vars(Live /\ Works(m))
                          /\ WF_vars(Live /\ Resolve(m))

MCSpec == Spec /\ MCFairness

(* The merges of a Task that stays done come to an end, and the worktree   *)
(* of one that stays open is free for its next Run, over a lost answer or  *)
(* a step cut short (taskMerges.ts:195-199, 323-388).                      *)
MergesEnd ==
    /\ <>[](Live /\ task = "done") => <>[](\A m \in Merges : merge[m].st \notin UnderWay)
    /\ <>[](Live /\ task = "open") => <>[](rec.st \notin {"preparing", "conflict"})
=============================================================================
