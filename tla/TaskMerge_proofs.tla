-------------------------- MODULE TaskMerge_proofs --------------------------
(***************************************************************************)
(* Theorems about the merges of a Task, for any Runs, merges and bounds.   *)
(*                                                                         *)
(* The invariant has three layers.  A row of task_merges, its job and the  *)
(* place its worker is at belong together (RowsAreSound), and one merge is *)
(* open at a time (OneOpen).  On the host, the branch, the merge record    *)
(* and main hold the same work between them (HostIsSound).  And a row says *)
(* what the host may still hold for it (HoldsAgree, ReadyIsVerified).      *)
(***************************************************************************)
EXTENDS TaskMerge, TLAPS

Open == UnderWay \cup Stopped
States == Open \cup Finished \cup {"none"}
Held == rec.st \in {"preparing", "conflict"}

Commit == [has : SUBSET Work, onto : Nat, by : Merges \cup {0}]
Reply == [k : {"none", "no_changes", "rebased", "conflict", "unresolved", "refused", "merged",
               "main_moved", "again", "waiting"},
          onto : Nat, commit : Commit]
MergeRow ==
    [st : States, basis : Runs \cup {0}, onto : Nat, commit : Commit,
     res : {"none", "queued", "running", "ended", "cancelled"},
     job : {"none", "pending", "running"}, tries : Nat,
     at : {"idle", "begin", "prepare", "continue", "answered", "verify", "check", "finish",
           "concluded", "hand", "handed", "give", "given", "return", "delete"},
     view : States, reply : Reply]
Limits ==
    [runs : Nat, merges : Nat, faults : Nat, moves : Nat, closes : Nat, waits : Nat,
     tries : Nat \ {0}, resumes : BOOLEAN, lag : BOOLEAN,
     kinds : SUBSET {"lost", "cut", "throw", "crash"}, checks : SUBSET {"passed", "failed"}]

HostTyped ==
    /\ main \in [v : Nat \ {0}, has : SUBSET Work, tip : Commit]
    /\ branch \in [on : BOOLEAN, has : SUBSET Work, tip : Commit]
    /\ wt \in Runs \cup {0}
    /\ rec \in [st : {"none", "preparing", "conflict", "rebased"}, m : Merges \cup {0},
                onto : Nat, has : SUBSET Work, commit : Commit]
    /\ answered \subseteq Runs /\ landed \in [Merges -> Commit]
    /\ settled \subseteq Work /\ verified \subseteq Commit
RunsTyped ==
    /\ task \in {"open", "done"}
    /\ run \in [Runs -> {"none", "queued", "admitted", "started", "working", "ended", "owed",
                         "held", "over"}]
    /\ attempt \in [Runs -> {1, 2}] /\ begun \subseteq Runs
    /\ left \in Limits
Typed == HostTyped /\ RunsTyped /\ merge \in [Merges -> MergeRow]

-----------------------------------------------------------------------------
(* The rows                                                                *)

(* What state a row is in while its worker is at some place.               *)
PlaceAgrees(x) ==
    /\ x.at = "prepare" => x.st = "rebasing"
    /\ x.at = "continue" => x.st = "resolving"
    /\ x.at \in {"answered", "hand", "handed"} => x.st \in {"rebasing", "resolving"}
    /\ x.at = "verify" => x.st = "verifying"
    /\ x.at \in {"check", "finish", "concluded"} => x.st \in {"verifying", "waiting"}
    /\ x.at = "return" => x.st \in Stopped \cup {"superseded"}
    /\ x.at = "delete" => x.st = "no_changes"
    /\ x.at \notin {"idle", "return", "delete"} => x.view \in Open

JobAgrees(x) ==
    /\ x.at = "idle" <=> x.job # "running"
    /\ x.tries <= left.tries
    /\ x.job = "pending" => x.tries < left.tries
    /\ x.job = "running" => x.tries >= 1
    /\ x.st = "none" => x.job = "none" /\ x.basis = 0 /\ x.res = "none"
    /\ "crash" \notin left.kinds /\ x.st \in UnderWay => x.job # "none"

RowsAreSound == \A m \in Merges : PlaceAgrees(merge[m]) /\ JobAgrees(merge[m])

OneOpen == \A m, o \in Merges : merge[m].st \in Open /\ merge[o].st \in Open => m = o

(* A late merge is keyed by a Run that is over, unless Runs are resumed.   *)
LateOnce ==
    ~left.resumes =>
        /\ \A r \in Runs : run[r] # "held"
        /\ \A m \in Merges : merge[m].basis # 0 => run[merge[m].basis] = "over"

-----------------------------------------------------------------------------
(* The host                                                                *)

HostIsSound ==
    /\ rec.st = "none" => rec = NoRec
    /\ rec.st # "none" => /\ wt = 0 /\ rec.m \in Merges /\ rec.onto \in 1 .. main.v
                          /\ branch.has \subseteq rec.has \cup main.has
                          /\ rec.has \subseteq branch.has \cup main.has
    /\ rec.st = "rebased" => rec.commit.onto = rec.onto
    /\ wt # 0 => branch.on
    /\ ~branch.on => branch.has = {} /\ branch.tip = NoCommit
    /\ branch.tip # NoCommit => branch.has \subseteq branch.tip.has
    /\ main.tip # NoCommit => main.tip.has \subseteq main.has /\ main.tip.onto < main.v

(* What landed is on main, and no commit is made a second time.            *)
LandedIsOver == \A m \in Merges : landed[m] # NoCommit =>
    /\ landed[m].has \subseteq main.has /\ landed[m].onto < main.v
    /\ branch.tip # landed[m]
    /\ rec.st = "conflict" => landed[m].by # rec.m \/ landed[m].onto # rec.onto

(* What the host holds for a merge, as its row tells.                      *)
HoldAgrees(m, x) ==
    /\ x.st = "conflict" \/ x.at \in {"handed", "given"} => rec.m # m
    /\ Held /\ rec.m = m =>
         \/ x.st \in {"rebasing", "resolving"}
         \/ "throw" \in left.kinds /\ x.st = "failed"
         \/ "throw" \in left.kinds /\ x.st = "superseded" /\ \E o \in Merges : o # m /\ merge[o].st # "none"
    /\ x.st = "resolving" \/ x.at = "answered" => ~(rec.m = m /\ rec.st = "preparing")
    /\ x.at = "answered" /\ x.reply.k = "rebased" => ~(rec.m = m /\ Held)
    /\ x.at = "answered" /\ x.reply.k \in {"no_changes", "refused"} => rec.m # m
HoldsAgree == \A m \in Merges : HoldAgrees(m, merge[m])

(* Past its checks, a merge that the host still holds was verified.        *)
IsReady(x) == \/ x.st = "waiting" \/ x.at \in {"check", "finish"}
              \/ x.at = "concluded" /\ x.reply.k = "waiting"
ReadyIsVerified == \A m \in Merges : IsReady(merge[m]) => Stale(m) \/ merge[m].commit \in verified

IInv == Typed /\ RowsAreSound /\ OneOpen /\ LateOnce /\ HostIsSound /\ LandedIsOver /\ HoldsAgree /\ ReadyIsVerified

-----------------------------------------------------------------------------
(* Values                                                                  *)

LEMMA Given0 ==
  /\ Runs \subseteq Nat /\ Merges \subseteq Nat /\ 0 \notin Runs /\ 0 \notin Merges
  /\ Bounds \subseteq Limits
BY TaskMergeAssumption DEF Limits

LEMMA Nothing ==
  /\ NoCommit \in Commit /\ NoCommit.has = {} /\ NoCommit.onto = 0 /\ NoCommit.by = 0
  /\ NoReply \in Reply /\ NoReply.k = "none" /\ NoReply.onto = 0 /\ NoReply.commit = NoCommit
  /\ NoRec.st = "none" /\ NoRec.m = 0 /\ NoRec.onto = 0 /\ NoRec.has = {} /\ NoRec.commit = NoCommit
  /\ NoBranch.on = FALSE /\ NoBranch.has = {} /\ NoBranch.tip = NoCommit
  /\ NoRec \in [st : {"none", "preparing", "conflict", "rebased"}, m : Merges \cup {0},
                onto : Nat, has : SUBSET Work, commit : Commit]
  /\ NoBranch \in [on : BOOLEAN, has : SUBSET Work, tip : Commit]
BY DEF NoCommit, NoReply, NoRec, NoBranch, Commit, Reply

LEMMA NothingAsked ==
  /\ NoMerge \in MergeRow /\ NoMerge.st = "none" /\ NoMerge.basis = 0 /\ NoMerge.at = "idle"
  /\ NoMerge.job = "none" /\ NoMerge.tries = 0 /\ NoMerge.view = "none"
  /\ NoMerge.reply = NoReply /\ NoMerge.commit = NoCommit /\ NoMerge.onto = 0 /\ NoMerge.res = "none"
BY Nothing DEF NoMerge, MergeRow, States

LEMMA RowFields ==
  ASSUME NEW x \in MergeRow
  PROVE  /\ x.st \in States /\ x.basis \in Runs \cup {0} /\ x.onto \in Nat /\ x.commit \in Commit
         /\ x.res \in {"none", "queued", "running", "ended", "cancelled"}
         /\ x.job \in {"none", "pending", "running"} /\ x.tries \in Nat
         /\ x.at \in {"idle", "begin", "prepare", "continue", "answered", "verify", "check", "finish",
                      "concluded", "hand", "handed", "give", "given", "return", "delete"}
         /\ x.view \in States /\ x.reply \in Reply
         /\ x.reply.onto \in Nat /\ x.reply.commit \in Commit
BY DEF MergeRow, Reply

(* What the helpers of a worker make of a row.                             *)
LEMMA EndedIs ==
  ASSUME NEW x \in MergeRow
  PROVE  /\ Ended(x) \in MergeRow
         /\ Ended(x).st = x.st /\ Ended(x).basis = x.basis /\ Ended(x).onto = x.onto
         /\ Ended(x).commit = x.commit /\ Ended(x).tries = x.tries
         /\ Ended(x).job = "none" /\ Ended(x).at = "idle" /\ Ended(x).view = "none"
BY Nothing, ZenonT(60) DEF Ended, MergeRow, States

LEMMA DeferredIs ==
  ASSUME NEW x \in MergeRow, x.tries >= 1
  PROVE  /\ Deferred(x) \in MergeRow
         /\ Deferred(x).st = x.st /\ Deferred(x).basis = x.basis /\ Deferred(x).onto = x.onto
         /\ Deferred(x).commit = x.commit /\ Deferred(x).tries = x.tries - 1
         /\ Deferred(x).job = "pending" /\ Deferred(x).at = "idle"
<1>1. x.tries \in Nat /\ x.tries - 1 \in Nat
  BY RowFields
<1>2. QED
  BY <1>1, Nothing, ZenonT(60) DEF Deferred, MergeRow, States

Places == {"idle", "begin", "prepare", "continue", "answered", "verify", "check", "finish",
           "concluded", "hand", "handed", "give", "given", "return", "delete"}

LEMMA AtIs ==
  ASSUME NEW x \in MergeRow, NEW a \in Places
  PROVE  /\ At(x, a) \in MergeRow
         /\ At(x, a).st = x.st /\ At(x, a).basis = x.basis /\ At(x, a).onto = x.onto
         /\ At(x, a).commit = x.commit /\ At(x, a).tries = x.tries /\ At(x, a).job = x.job
         /\ At(x, a).at = a /\ At(x, a).view = x.view /\ At(x, a).reply = NoReply
BY Nothing DEF At, MergeRow, Places

LEMMA RowIs ==
  ASSUME NEW x \in MergeRow, NEW s \in States
  PROVE  /\ Row(x, s) \in MergeRow
         /\ Row(x, s).st = s /\ Row(x, s).view = s /\ Row(x, s).basis = x.basis
         /\ Row(x, s).onto = x.onto /\ Row(x, s).commit = x.commit /\ Row(x, s).tries = x.tries
         /\ Row(x, s).job = x.job /\ Row(x, s).at = x.at /\ Row(x, s).reply = x.reply
BY DEF Row, MergeRow

-----------------------------------------------------------------------------
(* A step of the worker of one merge                                       *)

Spent == /\ left' \in Limits /\ left'.kinds = left.kinds /\ left'.tries = left.tries
         /\ left'.resumes = left.resumes

LEMMA SpentIs ==
  ASSUME left \in Limits
  PROVE  /\ UNCHANGED left => Spent
         /\ \A k : Fault(k) => Spent
         /\ left.waits > 0 /\ left' = [left EXCEPT !.waits = @ - 1] => Spent
         /\ left.moves > 0 /\ left' = [left EXCEPT !.moves = @ - 1] => Spent
         /\ left.closes > 0 /\ left' = [left EXCEPT !.closes = @ - 1] => Spent
BY DEF Limits, Fault, Spent

(* The row y that a step of m's worker makes of merge[m].                  *)
Turns(m, y) ==
    /\ y \in MergeRow /\ PlaceAgrees(y) /\ JobAgrees(y)
    /\ y.basis = merge[m].basis /\ merge[m].st # "none" /\ y.st # "none"
    /\ y.st \in Open => merge[m].st \in Open

StaleOf(m, x) == \/ rec.m # m \/ rec.st # "rebased"
                 \/ rec.onto # x.onto \/ rec.commit # x.commit \/ branch.tip # x.commit
ReadyOf(m, x) == IsReady(x) => StaleOf(m, x) \/ x.commit \in verified

(* The host keeps what it holds for o as it is.                            *)
Leaves(o) == rec'.m = o => rec' = rec /\ branch' = branch

LEMMA ElsewhereAgrees ==
  ASSUME IInv, Spent, NEW o \in Merges, Leaves(o), merge'[o] = merge[o], verified \subseteq verified',
         \A p \in Merges : merge[p].st # "none" => merge'[p].st # "none"
  PROVE  HoldAgrees(o, merge[o])' /\ ReadyOf(o, merge[o])'
<1>1. HoldAgrees(o, merge[o]) /\ ReadyOf(o, merge[o])
  BY DEF IInv, HoldsAgree, ReadyIsVerified, ReadyOf, StaleOf, Stale
<1>2. left'.kinds = left.kinds
  BY DEF Spent
<1>3. CASE rec' = rec /\ branch' = branch
  <2>1. HoldAgrees(o, merge[o])'
    BY <1>1, <1>2, <1>3 DEF HoldAgrees, Held
  <2>2. ReadyOf(o, merge[o])'
    BY <1>1, <1>3 DEF ReadyOf, StaleOf, IsReady
  <2>3. QED
    BY <2>1, <2>2
<1>4. CASE rec'.m # o
  BY <1>4 DEF HoldAgrees, ReadyOf, StaleOf
<1>5. QED
  BY <1>3, <1>4 DEF Leaves

LEMMA WorkerKeeps ==
  ASSUME IInv, Spent, NEW m \in Merges, NEW y, Turns(m, y), merge' = [merge EXCEPT ![m] = y],
         UNCHANGED <<task, run, attempt, begun>>, HostTyped', HostIsSound', LandedIsOver',
         verified \subseteq verified', \A o \in Merges \ {m} : Leaves(o),
         HoldAgrees(m, merge[m])', ReadyOf(m, merge[m])'
  PROVE  IInv'
<1>1. merge \in [Merges -> MergeRow] /\ merge'[m] = y /\ \A o \in Merges \ {m} : merge'[o] = merge[o]
  BY DEF IInv, Typed
<1>2. Typed'
  BY <1>1 DEF IInv, Typed, RunsTyped, Turns, Spent
<1>3. RowsAreSound'
  <2>1. ASSUME NEW o \in Merges PROVE PlaceAgrees(merge'[o]) /\ JobAgrees(merge'[o])
    BY <1>1 DEF IInv, RowsAreSound, Turns
  <2>2. QED
    BY <2>1 DEF RowsAreSound, PlaceAgrees, JobAgrees, Spent
<1>4. OneOpen'
  <2>1. \A o \in Merges : merge'[o].st \in Open => merge[o].st \in Open
    BY <1>1 DEF Turns
  <2>2. QED
    BY <2>1 DEF IInv, OneOpen
<1>5. LateOnce'
  <2>1. \A o \in Merges : merge'[o].basis = merge[o].basis
    BY <1>1 DEF Turns
  <2>2. QED
    BY <2>1 DEF IInv, LateOnce, Spent
<1>6. ASSUME NEW o \in Merges PROVE HoldAgrees(o, merge[o])' /\ ReadyOf(o, merge[o])'
  <2>1. CASE o = m
    BY <2>1
  <2>2. CASE o # m
    <3>1. \A p \in Merges : merge[p].st # "none" => merge'[p].st # "none"
      BY <1>1 DEF Turns
    <3>2. QED
      BY <2>2, <3>1, <1>1, ElsewhereAgrees
  <2>3. QED
    BY <2>1, <2>2
<1>7. HoldsAgree' /\ ReadyIsVerified'
  BY <1>6 DEF HoldsAgree, ReadyIsVerified, ReadyOf, StaleOf, Stale
<1>9. QED
  BY <1>2, <1>3, <1>4, <1>5, <1>7 DEF IInv

(* A step that the host has no part in.                                    *)
LEMMA RowKeeps ==
  ASSUME IInv, Spent, NEW m \in Merges, NEW y, Turns(m, y), merge' = [merge EXCEPT ![m] = y],
         UNCHANGED <<task, run_vars, host_vars, settled>>,
         verified \subseteq verified', verified' \subseteq Commit,
         HoldAgrees(m, y), IsReady(y) => StaleOf(m, y) \/ y.commit \in verified'
  PROVE  IInv'
<1>1. /\ merge'[m] = y /\ \A o \in Merges \ {m} : merge'[o] = merge[o]
      /\ UNCHANGED <<task, run, attempt, begun, main, branch, wt, rec, answered, landed, settled>>
  BY DEF IInv, Typed, run_vars, host_vars
<1>2. HostTyped' /\ HostIsSound' /\ LandedIsOver'
  BY <1>1 DEF IInv, Typed, HostTyped, HostIsSound, LandedIsOver
<1>3. HoldAgrees(m, merge[m])'
  <2>1. merge'[m] = y /\ rec' = rec /\ left'.kinds = left.kinds
    BY <1>1 DEF Spent
  <2>2. \A o \in Merges \ {m} : merge'[o].st = merge[o].st
    BY <1>1
  <2>3. QED
    BY <2>1, <2>2 DEF HoldAgrees, Held
<1>4. ReadyOf(m, merge[m])'
  BY <1>1 DEF ReadyOf, StaleOf, IsReady
<1>5. \A o \in Merges \ {m} : Leaves(o)
  BY <1>1 DEF Leaves
<1>6. QED
  BY <1>1, <1>2, <1>3, <1>4, <1>5, WorkerKeeps

-----------------------------------------------------------------------------
(* Steps that the host has no part in                                      *)

(* Fits(m, y): y may be the next row of m while the host stays.            *)
Fits(m, y) == /\ Turns(m, y) /\ HoldAgrees(m, y)
              /\ IsReady(y) => StaleOf(m, y) \/ y.commit \in verified

LEMMA Rows ==
  ASSUME IInv, NEW m \in Merges
  PROVE  /\ merge[m] \in MergeRow /\ merge \in [Merges -> MergeRow]
         /\ PlaceAgrees(merge[m]) /\ JobAgrees(merge[m]) /\ HoldAgrees(m, merge[m])
         /\ IsReady(merge[m]) => StaleOf(m, merge[m]) \/ merge[m].commit \in verified
         /\ left \in Limits /\ left.tries \in Nat \ {0} /\ m # 0 /\ m \in Nat
<1>1. left \in Limits /\ merge \in [Merges -> MergeRow]
  BY DEF IInv, Typed, RunsTyped
<1>2. QED
  BY <1>1, Given0 DEF IInv, RowsAreSound, HoldsAgree, ReadyIsVerified, StaleOf, Stale, Limits

(* A row whose state stays.                                                *)
LEMMA OnwardFits ==
  ASSUME IInv, NEW m \in Merges, NEW y \in MergeRow, PlaceAgrees(y), JobAgrees(y), merge[m].st # "none",
         y.st = merge[m].st, y.onto = merge[m].onto, y.commit = merge[m].commit,
         y.basis = merge[m].basis, y.at # "answered", y.at \in {"handed", "given"} => rec.m # m,
         IsReady(y) => IsReady(merge[m])
  PROVE  Fits(m, y)
<1>1. HoldAgrees(m, merge[m]) /\ (IsReady(merge[m]) => StaleOf(m, merge[m]) \/ merge[m].commit \in verified)
  BY Rows
<1>2. HoldAgrees(m, y)
  BY <1>1 DEF HoldAgrees
<1>3. QED
  BY <1>1, <1>2 DEF Fits, Turns, StaleOf

LEMMA Working ==
  ASSUME IInv, NEW m \in Merges, merge[m].at # "idle"
  PROVE  /\ merge[m].job = "running" /\ merge[m].tries >= 1 /\ merge[m].tries <= left.tries
         /\ merge[m].tries \in Nat /\ merge[m].st # "none" /\ merge[m].st \in States
<1>1. merge[m] \in MergeRow /\ JobAgrees(merge[m])
  BY Rows
<1>2. QED
  BY <1>1, RowFields DEF JobAgrees

LEMMA DeferredFits ==
  ASSUME IInv, NEW m \in Merges, merge[m].at # "idle"
  PROVE  Fits(m, Deferred(merge[m]))
<1> DEFINE y == Deferred(merge[m])
<1>1. /\ merge[m] \in MergeRow /\ JobAgrees(merge[m]) /\ left.tries \in Nat /\ merge[m].tries \in Nat
      /\ merge[m].tries >= 1 /\ merge[m].tries <= left.tries /\ merge[m].st # "none"
  BY Rows, Working
<1>2. /\ y \in MergeRow /\ y.st = merge[m].st /\ y.basis = merge[m].basis /\ y.onto = merge[m].onto
      /\ y.commit = merge[m].commit /\ y.tries = merge[m].tries - 1 /\ y.job = "pending" /\ y.at = "idle"
  BY <1>1, DeferredIs
<1> HIDE DEF y
<1>3. PlaceAgrees(y) /\ JobAgrees(y)
  BY <1>1, <1>2 DEF PlaceAgrees, JobAgrees
<1>4. IsReady(y) => IsReady(merge[m])
  BY <1>2 DEF IsReady
<1>5. Fits(m, y)
  BY <1>1, <1>2, <1>3, <1>4, OnwardFits
<1>6. QED
  BY <1>5 DEF y

(* The job of a row that needs no more work ends.                          *)
LEMMA EndedFits ==
  ASSUME IInv, NEW m \in Merges, merge[m].st # "none", merge[m].st \notin UnderWay,
         NEW x \in MergeRow, x.st = merge[m].st, x.onto = merge[m].onto, x.commit = merge[m].commit,
         x.basis = merge[m].basis, x.tries <= left.tries
  PROVE  Fits(m, Ended(x))
<1> DEFINE y == Ended(x)
<1>1. left.tries \in Nat
  BY Rows
<1>2. /\ y \in MergeRow /\ y.st = merge[m].st /\ y.basis = merge[m].basis /\ y.onto = merge[m].onto
      /\ y.commit = merge[m].commit /\ y.tries = x.tries /\ y.job = "none" /\ y.at = "idle"
  BY EndedIs
<1> HIDE DEF y
<1>3. PlaceAgrees(y) /\ JobAgrees(y)
  BY <1>1, <1>2 DEF PlaceAgrees, JobAgrees
<1>4. IsReady(y) => IsReady(merge[m])
  BY <1>2 DEF IsReady
<1>5. Fits(m, y)
  BY <1>2, <1>3, <1>4, OnwardFits
<1>6. QED
  BY <1>5 DEF y

(* The worker goes on to place a.                                          *)
LEMMA AtFits ==
  ASSUME IInv, NEW m \in Merges, NEW a \in Places, merge[m].st # "none",
         NEW x \in MergeRow, x.st = merge[m].st, x.onto = merge[m].onto, x.commit = merge[m].commit,
         x.basis = merge[m].basis, x.job = "running", x.tries \in 1 .. left.tries, x.view \in Open,
         a \notin {"idle", "answered", "return", "delete", "concluded"},
         a = "prepare" => x.st = "rebasing", a = "continue" => x.st = "resolving",
         a \in {"hand", "handed"} => x.st \in {"rebasing", "resolving"},
         a = "verify" => x.st = "verifying", a \in {"check", "finish"} => x.st \in {"verifying", "waiting"},
         a \in {"handed", "given"} => rec.m # m,
         a \in {"check", "finish"} => IsReady(merge[m])
  PROVE  Fits(m, At(x, a))
<1> DEFINE y == At(x, a)
<1>1. /\ y \in MergeRow /\ y.st = merge[m].st /\ y.basis = merge[m].basis /\ y.onto = merge[m].onto
      /\ y.commit = merge[m].commit /\ y.tries = x.tries /\ y.job = "running" /\ y.at = a /\ y.view = x.view
  BY AtIs
<1>2. left.tries \in Nat
  BY Rows
<1> HIDE DEF y
<1>3. PlaceAgrees(y) /\ JobAgrees(y)
  BY <1>1, <1>2 DEF PlaceAgrees, JobAgrees, Open
<1>4. IsReady(y) => IsReady(merge[m])
  BY <1>1 DEF IsReady
<1>5. Fits(m, y)
  BY <1>1, <1>3, <1>4, OnwardFits
<1>6. QED
  BY <1>5 DEF y

(* A row that moves on from the state it was read in.                      *)
LEMMA StillOpen ==
  ASSUME IInv, NEW m \in Merges, merge[m].at \notin {"idle", "return", "delete"}, Still(m)
  PROVE  merge[m].st \in Open
BY Rows DEF PlaceAgrees, Still

LEMMA Applied ==
  ASSUME IInv, NEW m \in Merges, NEW y, Applies(m, y), Fits(m, y)
  PROVE  IInv'
<1>1. Spent
  BY Rows, SpentIs DEF Applies
<1>2. verified' \subseteq Commit /\ verified \subseteq verified'
  BY DEF Applies, IInv, Typed, HostTyped
<1>3. QED
  BY <1>1, <1>2, RowKeeps DEF Applies, Fits

LEMMA WakeStep == ASSUME IInv, NEW m \in Merges, Wake(m) PROVE IInv'
<1> DEFINE y == [merge[m] EXCEPT !.job = "pending", !.tries = 0]
<1>1. merge[m] \in MergeRow /\ merge \in [Merges -> MergeRow] /\ left.tries \in Nat \ {0} /\ PlaceAgrees(merge[m])
      /\ JobAgrees(merge[m])
  BY Rows
<1>2. /\ y \in MergeRow /\ y.st = merge[m].st /\ y.basis = merge[m].basis /\ y.onto = merge[m].onto
      /\ y.commit = merge[m].commit /\ y.tries = 0 /\ y.job = "pending" /\ y.at = merge[m].at
  BY <1>1 DEF MergeRow
<1>3. Applies(m, y)
  BY <1>1 DEF Applies, Wake
<1>4. merge[m].job = "none" /\ merge[m].st \in Stopped
  BY DEF Wake
<1> HIDE DEF y
<1>5. y.at = "idle" /\ merge[m].at = "idle" /\ merge[m].st \notin UnderWay /\ merge[m].st # "none"
  BY <1>1, <1>2, <1>4 DEF JobAgrees, Stopped, UnderWay
<1>6. PlaceAgrees(y) /\ JobAgrees(y)
  BY <1>1, <1>2, <1>5 DEF PlaceAgrees, JobAgrees
<1>7. Fits(m, y)
  BY <1>2, <1>5, <1>6, OnwardFits DEF IsReady
<1>8. QED
  BY <1>3, <1>7, Applied

LEMMA TakeStep == ASSUME IInv, NEW m \in Merges, Take(m) PROVE IInv'
<1> DEFINE x == [merge[m] EXCEPT !.job = "running", !.tries = @ + 1, !.view = merge[m].st]
<1>1. /\ merge[m] \in MergeRow /\ left.tries \in Nat \ {0} /\ PlaceAgrees(merge[m]) /\ JobAgrees(merge[m])
      /\ merge[m].st \in States /\ merge[m].tries \in Nat /\ merge[m].job = "pending"
  BY Rows, RowFields DEF Take
<1>0. merge[m].tries + 1 \in Nat
  BY <1>1
<1>2. /\ x \in MergeRow /\ x.st = merge[m].st /\ x.basis = merge[m].basis /\ x.onto = merge[m].onto
      /\ x.commit = merge[m].commit /\ x.tries = merge[m].tries + 1 /\ x.job = "running" /\ x.view = merge[m].st
  BY <1>0, <1>1 DEF MergeRow
<1>3. \/ x.st \in Finished /\ Applies(m, Ended(x))
      \/ x.st \notin Finished /\ Applies(m, At(x, "give"))
      \/ x.st \notin Finished /\ ~Resolving(x) /\ Applies(m, At(x, Step(x)))
  BY DEF Take, Applies
<1>4. x.tries \in 1 .. left.tries /\ merge[m].st # "none"
  BY <1>1, <1>2 DEF JobAgrees
<1> HIDE DEF x
<1>5. CASE x.st \in Finished /\ Applies(m, Ended(x))
  <2>1. merge[m].st \notin UnderWay /\ x.tries <= left.tries
    BY <1>1, <1>2, <1>4, <1>5 DEF Finished, UnderWay
  <2>2. QED
    BY <1>2, <1>4, <1>5, <2>1, EndedFits, Applied
<1>6. CASE x.st \notin Finished /\ Applies(m, At(x, "give"))
  <2>1. x.view \in Open /\ "give" \in Places
    BY <1>1, <1>2, <1>4, <1>6 DEF States, Places
  <2>2. Fits(m, At(x, "give"))
    BY <1>2, <1>4, <2>1, AtFits
  <2>3. QED
    BY <1>6, <2>2, Applied
<1>7. CASE x.st \notin Finished /\ ~Resolving(x) /\ Applies(m, At(x, Step(x)))
  <2>1. x.view \in Open
    BY <1>1, <1>2, <1>4, <1>7 DEF States
  <2>2. /\ Step(x) \in {"continue", "hand", "verify", "check", "begin"} /\ Step(x) \in Places
        /\ Step(x) \in {"continue", "hand"} => x.st = "resolving"
        /\ Step(x) = "verify" => x.st = "verifying" /\ Step(x) = "verify"
        /\ Step(x) = "check" => x.st = "waiting"
    BY DEF Step, Places
  <2>3. Step(x) = "check" => IsReady(merge[m])
    BY <2>2, <1>2 DEF IsReady
  <2>4. Fits(m, At(x, Step(x)))
    BY <1>2, <1>4, <2>1, <2>2, <2>3, AtFits
  <2>5. QED
    BY <1>7, <2>4, Applied
<1>8. QED
  BY <1>3, <1>5, <1>6, <1>7

LEMMA BusyStep == ASSUME IInv, NEW m \in Merges, Busy(m) PROVE IInv'
BY DeferredFits, Applied DEF Busy

LEMMA ResolveStep == ASSUME IInv, NEW m \in Merges, Resolve(m) PROVE IInv'
<1>1. PICK s \in {"running", "ended", "cancelled"} : merge' = [merge EXCEPT ![m].res = s]
  BY DEF Resolve
<1> DEFINE y == [merge[m] EXCEPT !.res = s]
<1>2. merge[m] \in MergeRow /\ merge \in [Merges -> MergeRow] /\ PlaceAgrees(merge[m]) /\ JobAgrees(merge[m])
      /\ HoldAgrees(m, merge[m]) /\ (IsReady(merge[m]) => StaleOf(m, merge[m]) \/ merge[m].commit \in verified)
  BY Rows
<1>3. /\ y \in MergeRow /\ y.st = merge[m].st /\ y.basis = merge[m].basis /\ y.onto = merge[m].onto
      /\ y.commit = merge[m].commit /\ y.tries = merge[m].tries /\ y.job = merge[m].job /\ y.at = merge[m].at
      /\ y.view = merge[m].view /\ y.reply = merge[m].reply
  BY <1>2 DEF MergeRow
<1>4. Applies(m, y)
  BY <1>1, <1>2 DEF Applies, Resolve
<1>5. merge[m].st # "none"
  BY <1>2 DEF JobAgrees, Resolve
<1> HIDE DEF y
<1>6. PlaceAgrees(y) /\ JobAgrees(y)
  BY <1>2, <1>3, <1>5 DEF PlaceAgrees, JobAgrees
<1>7. HoldAgrees(m, y) /\ (IsReady(y) => StaleOf(m, y) \/ y.commit \in verified)
  BY <1>2, <1>3 DEF HoldAgrees, IsReady, StaleOf
<1>8. Fits(m, y)
  BY <1>3, <1>5, <1>6, <1>7 DEF Fits, Turns
<1>9. QED
  BY <1>4, <1>8, Applied

LEMMA BeginStep == ASSUME IInv, NEW m \in Merges, Begin(m) PROVE IInv'
<1>1. /\ merge[m] \in MergeRow /\ merge[m].at = "begin" /\ PlaceAgrees(merge[m]) /\ JobAgrees(merge[m])
      /\ merge[m].job = "running" /\ merge[m].tries \in 1 .. left.tries /\ merge[m].st # "none"
      /\ merge[m].view \in Open /\ "give" \in Places /\ "prepare" \in Places /\ left.tries \in Nat
  BY Rows, Working DEF Begin, PlaceAgrees, Places
<1>2. CASE Applies(m, At(merge[m], "give"))
  <2>1. Fits(m, At(merge[m], "give"))
    BY <1>1, AtFits
  <2>2. QED
    BY <1>2, <2>1, Applied
<1>3. CASE ~Still(m) /\ Applies(m, Deferred(merge[m]))
  BY <1>1, <1>3, DeferredFits, Applied
<1>4. CASE Still(m) /\ Applies(m, At(Row(merge[m], "rebasing"), "prepare"))
  <2> DEFINE x == Row(merge[m], "rebasing")
             y == At(x, "prepare")
  <2>1. "rebasing" \in States /\ merge[m].st \in Open
    BY <1>1, <1>4, StillOpen DEF States, Open, UnderWay
  <2>2. x \in MergeRow
    BY <1>1, <2>1, RowIs
  <2>3. /\ y \in MergeRow /\ y.st = "rebasing" /\ y.view = "rebasing" /\ y.basis = merge[m].basis
        /\ y.tries = merge[m].tries /\ y.job = "running" /\ y.at = "prepare"
    BY <1>1, <2>1, <2>2, RowIs, AtIs, SMTT(30)
  <2> HIDE DEF y, x
  <2>4. PlaceAgrees(y) /\ JobAgrees(y)
    BY <1>1, <2>3 DEF PlaceAgrees, JobAgrees, Open, UnderWay
  <2>5. HoldAgrees(m, y) /\ ~IsReady(y)
    BY <2>3 DEF HoldAgrees, IsReady
  <2>6. Fits(m, y)
    BY <1>1, <2>1, <2>3, <2>4, <2>5 DEF Fits, Turns
  <2>7. QED
    BY <1>4, <2>6, Applied DEF y, x
<1>5. QED
  BY <1>2, <1>3, <1>4 DEF Begin, Moves

(* A worker that moves the row on to state s, and goes to place a.         *)
LEMMA MovedFits ==
  ASSUME IInv, NEW m \in Merges, merge[m].at \notin {"idle", "return", "delete"}, merge[m].st \in Open,
         NEW s \in States \ {"none"}, NEW a \in {"prepare", "begin", "verify", "return", "delete"},
         NEW x \in MergeRow, x.basis = merge[m].basis, x.tries = merge[m].tries, x.job = "running",
         a = "prepare" => s = "rebasing", a = "verify" => s = "verifying", a = "begin" => s = "rebasing",
         a = "return" => s \in {"failed", "verification_failed"}, a = "delete" => s = "no_changes",
         rec.m = m /\ rec.st = "preparing" => s = "rebasing",
         rec.m = m /\ rec.st = "conflict" => s = "rebasing"
  PROVE  Fits(m, At(Row(x, s), a))
<1> DEFINE z == Row(x, s)
           y == At(z, a)
<1>1. /\ JobAgrees(merge[m]) /\ merge[m].job = "running" /\ merge[m].tries \in 1 .. left.tries
      /\ merge[m].st # "none" /\ left.tries \in Nat
  BY Rows, Working
<1>2. z \in MergeRow /\ a \in Places
  BY RowIs DEF Places
<1>3. /\ y \in MergeRow /\ y.st = s /\ y.view = s /\ y.basis = merge[m].basis
      /\ y.tries = merge[m].tries /\ y.job = "running" /\ y.at = a
  BY <1>1, <1>2, RowIs, AtIs
<1> HIDE DEF y, z
<1>4. PlaceAgrees(y) /\ JobAgrees(y)
  BY <1>1, <1>3 DEF PlaceAgrees, JobAgrees, Open, UnderWay, Stopped
<1>5. HoldAgrees(m, y)
  BY <1>3, Rows DEF HoldAgrees, Held
<1>6. ~IsReady(y)
  BY <1>3 DEF IsReady
<1>7. Fits(m, y)
  BY <1>1, <1>3, <1>4, <1>5, <1>6 DEF Fits, Turns
<1>8. QED
  BY <1>7 DEF y, z

(* A worker that moves the row on to state s and is done for now.          *)
LEMMA LeftFits ==
  ASSUME IInv, NEW m \in Merges, merge[m].at \notin {"idle", "return", "delete"}, merge[m].st # "none",
         NEW s \in States \ {"none"}, s \in Open => merge[m].st \in Open,
         NEW y \in MergeRow, y.basis = merge[m].basis, y.st = s, y.at = "idle", y.job \in {"none", "pending"},
         y.tries <= merge[m].tries, y.job = "pending" => y.tries < left.tries,
         y.job = "none" => s \notin UnderWay,
         s = "conflict" => rec.m # m,
         rec.m = m /\ Held => s \in {"rebasing", "resolving"},
         s = "resolving" => ~(rec.m = m /\ rec.st = "preparing"),
         s = "waiting" => StaleOf(m, y) \/ y.commit \in verified
  PROVE  Fits(m, y)
<1>1. JobAgrees(merge[m]) /\ merge[m].tries \in 1 .. left.tries /\ left.tries \in Nat /\ y.tries \in Nat
  BY Rows, Working, RowFields
<1>2. PlaceAgrees(y) /\ JobAgrees(y)
  BY <1>1 DEF PlaceAgrees, JobAgrees
<1>3. HoldAgrees(m, y)
  BY DEF HoldAgrees
<1>4. IsReady(y) => s = "waiting"
  BY DEF IsReady
<1>5. QED
  BY <1>2, <1>3, <1>4 DEF Fits, Turns

LEMMA MovesOn ==
  ASSUME IInv, NEW m \in Merges, merge[m].at # "idle", NEW y, Applies(m, Moves(m, y)), Still(m) => Fits(m, y)
  PROVE  IInv'
<1>1. CASE Still(m)
  BY <1>1, Applied DEF Moves
<1>2. CASE ~Still(m)
  BY <1>2, DeferredFits, Applied DEF Moves
<1>3. QED
  BY <1>1, <1>2

LEMMA AnsweredStep == ASSUME IInv, NEW m \in Merges, Answered(m) PROVE IInv'
<1> DEFINE x == merge[m]
           facts == [x EXCEPT !.onto = x.reply.onto]
<1>1. /\ x \in MergeRow /\ x.at = "answered" /\ PlaceAgrees(x) /\ JobAgrees(x) /\ HoldAgrees(m, x)
      /\ x.st \in {"rebasing", "resolving"} /\ x.view \in Open /\ x.job = "running" /\ x.tries \in 1 .. left.tries
      /\ left.tries \in Nat /\ x.reply.onto \in Nat /\ x.reply.commit \in Commit /\ x.st \in Open /\ x.tries \in Nat
  <2>1. x \in MergeRow /\ x.at = "answered" /\ PlaceAgrees(x) /\ JobAgrees(x) /\ HoldAgrees(m, x) /\ left.tries \in Nat
    BY Rows DEF Answered
  <2>2. QED
    BY <2>1, Working, RowFields DEF PlaceAgrees, Open, UnderWay
<1>2. /\ rec.m = m => rec.st # "preparing"
      /\ x.reply.k = "rebased" => ~(rec.m = m /\ Held)
      /\ x.reply.k \in {"no_changes", "refused"} => rec.m # m
  BY <1>1 DEF HoldAgrees
<1>3. /\ facts \in MergeRow /\ facts.basis = x.basis /\ facts.tries = x.tries /\ facts.job = "running"
      /\ facts.at = x.at
  BY <1>1 DEF MergeRow
<1>4. CASE x.reply.k = "no_changes" /\ Applies(m, Moves(m, At(Row(x, "no_changes"), "delete")))
  <2>1. Fits(m, At(Row(x, "no_changes"), "delete"))
    BY <1>1, <1>2, <1>4, MovedFits DEF States, Finished
  <2>2. QED
    BY <1>1, <1>4, <2>1, MovesOn
<1>5. CASE x.reply.k = "rebased" /\ Applies(m, Moves(m, At(Row([facts EXCEPT !.commit = x.reply.commit],
                                            "verifying"), "verify")))
  <2> DEFINE z == [facts EXCEPT !.commit = x.reply.commit]
  <2>1. z \in MergeRow /\ z.basis = x.basis /\ z.tries = x.tries /\ z.job = "running"
    BY <1>1, <1>3 DEF MergeRow
  <2>2. Fits(m, At(Row(z, "verifying"), "verify"))
    <3> HIDE DEF z
    <3>1. QED
      BY <1>1, <1>2, <1>5, <2>1, MovedFits DEF States, Open, UnderWay, Held
  <2>3. QED
    BY <1>1, <1>5, <2>2, MovesOn
<1>6. CASE x.reply.k = "conflict" /\ x.res = "none"
           /\ Applies(m, Moves(m, Deferred(Row([facts EXCEPT !.res = "queued"], "resolving"))))
  <2> DEFINE z == [facts EXCEPT !.res = "queued"]
             w == Row(z, "resolving")
             y == Deferred(w)
  <2>1. z \in MergeRow /\ z.basis = x.basis /\ z.tries = x.tries /\ z.job = "running"
    BY <1>1, <1>3 DEF MergeRow
  <2>2. /\ w \in MergeRow /\ w.st = "resolving" /\ w.basis = x.basis /\ w.tries = x.tries
    <3> HIDE DEF z
    <3>1. "resolving" \in States
      BY DEF States, Open, UnderWay
    <3>2. QED
      BY <2>1, <3>1, RowIs
  <2>3. /\ y \in MergeRow /\ y.st = "resolving" /\ y.basis = x.basis /\ y.tries = x.tries - 1
        /\ y.job = "pending" /\ y.at = "idle"
    <3> HIDE DEF w
    <3>1. w.tries >= 1
      BY <1>1, <2>2
    <3>2. QED
      BY <2>2, <3>1, DeferredIs
  <2> HIDE DEF y
  <2>4. "resolving" \in States \ {"none"} /\ y.tries <= x.tries /\ y.tries < left.tries /\ x.st # "none"
    BY <1>1, <2>3 DEF States, Open, UnderWay
  <2>5. Fits(m, y)
    BY <1>1, <1>2, <2>3, <2>4, LeftFits
  <2>6. QED
    BY <1>1, <1>6, <2>5, MovesOn DEF y
<1>7. CASE x.reply.k \in {"conflict", "unresolved"} /\ Applies(m, [x EXCEPT !.at = "hand"])
  <2> DEFINE y == [x EXCEPT !.at = "hand"]
  <2>1. /\ y \in MergeRow /\ y.st = x.st /\ y.basis = x.basis /\ y.onto = x.onto /\ y.commit = x.commit
        /\ y.tries = x.tries /\ y.job = x.job /\ y.at = "hand" /\ y.view = x.view
    BY <1>1 DEF MergeRow
  <2> HIDE DEF y
  <2>2. PlaceAgrees(y) /\ JobAgrees(y) /\ (IsReady(y) => IsReady(x)) /\ x.st # "none"
    BY <1>1, <2>1 DEF PlaceAgrees, JobAgrees, IsReady
  <2>3. Fits(m, y)
    BY <2>1, <2>2, OnwardFits
  <2>4. QED
    BY <1>7, <2>3, Applied DEF y
<1>8. CASE x.reply.k = "refused" /\ Applies(m, Moves(m, At(Row(x, "failed"), "return")))
  <2>1. Fits(m, At(Row(x, "failed"), "return"))
    BY <1>1, <1>2, <1>8, MovedFits DEF States, Open, Stopped
  <2>2. QED
    BY <1>1, <1>8, <2>1, MovesOn
<1>9. QED
  BY <1>4, <1>5, <1>6, <1>7, <1>8 DEF Answered

LEMMA VerifyStep == ASSUME IInv, NEW m \in Merges, Verify(m) PROVE IInv'
<1> DEFINE x == merge[m]
<1>1. /\ x \in MergeRow /\ x.at = "verify" /\ JobAgrees(x) /\ HoldAgrees(m, x)
      /\ x.st = "verifying" /\ x.view \in Open /\ x.job = "running" /\ x.tries \in 1 .. left.tries
      /\ left.tries \in Nat /\ x.st \in Open /\ x.tries \in Nat /\ merge \in [Merges -> MergeRow]
  <2>1. x \in MergeRow /\ x.at = "verify" /\ PlaceAgrees(x) /\ JobAgrees(x) /\ HoldAgrees(m, x) /\ left.tries \in Nat
        /\ merge \in [Merges -> MergeRow]
    BY Rows DEF Verify
  <2>2. QED
    BY <2>1, Working DEF PlaceAgrees, Open, UnderWay
<1>2. CASE merge' = [merge EXCEPT ![m].at = "check"]
           /\ verified' = IF wt = 0 THEN verified \cup {branch.tip} ELSE verified
  <2> DEFINE y == [x EXCEPT !.at = "check"]
  <2>1. /\ y \in MergeRow /\ y.st = x.st /\ y.basis = x.basis /\ y.onto = x.onto /\ y.commit = x.commit
        /\ y.tries = x.tries /\ y.job = x.job /\ y.at = "check" /\ y.view = x.view
    BY <1>1 DEF MergeRow
  <2>2. merge' = [merge EXCEPT ![m] = y]
    BY <1>1, <1>2
  <2> HIDE DEF y
  <2>3. PlaceAgrees(y) /\ JobAgrees(y) /\ Turns(m, y)
    BY <1>1, <2>1 DEF PlaceAgrees, JobAgrees, Turns
  <2>4. HoldAgrees(m, y)
    BY <1>1, <2>1 DEF HoldAgrees
  <2>5. StaleOf(m, y) \/ y.commit \in verified'
    <3>1. SUFFICES ASSUME ~StaleOf(m, y) PROVE y.commit \in verified'
      OBVIOUS
    <3>2. rec.st = "rebased" /\ branch.tip = y.commit
      BY <3>1 DEF StaleOf
    <3>3. wt = 0
      BY <3>2 DEF IInv, HostIsSound
    <3>4. QED
      BY <1>2, <3>2, <3>3
  <2>6. verified \subseteq verified' /\ verified' \subseteq Commit
    BY <1>2 DEF IInv, Typed, HostTyped
  <2>7. QED
    BY <2>2, <2>3, <2>4, <2>5, <2>6, RowKeeps, Rows, SpentIs DEF Verify
<1>3. CASE /\ merge' = [merge EXCEPT ![m] = Moves(m, At(Row(x, "verification_failed"), "return"))]
           /\ UNCHANGED verified
  <2>1. Applies(m, Moves(m, At(Row(x, "verification_failed"), "return")))
    BY <1>3 DEF Verify, Applies
  <2>2. ~(rec.m = m /\ rec.st \in {"preparing", "conflict"})
    BY <1>1 DEF HoldAgrees, Held
  <2>3. Fits(m, At(Row(x, "verification_failed"), "return"))
    BY <1>1, <2>2, MovedFits DEF States, Open, Stopped
  <2>4. QED
    BY <1>1, <2>1, <2>3, MovesOn
<1>4. QED
  BY <1>2, <1>3 DEF Verify

(* A worker that goes to another place in the state the row is in.         *)
LEMMA GoesTo ==
  ASSUME IInv, NEW m \in Merges, merge[m].at \notin {"idle", "return", "delete"}
  PROVE  /\ Fits(m, At(merge[m], "give"))
         /\ merge[m].at = "check" => Fits(m, At(merge[m], "finish"))
<1>1. /\ merge[m] \in MergeRow /\ PlaceAgrees(merge[m]) /\ merge[m].job = "running" /\ merge[m].tries \in 1 .. left.tries
      /\ merge[m].st # "none" /\ "give" \in Places /\ "finish" \in Places /\ left.tries \in Nat
      /\ merge[m].view \in Open
  BY Rows, Working DEF Places, PlaceAgrees
<1>2. Fits(m, At(merge[m], "give"))
  BY <1>1, AtFits
<1>3. ASSUME merge[m].at = "check" PROVE Fits(m, At(merge[m], "finish"))
  <2>1. merge[m].st \in {"verifying", "waiting"} /\ IsReady(merge[m])
    BY <1>1, <1>3 DEF PlaceAgrees, IsReady
  <2>2. QED
    BY <1>1, <2>1, AtFits
<1>4. QED
  BY <1>2, <1>3

LEMMA CheckStep == ASSUME IInv, NEW m \in Merges, Check(m) PROVE IInv'
<1>1. merge[m].at = "check"
  BY DEF Check
<1>2. \/ Applies(m, At(merge[m], "finish"))
      \/ Applies(m, At(merge[m], "give"))
  BY DEF Check
<1>3. QED
  BY <1>1, <1>2, GoesTo, Applied

LEMMA ConcludedStep == ASSUME IInv, NEW m \in Merges, Concluded(m) PROVE IInv'
<1> DEFINE x == merge[m]
<1>1. /\ x \in MergeRow /\ x.at = "concluded" /\ PlaceAgrees(x) /\ JobAgrees(x) /\ HoldAgrees(m, x)
      /\ IsReady(x) => StaleOf(m, x) \/ x.commit \in verified
      /\ x.st \in {"verifying", "waiting"} /\ x.view \in Open /\ x.job = "running" /\ x.tries \in 1 .. left.tries
      /\ left.tries \in Nat /\ x.st \in Open /\ x.tries \in Nat /\ x.st # "none"
  <2>1. x \in MergeRow /\ x.at = "concluded" /\ PlaceAgrees(x) /\ JobAgrees(x) /\ HoldAgrees(m, x) /\ left.tries \in Nat
        /\ (IsReady(x) => StaleOf(m, x) \/ x.commit \in verified)
    BY Rows DEF Concluded
  <2>2. QED
    BY <2>1, Working DEF PlaceAgrees, Open, UnderWay
<1>2. ~(rec.m = m /\ Held)
  BY <1>1 DEF HoldAgrees
<1>3. CASE x.reply.k = "merged" /\ Applies(m, Ended([x EXCEPT !.st = "merged"]))
  <2> DEFINE z == [x EXCEPT !.st = "merged"]
             y == Ended(z)
  <2>1. z \in MergeRow /\ z.st = "merged" /\ z.basis = x.basis /\ z.tries = x.tries
    BY <1>1 DEF MergeRow, States, Finished
  <2>2. y \in MergeRow /\ y.st = "merged" /\ y.basis = x.basis /\ y.tries = x.tries /\ y.job = "none" /\ y.at = "idle"
    <3> HIDE DEF z
    <3>1. QED
      BY <2>1, EndedIs
  <2> HIDE DEF y
  <2>3. "merged" \in States \ {"none"} /\ "merged" \notin Open /\ "merged" \notin UnderWay
    BY DEF States, Open, UnderWay, Stopped, Finished
  <2>4. Fits(m, y)
    BY <1>1, <1>2, <2>2, <2>3, LeftFits
  <2>5. QED
    BY <1>3, <2>4, Applied DEF y
<1>4. CASE Applies(m, Moves(m, At(Row(x, "rebasing"), "begin")))
  <2>1. Fits(m, At(Row(x, "rebasing"), "begin"))
    BY <1>1, MovedFits DEF States, Open, UnderWay
  <2>2. QED
    BY <1>1, <1>4, <2>1, MovesOn
<1>5. CASE x.reply.k = "waiting" /\ Applies(m, Moves(m, Deferred(Row(x, "waiting"))))
  <2> DEFINE w == Row(x, "waiting")
             y == Deferred(w)
  <2>1. "waiting" \in States /\ "waiting" \in Open
    BY DEF States, Open, UnderWay
  <2>2. w \in MergeRow /\ w.st = "waiting" /\ w.basis = x.basis /\ w.tries = x.tries
        /\ w.onto = x.onto /\ w.commit = x.commit
    BY <1>1, <2>1, RowIs
  <2>3. /\ y \in MergeRow /\ y.st = "waiting" /\ y.basis = x.basis /\ y.tries = x.tries - 1
        /\ y.onto = x.onto /\ y.commit = x.commit /\ y.job = "pending" /\ y.at = "idle"
    <3> HIDE DEF w
    <3>1. w.tries >= 1
      BY <1>1, <2>2
    <3>2. QED
      BY <2>2, <3>1, DeferredIs
  <2> HIDE DEF y
  <2>4. StaleOf(m, y) \/ y.commit \in verified
    BY <1>1, <1>5, <2>3 DEF IsReady, StaleOf
  <2>5. y.tries <= x.tries /\ y.tries < left.tries
    BY <1>1, <2>3
  <2>6. Fits(m, y)
    BY <1>1, <1>2, <2>1, <2>3, <2>4, <2>5, LeftFits
  <2>7. QED
    BY <1>1, <1>5, <2>6, MovesOn DEF y
<1>6. QED
  BY <1>3, <1>4, <1>5 DEF Concluded

LEMMA HandedStep == ASSUME IInv, NEW m \in Merges, Handed(m) PROVE IInv'
<1> DEFINE x == merge[m]
           z == [x EXCEPT !.st = "conflict", !.onto = IF x.reply.onto = 0 THEN @ ELSE x.reply.onto]
           y == Ended(z)
<1>1. /\ x \in MergeRow /\ x.at = "handed" /\ HoldAgrees(m, x) /\ x.st \in {"rebasing", "resolving"}
      /\ x.tries \in Nat /\ left.tries \in Nat /\ x.st \in Open /\ x.st # "none" /\ x.reply.onto \in Nat /\ x.onto \in Nat
  BY Rows, RowFields DEF Handed, PlaceAgrees, Open, UnderWay
<1>2. rec.m # m
  BY <1>1 DEF HoldAgrees
<1>3. z \in MergeRow /\ z.st = "conflict" /\ z.basis = x.basis /\ z.tries = x.tries
  BY <1>1 DEF MergeRow, States, Open, Stopped
<1>4. y \in MergeRow /\ y.st = "conflict" /\ y.basis = x.basis /\ y.tries = x.tries /\ y.job = "none" /\ y.at = "idle"
  <2> HIDE DEF z
  <2>1. QED
    BY <1>3, EndedIs
<1>5. Applies(m, Moves(m, y))
  BY DEF Handed
<1> HIDE DEF y
<1>6. "conflict" \in States \ {"none"} /\ "conflict" \notin UnderWay
  BY DEF States, Open, UnderWay, Stopped
<1>7. Fits(m, y)
  BY <1>1, <1>2, <1>4, <1>6, LeftFits
<1>8. QED
  BY <1>1, <1>5, <1>7, MovesOn

LEMMA GivenStep == ASSUME IInv, NEW m \in Merges, Given(m) PROVE IInv'
<1> DEFINE x == merge[m]
<1>1. /\ x \in MergeRow /\ x.at = "given" /\ HoldAgrees(m, x) /\ x.st \in States \ {"none"} /\ JobAgrees(x)
      /\ x.tries \in Nat /\ left.tries \in Nat /\ x.tries \in 1 .. left.tries
  BY Rows, Working DEF Given
<1>2. rec.m # m
  BY <1>1 DEF HoldAgrees
<1>3. CASE Applies(m, Moves(m, Deferred(Row(x, "queued"))))
  <2> DEFINE w == Row(x, "queued")
             y == Deferred(w)
  <2>1. "queued" \in States \ {"none"} /\ "queued" \in Open
    BY DEF States, Open, UnderWay
  <2>2. w \in MergeRow /\ w.st = "queued" /\ w.basis = x.basis /\ w.tries = x.tries
    BY <1>1, <2>1, RowIs
  <2>3. /\ y \in MergeRow /\ y.st = "queued" /\ y.basis = x.basis /\ y.tries = x.tries - 1
        /\ y.job = "pending" /\ y.at = "idle"
    <3> HIDE DEF w
    <3>1. w.tries >= 1
      BY <1>1, <2>2
    <3>2. QED
      BY <2>2, <3>1, DeferredIs
  <2> HIDE DEF y
  <2>4. y.tries <= x.tries /\ y.tries < left.tries
    BY <1>1, <2>3
  <2>5. ASSUME Still(m) PROVE Fits(m, y)
    <3>1. x.st \in Open
      BY <1>1, <2>5, StillOpen
    <3>2. QED
      BY <1>1, <1>2, <2>1, <2>3, <2>4, <3>1, LeftFits
  <2>6. QED
    BY <1>1, <1>3, <2>5, MovesOn DEF y
<1>4. CASE x.st \in Finished /\ Applies(m, Ended(x))
  <2>1. x.st \notin UnderWay
    BY <1>4 DEF Finished, UnderWay
  <2>2. QED
    BY <1>1, <1>4, <2>1, EndedFits, Applied
<1>5. CASE Applies(m, Ended([x EXCEPT !.st = "superseded"]))
  <2> DEFINE z == [x EXCEPT !.st = "superseded"]
             y == Ended(z)
  <2>1. z \in MergeRow /\ z.st = "superseded" /\ z.basis = x.basis /\ z.tries = x.tries
    BY <1>1 DEF MergeRow, States, Finished
  <2>2. y \in MergeRow /\ y.st = "superseded" /\ y.basis = x.basis /\ y.tries = x.tries /\ y.job = "none" /\ y.at = "idle"
    <3> HIDE DEF z
    <3>1. QED
      BY <2>1, EndedIs
  <2> HIDE DEF y
  <2>3. "superseded" \in States \ {"none"} /\ "superseded" \notin Open /\ "superseded" \notin UnderWay
    BY DEF States, Open, UnderWay, Stopped, Finished
  <2>4. Fits(m, y)
    BY <1>1, <1>2, <2>2, <2>3, LeftFits
  <2>5. QED
    BY <1>5, <2>4, Applied DEF y
<1>6. QED
  BY <1>3, <1>4, <1>5 DEF Given

LEMMA ThrowStep == ASSUME IInv, NEW m \in Merges, Throw(m) PROVE IInv'
<1> DEFINE x == merge[m]
<1>1. /\ x \in MergeRow /\ x.at \notin {"idle", "return", "delete"} /\ HoldAgrees(m, x) /\ x.st \in States \ {"none"}
      /\ JobAgrees(x) /\ PlaceAgrees(x) /\ x.job = "running"
      /\ x.tries \in Nat /\ left.tries \in Nat /\ x.tries \in 1 .. left.tries
  BY Rows, Working DEF Throw
<1>2. Spent /\ "throw" \in left.kinds
  BY Rows, SpentIs DEF Throw, Fault
<1>3. ASSUME NEW y, merge' = [merge EXCEPT ![m] = y], Fits(m, y) PROVE IInv'
  <2>1. verified' \subseteq Commit /\ verified \subseteq verified' /\ UNCHANGED <<task, run_vars, host_vars, settled>>
    BY DEF Throw, IInv, Typed, HostTyped
  <2>2. QED
    BY <1>2, <1>3, <2>1, RowKeeps DEF Fits, Throw
<1>4. CASE x.tries < left.tries /\ merge' = [merge EXCEPT ![m] = [Ended(x) EXCEPT !.job = "pending"]]
  <2> DEFINE z == Ended(x)
             y == [z EXCEPT !.job = "pending"]
  <2>1. /\ z \in MergeRow /\ z.st = x.st /\ z.basis = x.basis /\ z.onto = x.onto
        /\ z.commit = x.commit /\ z.tries = x.tries /\ z.at = "idle"
    BY <1>1, EndedIs
  <2>2. /\ y \in MergeRow /\ y.st = x.st /\ y.basis = x.basis /\ y.onto = x.onto
        /\ y.commit = x.commit /\ y.tries = x.tries /\ y.at = "idle" /\ y.job = "pending"
    <3> HIDE DEF z
    <3>1. QED
      BY <2>1 DEF MergeRow
  <2> HIDE DEF y
  <2>3. PlaceAgrees(y) /\ JobAgrees(y) /\ (IsReady(y) => IsReady(x))
    BY <1>1, <1>4, <2>2 DEF PlaceAgrees, JobAgrees, IsReady
  <2>4. Fits(m, y)
    BY <1>1, <2>2, <2>3, OnwardFits
  <2>5. QED
    BY <1>3, <1>4, <2>4 DEF y
<1>5. CASE x.st \in Finished /\ merge' = [merge EXCEPT ![m] = Ended(x)]
  <2>1. x.st \notin UnderWay
    BY <1>5 DEF Finished, UnderWay
  <2>2. Fits(m, Ended(x))
    BY <1>1, <1>5, <2>1, EndedFits
  <2>3. QED
    BY <1>3, <1>5, <2>2
<1>6. CASE x.st \notin Finished /\ merge' = [merge EXCEPT ![m] = At(Row(x, "failed"), "return")]
  <2> DEFINE z == Row(x, "failed")
             y == At(z, "return")
  <2>1. "failed" \in States /\ "failed" \in Open /\ x.st \in Open /\ "return" \in Places
    BY <1>1, <1>6 DEF States, Open, Stopped, Places
  <2>2. z \in MergeRow /\ z.st = "failed" /\ z.view = "failed" /\ z.basis = x.basis /\ z.tries = x.tries
        /\ z.job = x.job
    BY <1>1, <2>1, RowIs
  <2>3. /\ y \in MergeRow /\ y.st = "failed" /\ y.view = "failed" /\ y.basis = x.basis
        /\ y.tries = x.tries /\ y.job = "running" /\ y.at = "return"
    <3> HIDE DEF z
    <3>1. QED
      BY <1>1, <2>1, <2>2, AtIs
  <2> HIDE DEF y, z
  <2>4. PlaceAgrees(y) /\ JobAgrees(y)
    BY <1>1, <2>3 DEF PlaceAgrees, JobAgrees, UnderWay, Stopped
  <2>5. HoldAgrees(m, y) /\ ~IsReady(y)
    BY <1>2, <2>3 DEF HoldAgrees, IsReady
  <2>6. Fits(m, y)
    BY <1>1, <2>1, <2>3, <2>4, <2>5 DEF Fits, Turns
  <2>7. QED
    BY <1>3, <1>6, <2>6 DEF y, z
<1>7. QED
  <2>1. merge \in [Merges -> MergeRow]
    BY Rows
  <2>2. QED
    BY <2>1, <1>4, <1>5, <1>6 DEF Throw, GivenUp

-----------------------------------------------------------------------------
(* Steps over all rows: asking for a merge, taking merges back, a crash    *)

(* What becomes of the row of m when the rows become n.                    *)
Renewed(m, n) ==
    \/ n[m] = merge[m]
    \/ /\ n[m].st = merge[m].st /\ n[m].onto = merge[m].onto /\ n[m].commit = merge[m].commit
       /\ n[m].basis = merge[m].basis
       /\ n[m].at = "idle" /\ JobAgrees(n[m]) /\ merge[m].st # "none"
    \/ /\ merge[m].st \in Stopped /\ n[m] = [merge[m] EXCEPT !.st = "superseded"]
       /\ \E o \in Merges : o # m /\ n[o].st # "none"
    \/ /\ merge[m].st = "none"
       /\ n[m].st = "queued" /\ n[m].at = "idle" /\ n[m].job = "pending" /\ n[m].tries = 0

LEMMA RenewedAgrees ==
  ASSUME IInv, Spent, NEW m \in Merges, NEW n \in [Merges -> MergeRow], merge' = n, Renewed(m, n),
         \A p \in Merges : merge[p].st # "none" => n[p].st # "none",
         Leaves(m), verified \subseteq verified'
  PROVE  PlaceAgrees(n[m]) /\ JobAgrees(n[m]) /\ HoldAgrees(m, merge[m])' /\ ReadyOf(m, merge[m])'
<1>1. /\ merge[m] \in MergeRow /\ PlaceAgrees(merge[m]) /\ JobAgrees(merge[m]) /\ HoldAgrees(m, merge[m])
      /\ ReadyOf(m, merge[m]) /\ left.tries \in Nat \ {0} /\ m # 0
  BY Rows DEF ReadyOf
<1>2. CASE n[m] = merge[m]
  BY <1>1, <1>2, ElsewhereAgrees
<1>3. CASE /\ n[m].st = merge[m].st /\ n[m].onto = merge[m].onto /\ n[m].commit = merge[m].commit
           /\ n[m].at = "idle" /\ JobAgrees(n[m]) /\ merge[m].st # "none"
  <2>1. PlaceAgrees(n[m])
    BY <1>3 DEF PlaceAgrees
  <2>2. IsReady(n[m]) => IsReady(merge[m])
    BY <1>3 DEF IsReady
  <2>3. CASE rec'.m = m
    <3>1. rec' = rec /\ branch' = branch /\ left'.kinds = left.kinds
      BY <2>3 DEF Leaves, Spent
    <3>2. HoldAgrees(m, merge[m])'
      BY <1>1, <1>3, <3>1 DEF HoldAgrees, Held
    <3>3. ReadyOf(m, merge[m])'
      <4>1. IsReady(merge[m])' = IsReady(n[m]) /\ merge'[m] = n[m]
        BY DEF IsReady
      <4>2. StaleOf(m, merge[m]) => StaleOf(m, merge[m])'
        BY <1>3, <3>1 DEF StaleOf
      <4>3. QED
        BY <1>1, <1>3, <2>2, <4>1, <4>2 DEF ReadyOf
    <3>4. QED
      BY <1>3, <2>1, <3>2, <3>3
  <2>4. CASE rec'.m # m
    BY <1>3, <2>1, <2>4 DEF HoldAgrees, ReadyOf, StaleOf
  <2>5. QED
    BY <2>3, <2>4
<1>4. CASE merge[m].st \in Stopped /\ n[m] = [merge[m] EXCEPT !.st = "superseded"]
           /\ \E o \in Merges : o # m /\ n[o].st # "none"
  <2>1. /\ n[m].st = "superseded" /\ n[m].at = merge[m].at /\ n[m].job = merge[m].job
        /\ n[m].tries = merge[m].tries /\ n[m].view = merge[m].view
    BY <1>1, <1>4 DEF MergeRow
  <2>2. merge[m].at \in {"idle", "return", "begin", "give", "given"}
    BY <1>1, <1>4, RowFields DEF PlaceAgrees, Stopped
  <2>3. PlaceAgrees(n[m]) /\ JobAgrees(n[m])
    BY <1>1, <1>4, <2>1, <2>2 DEF PlaceAgrees, JobAgrees, Stopped, UnderWay
  <2>4. ~IsReady(n[m])
    BY <2>1, <2>2 DEF IsReady
  <2>5. HoldAgrees(m, merge[m])'
    <3>1. CASE rec'.m = m
      <4>1. rec' = rec /\ branch' = branch /\ left'.kinds = left.kinds
        BY <3>1 DEF Leaves, Spent
      <4>2. Held /\ rec.m = m => "throw" \in left.kinds
        BY <1>1, <1>4 DEF HoldAgrees, Stopped
      <4>3. merge[m].at \in {"handed", "given"} => rec.m # m
        BY <1>1 DEF HoldAgrees
      <4>4. QED
        BY <1>4, <2>1, <2>2, <4>1, <4>2, <4>3 DEF HoldAgrees, Held
    <3>2. CASE rec'.m # m
      BY <3>2 DEF HoldAgrees
    <3>3. QED
      BY <3>1, <3>2
  <2>6. ReadyOf(m, merge[m])'
    BY <2>4 DEF ReadyOf, IsReady
  <2>7. QED
    BY <2>3, <2>5, <2>6
<1>5. CASE /\ merge[m].st = "none"
           /\ n[m].st = "queued" /\ n[m].at = "idle" /\ n[m].job = "pending" /\ n[m].tries = 0
  <2>1. PlaceAgrees(n[m]) /\ JobAgrees(n[m])
    BY <1>1, <1>5 DEF PlaceAgrees, JobAgrees
  <2>2. ReadyOf(m, merge[m])'
    BY <1>5 DEF ReadyOf, IsReady
  <2>3. rec'.m = m => rec'.st \notin {"preparing", "conflict"}
    <3>1. SUFFICES ASSUME rec'.m = m, Held PROVE FALSE
      BY DEF Leaves, Held
    <3>2. rec.m = m
      BY <3>1 DEF Leaves
    <3>3. QED
      BY <1>1, <1>5, <3>1, <3>2 DEF HoldAgrees
  <2>4. HoldAgrees(m, merge[m])'
    BY <1>5, <2>3 DEF HoldAgrees, Held
  <2>5. QED
    BY <2>1, <2>2, <2>4
<1>6. QED
  BY <1>2, <1>3, <1>4, <1>5 DEF Renewed

LEMMA RenewalKeeps ==
  ASSUME IInv, Spent, NEW n \in [Merges -> MergeRow], merge' = n, \A m \in Merges : Renewed(m, n),
         \A m, o \in Merges : n[m].st \in Open /\ n[o].st \in Open => m = o,
         RunsTyped', HostTyped', HostIsSound', LandedIsOver', LateOnce',
         \A m \in Merges : Leaves(m), verified \subseteq verified'
  PROVE  IInv'
<1>1. \A p \in Merges : merge[p].st # "none" => n[p].st # "none"
  <2>1. SUFFICES ASSUME NEW p \in Merges, merge[p].st # "none" PROVE n[p].st # "none"
    OBVIOUS
  <2>2. merge[p] \in MergeRow /\ Renewed(p, n)
    BY Rows
  <2>3. QED
    BY <2>1, <2>2 DEF Renewed, MergeRow
<1>2. \A m \in Merges : /\ PlaceAgrees(n[m]) /\ JobAgrees(n[m])
                        /\ HoldAgrees(m, merge[m])' /\ ReadyOf(m, merge[m])'
  BY <1>1, RenewedAgrees
<1>3. RowsAreSound'
  BY <1>2 DEF RowsAreSound, PlaceAgrees, JobAgrees, Spent
<1>4. HoldsAgree' /\ ReadyIsVerified'
  BY <1>2 DEF HoldsAgree, ReadyIsVerified, ReadyOf, StaleOf, Stale
<1>5. OneOpen' /\ Typed'
  BY DEF OneOpen, Typed
<1>6. QED
  BY <1>3, <1>4, <1>5 DEF IInv

(* Steps over the rows that the host and the Runs have no part in.         *)
LEMMA RenewalAlone ==
  ASSUME IInv, Spent, NEW n \in [Merges -> MergeRow], merge' = n, \A m \in Merges : Renewed(m, n),
         \A m, o \in Merges : n[m].st \in Open /\ n[o].st \in Open => m = o,
         UNCHANGED <<run_vars, host_vars, settled, verified>>, task' \in {"open", "done"},
         \A m \in Merges : n[m].basis \in {merge[m].basis, 0}
  PROVE  IInv'
<1>1. UNCHANGED <<run, attempt, begun, main, branch, wt, rec, answered, landed, settled, verified>>
  BY DEF run_vars, host_vars
<1>2. HostTyped' /\ HostIsSound' /\ LandedIsOver' /\ RunsTyped'
  BY <1>1 DEF IInv, Typed, HostTyped, RunsTyped, HostIsSound, LandedIsOver, Spent
<1>3. LateOnce'
  BY <1>1 DEF IInv, LateOnce, Spent
<1>4. \A m \in Merges : Leaves(m)
  BY <1>1 DEF Leaves
<1>5. QED
  BY <1>1, <1>2, <1>3, <1>4, RenewalKeeps

(* Rows whose jobs change, and nothing else of them.                       *)
LEMMA JobsAlone ==
  ASSUME IInv, Spent, NEW n \in [Merges -> MergeRow], merge' = n,
         \A m \in Merges :
            \/ n[m] = merge[m]
            \/ /\ n[m].st = merge[m].st /\ n[m].onto = merge[m].onto /\ n[m].commit = merge[m].commit
               /\ n[m].basis = merge[m].basis
               /\ n[m].at = "idle" /\ JobAgrees(n[m]) /\ merge[m].st # "none",
         UNCHANGED <<run_vars, host_vars, settled, verified>>, task' \in {"open", "done"}
  PROVE  IInv'
<1>1. \A m \in Merges : Renewed(m, n)
  BY DEF Renewed
<1>2. \A m, o \in Merges : n[m].st \in Open /\ n[o].st \in Open => m = o
  BY DEF IInv, OneOpen
<1>3. \A m \in Merges : n[m].basis \in {merge[m].basis, 0}
  OBVIOUS
<1>4. QED
  BY <1>1, <1>2, <1>3, RenewalAlone

LEMMA CrashStep == ASSUME IInv, Crash PROVE IInv'
<1> DEFINE Requeued(m) == [Ended(merge[m]) EXCEPT !.job = "pending"]
           n == [m \in Merges |-> IF merge[m].job # "running" THEN merge[m]
                                  ELSE IF merge[m].tries < left.tries THEN Requeued(m)
                                  ELSE Ended(merge[m])]
<1>1. Spent /\ "crash" \in left.kinds /\ merge' = n /\ task' \in {"open", "done"}
      /\ UNCHANGED <<run_vars, host_vars, settled, verified>>
  <2>1. left \in Limits /\ task \in {"open", "done"}
    BY DEF IInv, Typed, RunsTyped
  <2>2. QED
    BY <2>1, SpentIs DEF Crash, Fault
<1>2. ASSUME NEW m \in Merges, merge[m].job = "running"
      PROVE  /\ Ended(merge[m]) \in MergeRow /\ Requeued(m) \in MergeRow
             /\ \A y \in {Ended(merge[m]), Requeued(m)} :
                   /\ y.st = merge[m].st /\ y.onto = merge[m].onto /\ y.commit = merge[m].commit
                   /\ y.basis = merge[m].basis /\ y.tries = merge[m].tries /\ y.at = "idle"
             /\ Ended(merge[m]).job = "none" /\ Requeued(m).job = "pending"
  <2> DEFINE z == Ended(merge[m])
  <2>1. /\ z \in MergeRow /\ z.st = merge[m].st /\ z.basis = merge[m].basis /\ z.onto = merge[m].onto
        /\ z.commit = merge[m].commit /\ z.tries = merge[m].tries /\ z.at = "idle" /\ z.job = "none"
    BY Rows, EndedIs
  <2> HIDE DEF z
  <2>2. LET y == [z EXCEPT !.job = "pending"]
        IN  /\ y \in MergeRow /\ y.st = merge[m].st /\ y.basis = merge[m].basis /\ y.onto = merge[m].onto
            /\ y.commit = merge[m].commit /\ y.tries = merge[m].tries /\ y.at = "idle" /\ y.job = "pending"
    BY <2>1 DEF MergeRow
  <2>3. QED
    BY <2>1, <2>2 DEF z
<1>3. ASSUME NEW m \in Merges, merge[m].job = "running"
      PROVE  merge[m].tries \in Nat /\ merge[m].tries <= left.tries /\ merge[m].st # "none"
             /\ JobAgrees(merge[m])
  <2>1. merge[m] \in MergeRow /\ JobAgrees(merge[m])
    BY Rows
  <2>2. QED
    BY <1>3, <2>1, RowFields DEF JobAgrees
<1> HIDE DEF Requeued
<1>4. n \in [Merges -> MergeRow]
  BY <1>2, Rows
<1>5. ASSUME NEW m \in Merges, merge[m].job = "running", merge[m].tries < left.tries
      PROVE  JobAgrees(Requeued(m))
  <2>1. Requeued(m).at = "idle" /\ Requeued(m).job = "pending" /\ Requeued(m).st = merge[m].st
        /\ Requeued(m).tries = merge[m].tries
    BY <1>2, <1>5
  <2>2. QED
    BY <2>1, <1>3, <1>5 DEF JobAgrees
<1>6. ASSUME NEW m \in Merges, merge[m].job = "running"
      PROVE  JobAgrees(Ended(merge[m]))
  <2>1. Ended(merge[m]).at = "idle" /\ Ended(merge[m]).job = "none" /\ Ended(merge[m]).st = merge[m].st
        /\ Ended(merge[m]).tries = merge[m].tries
    BY <1>2, <1>6
  <2>2. QED
    BY <2>1, <1>1, <1>3, <1>6 DEF JobAgrees
<1>7. QED
  BY <1>1, <1>2, <1>3, <1>4, <1>5, <1>6, JobsAlone

LEMMA ReopenStep == ASSUME IInv, Reopen PROVE IInv'
<1> DEFINE Anew(m) == [merge[m] EXCEPT !.job = "pending", !.tries = 0]
           n == Withdrawn
<1>1. ASSUME NEW m \in Merges
      PROVE  /\ Anew(m) \in MergeRow /\ Anew(m).st = merge[m].st /\ Anew(m).onto = merge[m].onto
             /\ Anew(m).commit = merge[m].commit /\ Anew(m).basis = merge[m].basis
             /\ Anew(m).tries = 0 /\ Anew(m).job = "pending" /\ Anew(m).at = merge[m].at
  <2>1. merge[m] \in MergeRow
    BY Rows
  <2>2. QED
    BY <2>1 DEF MergeRow
<1> HIDE DEF Anew
<1>2. n = [m \in Merges |-> IF merge[m].st \notin Finished \cup {"none"} /\ merge[m].job = "none"
                            THEN Anew(m) ELSE merge[m]]
  BY DEF Withdrawn, Anew
<1> HIDE DEF n
<1>3. n \in [Merges -> MergeRow]
  BY <1>1, <1>2, Rows
<1>4. ASSUME NEW m \in Merges, merge[m].st # "none", merge[m].job = "none"
      PROVE  JobAgrees(Anew(m)) /\ Anew(m).at = "idle"
  BY <1>1, <1>4, Rows DEF JobAgrees
<1>5. Spent /\ merge' = n /\ task' \in {"open", "done"} /\ UNCHANGED <<run_vars, host_vars, settled, verified>>
  <2>1. left \in Limits
    BY DEF IInv, Typed, RunsTyped
  <2>2. QED
    BY <2>1, SpentIs DEF Reopen, n
<1>6. QED
  BY <1>1, <1>2, <1>3, <1>4, <1>5, JobsAlone

(* What a request for a merge makes of the rows.                           *)
LEMMA Asks ==
  ASSUME IInv, NEW b \in Runs \cup {0}, NEW n \in AskedBy(b)
  PROVE  /\ n \in [Merges -> MergeRow] /\ \A m \in Merges : Renewed(m, n)
         /\ \A m, o \in Merges : n[m].st \in Open /\ n[o].st \in Open => m = o
         /\ \A m \in Merges : n[m].basis \in {merge[m].basis, b}
         /\ \/ \E m \in Merges : n[m].st \in Open
            \/ b # 0 /\ \E m \in Merges : merge[m].basis = b
<1> DEFINE Past(m) == merge[m].st \in Stopped /\ (b = 0 \/ merge[m].basis # b)
           Over(m) == [merge[m] EXCEPT !.st = "superseded"]
           kept == [m \in Merges |-> IF Past(m) THEN Over(m) ELSE merge[m]]
           held == \E m \in Merges : kept[m].st \in UnderWay
           known == b # 0 /\ \E m \in Merges : kept[m].basis = b
           Asked == [NoMerge EXCEPT !.st = "queued", !.basis = b, !.job = "pending"]
           Put(m) == [kept EXCEPT ![m] = Asked]
<1>1. \A m \in Merges : merge[m] \in MergeRow /\ JobAgrees(merge[m]) /\ left.tries \in Nat \ {0}
  BY Rows
<1>2. \A m \in Merges : /\ Over(m) \in MergeRow /\ Over(m).st = "superseded"
                        /\ Over(m).basis = merge[m].basis
  BY <1>1 DEF MergeRow, States, Open, Finished
<1>3. /\ Asked \in MergeRow /\ Asked.st = "queued" /\ Asked.basis = b /\ Asked.at = "idle"
      /\ Asked.job = "pending" /\ Asked.tries = 0
  BY NothingAsked DEF MergeRow, States, Open, UnderWay
<1>4. "superseded" \notin Open /\ "queued" \in Open /\ UnderWay \subseteq Open /\ Stopped \subseteq Open
      /\ "none" \notin Open
  BY DEF Open, UnderWay, Stopped
<1>5. \/ n = kept /\ (held \/ known)
      \/ ~held /\ ~known /\ \E m \in Merges : kept[m].st = "none" /\ n = Put(m)
  <2> DEFINE free == {m \in Merges : m <= left.merges /\ kept[m].st = "none"}
             first == {f \in free : \A g \in free : f <= g}
  <2>1. AskedBy(b) = IF held \/ known THEN {kept} ELSE {Put(m) : m \in first}
    BY Zenon DEF AskedBy
  <2>2. \A m \in first : m \in Merges /\ kept[m].st = "none"
    OBVIOUS
  <2> HIDE DEF kept, Put, first, held, known
  <2>3. QED
    BY <2>1, <2>2
<1> HIDE DEF Over, Asked
<1>6. kept \in [Merges -> MergeRow] /\ \A m \in Merges : kept[m] = IF Past(m) THEN Over(m) ELSE merge[m]
  BY <1>1, <1>2
<1> HIDE DEF kept
<1>7. \A m \in Merges : /\ kept[m].basis = merge[m].basis
                        /\ kept[m].st \in Open => merge[m].st \in Open
                        /\ kept[m].st = "none" => merge[m].st = "none"
                        /\ Past(m) => kept[m] = Over(m)
                        /\ ~Past(m) => kept[m] = merge[m]
  BY <1>2, <1>4, <1>6
<1>8. CASE n = kept /\ (held \/ known)
  <2>1. ASSUME NEW m \in Merges, Past(m) PROVE \E o \in Merges : o # m /\ kept[o].st # "none"
    <3>1. kept[m].st = "superseded"
      BY <1>2, <1>7, <2>1
    <3>2. CASE held
      BY <3>1, <3>2 DEF UnderWay
    <3>3. CASE known
      <4>1. PICK o \in Merges : kept[o].basis = b /\ b # 0
        BY <3>3
      <4>2. merge[o].st # "none" /\ o # m
        BY <1>1, <1>7, <2>1, <4>1 DEF JobAgrees
      <4>3. QED
        BY <1>7, <4>2
    <3>4. QED
      BY <1>8, <3>2, <3>3
  <2>2. \A m \in Merges : Renewed(m, n)
    BY <1>7, <1>8, <2>1 DEF Renewed, Over
  <2>3. \A m, o \in Merges : n[m].st \in Open /\ n[o].st \in Open => m = o
    BY <1>7, <1>8 DEF IInv, OneOpen
  <2>4. \/ \E m \in Merges : n[m].st \in Open
        \/ b # 0 /\ \E m \in Merges : merge[m].basis = b
    BY <1>4, <1>7, <1>8
  <2>5. QED
    BY <1>6, <1>7, <1>8, <2>2, <2>3, <2>4
<1>9. ASSUME ~held, ~known, NEW k \in Merges, kept[k].st = "none", n = Put(k)
      PROVE  /\ n \in [Merges -> MergeRow] /\ \A m \in Merges : Renewed(m, n)
             /\ \A m, o \in Merges : n[m].st \in Open /\ n[o].st \in Open => m = o
             /\ \A m \in Merges : n[m].basis \in {merge[m].basis, b}
             /\ \E m \in Merges : n[m].st \in Open
  <2>1. /\ n \in [Merges -> MergeRow] /\ n[k] = Asked /\ \A m \in Merges \ {k} : n[m] = kept[m]
    BY <1>3, <1>6, <1>9
  <2>2. merge[k].st = "none"
    BY <1>7, <1>9
  <2>3. \A m \in Merges : Renewed(m, n)
    <3>1. SUFFICES ASSUME NEW m \in Merges PROVE Renewed(m, n)
      OBVIOUS
    <3>2. CASE m = k
      BY <1>3, <2>1, <2>2, <3>2 DEF Renewed
    <3>3. CASE m # k /\ Past(m)
      <4>1. n[m] = Over(m) /\ n[k].st # "none"
        BY <1>3, <1>7, <2>1, <3>3
      <4>2. QED
        BY <3>3, <4>1 DEF Renewed, Over
    <3>4. CASE m # k /\ ~Past(m)
      BY <1>7, <2>1, <3>4 DEF Renewed
    <3>5. QED
      BY <3>2, <3>3, <3>4
  <2>4. \A m \in Merges \ {k} : n[m].st \notin Open
    <3>1. SUFFICES ASSUME NEW m \in Merges \ {k}, kept[m].st \in Open PROVE FALSE
      BY <2>1
    <3>2. kept[m].st \in Stopped
      BY <1>9, <3>1 DEF Open
    <3>3. ~Past(m) /\ kept[m] = merge[m]
      BY <1>2, <1>4, <1>7, <3>1
    <3>4. b # 0 /\ kept[m].basis = b
      BY <3>2, <3>3
    <3>5. QED
      BY <1>9, <3>4
  <2>5. QED
    BY <1>3, <1>4, <1>7, <2>1, <2>3, <2>4
<1>10. QED
  BY <1>5, <1>8, <1>9

LEMMA CloseStep == ASSUME IInv, Close PROVE IInv'
<1>1. Spent /\ task' \in {"open", "done"} /\ UNCHANGED <<run_vars, host_vars, settled, verified>>
  <2>1. left \in Limits
    BY DEF IInv, Typed, RunsTyped
  <2>2. QED
    BY <2>1, SpentIs DEF Close
<1>2. CASE merge' \in AskedBy(0)
  BY <1>1, <1>2, Asks, RenewalAlone
<1>3. CASE merge' = merge
  <2>1. merge \in [Merges -> MergeRow]
    BY DEF IInv, Typed
  <2>2. QED
    BY <1>1, <1>3, <2>1, JobsAlone
<1>4. QED
  BY <1>2, <1>3 DEF Close

-----------------------------------------------------------------------------
(* The Runs                                                                *)

RunStates == {"none", "queued", "admitted", "started", "working", "ended", "owed", "held", "over"}

(* A Run that is not over moves on: no late merge is keyed by it.          *)
LEMMA RunMovesOn ==
  ASSUME IInv, NEW r \in Runs, NEW s \in RunStates, run[r] # "over", run' = [run EXCEPT ![r] = s],
         s = "held" => left.resumes, attempt' \in [Runs -> {1, 2}], begun' \subseteq Runs,
         left' \in Limits, left'.resumes = left.resumes, task' = task,
         \A m \in Merges : merge'[m].basis = merge[m].basis
  PROVE  RunsTyped' /\ LateOnce'
<1>1. run \in [Runs -> RunStates] /\ task \in {"open", "done"}
  BY DEF IInv, Typed, RunsTyped, RunStates
<1>2. run' \in [Runs -> RunStates] /\ run'[r] = s /\ \A q \in Runs \ {r} : run'[q] = run[q]
  BY <1>1
<1>3. RunsTyped'
  BY <1>1, <1>2 DEF RunsTyped, RunStates
<1>4. LateOnce'
  <2>1. SUFFICES ASSUME ~left.resumes
                 PROVE  /\ \A q \in Runs : run'[q] # "held"
                        /\ \A m \in Merges : merge[m].basis # 0 => run'[merge[m].basis] = "over"
    BY DEF LateOnce
  <2>2. \A q \in Runs : run'[q] # "held"
    BY <1>2, <2>1 DEF IInv, LateOnce
  <2>3. ASSUME NEW m \in Merges, merge[m].basis # 0 PROVE run'[merge[m].basis] = "over"
    <3>1. merge[m].basis \in Runs
      BY <2>3, Rows, RowFields
    <3>2. run[merge[m].basis] = "over"
      BY <2>1, <2>3 DEF IInv, LateOnce
    <3>3. QED
      BY <1>2, <3>1, <3>2
  <2>4. QED
    BY <2>2, <2>3
<1>5. QED
  BY <1>3, <1>4

(* Only the Run and the host change.                                       *)
LEMMA RunOnHost ==
  ASSUME IInv, Spent, NEW r \in Runs, NEW s \in RunStates, run[r] # "over", run' = [run EXCEPT ![r] = s],
         s = "held" => left.resumes, attempt' \in [Runs -> {1, 2}], begun' \subseteq Runs,
         UNCHANGED <<task, merge, verified>>,
         HostTyped', HostIsSound', LandedIsOver', \A m \in Merges : Leaves(m)
  PROVE  IInv'
<1>1. RunsTyped' /\ LateOnce'
  BY RunMovesOn DEF Spent
<1>2. \A m \in Merges : Renewed(m, merge)
  BY DEF Renewed
<1>3. merge \in [Merges -> MergeRow] /\ \A m, o \in Merges : merge[m].st \in Open /\ merge[o].st \in Open => m = o
  BY DEF IInv, Typed, OneOpen
<1>4. QED
  BY <1>1, <1>2, <1>3, RenewalKeeps

LEMMA RunAlone ==
  ASSUME IInv, Spent, NEW r \in Runs, NEW s \in RunStates, run[r] # "over", run' = [run EXCEPT ![r] = s],
         s = "held" => left.resumes, attempt' \in [Runs -> {1, 2}], begun' \subseteq Runs,
         UNCHANGED <<task, merge, host_vars, settled, verified>>
  PROVE  IInv'
<1>1. UNCHANGED <<main, branch, wt, rec, answered, landed>>
  BY DEF host_vars
<1>2. HostTyped' /\ HostIsSound' /\ LandedIsOver'
  BY <1>1 DEF IInv, Typed, HostTyped, HostIsSound, LandedIsOver
<1>3. \A m \in Merges : Leaves(m)
  BY <1>1 DEF Leaves
<1>4. QED
  BY <1>2, <1>3, RunOnHost

LEMMA RunsSound ==
  ASSUME IInv
  PROVE  /\ run \in [Runs -> RunStates] /\ attempt \in [Runs -> {1, 2}] /\ begun \subseteq Runs
         /\ left \in Limits /\ (UNCHANGED left => Spent) /\ (Fault("lost") => Spent)
<1>1. left \in Limits /\ run \in [Runs -> RunStates] /\ attempt \in [Runs -> {1, 2}] /\ begun \subseteq Runs
  BY DEF IInv, Typed, RunsTyped, RunStates
<1>2. QED
  BY <1>1, SpentIs

LEMMA QueueStep == ASSUME IInv, NEW r \in Runs, Queue(r) PROVE IInv'
<1>1. "queued" \in RunStates /\ "queued" # "held" /\ run[r] # "over" /\ run' = [run EXCEPT ![r] = "queued"]
  BY DEF RunStates, Queue
<1>2. Spent /\ attempt' \in [Runs -> {1, 2}] /\ begun' \subseteq Runs
      /\ UNCHANGED <<task, merge, host_vars, settled, verified>>
  BY RunsSound DEF Queue
<1>3. QED
  BY <1>1, <1>2, RunAlone

LEMMA AdmitStep == ASSUME IInv, NEW r \in Runs, Admit(r) PROVE IInv'
<1> DEFINE s == IF left.lag THEN "admitted" ELSE "started"
<1>1. s \in RunStates /\ s # "held" /\ run[r] # "over" /\ run' = [run EXCEPT ![r] = s]
  BY DEF RunStates, Admit
<1>2. Spent /\ attempt' \in [Runs -> {1, 2}] /\ begun' \subseteq Runs
      /\ UNCHANGED <<task, merge, host_vars, settled, verified>>
  BY RunsSound DEF Admit
<1>3. QED
  BY <1>1, <1>2, RunAlone

LEMMA StartStep == ASSUME IInv, NEW r \in Runs, Start(r) PROVE IInv'
<1>1. "started" \in RunStates /\ "started" # "held" /\ run[r] # "over" /\ run' = [run EXCEPT ![r] = "started"]
  BY DEF RunStates, Start
<1>2. Spent /\ attempt' \in [Runs -> {1, 2}] /\ begun' \subseteq Runs
      /\ UNCHANGED <<task, merge, host_vars, settled, verified>>
  BY RunsSound DEF Start
<1>3. QED
  BY <1>1, <1>2, RunAlone

LEMMA EndStep == ASSUME IInv, NEW r \in Runs, End(r) PROVE IInv'
<1>1. "ended" \in RunStates /\ "ended" # "held" /\ run[r] # "over" /\ run' = [run EXCEPT ![r] = "ended"]
  BY DEF RunStates, End
<1>2. Spent /\ attempt' \in [Runs -> {1, 2}] /\ begun' \subseteq Runs
      /\ UNCHANGED <<task, merge, host_vars, settled, verified>>
  BY RunsSound DEF End
<1>3. QED
  BY <1>1, <1>2, RunAlone

LEMMA ResumeStep == ASSUME IInv, NEW r \in Runs, Resume(r) PROVE IInv'
<1>1. "queued" \in RunStates /\ "queued" # "held" /\ run[r] # "over" /\ run' = [run EXCEPT ![r] = "queued"]
  BY DEF RunStates, Resume
<1>2. Spent /\ attempt' \in [Runs -> {1, 2}] /\ begun' \subseteq Runs
      /\ UNCHANGED <<task, merge, host_vars, settled, verified>>
  BY RunsSound DEF Resume
<1>3. QED
  BY <1>1, <1>2, RunAlone

(* The parts of the invariant that are about the host.                     *)
LEMMA Hosts ==
  ASSUME IInv
  PROVE  /\ HostTyped /\ HostIsSound /\ LandedIsOver
         /\ main.v \in Nat /\ main.v >= 1 /\ main.has \subseteq Work /\ main.tip \in Commit
         /\ branch.on \in BOOLEAN /\ branch.has \subseteq Work /\ branch.tip \in Commit
         /\ wt \in Runs \cup {0} /\ 0 \notin Runs /\ 0 \notin Merges
         /\ rec.st \in {"none", "preparing", "conflict", "rebased"} /\ rec.m \in Merges \cup {0}
         /\ rec.onto \in Nat /\ rec.has \subseteq Work /\ rec.commit \in Commit
         /\ \A r \in Runs : Unit(r) \in Work
         /\ Leftovers \subseteq Work
<1>1. \A r \in Runs : Unit(r) \in Work
  BY RunsSound DEF Unit, Work
<1>2. Leftovers \subseteq Work
  BY <1>1 DEF Leftovers, IInv, Typed, HostTyped
<1>3. QED
  BY <1>1, <1>2, Given0 DEF IInv, Typed, HostTyped

LEMMA LaunchStep == ASSUME IInv, NEW r \in Runs, Launch(r) PROVE IInv'
<1>1. Spent /\ attempt' \in [Runs -> {1, 2}] /\ begun' \subseteq Runs /\ run[r] # "over"
      /\ UNCHANGED <<task, merge, verified, main, landed>>
  BY RunsSound DEF Launch
<1>2. CASE rec.st \in {"preparing", "conflict"}
  <2>1. "ended" \in RunStates /\ "ended" # "held" /\ run' = [run EXCEPT ![r] = "ended"]
    BY <1>2 DEF RunStates, Launch
  <2>2. UNCHANGED <<host_vars, settled>>
    BY <1>2 DEF Launch, host_vars
  <2>3. QED
    BY <1>1, <2>1, <2>2, RunAlone
<1>3. CASE rec.st \notin {"preparing", "conflict"}
  <2> DEFINE rest == Leftovers \ {Unit(r)}
  <2>1. "working" \in RunStates /\ "working" # "held" /\ run' = [run EXCEPT ![r] = "working"]
    BY <1>3 DEF RunStates, Launch
  <2>2. /\ rec' = NoRec /\ wt' = r /\ settled' = settled \cup rest
        /\ branch' = IF ~branch.on THEN [NoBranch EXCEPT !.on = TRUE, !.has = main.has]
                     ELSE IF rest = {} THEN branch
                     ELSE [branch EXCEPT !.has = @ \cup rest, !.tip = NoCommit]
        /\ answered' = IF wt \in {0, r} THEN answered ELSE answered \cup {wt}
    BY <1>3 DEF Launch
  <2>3. branch' \in [on : BOOLEAN, has : SUBSET Work, tip : Commit] /\ branch'.on
        /\ (branch'.tip = NoCommit \/ branch' = branch)
    <3>1. CASE ~branch.on
      BY <2>2, <3>1, Hosts, Nothing
    <3>2. CASE branch.on /\ rest = {}
      BY <2>2, <3>2, Hosts DEF HostTyped
    <3>3. CASE branch.on /\ rest # {}
      BY <2>2, <3>3, Hosts, Nothing DEF HostTyped
    <3>4. QED
      BY <3>1, <3>2, <3>3, Hosts
  <2>4. HostTyped'
    BY <1>1, <2>2, <2>3, Hosts, Nothing DEF HostTyped
  <2>5. HostIsSound'
    BY <1>1, <2>2, <2>3, Hosts, Nothing DEF HostIsSound
  <2>6. LandedIsOver'
    BY <1>1, <2>2, <2>3, Hosts, Nothing DEF LandedIsOver
  <2>7. \A m \in Merges : Leaves(m)
    BY <2>2, Nothing, Hosts DEF Leaves
  <2>8. QED
    BY <1>1, <2>1, <2>4, <2>5, <2>6, <2>7, RunOnHost
<1>4. QED
  BY <1>2, <1>3

LEMMA HostSettled ==
  ASSUME IInv, NEW r \in Runs, ~SettleBusy(r), HostSettles(r), UNCHANGED <<main, rec, landed, verified>>
  PROVE  HostTyped' /\ HostIsSound' /\ LandedIsOver' /\ \A m \in Merges : Leaves(m)
<1>1. CASE wt = r
  <2>1. rec.st = "none" /\ rec = NoRec /\ branch.on
    BY <1>1, Hosts DEF SettleBusy, Replayed, HostIsSound
  <2>2. /\ branch' = [branch EXCEPT !.has = @ \cup {Unit(r)}, !.tip = NoCommit]
        /\ settled' = settled \cup {Unit(r)} /\ answered' = answered \cup {r} /\ wt' = 0
    BY <1>1 DEF HostSettles
  <2>3. /\ branch' \in [on : BOOLEAN, has : SUBSET Work, tip : Commit]
        /\ branch'.on /\ branch'.tip = NoCommit
    <3>1. branch \in [on : BOOLEAN, has : SUBSET Work, tip : Commit] /\ Unit(r) \in Work
      BY Hosts DEF HostTyped
    <3>2. branch.has \cup {Unit(r)} \in SUBSET Work
      BY <3>1
    <3>3. QED
      BY <2>1, <2>2, <3>1, <3>2, Nothing
  <2>4. HostTyped'
    BY <2>1, <2>2, <2>3, Hosts, Nothing DEF HostTyped
  <2>5. HostIsSound' /\ LandedIsOver'
    BY <2>1, <2>2, <2>3, Hosts, Nothing DEF HostIsSound, LandedIsOver
  <2>6. \A m \in Merges : Leaves(m)
    BY <2>1, Nothing, Hosts DEF Leaves
  <2>7. QED
    BY <2>4, <2>5, <2>6
<1>2. CASE wt # r
  <2>1. UNCHANGED <<branch, settled, answered, wt>>
    BY <1>2 DEF HostSettles
  <2>2. QED
    BY <2>1, Hosts DEF HostTyped, HostIsSound, LandedIsOver, Leaves
<1>3. QED
  BY <1>1, <1>2

LEMMA SettleStep == ASSUME IInv, NEW r \in Runs, Settle(r) PROVE IInv'
<1>1. /\ run[r] \in {"ended", "owed"} /\ run[r] # "over" /\ attempt' \in [Runs -> {1, 2}] /\ begun' \subseteq Runs
      /\ UNCHANGED <<task, attempt, begun, main, rec, landed, verified>>
  BY RunsSound DEF Settle
<1>2. CASE run' = [run EXCEPT ![r] = "owed"] /\ UNCHANGED <<merge, branch, wt, answered, settled, left>>
  <2>1. Spent /\ UNCHANGED host_vars /\ "owed" \in RunStates /\ "owed" # "held"
    BY <1>1, <1>2, RunsSound DEF host_vars, RunStates
  <2>2. QED
    BY <1>1, <1>2, <2>1, RunAlone
<1>3. CASE ~SettleBusy(r) /\ HostSettles(r) /\ Fault("lost") /\ run' = [run EXCEPT ![r] = "owed"] /\ merge' = merge
  <2>1. Spent /\ "owed" \in RunStates /\ "owed" # "held"
    BY <1>3, RunsSound DEF RunStates
  <2>2. HostTyped' /\ HostIsSound' /\ LandedIsOver' /\ \A m \in Merges : Leaves(m)
    BY <1>1, <1>3, HostSettled
  <2>3. QED
    BY <1>1, <1>3, <2>1, <2>2, RunOnHost
<1>4. ASSUME ~SettleBusy(r), HostSettles(r), merge' \in LateMerge(r), UNCHANGED left,
             NEW s \in {"over", "held"}, run' = [run EXCEPT ![r] = s], s = "held" => left.resumes
      PROVE  IInv'
  <2>1. Spent /\ s \in RunStates
    BY <1>4, RunsSound DEF RunStates
  <2>2. HostTyped' /\ HostIsSound' /\ LandedIsOver' /\ \A m \in Merges : Leaves(m)
    BY <1>1, <1>4, HostSettled
  <2>3. CASE merge' = merge
    BY <1>1, <1>4, <2>1, <2>2, <2>3, RunOnHost
  <2>4. CASE merge' \in AskedBy(r)
    <3>1. /\ merge' \in [Merges -> MergeRow] /\ \A m \in Merges : Renewed(m, merge')
          /\ \A m, o \in Merges : merge'[m].st \in Open /\ merge'[o].st \in Open => m = o
          /\ \A m \in Merges : merge'[m].basis \in {merge[m].basis, r}
      BY <2>4, Asks
    <3>2. /\ run' \in [Runs -> RunStates] /\ run'[r] = s /\ \A q \in Runs \ {r} : run'[q] = run[q]
          /\ task \in {"open", "done"}
      BY <1>4, <2>1, RunsSound DEF IInv, Typed, RunsTyped
    <3>3. RunsTyped'
      BY <1>1, <2>1, <3>2 DEF RunsTyped, Spent, RunStates
    <3>4. LateOnce'
      <4>1. SUFFICES ASSUME ~left.resumes
                     PROVE  /\ \A q \in Runs : run'[q] # "held"
                            /\ \A m \in Merges : merge'[m].basis # 0 => run'[merge'[m].basis] = "over"
        BY <1>4 DEF LateOnce
      <4>2. s = "over"
        BY <1>4, <4>1
      <4>3. \A q \in Runs : run'[q] # "held"
        BY <3>2, <4>1, <4>2 DEF IInv, LateOnce
      <4>4. ASSUME NEW m \in Merges, merge'[m].basis # 0, merge'[m].basis # r
            PROVE  run'[merge'[m].basis] = "over"
        <5>1. merge'[m].basis = merge[m].basis /\ merge[m].basis \in Runs
          BY <3>1, <4>4, Rows, RowFields
        <5>2. run[merge[m].basis] = "over"
          BY <4>1, <4>4, <5>1 DEF IInv, LateOnce
        <5>3. QED
          BY <3>2, <4>4, <5>1, <5>2
      <4>5. QED
        BY <3>2, <4>2, <4>3, <4>4
    <3>5. QED
      BY <1>1, <2>1, <2>2, <3>1, <3>3, <3>4, RenewalKeeps
  <2>5. QED
    BY <1>4, <2>3, <2>4 DEF LateMerge
<1>5. QED
  BY <1>2, <1>3, <1>4 DEF Settle

LEMMA MoveMainStep == ASSUME IInv, MoveMain PROVE IInv'
<1>1. left' = [left EXCEPT !.moves = @ - 1] /\ left.moves > 0 /\ left \in Limits
      /\ UNCHANGED <<task, run, attempt, begun, merge, branch, wt, rec, answered, landed, settled, verified>>
  BY RunsSound DEF MoveMain, run_vars
<1>2. Spent
  BY <1>1, SpentIs
<1>3. /\ main'.v = main.v + 1 /\ main'.has = main.has /\ main'.tip = NoCommit
      /\ main' \in [v : Nat \ {0}, has : SUBSET Work, tip : Commit]
  <2>1. main \in [v : Nat \ {0}, has : SUBSET Work, tip : Commit] /\ NoCommit \in Commit
    BY Hosts, Nothing DEF HostTyped
  <2>2. main' = [main EXCEPT !.v = @ + 1, !.tip = NoCommit]
    BY DEF MoveMain
  <2>3. main.v + 1 \in Nat \ {0}
    BY <2>1
  <2>4. QED
    BY <2>1, <2>2, <2>3
<1>4. HostTyped'
  BY <1>1, <1>3, Hosts DEF HostTyped
<1>5. HostIsSound'
  BY <1>1, <1>3, Hosts DEF HostIsSound
<1>6. LandedIsOver'
  <2>1. \A m \in Merges : landed[m].onto \in Nat
    BY Hosts DEF HostTyped, Commit
  <2>2. QED
    BY <1>1, <1>3, <2>1, Hosts DEF LandedIsOver
<1>7. RunsTyped' /\ LateOnce'
  BY <1>1, <1>2 DEF IInv, Typed, RunsTyped, LateOnce, Spent
<1>8. \A m \in Merges : Renewed(m, merge) /\ Leaves(m)
  BY <1>1 DEF Renewed, Leaves
<1>9. merge \in [Merges -> MergeRow] /\ \A m, o \in Merges : merge[m].st \in Open /\ merge[o].st \in Open => m = o
  BY DEF IInv, Typed, OneOpen
<1>10. QED
  BY <1>1, <1>2, <1>4, <1>5, <1>6, <1>7, <1>8, <1>9, RenewalKeeps

-----------------------------------------------------------------------------
(* The host's steps                                                        *)

(* The row after a host step that was answered at place a, or was not.     *)
LEMMA Told ==
  ASSUME IInv, NEW m \in Merges, NEW a \in {"answered", "concluded", "handed"}, NEW reply \in Reply,
         TellsOrLoses(m, a, reply) \/ (Fault("cut") /\ Defers(m)),
         merge[m].at \notin {"idle", "return", "delete"},
         a \in {"answered", "handed"} => merge[m].st \in {"rebasing", "resolving"},
         a = "concluded" => merge[m].st \in {"verifying", "waiting"}
  PROVE  \E y : /\ merge' = [merge EXCEPT ![m] = y] /\ Turns(m, y) /\ Spent
                /\ y.st = merge[m].st /\ y.onto = merge[m].onto /\ y.commit = merge[m].commit
                /\ \/ y.at = "idle"
                   \/ y.at = a /\ y.reply = reply /\ TellsOrLoses(m, a, reply)
<1>1. /\ merge \in [Merges -> MergeRow] /\ merge[m] \in MergeRow /\ left \in Limits /\ left.tries \in Nat
      /\ PlaceAgrees(merge[m]) /\ JobAgrees(merge[m])
      /\ merge[m].job = "running" /\ merge[m].tries >= 1 /\ merge[m].st # "none"
  BY Rows, Working
<1>2. CASE Defers(m) /\ (Fault("cut") \/ Fault("lost"))
  <2>1. Fits(m, Deferred(merge[m])) /\ Spent
    BY <1>1, <1>2, DeferredFits, SpentIs
  <2>2. /\ Deferred(merge[m]).st = merge[m].st /\ Deferred(merge[m]).onto = merge[m].onto
        /\ Deferred(merge[m]).commit = merge[m].commit /\ Deferred(merge[m]).at = "idle"
    BY <1>1, DeferredIs
  <2>3. merge' = [merge EXCEPT ![m] = Deferred(merge[m])]
    BY <1>1, <1>2 DEF Defers
  <2>4. QED
    BY <2>1, <2>2, <2>3 DEF Fits
<1>3. CASE Tells(m, a, reply) /\ UNCHANGED left
  <2> DEFINE y == [merge[m] EXCEPT !.at = a, !.reply = reply]
  <2>1. merge' = [merge EXCEPT ![m] = y]
    BY <1>1, <1>3 DEF Tells
  <2>2. /\ y \in MergeRow /\ y.st = merge[m].st /\ y.basis = merge[m].basis /\ y.onto = merge[m].onto
        /\ y.commit = merge[m].commit /\ y.tries = merge[m].tries /\ y.job = merge[m].job
        /\ y.at = a /\ y.view = merge[m].view /\ y.reply = reply
    BY <1>1 DEF MergeRow
  <2> HIDE DEF y
  <2>3. PlaceAgrees(y) /\ JobAgrees(y)
    BY <1>1, <2>2 DEF PlaceAgrees, JobAgrees
  <2>4. Turns(m, y) /\ Spent
    BY <1>1, <1>3, <2>2, <2>3, SpentIs DEF Turns
  <2>5. QED
    BY <1>3, <2>1, <2>2, <2>4 DEF TellsOrLoses
<1>4. QED
  BY <1>2, <1>3 DEF TellsOrLoses

(* A step after which the host holds nothing for m.                        *)
LEMMA FreedKeeps ==
  ASSUME IInv, Spent, NEW m \in Merges, NEW y, Turns(m, y), merge' = [merge EXCEPT ![m] = y],
         UNCHANGED <<task, run_vars, verified>>, HostTyped', HostIsSound', LandedIsOver',
         \A o \in Merges \ {m} : Leaves(o), rec'.m # m
  PROVE  IInv'
<1>1. HoldAgrees(m, merge[m])' /\ ReadyOf(m, merge[m])'
  BY DEF HoldAgrees, ReadyOf, StaleOf
<1>2. UNCHANGED <<task, run, attempt, begun>> /\ verified \subseteq verified'
  BY DEF run_vars
<1>3. QED
  BY <1>1, <1>2, WorkerKeeps

(* A step that leaves the host as it is.                                   *)
LEMMA HostAsItWas ==
  ASSUME IInv, Spent, NEW m \in Merges, NEW y, Fits(m, y), merge' = [merge EXCEPT ![m] = y],
         UNCHANGED <<task, run_vars, host_vars, settled, verified>>
  PROVE  IInv'
<1>1. verified' \subseteq Commit /\ verified \subseteq verified'
  BY DEF IInv, Typed, HostTyped
<1>2. QED
  BY <1>1, RowKeeps DEF Fits

RecTypes == [st : {"none", "preparing", "conflict", "rebased"}, m : Merges \cup {0},
             onto : Nat, has : SUBSET Work, commit : Commit]
BranchTypes == [on : BOOLEAN, has : SUBSET Work, tip : Commit]

(* What a prepare that starts over leaves on the host.                     *)
LEMMA Prepared ==
  ASSUME IInv, NEW m \in Merges, ~Again(m), NEW o \in Prepares(m)
  PROVE  /\ o.k \in {"no_changes", "rebased", "conflict", "cut"}
         /\ o.branch \in BranchTypes /\ o.rec \in RecTypes
         /\ \/ o.k = "no_changes" /\ o.rec = NoRec /\ (o.branch.tip = NoCommit \/ o.branch = branch)
               /\ (o.branch.on \/ o.branch = branch)
            \/ /\ o.k # "no_changes" /\ o.rec.m = m /\ o.rec.onto = main.v /\ o.branch.on
               /\ o.branch.has \subseteq o.rec.has \cup main.has /\ o.rec.has \subseteq o.branch.has
               /\ \/ o.k = "rebased" /\ o.rec.st = "rebased" /\ o.branch.tip = o.rec.commit
                     /\ o.rec.commit.onto = main.v /\ o.branch.has \subseteq o.rec.commit.has
                  \/ o.k = "conflict" /\ o.rec.st = "conflict" /\ o.branch.tip = NoCommit
                  \/ o.k = "cut" /\ o.rec.st = "preparing" /\ o.branch.tip = NoCommit
<1> DEFINE has == ReadyHas(m)
           squash == [st |-> "preparing", m |-> m, onto |-> main.v, has |-> has, commit |-> NoCommit]
           commit == [has |-> has \cup main.has, onto |-> main.v, by |-> 0]
           on(t) == [on |-> TRUE, has |-> has \cup t.has, tip |-> t]
<1>1. has \subseteq Work
  BY Hosts DEF ReadyHas
<1> HIDE DEF has
<1>2. /\ main.v \in Nat /\ main.has \subseteq Work /\ branch \in BranchTypes
      /\ NoCommit \in Commit /\ NoCommit.has = {} /\ NoRec \in RecTypes
  BY Hosts, Nothing DEF HostTyped, BranchTypes, RecTypes
<1>3. commit \in Commit /\ commit.has = has \cup main.has /\ commit.onto = main.v
  BY <1>1, <1>2 DEF Commit
<1>4. /\ squash \in RecTypes
      /\ [squash EXCEPT !.st = "conflict"] \in RecTypes
      /\ [squash EXCEPT !.st = "rebased", !.commit = commit] \in RecTypes
  BY <1>1, <1>2, <1>3 DEF RecTypes
<1>5. /\ on(commit) \in BranchTypes /\ on(commit).on /\ on(commit).has = has \cup main.has /\ on(commit).tip = commit
      /\ on(NoCommit) \in BranchTypes /\ on(NoCommit).on /\ on(NoCommit).has = has /\ on(NoCommit).tip = NoCommit
  BY <1>1, <1>2, <1>3 DEF BranchTypes
<1>6. \/ o = [k |-> "no_changes", rec |-> NoRec, branch |-> IF branch.on THEN on(NoCommit) ELSE branch]
      \/ o = [k |-> "rebased", branch |-> on(commit),
              rec |-> [squash EXCEPT !.st = "rebased", !.commit = commit]]
      \/ o = [k |-> "cut", branch |-> on(NoCommit), rec |-> squash]
      \/ o = [k |-> "conflict", branch |-> on(NoCommit), rec |-> [squash EXCEPT !.st = "conflict"]]
  BY DEF Prepares, has
<1>7. CASE o = [k |-> "no_changes", rec |-> NoRec, branch |-> IF branch.on THEN on(NoCommit) ELSE branch]
  BY <1>2, <1>5, <1>7
<1>8. CASE o = [k |-> "rebased", branch |-> on(commit),
                rec |-> [squash EXCEPT !.st = "rebased", !.commit = commit]]
  <2>1. /\ o.k = "rebased" /\ o.branch = on(commit) /\ o.rec.st = "rebased" /\ o.rec.m = m
        /\ o.rec.onto = main.v /\ o.rec.has = has /\ o.rec.commit = commit /\ o.rec \in RecTypes
    BY <1>4, <1>8
  <2> HIDE DEF on, commit, squash
  <2>2. QED
    BY <1>3, <1>5, <2>1
<1>9. CASE o = [k |-> "cut", branch |-> on(NoCommit), rec |-> squash]
  <2>1. /\ o.k = "cut" /\ o.branch = on(NoCommit) /\ o.rec.st = "preparing" /\ o.rec.m = m
        /\ o.rec.onto = main.v /\ o.rec.has = has /\ o.rec \in RecTypes
    BY <1>4, <1>9
  <2> HIDE DEF on, commit, squash
  <2>2. QED
    BY <1>5, <2>1
<1>10. CASE o = [k |-> "conflict", branch |-> on(NoCommit), rec |-> [squash EXCEPT !.st = "conflict"]]
  <2>1. /\ o.k = "conflict" /\ o.branch = on(NoCommit) /\ o.rec.st = "conflict" /\ o.rec.m = m
        /\ o.rec.onto = main.v /\ o.rec.has = has /\ o.rec \in RecTypes
    BY <1>4, <1>10
  <2> HIDE DEF on, commit, squash
  <2>2. QED
    BY <1>5, <2>1
<1>11. QED
  BY <1>6, <1>7, <1>8, <1>9, <1>10

LEMMA PrepareStep == ASSUME IInv, NEW m \in Merges, Prepare(m) PROVE IInv'
<1>1. /\ merge[m].at = "prepare" /\ merge[m].st = "rebasing" /\ merge[m] \in MergeRow
      /\ UNCHANGED <<task, run_vars, main, landed, verified>>
  BY Rows DEF PlaceAgrees, Prepare
<1>2. UNCHANGED <<task, run, attempt, begun, main, landed, verified>> /\ verified \subseteq verified'
  BY <1>1 DEF run_vars
<1>3. PICK o \in Prepares(m) :
          /\ branch' = o.branch /\ rec' = o.rec
          /\ IF o.k = "cut" THEN Fault("cut") /\ Defers(m)
             ELSE TellsOrLoses(m, "answered", [k |-> o.k, commit |-> o.rec.commit,
                                               onto |-> IF Again(m) THEN rec.onto ELSE main.v])
  BY DEF Prepare
<1>4. /\ o.k \in {"no_changes", "rebased", "conflict", "cut"} /\ o.rec \in RecTypes /\ o.branch \in BranchTypes
      /\ o.k # "cut" => o.rec.st # "preparing" \/ o.rec.m # m
      /\ o.k = "rebased" => o.rec.st = "rebased"
      /\ o.k = "no_changes" => o.rec.m # m
      /\ \A p \in Merges \ {m} : Leaves(p)
      /\ HostTyped' /\ HostIsSound' /\ LandedIsOver'
  <2>1. CASE Again(m)
    <3>1. o = [k |-> rec.st, branch |-> branch, rec |-> rec]
      BY <2>1 DEF Prepares
    <3>2. rec' = rec /\ branch' = branch /\ o.k = rec.st /\ UNCHANGED <<wt, answered, settled>>
          /\ rec.st \in {"conflict", "rebased"}
      BY <1>3, <2>1, <3>1 DEF Prepare, Again
    <3>3. HostTyped' /\ HostIsSound' /\ LandedIsOver' /\ \A p \in Merges \ {m} : Leaves(p)
      BY <1>2, <3>2, Hosts DEF HostTyped, HostIsSound, LandedIsOver, Leaves
    <3>4. rec \in RecTypes /\ branch \in BranchTypes
      BY Hosts DEF HostTyped, RecTypes, BranchTypes
    <3>5. QED
      BY <3>1, <3>2, <3>3, <3>4
  <2>2. CASE ~Again(m)
    <3>1. /\ wt' = 0 /\ answered' = IF wt = 0 THEN answered ELSE answered \cup {wt}
          /\ settled' = settled \cup IF rec.st = "none" THEN Leftovers ELSE {}
      BY <2>2 DEF Prepare
    <3> DEFINE Shape ==
               \/ o.k = "no_changes" /\ o.rec = NoRec /\ (o.branch.tip = NoCommit \/ o.branch = branch)
                  /\ (o.branch.on \/ o.branch = branch)
               \/ /\ o.k # "no_changes" /\ o.rec.m = m /\ o.rec.onto = main.v /\ o.branch.on
                  /\ o.branch.has \subseteq o.rec.has \cup main.has /\ o.rec.has \subseteq o.branch.has
                  /\ \/ o.k = "rebased" /\ o.rec.st = "rebased" /\ o.branch.tip = o.rec.commit
                        /\ o.rec.commit.onto = main.v /\ o.branch.has \subseteq o.rec.commit.has
                     \/ o.k = "conflict" /\ o.rec.st = "conflict" /\ o.branch.tip = NoCommit
                     \/ o.k = "cut" /\ o.rec.st = "preparing" /\ o.branch.tip = NoCommit
    <3>2. /\ o.k \in {"no_changes", "rebased", "conflict", "cut"}
          /\ o.branch \in BranchTypes /\ o.rec \in RecTypes /\ Shape
      BY <2>2, Prepared
    <3>3. NoRec.m = 0 /\ NoRec.st = "none" /\ m # 0 /\ 0 \notin Merges /\ NoCommit.has = {}
      BY Nothing, Hosts
    <3>4. HostTyped'
      BY <1>2, <1>3, <3>1, <3>2, Hosts DEF HostTyped, BranchTypes, RecTypes
    <3>5. HostIsSound'
      <4>1. /\ main.v \in Nat /\ main.v >= 1
            /\ ~branch.on => branch.has = {} /\ branch.tip = NoCommit
            /\ branch.tip # NoCommit => branch.has \subseteq branch.tip.has
            /\ main.tip # NoCommit => main.tip.has \subseteq main.has /\ main.tip.onto < main.v
        BY Hosts DEF HostIsSound
      <4>2. CASE o.k = "no_changes"
        BY <1>2, <1>3, <3>1, <3>2, <3>3, <4>1, <4>2 DEF HostIsSound
      <4>3. CASE o.k # "no_changes"
        BY <1>2, <1>3, <3>1, <3>2, <3>3, <4>1, <4>3 DEF HostIsSound
      <4>4. QED
        BY <4>2, <4>3
    <3>6. LandedIsOver'
      <4>1. SUFFICES ASSUME NEW p \in Merges, landed[p] # NoCommit
                     PROVE  /\ landed[p].has \subseteq main.has /\ landed[p].onto < main.v
                            /\ o.branch.tip # landed[p]
                            /\ o.rec.st = "conflict" => landed[p].by # o.rec.m \/ landed[p].onto # o.rec.onto
        BY <1>2, <1>3 DEF LandedIsOver
      <4>2. landed[p].has \subseteq main.has /\ landed[p].onto < main.v /\ branch.tip # landed[p]
        BY <4>1, Hosts DEF LandedIsOver
      <4>3. landed[p].onto # main.v
        BY <4>2, Hosts
      <4>4. QED
        BY <3>2, <3>3, <4>1, <4>2, <4>3
    <3>7. \A p \in Merges \ {m} : Leaves(p)
      BY <1>3, <3>2, <3>3 DEF Leaves
    <3>8. QED
      BY <3>2, <3>3, <3>4, <3>5, <3>6, <3>7
  <2>3. QED
    BY <2>1, <2>2
<1> DEFINE reply == [k |-> o.k, commit |-> o.rec.commit, onto |-> IF Again(m) THEN rec.onto ELSE main.v]
<1>5. CASE o.k = "cut"
  <2>1. PICK y : /\ merge' = [merge EXCEPT ![m] = y] /\ Turns(m, y) /\ Spent
                 /\ y.st = merge[m].st /\ y.onto = merge[m].onto /\ y.commit = merge[m].commit
                 /\ y.at = "idle"
    <3>1. Fits(m, Deferred(merge[m])) /\ Spent /\ merge \in [Merges -> MergeRow]
      BY <1>1, <1>3, <1>5, DeferredFits, SpentIs, Rows
    <3>2. /\ Deferred(merge[m]).st = merge[m].st /\ Deferred(merge[m]).onto = merge[m].onto
          /\ Deferred(merge[m]).commit = merge[m].commit /\ Deferred(merge[m]).at = "idle"
      BY <1>1, Working, DeferredIs
    <3>3. merge' = [merge EXCEPT ![m] = Deferred(merge[m])]
      BY <1>3, <1>5 DEF Defers
    <3>4. QED
      BY <3>1, <3>2, <3>3 DEF Fits
  <2>2. merge'[m] = y
    BY <2>1, Rows
  <2>3. HoldAgrees(m, merge[m])' /\ ReadyOf(m, merge[m])'
    BY <1>1, <2>1, <2>2 DEF HoldAgrees, ReadyOf, IsReady
  <2>4. QED
    BY <1>2, <1>4, <2>1, <2>3, WorkerKeeps
<1>6. CASE o.k # "cut"
  <2>1. reply \in Reply /\ reply.k = o.k
    BY <1>4, <1>6, Hosts DEF Reply, RecTypes
  <2>2. TellsOrLoses(m, "answered", reply)
    BY <1>3, <1>6
  <2> HIDE DEF reply
  <2>3. PICK y : /\ merge' = [merge EXCEPT ![m] = y] /\ Turns(m, y) /\ Spent
                 /\ y.st = merge[m].st /\ y.onto = merge[m].onto /\ y.commit = merge[m].commit
                 /\ \/ y.at = "idle"
                    \/ y.at = "answered" /\ y.reply = reply
    <3>1. merge[m].at \notin {"idle", "return", "delete"} /\ merge[m].st \in {"rebasing", "resolving"}
      BY <1>1
    <3>2. \E y : /\ merge' = [merge EXCEPT ![m] = y] /\ Turns(m, y) /\ Spent
                 /\ y.st = merge[m].st /\ y.onto = merge[m].onto /\ y.commit = merge[m].commit
                 /\ \/ y.at = "idle"
                    \/ y.at = "answered" /\ y.reply = reply /\ TellsOrLoses(m, "answered", reply)
      BY <2>1, <2>2, <3>1, Told
    <3>3. QED
      BY <3>2
  <2>4. merge'[m] = y
    BY <2>3, Rows
  <2>5. HoldAgrees(m, merge[m])' /\ ReadyOf(m, merge[m])'
    BY <1>1, <1>3, <1>4, <1>6, <2>1, <2>3, <2>4 DEF HoldAgrees, ReadyOf, IsReady, Held
  <2>6. QED
    BY <1>2, <1>4, <2>3, <2>5, WorkerKeeps
<1>7. QED
  BY <1>5, <1>6

LEMMA ContinueStep == ASSUME IInv, NEW m \in Merges, Continue(m) PROVE IInv'
<1> DEFINE commit == [has |-> rec.has \cup main.has, onto |-> rec.onto, by |-> m]
           reply(k, c) == [k |-> k, onto |-> rec.onto, commit |-> c]
<1>1. /\ merge[m].at = "continue" /\ merge[m].st = "resolving" /\ merge[m] \in MergeRow
      /\ UNCHANGED <<task, run, attempt, begun, main, wt, answered, landed, settled, verified>>
      /\ ~(rec.m = m /\ rec.st = "preparing")
  BY Rows DEF PlaceAgrees, Continue, HoldAgrees, run_vars
<1>2. commit \in Commit /\ commit.has = rec.has \cup main.has /\ commit.onto = rec.onto /\ commit.by = m
  BY Hosts DEF Commit
<1> HIDE DEF commit
<1>3. ASSUME NEW k \in {"unresolved", "rebased", "refused"}, NEW c \in Commit,
             TellsOrLoses(m, "answered", reply(k, c)),
             HostTyped', HostIsSound', LandedIsOver', \A p \in Merges \ {m} : Leaves(p),
             ~(rec'.m = m /\ rec'.st = "preparing"),
             k = "rebased" => ~(rec'.m = m /\ rec'.st \in {"preparing", "conflict"}),
             k = "refused" => rec'.m # m
      PROVE  IInv'
  <2>1. reply(k, c) \in Reply /\ reply(k, c).k = k
    BY Hosts DEF Reply
  <2> HIDE DEF reply
  <2>2. \E y : /\ merge' = [merge EXCEPT ![m] = y] /\ Turns(m, y) /\ Spent
               /\ y.st = merge[m].st /\ y.onto = merge[m].onto /\ y.commit = merge[m].commit
               /\ \/ y.at = "idle"
                  \/ y.at = "answered" /\ y.reply = reply(k, c) /\ TellsOrLoses(m, "answered", reply(k, c))
    <3>1. merge[m].at \notin {"idle", "return", "delete"} /\ merge[m].st \in {"rebasing", "resolving"}
      BY <1>1
    <3>2. QED
      BY <1>3, <2>1, <3>1, Told
  <2>3. PICK y : /\ merge' = [merge EXCEPT ![m] = y] /\ Turns(m, y) /\ Spent
                 /\ y.st = merge[m].st /\ y.onto = merge[m].onto /\ y.commit = merge[m].commit
                 /\ \/ y.at = "idle"
                    \/ y.at = "answered" /\ y.reply = reply(k, c)
    BY <2>2
  <2>4. merge'[m] = y
    BY <2>3, Rows
  <2>5. HoldAgrees(m, merge[m])' /\ ReadyOf(m, merge[m])'
    BY <1>1, <1>3, <2>1, <2>3, <2>4 DEF HoldAgrees, ReadyOf, IsReady, Held
  <2>6. QED
    BY <1>1, <1>3, <2>3, <2>5, WorkerKeeps
<1>4. ASSUME UNCHANGED <<branch, rec>>
      PROVE  HostTyped' /\ HostIsSound' /\ LandedIsOver' /\ \A p \in Merges \ {m} : Leaves(p)
  BY <1>1, <1>4, Hosts DEF HostTyped, HostIsSound, LandedIsOver, Leaves
<1>5. CASE rec.m = m /\ rec.st = "conflict" /\ UNCHANGED <<branch, rec>>
           /\ TellsOrLoses(m, "answered", reply("unresolved", NoCommit))
  BY <1>1, <1>3, <1>4, <1>5, Nothing
<1>6. CASE /\ rec.m = m /\ rec.st = "conflict" /\ TellsOrLoses(m, "answered", reply("rebased", commit))
           /\ branch' = [on |-> TRUE, has |-> commit.has, tip |-> commit]
           /\ rec' = [rec EXCEPT !.st = "rebased", !.commit = commit]
  <2>1. /\ rec \in RecTypes /\ wt = 0 /\ rec.m \in Merges /\ rec.onto \in 1 .. main.v
        /\ main.tip # NoCommit => main.tip.has \subseteq main.has /\ main.tip.onto < main.v
    BY <1>6, Hosts DEF HostTyped, HostIsSound, RecTypes
  <2>2. /\ rec'.st = "rebased" /\ rec'.m = m /\ rec'.onto = rec.onto /\ rec'.has = rec.has
        /\ rec'.commit = commit /\ rec' \in RecTypes
    BY <1>2, <1>6, <2>1 DEF RecTypes
  <2>3. /\ branch'.on /\ branch'.has = rec.has \cup main.has /\ branch'.tip = commit /\ branch' \in BranchTypes
    BY <1>2, <1>6, Hosts DEF BranchTypes
  <2>4. HostTyped'
    BY <1>1, <2>2, <2>3, Hosts DEF HostTyped, RecTypes, BranchTypes
  <2>5. HostIsSound'
    BY <1>1, <1>2, <2>1, <2>2, <2>3 DEF HostIsSound
  <2>6. LandedIsOver'
    BY <1>1, <1>2, <1>6, <2>2, <2>3, Hosts DEF LandedIsOver
  <2>7. \A p \in Merges \ {m} : Leaves(p)
    BY <2>2 DEF Leaves
  <2>8. QED
    BY <1>2, <1>3, <1>6, <2>2, <2>4, <2>5, <2>6, <2>7
<1>7. CASE rec.m = m /\ rec.st = "rebased" /\ UNCHANGED <<branch, rec>>
           /\ TellsOrLoses(m, "answered", reply("rebased", rec.commit))
  BY <1>1, <1>3, <1>4, <1>7, Hosts
<1>8. CASE rec.m # m /\ UNCHANGED <<branch, rec>>
           /\ TellsOrLoses(m, "answered", reply("refused", NoCommit))
  BY <1>1, <1>3, <1>4, <1>8, Nothing
<1>9. QED
  <2>1. rec.m # m \/ rec.st = "preparing" => rec.m # m
    BY <1>1
  <2>2. QED
    BY <2>1, <1>5, <1>6, <1>7, <1>8 DEF Continue, commit

(* An abort: what the merge holds is put back.                             *)
LEMMA Aborted ==
  ASSUME IInv, NEW m \in Merges, Aborts(m), HostRest
  PROVE  /\ HostTyped' /\ HostIsSound' /\ LandedIsOver' /\ rec'.m # m /\ \A p \in Merges \ {m} : Leaves(p)
         /\ UNCHANGED <<task, run_vars, verified>>
<1>1. UNCHANGED <<task, run_vars, main, wt, answered, landed, settled, verified>>
  BY DEF HostRest
<1>2. CASE rec.m = m
  <2>1. rec.st # "none" /\ wt = 0
    BY <1>2, Hosts, Nothing DEF HostIsSound
  <2>2. branch' = [on |-> TRUE, has |-> rec.has, tip |-> NoCommit] /\ rec' = NoRec
    BY <1>2, <2>1 DEF Aborts, Restored
  <2>3. /\ branch'.on /\ branch'.has = rec.has /\ branch'.tip = NoCommit
        /\ branch' \in BranchTypes
    BY <2>2, Hosts, Nothing DEF BranchTypes
  <2>4. rec'.st = "none" /\ rec'.m = 0 /\ rec' \in RecTypes
    BY <2>2, Nothing DEF RecTypes
  <2>5. HostTyped'
    BY <1>1, <2>3, <2>4, Hosts DEF HostTyped, BranchTypes, RecTypes
  <2>6. HostIsSound' /\ LandedIsOver'
    BY <1>1, <2>1, <2>2, <2>3, <2>4, Hosts DEF HostIsSound, LandedIsOver
  <2>7. QED
    BY <1>1, <2>4, <2>5, <2>6, Hosts DEF Leaves
<1>3. CASE rec.m # m
  <2>1. UNCHANGED <<branch, rec>>
    BY <1>3 DEF Aborts
  <2>2. QED
    BY <1>1, <1>3, <2>1, Hosts DEF HostTyped, HostIsSound, LandedIsOver, Leaves
<1>4. QED
  BY <1>2, <1>3

LEMMA HandStep == ASSUME IInv, NEW m \in Merges, Hand(m) PROVE IInv'
<1>1. /\ merge[m].at = "hand" /\ merge[m].st \in {"rebasing", "resolving"} /\ merge[m].reply \in Reply
      /\ TellsOrLoses(m, "handed", merge[m].reply)
  BY Rows, RowFields DEF PlaceAgrees, Hand
<1>2. merge[m].at \notin {"idle", "return", "delete"}
  BY <1>1
<1>3. \E y : merge' = [merge EXCEPT ![m] = y] /\ Turns(m, y) /\ Spent
  <2> DEFINE reply == merge[m].reply
  <2>1. reply \in Reply /\ TellsOrLoses(m, "handed", reply)
    BY <1>1
  <2> HIDE DEF reply
  <2>2. QED
    BY <1>1, <1>2, <2>1, Told
<1>4. QED
  BY <1>3, Aborted, FreedKeeps DEF Hand

LEMMA GiveStep == ASSUME IInv, NEW m \in Merges, Give(m) PROVE IInv'
<1> DEFINE x == [merge[m] EXCEPT !.res = IF @ = "queued" THEN "cancelled" ELSE @]
<1>1. /\ merge[m] \in MergeRow /\ merge[m].at = "give" /\ merge[m].view \in Open
      /\ merge[m].st # "none" /\ merge[m].job = "running" /\ merge[m].tries \in 1 .. left.tries
      /\ left.tries \in Nat /\ left \in Limits
  BY Rows, Working DEF Give, PlaceAgrees
<1>2. /\ x \in MergeRow /\ x.st = merge[m].st /\ x.basis = merge[m].basis /\ x.onto = merge[m].onto
      /\ x.commit = merge[m].commit /\ x.tries = merge[m].tries /\ x.view = merge[m].view
      /\ x.job = "running"
  BY <1>1 DEF MergeRow
<1> HIDE DEF x
<1>3. /\ Deferred(x) \in MergeRow /\ Deferred(x).st = merge[m].st /\ Deferred(x).basis = merge[m].basis
      /\ Deferred(x).onto = merge[m].onto /\ Deferred(x).commit = merge[m].commit
      /\ Deferred(x).tries = merge[m].tries - 1 /\ Deferred(x).job = "pending" /\ Deferred(x).at = "idle"
  BY <1>1, <1>2, DeferredIs
<1>4. /\ At(x, "given") \in MergeRow /\ At(x, "given").st = merge[m].st /\ At(x, "given").basis = merge[m].basis
      /\ At(x, "given").tries = merge[m].tries /\ At(x, "given").job = "running"
      /\ At(x, "given").at = "given" /\ At(x, "given").view = merge[m].view
  BY <1>1, <1>2, AtIs DEF Places
<1>5. Fits(m, Deferred(x))
  <2> DEFINE y == Deferred(x)
  <2>1. /\ y \in MergeRow /\ y.st = merge[m].st /\ y.basis = merge[m].basis /\ y.onto = merge[m].onto
        /\ y.commit = merge[m].commit /\ y.tries = merge[m].tries - 1 /\ y.job = "pending" /\ y.at = "idle"
    BY <1>3
  <2> HIDE DEF y
  <2>2. PlaceAgrees(y) /\ JobAgrees(y) /\ (IsReady(y) => IsReady(merge[m]))
    BY <1>1, <2>1 DEF PlaceAgrees, JobAgrees, IsReady
  <2>3. Fits(m, y)
    BY <1>1, <2>1, <2>2, OnwardFits
  <2>4. QED
    BY <2>3 DEF y
<1>6. Turns(m, At(x, "given"))
  <2> DEFINE y == At(x, "given")
  <2>1. /\ y \in MergeRow /\ y.st = merge[m].st /\ y.basis = merge[m].basis
        /\ y.tries = merge[m].tries /\ y.job = "running" /\ y.at = "given" /\ y.view = merge[m].view
    BY <1>4
  <2> HIDE DEF y
  <2>2. PlaceAgrees(y) /\ JobAgrees(y)
    BY <1>1, <2>1 DEF PlaceAgrees, JobAgrees
  <2>3. Turns(m, y)
    BY <1>1, <2>1, <2>2 DEF Turns
  <2>4. QED
    BY <2>3 DEF y
<1>7. CASE TaskHeld /\ UNCHANGED <<branch, rec, left>> /\ merge' = [merge EXCEPT ![m] = Deferred(x)]
  <2>1. UNCHANGED <<task, run_vars, host_vars, settled, verified>> /\ Spent
    BY <1>1, <1>7, SpentIs DEF Give, HostRest, host_vars
  <2>2. QED
    BY <1>5, <1>7, <2>1, HostAsItWas
<1>8. CASE /\ Aborts(m)
           /\ \/ merge' = [merge EXCEPT ![m] = At(x, "given")] /\ UNCHANGED left
              \/ Fault("lost") /\ merge' = [merge EXCEPT ![m] = Deferred(x)]
  <2>1. HostRest /\ Spent
    BY <1>1, <1>8, SpentIs DEF Give
  <2>2. /\ HostTyped' /\ HostIsSound' /\ LandedIsOver' /\ rec'.m # m /\ \A p \in Merges \ {m} : Leaves(p)
        /\ UNCHANGED <<task, run_vars, verified>>
    BY <1>8, <2>1, Aborted
  <2>3. CASE merge' = [merge EXCEPT ![m] = At(x, "given")]
    BY <1>6, <2>1, <2>2, <2>3, FreedKeeps
  <2>4. CASE merge' = [merge EXCEPT ![m] = Deferred(x)]
    BY <1>5, <2>1, <2>2, <2>4, FreedKeeps DEF Fits
  <2>5. QED
    BY <1>8, <2>3, <2>4
<1>9. QED
  BY <1>7, <1>8 DEF Give, x

LEMMA ReturnStep == ASSUME IInv, NEW m \in Merges, Return(m) PROVE IInv'
<1>1. /\ merge \in [Merges -> MergeRow] /\ merge[m] \in MergeRow /\ merge[m].at = "return"
      /\ merge[m].st \in Stopped \cup {"superseded"}
      /\ merge[m].tries <= left.tries /\ left \in Limits
  BY Rows, Working DEF Return, PlaceAgrees
<1>2. merge[m].st # "none" /\ merge[m].st \notin UnderWay
  BY <1>1 DEF Stopped, UnderWay
<1>3. Fits(m, Ended(merge[m])) /\ merge' = [merge EXCEPT ![m] = Ended(merge[m])]
  BY <1>1, <1>2, EndedFits DEF Return
<1>4. Spent /\ HostRest
  BY <1>1, SpentIs DEF Return
<1>5. CASE Aborts(m)
  BY <1>3, <1>4, <1>5, Aborted, FreedKeeps DEF Fits
<1>6. CASE UNCHANGED <<branch, rec>>
  <2>1. UNCHANGED <<task, run_vars, host_vars, settled, verified>>
    BY <1>4, <1>6 DEF HostRest, host_vars
  <2>2. QED
    BY <1>3, <1>4, <2>1, HostAsItWas
<1>7. QED
  BY <1>5, <1>6 DEF Return

LEMMA DeleteStep == ASSUME IInv, NEW m \in Merges, Delete(m) PROVE IInv'
<1>1. /\ merge \in [Merges -> MergeRow] /\ merge[m] \in MergeRow /\ merge[m].at = "delete"
      /\ merge[m].st = "no_changes" /\ merge[m].tries <= left.tries /\ left \in Limits
      /\ UNCHANGED <<task, run_vars, main, answered, landed, settled, verified, left>>
  BY Rows, Working DEF Delete, PlaceAgrees
<1>2. merge[m].st # "none" /\ merge[m].st \notin UnderWay
  BY <1>1 DEF UnderWay
<1>3. Fits(m, Ended(merge[m])) /\ merge' = [merge EXCEPT ![m] = Ended(merge[m])]
  BY <1>1, <1>2, EndedFits DEF Delete
<1>4. Spent
  BY <1>1, SpentIs
<1>5. CASE UNCHANGED <<branch, wt, rec>>
  <2>1. UNCHANGED <<task, run_vars, host_vars, settled, verified>>
    BY <1>1, <1>5 DEF host_vars
  <2>2. QED
    BY <1>3, <1>4, <2>1, HostAsItWas
<1>6. CASE branch' = NoBranch /\ wt' = 0 /\ rec' = NoRec
  <2>1. /\ rec'.st = "none" /\ rec'.m = 0 /\ rec' \in RecTypes /\ branch' \in BranchTypes
        /\ branch'.has = {} /\ branch'.tip = NoCommit
    BY <1>6, Nothing DEF RecTypes, BranchTypes
  <2>2. HostTyped'
    BY <1>1, <1>6, <2>1, Hosts DEF HostTyped, RecTypes, BranchTypes
  <2>3. HostIsSound' /\ LandedIsOver'
    BY <1>1, <1>6, <2>1, Hosts DEF HostIsSound, LandedIsOver
  <2>4. \A p \in Merges \ {m} : Leaves(p)
    BY <2>1, Hosts DEF Leaves
  <2>5. rec'.m # m
    BY <2>1, Hosts
  <2>6. QED
    BY <1>1, <1>3, <1>4, <2>2, <2>3, <2>4, <2>5, FreedKeeps DEF Fits
<1>7. QED
  BY <1>5, <1>6 DEF Delete

(* What a merge past its checks finds the host to hold.                    *)
LEMMA NotStale ==
  ASSUME IInv, NEW m \in Merges, ~Stale(m)
  PROVE  /\ rec.m = m /\ rec.st = "rebased" /\ rec.commit = merge[m].commit /\ branch.tip = merge[m].commit
         /\ merge[m].commit \in Commit /\ merge[m].commit.has \subseteq Work
         /\ merge[m].commit.onto \in 1 .. main.v /\ wt = 0
<1>1. rec.m = m /\ rec.st = "rebased" /\ rec.commit = merge[m].commit /\ branch.tip = merge[m].commit
  BY DEF Stale
<1>2. merge[m].commit \in Commit
  BY Rows, RowFields
<1>3. rec.onto \in 1 .. main.v /\ rec.commit.onto = rec.onto /\ wt = 0
  BY <1>1, Hosts DEF HostIsSound
<1>4. QED
  BY <1>1, <1>2, <1>3 DEF Commit

(* A commit of m that is on main is recorded, and the branch goes.         *)
LEMMA CleanedUp ==
  ASSUME IInv, NEW m \in Merges, NEW commit \in Commit, CleansUp(m, commit),
         UNCHANGED <<task, run_vars, wt, answered, settled, verified>>,
         main' \in [v : Nat \ {0}, has : SUBSET Work, tip : Commit],
         main'.v >= main.v, main.has \subseteq main'.has,
         main'.tip # NoCommit => main'.tip.has \subseteq main'.has /\ main'.tip.onto < main'.v,
         commit # NoCommit => commit.has \subseteq main'.has /\ commit.onto < main'.v,
         branch.tip = commit => commit = NoCommit \/ (wt = 0 /\ rec.m = m),
         rec.m # m => landed[m] = commit /\ branch.tip # commit
  PROVE  /\ HostTyped' /\ HostIsSound' /\ LandedIsOver' /\ rec'.m # m
         /\ \A p \in Merges \ {m} : Leaves(p)
<1>1. /\ landed \in [Merges -> Commit] /\ landed' = [landed EXCEPT ![m] = commit]
      /\ rec' = IF rec.m = m THEN NoRec ELSE rec
      /\ branch' = IF branch.tip = commit THEN NoBranch ELSE branch
  BY Hosts DEF CleansUp, HostTyped
<1>2. /\ landed' \in [Merges -> Commit] /\ landed'[m] = commit
      /\ \A p \in Merges \ {m} : landed'[p] = landed[p]
  BY <1>1
<1>3. rec'.m # m /\ \A p \in Merges \ {m} : Leaves(p)
  <2>1. CASE rec.m = m
    BY <1>1, <2>1, Nothing, Hosts DEF Leaves
  <2>2. CASE rec.m # m
    BY <1>1, <2>2 DEF Leaves
  <2>3. QED
    BY <2>1, <2>2
<1>4. HostTyped'
  BY <1>1, <1>2, Hosts, Nothing DEF HostTyped
<1>5. CASE rec.m = m
  <2>1. /\ rec' = NoRec /\ rec'.st = "none" /\ wt = 0 /\ wt' = 0
        /\ branch' = branch \/ branch' = NoBranch
    BY <1>1, <1>5, Nothing, Hosts DEF HostIsSound
  <2>2. HostIsSound'
    BY <2>1, Nothing, Hosts DEF HostIsSound
  <2>3. ASSUME NEW p \in Merges, landed'[p] # NoCommit
        PROVE  landed'[p].has \subseteq main'.has /\ landed'[p].onto < main'.v /\ branch'.tip # landed'[p]
    <3>1. CASE p = m
      BY <1>1, <1>2, <2>3, <3>1, Nothing
    <3>2. CASE p # m
      <4>1. /\ landed'[p] = landed[p] /\ landed[p].has \subseteq main.has /\ landed[p].onto < main.v
            /\ branch.tip # landed[p] /\ landed[p].onto \in Nat
        BY <1>1, <1>2, <2>3, <3>2, Hosts DEF LandedIsOver, Commit
      <4>2. QED
        BY <2>1, <2>3, <4>1, Nothing, Hosts
    <3>3. QED
      BY <3>1, <3>2
  <2>4. LandedIsOver'
    BY <2>1, <2>3 DEF LandedIsOver
  <2>5. QED
    BY <1>3, <1>4, <2>2, <2>4
<1>6. CASE rec.m # m
  <2>1. rec' = rec /\ branch' = branch /\ landed' = landed /\ wt' = wt
    BY <1>1, <1>6
  <2>2. main.v \in Nat /\ main'.v \in Nat /\ rec.onto \in Nat
    BY Hosts
  <2>3. HostIsSound'
    BY <2>1, <2>2, Hosts DEF HostIsSound
  <2>4. \A p \in Merges : landed[p].onto \in Nat
    BY Hosts DEF HostTyped, Commit
  <2>5. LandedIsOver'
    BY <2>1, <2>2, <2>4, Hosts DEF LandedIsOver
  <2>6. QED
    BY <1>3, <1>4, <2>3, <2>5
<1>7. QED
  BY <1>5, <1>6

(* Main after the commit of m landed on it.                                *)
LEMMA Landing ==
  ASSUME IInv, NEW m \in Merges, ~Stale(m), Lands(m)
  PROVE  /\ main' \in [v : Nat \ {0}, has : SUBSET Work, tip : Commit]
         /\ main'.v = main.v + 1 /\ main.has \subseteq main'.has
         /\ main'.tip = merge[m].commit /\ main'.tip.has \subseteq main'.has /\ main'.tip.onto < main'.v
<1>1. /\ merge[m].commit \in Commit /\ merge[m].commit.has \subseteq Work
      /\ merge[m].commit.onto \in 1 .. main.v /\ main.v \in Nat /\ main.has \subseteq Work
  BY NotStale, Hosts
<1>2. main' = [v |-> main.v + 1, has |-> main.has \cup merge[m].commit.has, tip |-> merge[m].commit]
  BY DEF Lands
<1>3. QED
  BY <1>1, <1>2

LEMMA FinishStep == ASSUME IInv, NEW m \in Merges, Finish(m) PROVE IInv'
<1> DEFINE Says(k) == TellsOrLoses(m, "concluded", [NoReply EXCEPT !.k = k])
           still == UNCHANGED <<main, branch, rec, landed>>
<1>1. /\ merge[m].at = "finish" /\ merge[m].st \in {"verifying", "waiting"} /\ merge[m].commit \in Commit
      /\ merge \in [Merges -> MergeRow] /\ left \in Limits
      /\ UNCHANGED <<task, run_vars, wt, answered, settled, verified>>
  BY Rows, RowFields DEF PlaceAgrees, Finish
<1>2. /\ UNCHANGED <<task, run, attempt, begun, wt, answered, settled, verified>> /\ verified \subseteq verified'
      /\ merge[m].at \notin {"idle", "return", "delete"} /\ ~(Held /\ rec.m = m)
      /\ Stale(m) \/ merge[m].commit \in verified
  BY <1>1, Rows DEF run_vars, HoldAgrees, IsReady, StaleOf, Stale
<1>3. \A k \in {"merged", "again", "main_moved", "waiting"} : [NoReply EXCEPT !.k = k] \in Reply
  BY Nothing DEF Reply
\* The row that the answer, or its loss, leaves.
<1>4. ASSUME NEW k \in {"merged", "again", "main_moved", "waiting"},
             Says(k) \/ (Fault("cut") /\ Defers(m))
      PROVE  \E y : /\ merge' = [merge EXCEPT ![m] = y] /\ Turns(m, y) /\ Spent
                    /\ y.st = merge[m].st /\ y.onto = merge[m].onto /\ y.commit = merge[m].commit
                    /\ y.at \in {"idle", "concluded"}
  <2> DEFINE reply == [NoReply EXCEPT !.k = k]
  <2>1. reply \in Reply /\ (TellsOrLoses(m, "concluded", reply) \/ (Fault("cut") /\ Defers(m)))
    BY <1>3, <1>4
  <2> HIDE DEF reply
  <2>2. QED
    BY <1>1, <1>2, <2>1, Told
<1>5. ASSUME NEW y, merge' = [merge EXCEPT ![m] = y], Turns(m, y), Spent,
             y.st = merge[m].st, y.onto = merge[m].onto, y.commit = merge[m].commit,
             y.at \in {"idle", "concluded"}, rec' = rec, branch' = branch,
             HostTyped', HostIsSound', LandedIsOver'
      PROVE  IInv'
  <2>1. merge'[m] = y
    BY <1>1, <1>5
  <2>2. HoldAgrees(m, merge[m])'
    BY <1>1, <1>2, <1>5, <2>1 DEF HoldAgrees, Held
  <2>3. ReadyOf(m, merge[m])'
    BY <1>2, <1>5, <2>1 DEF ReadyOf, StaleOf, Stale
  <2>4. \A p \in Merges \ {m} : Leaves(p)
    BY <1>5 DEF Leaves
  <2>5. QED
    BY <1>2, <1>5, <2>2, <2>3, <2>4, WorkerKeeps
<1>6. ASSUME still PROVE rec' = rec /\ branch' = branch /\ HostTyped' /\ HostIsSound' /\ LandedIsOver'
  BY <1>2, <1>6, Hosts DEF HostTyped, HostIsSound, LandedIsOver
<1>7. ASSUME NEW k \in {"merged", "again", "main_moved", "waiting"}, Says(k), still PROVE IInv'
  BY <1>4, <1>5, <1>6, <1>7
<1>8. ASSUME NEW commit \in Commit, Says("merged"), CleansUp(m, commit),
             main' \in [v : Nat \ {0}, has : SUBSET Work, tip : Commit],
             main'.v >= main.v, main.has \subseteq main'.has,
             main'.tip # NoCommit => main'.tip.has \subseteq main'.has /\ main'.tip.onto < main'.v,
             commit # NoCommit => commit.has \subseteq main'.has /\ commit.onto < main'.v,
             branch.tip = commit => commit = NoCommit \/ (wt = 0 /\ rec.m = m),
             rec.m # m => landed[m] = commit /\ branch.tip # commit
      PROVE  IInv'
  <2>1. /\ HostTyped' /\ HostIsSound' /\ LandedIsOver' /\ rec'.m # m
        /\ \A p \in Merges \ {m} : Leaves(p)
    BY <1>1, <1>8, CleanedUp
  <2>2. \E y : merge' = [merge EXCEPT ![m] = y] /\ Turns(m, y) /\ Spent
    BY <1>4, <1>8
  <2>3. UNCHANGED <<task, run_vars, verified>>
    BY <1>1
  <2>4. QED
    BY <2>1, <2>2, <2>3, FreedKeeps
<1>9. CASE landed[m] # NoCommit /\ Says("merged") /\ CleansUp(m, landed[m]) /\ UNCHANGED main
  <2>1. /\ landed[m] \in Commit /\ landed[m].has \subseteq main.has /\ landed[m].onto < main.v
        /\ branch.tip # landed[m]
    BY <1>9, Hosts DEF HostTyped, LandedIsOver
  <2>2. /\ main \in [v : Nat \ {0}, has : SUBSET Work, tip : Commit] /\ main.v \in Nat
        /\ main.tip # NoCommit => main.tip.has \subseteq main.has /\ main.tip.onto < main.v
    BY Hosts DEF HostTyped, HostIsSound
  <2>3. QED
    BY <1>8, <1>9, <2>1, <2>2
<1>10. CASE ~Stale(m) /\ main.tip = merge[m].commit /\ Says("merged") /\ CleansUp(m, merge[m].commit)
            /\ UNCHANGED main
  <2>1. /\ main \in [v : Nat \ {0}, has : SUBSET Work, tip : Commit] /\ main.v \in Nat
        /\ main.tip # NoCommit => main.tip.has \subseteq main.has /\ main.tip.onto < main.v
    BY Hosts DEF HostTyped, HostIsSound
  <2>2. rec.m = m /\ wt = 0
    BY <1>10, NotStale
  <2>3. QED
    BY <1>1, <1>8, <1>10, <2>1, <2>2
<1>11. CASE ~Stale(m) /\ Says("merged") /\ Lands(m) /\ CleansUp(m, merge[m].commit)
  <2>1. /\ main' \in [v : Nat \ {0}, has : SUBSET Work, tip : Commit]
        /\ main'.v = main.v + 1 /\ main.has \subseteq main'.has
        /\ main'.tip = merge[m].commit /\ main'.tip.has \subseteq main'.has /\ main'.tip.onto < main'.v
    BY <1>11, Landing
  <2>2. rec.m = m /\ wt = 0 /\ main'.v >= main.v
    BY <1>11, <2>1, NotStale, Hosts
  <2>3. QED
    BY <1>1, <1>8, <1>11, <2>1, <2>2
<1>12. CASE ~Stale(m) /\ Lands(m) /\ Fault("cut") /\ Defers(m) /\ UNCHANGED <<branch, rec, landed>>
  <2>1. /\ main' \in [v : Nat \ {0}, has : SUBSET Work, tip : Commit]
        /\ main'.v = main.v + 1 /\ main.has \subseteq main'.has
        /\ main'.tip = merge[m].commit /\ main'.tip.has \subseteq main'.has /\ main'.tip.onto < main'.v
    BY <1>12, Landing
  <2>2. main.v \in Nat /\ rec.onto \in Nat /\ \A p \in Merges : landed[p].onto \in Nat
    BY Hosts DEF HostTyped, Commit
  <2>3. HostTyped'
    BY <1>2, <1>12, <2>1, Hosts DEF HostTyped
  <2>4. HostIsSound'
    BY <1>2, <1>12, <2>1, <2>2, Hosts DEF HostIsSound
  <2>5. LandedIsOver'
    BY <1>12, <2>1, <2>2, Hosts DEF LandedIsOver
  <2>6. QED
    BY <1>4, <1>5, <1>12, <2>3, <2>4, <2>5
<1>13. CASE /\ Tells(m, "concluded", [NoReply EXCEPT !.k = "waiting"]) /\ still
            /\ left.waits > 0 /\ left' = [left EXCEPT !.waits = @ - 1]
  <2> DEFINE y == [merge[m] EXCEPT !.at = "concluded", !.reply = [NoReply EXCEPT !.k = "waiting"]]
  <2>1. /\ merge[m] \in MergeRow /\ PlaceAgrees(merge[m]) /\ JobAgrees(merge[m]) /\ merge[m].job = "running"
        /\ merge[m].st # "none"
    BY <1>2, Rows, Working
  <2>2. /\ y \in MergeRow /\ y.st = merge[m].st /\ y.basis = merge[m].basis /\ y.onto = merge[m].onto
        /\ y.commit = merge[m].commit /\ y.tries = merge[m].tries /\ y.job = "running"
        /\ y.at = "concluded" /\ y.view = merge[m].view
    BY <1>3, <2>1 DEF MergeRow
  <2>3. merge' = [merge EXCEPT ![m] = y]
    BY <1>1, <1>13 DEF Tells
  <2> HIDE DEF y
  <2>4. PlaceAgrees(y) /\ JobAgrees(y)
    BY <1>1, <2>1, <2>2 DEF PlaceAgrees, JobAgrees
  <2>5. Turns(m, y) /\ Spent
    BY <1>1, <1>13, <2>1, <2>2, <2>4, SpentIs DEF Turns
  <2>6. QED
    BY <1>5, <1>6, <1>13, <2>2, <2>3, <2>5
<1>14. \/ landed[m] # NoCommit /\ Says("merged") /\ CleansUp(m, landed[m]) /\ UNCHANGED main
       \/ \E k \in {"merged", "again", "main_moved"} : Says(k) /\ still
       \/ /\ ~Stale(m) /\ main.tip = merge[m].commit /\ Says("merged")
          /\ CleansUp(m, merge[m].commit) /\ UNCHANGED main
       \/ ~Stale(m) /\ Says("merged") /\ Lands(m) /\ CleansUp(m, merge[m].commit)
       \/ ~Stale(m) /\ Lands(m) /\ Fault("cut") /\ Defers(m) /\ UNCHANGED <<branch, rec, landed>>
       \/ /\ Tells(m, "concluded", [NoReply EXCEPT !.k = "waiting"]) /\ still
          /\ left.waits > 0 /\ left' = [left EXCEPT !.waits = @ - 1]
  BY DEF Finish
<1> HIDE DEF Says, still
<1>15. QED
  BY <1>7, <1>9, <1>10, <1>11, <1>12, <1>13, <1>14

-----------------------------------------------------------------------------
(* The invariant is inductive, and what it says                            *)

LEMMA InitHolds == ASSUME Init PROVE IInv
<1>1. /\ left \in Limits /\ task = "open" /\ run = [r \in Runs |-> "none"] /\ attempt = [r \in Runs |-> 1]
      /\ begun = {} /\ merge = [m \in Merges |-> NoMerge]
      /\ main = [v |-> 1, has |-> {}, tip |-> NoCommit] /\ branch = NoBranch /\ wt = 0 /\ rec = NoRec
      /\ answered = {} /\ landed = [m \in Merges |-> NoCommit] /\ settled = {} /\ verified = {}
  BY Given0 DEF Init
<1>2. \A m \in Merges : merge[m] = NoMerge /\ landed[m] = NoCommit
  BY <1>1
<1>3. Typed
  BY <1>1, Nothing, NothingAsked DEF Typed, HostTyped, RunsTyped
<1>4. RowsAreSound
  <2>1. left.tries \in Nat
    BY <1>1 DEF Limits
  <2>2. QED
    BY <1>2, <2>1, NothingAsked DEF RowsAreSound, PlaceAgrees, JobAgrees, UnderWay
<1>5. OneOpen /\ LateOnce
  BY <1>1, <1>2, NothingAsked DEF OneOpen, LateOnce, Open, UnderWay, Stopped
<1>6. HostIsSound /\ LandedIsOver
  BY <1>1, <1>2, Nothing DEF HostIsSound, LandedIsOver
<1>7. HoldsAgree /\ ReadyIsVerified
  BY <1>1, <1>2, Nothing, NothingAsked, Given0 DEF HoldsAgree, ReadyIsVerified, HoldAgrees, Held, IsReady
<1>8. QED
  BY <1>3, <1>4, <1>5, <1>6, <1>7 DEF IInv

LEMMA StepHolds == ASSUME IInv, [Next]_vars PROVE IInv'
<1>1. CASE UNCHANGED vars
  BY <1>1 DEF vars, IInv, Typed, HostTyped, RunsTyped, RowsAreSound, PlaceAgrees, JobAgrees, OneOpen, LateOnce,
     HostIsSound, LandedIsOver, HoldsAgree, HoldAgrees, Held, ReadyIsVerified, IsReady, Stale
<1>2. CASE Close \/ Reopen \/ MoveMain \/ Crash
  BY <1>2, CloseStep, ReopenStep, MoveMainStep, CrashStep
<1>3. ASSUME NEW r \in Runs, Run(r) PROVE IInv'
  BY <1>3, QueueStep, AdmitStep, StartStep, LaunchStep, EndStep, SettleStep, ResumeStep DEF Run
<1>4. ASSUME NEW m \in Merges, Wake(m) \/ Take(m) \/ Resolve(m) \/ Throw(m) PROVE IInv'
  BY <1>4, WakeStep, TakeStep, ResolveStep, ThrowStep
<1>5. ASSUME NEW m \in Merges, Works(m) PROVE IInv'
  <2>1. CASE Begin(m) \/ Answered(m) \/ Verify(m) \/ Check(m) \/ Concluded(m) \/ Handed(m) \/ Given(m) \/ Busy(m)
    BY <2>1, BeginStep, AnsweredStep, VerifyStep, CheckStep, ConcludedStep, HandedStep, GivenStep, BusyStep
  <2>2. CASE Prepare(m) \/ Continue(m) \/ Finish(m) \/ Hand(m) \/ Give(m) \/ Return(m) \/ Delete(m)
    BY <2>2, PrepareStep, ContinueStep, FinishStep, HandStep, GiveStep, ReturnStep, DeleteStep
  <2>3. QED
    BY <1>5, <2>1, <2>2 DEF Works
<1>6. QED
  BY <1>1, <1>2, <1>3, <1>4, <1>5, Zenon DEF Next

LEMMA Answers == ASSUME IInv PROVE MergesAnswer
<1>1. TypeOK
  <2>1. ASSUME NEW m \in Merges
        PROVE  /\ merge[m].st \in UnderWay \cup Stopped \cup Finished \cup {"none"}
               /\ merge[m].res \in {"none", "queued", "running", "ended", "cancelled"}
               /\ merge[m].job \in {"none", "pending", "running"}
               /\ merge[m].tries \in 0..left.tries
               /\ (merge[m].at = "idle") = (merge[m].job # "running")
    <3>1. merge[m] \in MergeRow /\ JobAgrees(merge[m]) /\ left.tries \in Nat
      BY Rows
    <3>2. merge[m].tries \in Nat /\ merge[m].st \in States
      BY <3>1, RowFields
    <3>3. QED
      BY <3>1, <3>2, RowFields DEF States, Open, JobAgrees
  <2>2. left.faults \in Nat /\ left.moves \in Nat /\ left.closes \in Nat /\ left.waits \in Nat
    BY DEF IInv, Typed, RunsTyped, Limits
  <2>3. QED
    BY <2>1, <2>2, Hosts DEF TypeOK, IInv, Typed, RunsTyped, HostTyped
<1>2. ConflictIsThePersons
  BY DEF ConflictIsThePersons, IInv, HoldsAgree, HoldAgrees
<1>3. HeldIsAnsweredFor
  <2>1. SUFFICES ASSUME Held,
                        "throw" \in left.kinds =>
                          \A m, o \in Merges : merge[m].st # "none" /\ merge[o].st # "none" => m = o
                 PROVE  rec.m \in Merges /\ merge[rec.m].st \in UnderWay \cup Stopped
    BY DEF HeldIsAnsweredFor, Held
  <2>2. rec.m \in Merges
    BY <2>1, Hosts DEF Held, HostIsSound
  <2>3. \/ merge[rec.m].st \in {"rebasing", "resolving", "failed"}
        \/ /\ "throw" \in left.kinds /\ merge[rec.m].st = "superseded"
           /\ \E o \in Merges : o # rec.m /\ merge[o].st # "none"
    BY <2>1, <2>2 DEF IInv, HoldsAgree, HoldAgrees
  <2>4. QED
    BY <2>1, <2>2, <2>3 DEF UnderWay, Stopped
<1>4. OneUnderWay
  BY DEF OneUnderWay, IInv, OneOpen, Open
<1>5. UnderWayHasJob
  BY DEF UnderWayHasJob, IInv, RowsAreSound, JobAgrees
<1>6. QED
  BY <1>1, <1>2, <1>3, <1>4, <1>5 DEF MergesAnswer

(* The merges of a Task and the host answer for each other, whatever the   *)
(* order of closes, reopens, Runs, lost answers, cut steps, throws and     *)
(* crashes (taskMerges.ts:166-176, 379-388, 688-751, 828-877): one merge   *)
(* is under way at a time and has a job, a conflict is the person's only   *)
(* once the host has put the branch back, and what holds the worktree      *)
(* against the next Run is held by a merge not finished.                   *)
THEOREM MergesAlwaysAnswer == Spec => []MergesAnswer
<1>1. Init => IInv
  BY InitHolds
<1>2. IInv /\ [Next]_vars => IInv'
  BY StepHolds
<1>3. IInv => MergesAnswer
  BY Answers
<1>4. QED
  BY <1>1, <1>2, <1>3, PTL DEF Spec

-----------------------------------------------------------------------------
(* What a step does to work                                                *)

HostWorks(m) == Prepare(m) \/ Continue(m) \/ Finish(m) \/ Hand(m) \/ Give(m) \/ Return(m) \/ Delete(m)

(* Every other step leaves work where it is.                               *)
LEMMA Quiet ==
  ASSUME [Next]_vars
  PROVE  \/ UNCHANGED <<main, branch, rec, settled>>
         \/ MoveMain
         \/ \E r \in Runs : Launch(r) \/ Settle(r)
         \/ \E m \in Merges : HostWorks(m)
<1>1. CASE UNCHANGED vars \/ Close \/ Reopen \/ Crash
  BY <1>1 DEF vars, Close, Reopen, Crash, host_vars
<1>2. ASSUME NEW r \in Runs, Queue(r) \/ Admit(r) \/ Start(r) \/ End(r) \/ Resume(r)
      PROVE  UNCHANGED <<main, branch, rec, settled>>
  BY <1>2 DEF Queue, Admit, Start, End, Resume, host_vars
<1>3. ASSUME NEW m \in Merges, Wake(m) \/ Take(m) \/ Resolve(m) \/ Throw(m)
      PROVE  UNCHANGED <<main, branch, rec, settled>>
  BY <1>3 DEF Wake, Take, Resolve, Throw, host_vars
<1>4. ASSUME NEW m \in Merges, NEW y, Applies(m, y)
      PROVE  UNCHANGED <<main, branch, rec, settled>>
  BY <1>4 DEF Applies, host_vars
<1>5. ASSUME NEW m \in Merges, Begin(m) \/ Answered(m) \/ Check(m) \/ Concluded(m) \/ Handed(m) \/ Given(m) \/ Busy(m)
      PROVE  UNCHANGED <<main, branch, rec, settled>>
  BY <1>4, <1>5, Zenon DEF Begin, Answered, Check, Concluded, Handed, Given, Busy
<1>6. ASSUME NEW m \in Merges, Verify(m) PROVE UNCHANGED <<main, branch, rec, settled>>
  BY <1>6 DEF Verify, host_vars
<1>7. QED
  BY <1>1, <1>2, <1>3, <1>5, <1>6, Zenon DEF Next, Run, Works, HostWorks

(* Where the work of a branch and of a merge record is, besides.           *)
LEMMA WorkIsHeld ==
  ASSUME IInv
  PROVE  /\ rec.has \subseteq branch.has \cup main.has
         /\ rec.st # "none" => branch.has \subseteq rec.has \cup main.has
         /\ ~branch.on => branch.has = {} /\ Leftovers = {}
         /\ rec.st # "none" => Leftovers = {}
<1>1. rec.st = "none" => rec.has = {}
  BY Nothing, Hosts DEF HostIsSound
<1>2. QED
  BY <1>1, Hosts DEF HostIsSound, Leftovers

LEMMA LaunchLosesNothing == ASSUME IInv, NEW r \in Runs, Launch(r), Kept PROVE Kept'
<1>1. CASE rec.st \in {"preparing", "conflict"}
  BY <1>1 DEF Launch, Kept
<1>2. CASE rec.st \notin {"preparing", "conflict"}
  <2> DEFINE rest == Leftovers \ {Unit(r)}
  <2>1. /\ rec' = NoRec /\ main' = main /\ settled' = settled \cup rest
        /\ branch' = IF ~branch.on THEN [NoBranch EXCEPT !.on = TRUE, !.has = main.has]
                     ELSE IF rest = {} THEN branch
                     ELSE [branch EXCEPT !.has = @ \cup rest, !.tip = NoCommit]
    BY <1>2 DEF Launch
  <2>2. branch \in BranchTypes /\ rest \subseteq Leftovers
    BY Hosts DEF HostTyped, BranchTypes
  <2>3. branch.has \cup rest \subseteq branch'.has \cup main.has
    <3> HIDE DEF rest
    <3>1. CASE ~branch.on
      BY <2>1, <2>2, <3>1, WorkIsHeld
    <3>2. CASE branch.on
      BY <2>1, <2>2, <3>2 DEF BranchTypes
    <3>3. QED
      BY <3>1, <3>2
  <2>4. QED
    BY <2>1, <2>3, WorkIsHeld DEF Kept
<1>3. QED
  BY <1>1, <1>2

LEMMA SettleLosesNothing == ASSUME IInv, NEW r \in Runs, Settle(r), Kept PROVE Kept'
<1>1. main' = main /\ rec' = rec /\ (UNCHANGED <<branch, settled>> \/ HostSettles(r))
  BY DEF Settle
<1>2. CASE UNCHANGED <<branch, settled>>
  BY <1>1, <1>2 DEF Kept
<1>3. CASE wt = r /\ HostSettles(r)
  <2>1. branch \in BranchTypes
    BY Hosts DEF HostTyped, BranchTypes
  <2>2. branch'.has = branch.has \cup {Unit(r)} /\ settled' = settled \cup {Unit(r)}
    BY <1>3, <2>1 DEF HostSettles, BranchTypes
  <2>3. QED
    BY <1>1, <2>2 DEF Kept
<1>4. QED
  BY <1>1, <1>2, <1>3 DEF HostSettles

LEMMA PrepareLosesNothing == ASSUME IInv, NEW m \in Merges, Prepare(m), Kept PROVE Kept'
<1>1. main' = main /\ \E o \in Prepares(m) : branch' = o.branch /\ rec' = o.rec
  BY DEF Prepare
<1>2. CASE Again(m)
  <2>1. Prepares(m) = {[k |-> rec.st, branch |-> branch, rec |-> rec]}
    BY <1>2 DEF Prepares
  <2>2. rec' = rec /\ branch' = branch /\ settled' = settled
    BY <1>1, <1>2, <2>1 DEF Prepare
  <2>3. QED
    BY <1>1, <2>2 DEF Kept
<1>3. CASE ~Again(m)
  <2> DEFINE has == ReadyHas(m)
             squash == [st |-> "preparing", m |-> m, onto |-> main.v, has |-> has, commit |-> NoCommit]
             commit == [has |-> has \cup main.has, onto |-> main.v, by |-> 0]
             on(t) == [on |-> TRUE, has |-> has \cup t.has, tip |-> t]
  <2>1. settled' = settled \cup IF rec.st = "none" THEN Leftovers ELSE {}
    BY <1>3 DEF Prepare
  <2>2. settled' \subseteq main.has \cup has
    <3>1. CASE rec.st = "none"
      BY <2>1, <3>1, WorkIsHeld, Hosts, Nothing DEF Kept, ReadyHas, HostIsSound
    <3>2. CASE rec.st # "none"
      BY <2>1, <3>2, WorkIsHeld DEF Kept, ReadyHas
    <3>3. QED
      BY <3>1, <3>2
  <2>3. ~branch.on => has \subseteq main.has
    <3>1. ~branch.on => branch.has = {} /\ Leftovers = {} /\ rec.has \subseteq main.has
      BY WorkIsHeld
    <3>2. QED
      BY <3>1 DEF ReadyHas
  <2>4. \/ rec' = NoRec /\ branch' = (IF branch.on THEN on(NoCommit) ELSE branch)
        \/ branch' = on(commit)
        \/ branch' = on(NoCommit)
    <3>1. PICK o \in Prepares(m) : branch' = o.branch /\ rec' = o.rec
      BY <1>1
    <3>2. \/ o = [k |-> "no_changes", rec |-> NoRec, branch |-> IF branch.on THEN on(NoCommit) ELSE branch]
          \/ o = [k |-> "rebased", branch |-> on(commit),
                  rec |-> [squash EXCEPT !.st = "rebased", !.commit = commit]]
          \/ o = [k |-> "cut", branch |-> on(NoCommit), rec |-> squash]
          \/ o = [k |-> "conflict", branch |-> on(NoCommit), rec |-> [squash EXCEPT !.st = "conflict"]]
      BY <1>3 DEF Prepares
    <3> HIDE DEF on, squash, commit
    <3>3. QED
      BY <3>1, <3>2
  <2> HIDE DEF has
  <2>5. on(commit).has = has \cup (has \cup main.has) /\ on(NoCommit).has = has \cup NoCommit.has
    OBVIOUS
  <2> HIDE DEF on
  <2>6. has \subseteq branch'.has \cup main.has
    BY <2>3, <2>4, <2>5
  <2>7. QED
    BY <1>1, <2>2, <2>6 DEF Kept
<1>4. QED
  BY <1>2, <1>3

LEMMA ContinueLosesNothing == ASSUME IInv, NEW m \in Merges, Continue(m), Kept PROVE Kept'
<1>1. main' = main /\ settled' = settled
  BY DEF Continue
<1>2. CASE UNCHANGED <<branch, rec>>
  BY <1>1, <1>2 DEF Kept
<1>3. CASE branch'.has = rec.has \cup main.has /\ rec.st = "conflict"
  BY <1>1, <1>3, WorkIsHeld DEF Kept
<1>4. QED
  BY <1>2, <1>3 DEF Continue

LEMMA AbortLosesNothing ==
  ASSUME IInv, NEW m \in Merges, Aborts(m), Kept, main' = main, settled' = settled
  PROVE  Kept'
<1>1. CASE rec.m # m
  BY <1>1 DEF Aborts, Kept
<1>2. CASE rec.m = m
  <2>1. rec.st # "none"
    BY <1>2, Hosts, Nothing DEF HostIsSound
  <2>2. branch' = [on |-> TRUE, has |-> rec.has, tip |-> NoCommit]
    BY <1>2, <2>1 DEF Aborts, Restored
  <2>3. branch'.has = rec.has
    BY <2>2
  <2>4. QED
    BY <2>1, <2>3, WorkIsHeld DEF Kept
<1>3. QED
  BY <1>1, <1>2

LEMMA FinishLosesNothing == ASSUME IInv, NEW m \in Merges, Finish(m), Kept PROVE Kept'
<1>1. settled' = settled
  BY DEF Finish
<1>2. CASE UNCHANGED <<branch, rec>> /\ main.has \subseteq main'.has
  BY <1>1, <1>2 DEF Kept
<1>3. ASSUME NEW commit, CleansUp(m, commit), main.has \subseteq main'.has,
             branch.tip = commit => branch.has \subseteq main'.has
      PROVE  Kept'
  <2>1. /\ rec' = IF rec.m = m THEN NoRec ELSE rec
        /\ branch' = IF branch.tip = commit THEN NoBranch ELSE branch
    BY <1>3 DEF CleansUp
  <2>2. branch.has \subseteq branch'.has \cup main'.has
    BY <1>3, <2>1
  <2>3. QED
    BY <1>1, <1>3, <2>1, <2>2, WorkIsHeld DEF Kept
<1>4. CASE landed[m] # NoCommit /\ CleansUp(m, landed[m]) /\ UNCHANGED main
  BY <1>3, <1>4, Hosts DEF LandedIsOver
<1>5. ASSUME ~Stale(m)
      PROVE  branch.has \subseteq merge[m].commit.has /\ merge[m].commit # NoCommit
  <2>1. branch.tip = merge[m].commit /\ merge[m].commit.onto \in 1 .. main.v
    BY <1>5, NotStale
  <2>2. merge[m].commit # NoCommit
    BY <2>1, Nothing
  <2>3. QED
    BY <2>1, <2>2, Hosts DEF HostIsSound
<1>6. CASE ~Stale(m) /\ main.tip = merge[m].commit /\ CleansUp(m, merge[m].commit) /\ UNCHANGED main
  BY <1>3, <1>5, <1>6, Hosts DEF HostIsSound
<1>7. CASE ~Stale(m) /\ Lands(m) /\ CleansUp(m, merge[m].commit)
  <2>1. main.has \subseteq main'.has /\ main'.tip = merge[m].commit /\ main'.tip.has \subseteq main'.has
    BY <1>7, Landing
  <2>2. QED
    BY <1>3, <1>5, <1>7, <2>1
<1>8. CASE ~Stale(m) /\ Lands(m) /\ UNCHANGED <<branch, rec>>
  BY <1>2, <1>8, Landing
<1>9. QED
  BY <1>2, <1>4, <1>6, <1>7, <1>8, Zenon DEF Finish

LEMMA LosesNothing == ASSUME IInv, [Next]_vars, Kept PROVE Kept' \/ Deletes
<1>1. CASE UNCHANGED <<main, branch, rec, settled>>
  BY <1>1 DEF Kept
<1>2. CASE MoveMain
  <2>1. main'.has = main.has /\ UNCHANGED <<branch, rec, settled>>
    BY <1>2, Hosts DEF MoveMain, HostTyped
  <2>2. QED
    BY <2>1 DEF Kept
<1>3. ASSUME NEW r \in Runs, Launch(r) \/ Settle(r) PROVE Kept'
  BY <1>3, LaunchLosesNothing, SettleLosesNothing
<1>4. ASSUME NEW m \in Merges, Prepare(m) \/ Continue(m) \/ Finish(m) PROVE Kept'
  BY <1>4, PrepareLosesNothing, ContinueLosesNothing, FinishLosesNothing
<1>5. ASSUME NEW m \in Merges, Hand(m) \/ Give(m) \/ Return(m) PROVE Kept'
  <2>1. main' = main /\ settled' = settled /\ (Aborts(m) \/ UNCHANGED <<branch, rec>>)
    BY <1>5 DEF Hand, Give, Return, HostRest
  <2>2. QED
    BY <2>1, AbortLosesNothing DEF Kept
<1>6. ASSUME NEW m \in Merges, Delete(m) PROVE Deletes
  <2>1. merge \in [Merges -> MergeRow] /\ merge[m] \in MergeRow /\ merge[m].at = "delete"
    BY <1>6, Rows DEF Delete
  <2>2. merge'[m].at = "idle"
    BY <1>6, <2>1, EndedIs DEF Delete
  <2>3. QED
    BY <2>1, <2>2 DEF Deletes
<1>7. QED
  BY <1>1, <1>2, <1>3, <1>4, <1>5, <1>6, Quiet DEF HostWorks

(* Only the finish of a verified merge moves work onto main.               *)
LEMMA LandsVerified ==
  ASSUME IInv, [Next]_vars, main'.has # main.has
  PROVE  main'.tip \in verified /\ main'.tip.onto = main.v
<1>1. main' # main
  OBVIOUS
<1>2. ~MoveMain
  <2>1. MoveMain => main'.has = main.has
    BY Hosts DEF MoveMain, HostTyped
  <2>2. QED
    BY <2>1
<1>3. \A r \in Runs : Launch(r) \/ Settle(r) => main' = main
  BY DEF Launch, Settle
<1>4. \A m \in Merges : HostWorks(m) => Finish(m)
  BY <1>1 DEF HostWorks, Prepare, Continue, Hand, Give, Return, Delete, HostRest
<1>5. PICK m \in Merges : Finish(m)
  BY <1>1, <1>2, <1>3, <1>4, Quiet
<1>6. ~Stale(m) /\ Lands(m) /\ ~MainMoved(m) /\ merge[m].at = "finish"
  BY <1>1, <1>5 DEF Finish
<1>7. merge[m].commit \in verified
  BY <1>6 DEF IInv, ReadyIsVerified, IsReady
<1>8. main'.tip = merge[m].commit
  BY <1>6, Landing
<1>9. merge[m].commit.onto = main.v
  <2>1. rec.st = "rebased" /\ rec.commit = merge[m].commit /\ rec.onto = merge[m].onto
    BY <1>6 DEF Stale
  <2>2. QED
    BY <1>6, <2>1, Hosts DEF MainMoved, HostIsSound
<1>10. QED
  BY <1>7, <1>8, <1>9

(* Only its settlement ends a Run that has ended.                          *)
LEMMA AsksForLateWork ==
  ASSUME IInv, [Next]_vars, ~left.resumes, task = "done", settled' # settled,
         NEW r \in Runs, run[r] \in {"ended", "owed"}, run'[r] \in {"over", "held"}
  PROVE  \E m \in Merges : merge'[m].st \in Open
<1>1. run \in [Runs -> RunStates]
  BY RunsSound
<1>2. \A q \in Runs : ~Launch(q)
  BY <1>1 DEF Launch
<1>3. \A m \in Merges : ~HostWorks(m)
  BY DEF HostWorks, Prepare, Continue, Finish, Hand, Give, Return, Delete, HostRest, run_vars
<1>4. ~MoveMain
  BY DEF MoveMain
<1>5. PICK q \in Runs : Settle(q)
  BY <1>2, <1>3, <1>4, Quiet
<1>6. q = r /\ HostSettles(r) /\ merge' \in LateMerge(r)
  <2>1. \E s : run' = [run EXCEPT ![q] = s]
    BY <1>5 DEF Settle
  <2>2. q = r
    BY <1>1, <2>1
  <2>3. run'[r] # "owed"
    OBVIOUS
  <2>4. run' # [run EXCEPT ![r] = "owed"]
    BY <1>1, <2>3
  <2>5. QED
    BY <1>5, <2>2, <2>4 DEF Settle
<1>7. merge' \in AskedBy(r)
  BY <1>6 DEF HostSettles, LateMerge
<1>8. r # 0
  BY Given0
<1>9. ~\E m \in Merges : merge[m].basis = r
  BY <1>8 DEF IInv, LateOnce
<1>10. QED
  BY <1>7, <1>9, Asks

(* What happens to settled work, for any Runs, merges and bounds: it is    *)
(* never lost by a launch, a merge, its abort or a cut-short step, work    *)
(* that settles onto the branch of a done Task is asked for, and only what *)
(* was verified on the commit of main it lands on lands                    *)
(* (taskMerges.ts:316-321, 515-542; taskMerge.ts:341-352, 567-651,         *)
(* 790-829; taskWorktree.ts:1148-1156).                                    *)
THEOREM WorkIsAlwaysKept == Spec => WorkIsKept
<1>1. Init => IInv
  BY InitHolds
<1>2. IInv /\ [Next]_vars => IInv'
  BY StepHolds
<1>3. IInv /\ [Next]_vars => [Kept => (Kept' \/ Deletes)]_vars
  BY LosesNothing
<1>4. IInv /\ [Next]_vars =>
        [(/\ ~left.resumes
          /\ task = "done" /\ settled' # settled
          /\ \E r \in Runs : run[r] \in {"ended", "owed"} /\ run'[r] \in {"over", "held"})
         => \E m \in Merges : merge'[m].st \in UnderWay \cup Stopped]_vars
  BY AsksForLateWork DEF Open
<1>5. IInv /\ [Next]_vars =>
        [(main'.has # main.has) => (main'.tip \in verified /\ main'.tip.onto = main.v)]_vars
  BY LandsVerified
<1>6. QED
  BY <1>1, <1>2, <1>3, <1>4, <1>5, PTL DEF Spec, WorkIsKept, NothingLost, LateWorkIsAskedFor, LandedIsVerified
=============================================================================
