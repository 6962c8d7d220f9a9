-------------------------- MODULE LocationLeases --------------------------
(***************************************************************************)
(* The host daemon's execution leases (host-daemon/src/locationLease.ts):  *)
(* one reader-writer lock per directory, with a queue in arrival order.    *)
(*                                                                         *)
(* A launch attempt asks for all its leases at once and takes them one by  *)
(* one in sorted order.  A grant only resolves the attempt's promise: the  *)
(* attempt goes on in a later turn, and a stop may reach it in between.    *)
(* Maintenance of a Task worktree takes its lease only when nobody holds   *)
(* or wants it.                                                            *)
(***************************************************************************)
EXTENDS Naturals, Sequences, SequencesExt

CONSTANTS Launches,     \* launch attempts, by their nonce
          Maintenance,  \* settles, deletes and sweeps of a Task worktree
          Keys,         \* lease keys; sorted as numbers
          Writes,       \* the keys a launch asks for exclusively
          Reads,        \* the keys it asks for shared
          Tends         \* the key a maintenance works on

ASSUME KeysAssumption == Keys \subseteq Nat
ASSUME OwnersAssumption == Launches \intersect Maintenance = {}
ASSUME PlanAssumption ==
    /\ Writes \in [Launches -> SUBSET Keys]
    /\ Reads \in [Launches -> SUBSET Keys]
    /\ Tends \in [Maintenance -> Keys]

VARIABLES lease,      \* per key: its mode, its holders, its queue; or NoLease
          attempt,    \* how far each attempt has come
          held,       \* the leases an attempt knows it holds
          cancelled,  \* attempts whose wait was cancelled
          tending     \* maintenance that holds its lease

leaseVars == <<lease, attempt, held, cancelled, tending>>

NoLease == [mode |-> "none", holders |-> {}, queue |-> <<>>]
Waiter(l, m) == [launchId |-> l, mode |-> m]

(* A key asked for both ways is taken exclusively. *)
Ids(l) == Writes[l] \union Reads[l]
ModeOf(l, k) == IF k \in Writes[l] THEN "exclusive" ELSE "shared"

(* The next key of the loop over the sorted ids, after those in done. *)
Due(l, done) == CHOOSE k \in Ids(l) \ done : \A j \in Ids(l) \ done : k <= j

(* Attempts between asking for their leases and an outcome: the map          *)
(* `acquiring`. "granted" and "refused" have a resolved promise to continue. *)
Acquiring == {l \in Launches : attempt[l] \in {"queued", "granted", "refused"}}

LeaseInit ==
    /\ lease = [k \in Keys |-> NoLease]
    /\ attempt = [l \in Launches |-> "idle"]
    /\ held = [l \in Launches |-> {}]
    /\ cancelled = {}
    /\ tending = {}

-----------------------------------------------------------------------------
(* admitWaiting: the writer at the front of a free lease, or every reader    *)
(* before the first writer; a lease nobody holds or awaits is deleted.       *)
Readers(q) == IF \E i \in DOMAIN q : q[i].mode = "exclusive"
              THEN (CHOOSE i \in DOMAIN q : /\ q[i].mode = "exclusive"
                                            /\ \A j \in 1 .. i - 1 : q[j].mode = "shared") - 1
              ELSE Len(q)

Admit(r) ==
    LET n == Readers(r.queue) IN
    IF r.queue = <<>>
      THEN IF r.holders = {} THEN NoLease ELSE r
    ELSE IF n = 0
      THEN IF r.holders # {} THEN r
           ELSE [mode |-> "exclusive", holders |-> {r.queue[1].launchId}, queue |-> Tail(r.queue)]
    ELSE IF r.holders # {} /\ r.mode = "exclusive" THEN r
    ELSE [mode |-> "shared",
          holders |-> r.holders \union {r.queue[i].launchId : i \in 1 .. n},
          queue |-> SubSeq(r.queue, n + 1, Len(r.queue))]

(* acquireOne: a free lease is taken, readers join readers while nobody      *)
(* waits, anybody else queues.                                               *)
Joins_AnyMode(r, m) == r = NoLease \/ (m = "shared" /\ r.queue = <<>>)
Joins(r, m) == r = NoLease \/ (m = "shared" /\ r.mode = "shared" /\ r.queue = <<>>)
Asked(r, l, m) ==
    IF Joins(r, m)
    THEN [r EXCEPT !.mode = m, !.holders = @ \union {l}]
    ELSE [r EXCEPT !.queue = Append(@, Waiter(l, m))]

(* releaseLocationLeases for one key: only a holder's own release counts.    *)
Dropped_NobodyMoves(r, o) == [r EXCEPT !.holders = @ \ {o}]
Dropped(r, o) == IF o \in r.holders THEN Admit([r EXCEPT !.holders = @ \ {o}]) ELSE r
Released(table, ks, o) == [k \in Keys |-> IF k \in ks THEN Dropped(table[k], o) ELSE table[k]]

(* cancelWait for one key: out of the queue; whoever stood behind the front  *)
(* may now be let in.                                                        *)
Waits(r, l) == \E i \in DOMAIN r.queue : r.queue[i].launchId = l
Left(r, l) ==
    IF ~Waits(r, l) THEN r
    ELSE LET i == CHOOSE i \in DOMAIN r.queue : r.queue[i].launchId = l
             rest == [r EXCEPT !.queue = RemoveAt(@, i)]
         IN IF i = 1 THEN Admit(rest) ELSE rest

(* The promises resolved by a change of the table: a waiter that holds its   *)
(* due lease now is granted.                                                 *)
Woken(table, att) == [l \in Launches |->
    IF att[l] = "queued" /\ l \in table[Due(l, held[l])].holders THEN "granted" ELSE att[l]]

(* isLeaseBusy: held, or wanted by an attempt that has not reached it yet.   *)
LeaseBusy(k) == lease[k] # NoLease \/ \E l \in Acquiring : k \in Ids(l)

-----------------------------------------------------------------------------
(* The attempt ends without its leases: it gives back those it took.         *)
GiveUp(l, taken) ==
    /\ lease' = Released(lease, taken, l)
    /\ attempt' = [Woken(lease', attempt) EXCEPT ![l] = "cancelled"]
    /\ held' = [held EXCEPT ![l] = {}]

(* One turn of the loop in acquireLocationLeases, with `done` already taken. *)
(* It asks for the next lease, or ends with every lease or with none.        *)
Turn(l, done) ==
    \/ /\ l \notin cancelled /\ done # Ids(l)
       /\ LET k == Due(l, done) IN
          /\ lease' = [lease EXCEPT ![k] = Asked(@, l, ModeOf(l, k))]
          /\ attempt' = [attempt EXCEPT ![l] = IF Joins(lease[k], ModeOf(l, k)) THEN "granted" ELSE "queued"]
       /\ held' = [held EXCEPT ![l] = done]
    \/ /\ l \notin cancelled /\ done = Ids(l)
       /\ attempt' = [attempt EXCEPT ![l] = "acquired"]
       /\ held' = [held EXCEPT ![l] = done]
       /\ UNCHANGED lease
    \/ l \in cancelled /\ GiveUp(l, done)

(* acquireLocationLeases is called; its first turn runs at once. *)
Ask(l) ==
    /\ attempt[l] = "idle"
    /\ Turn(l, {})
    /\ UNCHANGED <<cancelled, tending>>

(* The awaited acquireOne resolves. *)
Resume(l) ==
    /\ attempt[l] \in {"granted", "refused"}
    /\ IF attempt[l] = "granted"
       THEN Turn(l, held[l] \union {Due(l, held[l])})
       ELSE GiveUp(l, held[l])
    /\ UNCHANGED <<cancelled, tending>>

(* cancelLeaseWaits reaches one attempt: it is marked, and leaves its queue. *)
Cancel(l) ==
    /\ l \in Acquiring
    /\ cancelled' = cancelled \union {l}
    /\ IF attempt[l] = "queued"
       THEN LET k == Due(l, held[l]) IN
            /\ lease' = [lease EXCEPT ![k] = Left(@, l)]
            /\ attempt' = [Woken(lease', attempt) EXCEPT ![l] = "refused"]
       ELSE UNCHANGED <<lease, attempt>>
    /\ UNCHANGED <<held, tending>>

(* The holder of its leases gives them all up. *)
Release(l) ==
    /\ attempt[l] = "acquired"
    /\ lease' = Released(lease, held[l], l)
    /\ attempt' = [Woken(lease', attempt) EXCEPT ![l] = "released"]
    /\ held' = [held EXCEPT ![l] = {}]
    /\ UNCHANGED <<cancelled, tending>>

(* withTaskHeld: maintenance takes its lease without waiting, or not at all. *)
Tend(h) ==
    /\ h \notin tending
    /\ ~LeaseBusy(Tends[h])
    /\ lease' = [lease EXCEPT ![Tends[h]] = [mode |-> "exclusive", holders |-> {h}, queue |-> <<>>]]
    /\ tending' = tending \union {h}
    /\ UNCHANGED <<attempt, held, cancelled>>

TendDone(h) ==
    /\ h \in tending
    /\ lease' = Released(lease, {Tends[h]}, h)
    /\ attempt' = Woken(lease', attempt)
    /\ tending' = tending \ {h}
    /\ UNCHANGED <<held, cancelled>>

LeaseNext ==
    \/ \E l \in Launches : Ask(l) \/ Resume(l) \/ Cancel(l) \/ Release(l)
    \/ \E h \in Maintenance : Tend(h) \/ TendDone(h)

LeaseSpec == LeaseInit /\ [][LeaseNext]_leaseVars
-----------------------------------------------------------------------------
LeaseModes == {"none", "exclusive", "shared"}
Outcomes == {"idle", "queued", "granted", "refused", "acquired", "cancelled", "released"}

LeaseTypeOK ==
    /\ lease \in [Keys -> [mode : LeaseModes,
                           holders : SUBSET (Launches \union Maintenance),
                           queue : Seq([launchId : Launches, mode : LeaseModes])]]
    /\ \A k \in Keys : lease[k].mode = "none" \/ lease[k].holders = {} => lease[k] = NoLease
    /\ attempt \in [Launches -> Outcomes]
    /\ held \in [Launches -> SUBSET Keys]
    /\ cancelled \subseteq Launches
    /\ tending \subseteq Maintenance

(* Whoever works in a directory: an attempt that was told it has its leases, *)
(* or maintenance.                                                           *)
Writing(o) == IF o \in Maintenance THEN {Tends[h] : h \in tending \intersect {o}}
              ELSE IF attempt[o] = "acquired" THEN Writes[o] ELSE {}
Using(o) == IF o \in Maintenance THEN {Tends[h] : h \in tending \intersect {o}}
            ELSE IF attempt[o] = "acquired" THEN Ids(o) ELSE {}

(* A writer works alone: while an attempt or a maintenance step writes a     *)
(* directory nobody else was given it, neither to write nor to read          *)
(* (locationLease.ts:4-18), however grants, cancellations and the release of *)
(* several leases interleave.                                                *)
WriterAlone == \A o, p \in Launches \union Maintenance :
    o # p => Writing(o) \intersect Using(p) = {}

(* The table says what goes on: a writer is alone.  No lease outlives the    *)
(* work it was taken for: each holder works, or is on its way to its other   *)
(* leases, and an attempt that was told "cancelled" holds none, also of      *)
(* those granted while its stop was handled (locationLease.ts:131-160).  And *)
(* no wakeup is lost: a lease that somebody awaits is held, by holders the   *)
(* front of its queue cannot join (84-128).                                  *)
NoneLeftBehind == \A k \in Keys : \A o \in lease[k].holders :
    \/ o \in tending /\ k = Tends[o]
    \/ o \in Launches /\ (k \in held[o] \/ (attempt[o] = "granted" /\ k = Due(o, held[o])))
NoLostWakeup == \A k \in Keys : lease[k].queue # <<>> =>
    /\ lease[k].holders # {}
    /\ lease[k].mode = "exclusive" \/ lease[k].queue[1].mode = "exclusive"
TableIsExact == LeaseTypeOK /\ WriterAlone /\ NoneLeftBehind /\ NoLostWakeup

(* Arrival order is kept across modes (locationLease.ts:14-17): who becomes  *)
(* a holder leaves nobody behind in the queue who was there before it.       *)
Ahead(k, o) == {i \in DOMAIN lease[k].queue :
                  \A j \in 1 .. i : lease[k].queue[j].launchId # o}
ServedInOrder ==
    \A k \in Keys : \A o \in lease'[k].holders \ lease[k].holders :
        \A i \in Ahead(k, o) :
            ~\E j \in DOMAIN lease'[k].queue : lease'[k].queue[j] = lease[k].queue[i]
=============================================================================
