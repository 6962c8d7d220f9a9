------------------------ MODULE HostRegistry_proofs ------------------------
(***************************************************************************)
(* Theorems about the control plane's registry of one host.                *)
(***************************************************************************)
EXTENDS HostRegistry, FiniteSetTheorems, SequenceTheorems, WellFoundedInduction, TLAPS

Outcomes == {"new", "waited", "forgotten"} \union Settled
Registries == [pending : [Runs -> [launch : Launches \union {None}, stdin : Seq(1 .. limits.stdin)]],
               waiters : Seq(Launches), outcome : [Launches -> Outcomes], down : Seq(FrameSet)]

(* A frame that starts an attempt, or one of a Run.                        *)
Starts(f, l) == f.kind = "launch" /\ f.launch = l
StartsRun(f, r) == f.kind = "launch" /\ RunOf[f.launch] = r

(* A registry holds what belongs together.                                 *)
Sorted(s) ==
    /\ s \in Registries
    /\ IsFiniteSet(inFlight(s.pending))
    /\ \A r \in Runs : /\ s.pending[r].launch = None => s.pending[r].stdin = <<>>
                       /\ s.pending[r].launch # None => RunOf[s.pending[r].launch] = r
    /\ \A i \in DOMAIN s.down :
          /\ s.down[i].kind \in {"launch", "stdin"} => s.down[i].launch \in Launches
          /\ s.down[i].kind = "stop" => s.down[i].launch \in Launches \union Runs
    /\ online => \A r \in Runs : s.pending[r].stdin = <<>>
    /\ ~online => s.down = <<>>

(* Each unsettled dispatch is waited for or in the queue, once.            *)
Exact(s) ==
    /\ \A l \in Launches :
          /\ s.outcome[l] = "waited" <=> s.pending[RunOf[l]].launch = l \/ l \in ToSet(s.waiters)
          /\ ~ (s.pending[RunOf[l]].launch = l /\ l \in ToSet(s.waiters))
    /\ IsInjective(s.waiters)

(* With a waiter, all slots but m are taken.                               *)
Room(s, m) ==
    /\ Cardinality(inFlight(s.pending)) <= limits.cap
    /\ s.waiters # <<>> => Cardinality(inFlight(s.pending)) = limits.cap - m

(* An attempt is called when its launch was sent, or never will be.        *)
CallsIn(s, l) == s.outcome[l] # "new" /\ l \notin ToSet(s.waiters)

(* What a registry may become: it sends launches, of attempts not called   *)
(* before and each once, and stops of attempts called; and waits of a Run  *)
(* for the one started last.                                               *)
Advance(s, t, more) ==
    /\ more \in Seq(FrameSet) /\ t.down = s.down \o more
    /\ \A l \in Launches :
          /\ CallsIn(s, l) => CallsIn(t, l)
          /\ t.pending[RunOf[l]].launch = l =>
                \/ /\ s.pending[RunOf[l]].launch = l
                   /\ \A j \in DOMAIN more : ~StartsRun(more[j], RunOf[l])
                \/ \E i \in DOMAIN more :
                      /\ Starts(more[i], l)
                      /\ \A j \in DOMAIN more : StartsRun(more[j], RunOf[l]) => j <= i
    /\ \A i \in DOMAIN more :
          /\ more[i].kind \in {"launch", "stop"}
          /\ more[i].kind = "launch" => more[i].launch \in Launches
          /\ more[i].kind = "stop" => more[i].launch \in Launches \union Runs
    /\ \A i \in DOMAIN more, l \in Launches :
          /\ Starts(more[i], l) => /\ ~CallsIn(s, l) /\ CallsIn(t, l)
                                   /\ \A j \in DOMAIN more : Starts(more[j], l) => j = i
          /\ more[i].kind = "stop" /\ more[i].launch = l =>
                CallsIn(t, l) /\ \A j \in DOMAIN more : Starts(more[j], l) => j < i
    /\ \A r \in Runs : t.pending[r] = s.pending[r] \/ t.pending[r].stdin = <<>>

(* Only the dispatches of X are told that they completed, or of the loss.  *)
Tells(s, t, X) == \A l \in Launches \ X :
    t.outcome[l] \in {"complete", "disconnected"} => s.outcome[l] = t.outcome[l]

-----------------------------------------------------------------------------
(* A set of naturals has a least member, and with a bound a greatest.      *)
LEMMA Least ==
  ASSUME NEW T, T \subseteq Nat, T # {}
  PROVE  Min(T) \in T /\ \A y \in T : Min(T) <= y
<1>1. PICK x \in T : \A y \in T : ~(<<y, x>> \in OpToRel(<, Nat))
  BY NatLessThanWellFounded, WFMin
<1>2. \A y \in T : ~(y < x)
  BY <1>1 DEF OpToRel
<1>3. \A y \in T : x <= y
  BY <1>2
<1>4. QED
  BY <1>3 DEF Min

LEMMA Greatest ==
  ASSUME NEW m \in Nat, NEW S, S \subseteq 1 .. m, S # {}
  PROVE  Max(S) \in S /\ \A y \in S : y <= Max(S)
<1> DEFINE T == {m - x : x \in S}
<1>1. \A x \in S : x \in Int /\ 1 <= x /\ x <= m /\ m - x \in Nat
  BY SMT
<1>2. T \subseteq Nat /\ T # {}
  BY <1>1
<1>3. Min(T) \in T /\ \A u \in T : Min(T) <= u
  BY <1>2, Least
<1>4. PICK x \in S : Min(T) = m - x
  BY <1>3
<1>5. ASSUME NEW y \in S PROVE y <= x
  <2>1. m - y \in T
    OBVIOUS
  <2>2. m - x <= m - y
    BY <1>3, <1>4, <2>1
  <2>3. QED
    BY <1>1, <2>2
<1>6. QED
  BY <1>5 DEF Max

(* What two sequences joined hold, and where.                              *)
LEMMA Joined ==
  ASSUME NEW S, NEW a \in Seq(S), NEW b \in Seq(S)
  PROVE  /\ a \o b \in Seq(S) /\ Len(a \o b) = Len(a) + Len(b)
         /\ \A i \in DOMAIN a : i \in DOMAIN (a \o b) /\ (a \o b)[i] = a[i]
         /\ \A i \in DOMAIN b : Len(a) + i \in DOMAIN (a \o b) /\ (a \o b)[Len(a) + i] = b[i]
         /\ \A i \in DOMAIN (a \o b) : i \in DOMAIN a \/ \E j \in DOMAIN b : i = Len(a) + j
<1>1. a \o b \in Seq(S) /\ Len(a \o b) = Len(a) + Len(b)
  OBVIOUS
<1>2. \A i \in DOMAIN a : i \in DOMAIN (a \o b) /\ (a \o b)[i] = a[i]
  OBVIOUS
<1>3. \A i \in DOMAIN b : Len(a) + i \in DOMAIN (a \o b) /\ (a \o b)[Len(a) + i] = b[i]
  OBVIOUS
<1>4. ASSUME NEW i \in DOMAIN (a \o b) PROVE i \in DOMAIN a \/ \E j \in DOMAIN b : i = Len(a) + j
  <2>1. CASE i <= Len(a)
    BY <2>1
  <2>2. CASE i > Len(a)
    <3>1. i - Len(a) \in DOMAIN b /\ i = Len(a) + (i - Len(a))
      BY <2>2
    <3>2. QED
      BY <3>1
  <2>3. QED
    BY <2>1, <2>2
<1>5. QED
  BY <1>1, <1>2, <1>3, <1>4

(* The constants, and the bounds of this behaviour.                        *)
LEMMA Given ==
  ASSUME limits \in Bounds
  PROVE  /\ RunOf \in [Launches -> Runs] /\ None \notin Launches /\ None \notin Runs
         /\ \A l \in Launches : l \notin Runs
         /\ limits.cap \in Nat \ {0} /\ limits.losses \in Nat /\ limits.restarts \in Nat
         /\ limits.stdin \in Nat /\ limits.stops \in Nat
         /\ limits.launches \subseteq Launches
BY RegistryAssumption DEF None

LEMMA Member == ASSUME NEW S, NEW a \in Seq(S), NEW i \in DOMAIN a PROVE a[i] \in S
OBVIOUS

(* What is taken out of a sequence at one place.                           *)
LEMMA TakenOut ==
  ASSUME NEW S, NEW a \in Seq(S), NEW i \in DOMAIN a
  PROVE  LET b == RemoveAt(a, i)
         IN /\ b \in Seq(S) /\ Len(b) = Len(a) - 1
            /\ \A k \in DOMAIN b : b[k] = IF k < i THEN a[k] ELSE a[k + 1]
<1> DEFINE c == SubSeq(a, 1, i - 1)
           d == SubSeq(a, i + 1, Len(a))
<1>0. Len(a) \in Nat /\ i \in 1 .. Len(a)
  OBVIOUS
<1>1. c \in Seq(S) /\ Len(c) = i - 1 /\ \A k \in 1 .. i - 1 : c[k] = a[k]
  OBVIOUS
<1>2. d \in Seq(S) /\ Len(d) = Len(a) - i /\ \A k \in 1 .. Len(a) - i : d[k] = a[i + k]
  OBVIOUS
<1> HIDE DEF c, d
<1>3. /\ c \o d \in Seq(S) /\ Len(c \o d) = Len(c) + Len(d)
      /\ \A k \in DOMAIN c : (c \o d)[k] = c[k]
      /\ \A k \in DOMAIN d : (c \o d)[Len(c) + k] = d[k]
  <2>1. c \in Seq(S) /\ d \in Seq(S)
    BY <1>1, <1>2
  <2>2. QED
    BY <2>1, Joined
<1>4. ASSUME NEW k \in DOMAIN (c \o d) PROVE (c \o d)[k] = IF k < i THEN a[k] ELSE a[k + 1]
  <2>0. k \in 1 .. Len(a) - 1
    BY <1>1, <1>2, <1>3
  <2>1. CASE k < i
    <3>1. k \in DOMAIN c
      BY <1>1, <2>0, <2>1
    <3>2. QED
      BY <1>1, <1>3, <2>0, <2>1, <3>1
  <2>2. CASE k >= i
    <3> DEFINE m == k - (i - 1)
    <3>1. m \in 1 .. Len(a) - i /\ Len(c) + m = k /\ i + m = k + 1
      BY <1>0, <1>1, <2>0, <2>2
    <3>2. (c \o d)[Len(c) + m] = d[m] /\ d[m] = a[i + m]
      <4>1. m \in DOMAIN d
        BY <1>0, <1>2, <3>1
      <4>2. QED
        BY <1>2, <1>3, <3>1, <4>1
    <3> HIDE DEF m
    <3>3. QED
      BY <2>0, <2>2, <3>1, <3>2
  <2>3. QED
    BY <2>0, <2>1, <2>2
<1>5. Len(c \o d) = Len(a) - 1
  BY <1>1, <1>2, <1>3
<1>6. QED
  BY <1>3, <1>4, <1>5 DEF RemoveAt, c, d

-----------------------------------------------------------------------------
(* What starting some attempts in turn does to a registry.                 *)
LEMMA StartedIs ==
  ASSUME limits \in Bounds, online, NEW s \in Registries, NEW ls \in Seq(Launches)
  PROVE  LET t == Started(s, ls)
         IN /\ t \in Registries /\ t.waiters = s.waiters
            /\ t.down = s.down \o [i \in DOMAIN ls |-> Frame("launch", ls[i], 0)]
            /\ \A r \in Runs : (\A i \in DOMAIN ls : RunOf[ls[i]] # r) => t.pending[r] = s.pending[r]
            /\ \A k \in DOMAIN ls : \E i \in DOMAIN ls :
                  /\ RunOf[ls[i]] = RunOf[ls[k]]
                  /\ \A j \in DOMAIN ls : RunOf[ls[j]] = RunOf[ls[k]] => j <= i
                  /\ t.pending[RunOf[ls[k]]] = [launch |-> ls[i], stdin |-> <<>>]
            /\ \A l \in Launches :
                 t.outcome[l] = IF t.pending[RunOf[l]].launch = l
                                THEN IF l \in ToSet(ls) THEN "waited" ELSE s.outcome[l]
                                ELSE IF l \in ToSet(ls) \/ l = s.pending[RunOf[l]].launch
                                THEN "superseded" ELSE s.outcome[l]
<1> DEFINE of(r) == {i \in DOMAIN ls : RunOf[ls[i]] = r}
           last(r) == IF of(r) = {} THEN s.pending[r].launch ELSE ls[Max(of(r))]
           t == Started(s, ls)
           fs == [i \in DOMAIN ls |-> Frame("launch", ls[i], 0)]
           P == [r \in Runs |-> IF of(r) = {} THEN s.pending[r]
                                ELSE [launch |-> last(r), stdin |-> <<>>]]
           Q == [l \in Launches |->
                   IF last(RunOf[l]) = l THEN IF l \in ToSet(ls) THEN "waited" ELSE s.outcome[l]
                   ELSE IF l \in ToSet(ls) \/ l = s.pending[RunOf[l]].launch
                   THEN "superseded" ELSE s.outcome[l]]
<1>1. /\ RunOf \in [Launches -> Runs] /\ limits.stdin \in Nat /\ Len(ls) \in Nat
      /\ DOMAIN ls = 1 .. Len(ls) /\ \A i \in DOMAIN ls : ls[i] \in Launches
  BY Given
<1>2. /\ t.pending = P /\ t.outcome = Q /\ t.down = s.down \o fs /\ t.waiters = s.waiters
      /\ t = [pending |-> P, waiters |-> s.waiters, outcome |-> Q, down |-> s.down \o fs]
  <2>1. t = [s EXCEPT !.pending = P, !.outcome = Q, !.down = s.down \o fs]
    BY DEF Started, Sent
  <2> HIDE DEF t, P, Q, fs
  <2>2. QED
    BY <2>1 DEF Registries
<1>3. fs \in Seq(FrameSet)
  <2>1. \A i \in 1 .. Len(ls) : Frame("launch", ls[i], 0) \in FrameSet
    BY <1>1 DEF Frame, FrameSet
  <2>2. fs \in [1 .. Len(ls) -> FrameSet]
    BY <1>1, <2>1
  <2>3. QED
    BY <1>1, <2>2
<1>4. ASSUME NEW r \in Runs, of(r) # {}
      PROVE  /\ Max(of(r)) \in DOMAIN ls /\ RunOf[ls[Max(of(r))]] = r
             /\ \A j \in DOMAIN ls : RunOf[ls[j]] = r => j <= Max(of(r))
  <2>1. of(r) \subseteq 1 .. Len(ls)
    BY <1>1
  <2>2. Max(of(r)) \in of(r) /\ \A y \in of(r) : y <= Max(of(r))
    BY <1>1, <1>4, <2>1, Greatest
  <2>3. QED
    BY <2>2
<1> HIDE DEF t, fs
<1>5. \A r \in Runs : P[r] \in [launch : Launches \union {None}, stdin : Seq(1 .. limits.stdin)]
  <2> SUFFICES ASSUME NEW r \in Runs
               PROVE  P[r] \in [launch : Launches \union {None}, stdin : Seq(1 .. limits.stdin)]
    OBVIOUS
  <2>1. CASE of(r) = {}
    BY <2>1 DEF Registries
  <2>2. CASE of(r) # {}
    <3>1. last(r) \in Launches
      BY <1>1, <1>4, <2>2
    <3>2. <<>> \in Seq(1 .. limits.stdin)
      OBVIOUS
    <3>3. QED
      BY <2>2, <3>1, <3>2
  <2>3. QED
    BY <2>1, <2>2
<1>6. \A l \in Launches : Q[l] \in Outcomes
  BY DEF Outcomes, Settled, Registries
<1>7. s.down \o fs \in Seq(FrameSet)
  BY <1>3, Joined DEF Registries
<1>8. t \in Registries
  <2>1. P \in [Runs -> [launch : Launches \union {None}, stdin : Seq(1 .. limits.stdin)]]
    BY <1>5
  <2>2. Q \in [Launches -> Outcomes]
    BY <1>6
  <2> HIDE DEF P, Q
  <2>3. QED
    BY <1>2, <1>7, <2>1, <2>2 DEF Registries
<1>9. ASSUME NEW r \in Runs, \A i \in DOMAIN ls : RunOf[ls[i]] # r
      PROVE  t.pending[r] = s.pending[r]
  <2>1. of(r) = {}
    BY <1>9
  <2>2. QED
    BY <1>2, <2>1
<1>10. ASSUME NEW k \in DOMAIN ls
       PROVE  \E i \in DOMAIN ls :
                  /\ RunOf[ls[i]] = RunOf[ls[k]]
                  /\ \A j \in DOMAIN ls : RunOf[ls[j]] = RunOf[ls[k]] => j <= i
                  /\ t.pending[RunOf[ls[k]]] = [launch |-> ls[i], stdin |-> <<>>]
  <2> DEFINE r == RunOf[ls[k]]
  <2>1. r \in Runs /\ k \in of(r)
    BY <1>1
  <2>2. of(r) # {}
    BY <2>1
  <2>3. t.pending[r] = [launch |-> ls[Max(of(r))], stdin |-> <<>>]
    BY <1>2, <2>1, <2>2
  <2>4. QED
    BY <1>4, <2>1, <2>2, <2>3
<1>11. ASSUME NEW l \in Launches PROVE last(RunOf[l]) = t.pending[RunOf[l]].launch
  <2>1. RunOf[l] \in Runs
    BY <1>1
  <2>2. CASE of(RunOf[l]) = {}
    BY <1>2, <2>1, <2>2
  <2>3. CASE of(RunOf[l]) # {}
    BY <1>2, <2>1, <2>3
  <2>4. QED
    BY <2>2, <2>3
<1>12. ASSUME NEW l \in Launches
       PROVE  t.outcome[l] = IF t.pending[RunOf[l]].launch = l
                             THEN IF l \in ToSet(ls) THEN "waited" ELSE s.outcome[l]
                             ELSE IF l \in ToSet(ls) \/ l = s.pending[RunOf[l]].launch
                             THEN "superseded" ELSE s.outcome[l]
  <2>1. t.outcome[l] = Q[l] /\ last(RunOf[l]) = t.pending[RunOf[l]].launch
    BY <1>2, <1>11
  <2> HIDE DEF last
  <2>2. QED
    BY <2>1
<1>13. QED
  BY <1>2, <1>8, <1>9, <1>10, <1>12 DEF t, fs

LEMMA IdleIs ==
  ASSUME NEW s, Sorted(s), NEW r \in Runs
  PROVE  s.pending[r] = Idle <=> s.pending[r].launch = None
BY DEF Sorted, Registries, Idle

(* releaseSlot to an online host.                                          *)
LEMMA FillsOnline ==
  ASSUME limits \in Bounds, online, NEW e, Sorted(e), Exact(e), Room(e, 1) \/ (Room(e, 0) /\ e.waiters = <<>>)
  PROVE  LET t == Filled(e)
         IN /\ Sorted(t) /\ Exact(t) /\ Room(t, 0) /\ Tells(e, t, {})
            /\ \E more : Advance(e, t, more)
            /\ \A l \in Launches : e.outcome[l] \notin {"new", "waited"} => t.outcome[l] = e.outcome[l]
<1> DEFINE w == e.waiters
           N == {i \in DOMAIN w : e.pending[RunOf[w[i]]] = Idle}
           n == Admitted(e)
           ls == SubSeq(w, 1, n)
           ws == SubSeq(w, n + 1, Len(w))
           s == [e EXCEPT !.waiters = ws]
           t == Started(s, ls)
           fs == [i \in DOMAIN ls |-> Frame("launch", ls[i], 0)]
<1>1. /\ RunOf \in [Launches -> Runs] /\ limits.stdin \in Nat /\ limits.cap \in Nat \ {0}
      /\ None \notin Launches /\ None \notin Runs
  BY Given
<1>2. e \in Registries /\ w \in Seq(Launches) /\ Len(w) \in Nat /\ DOMAIN w = 1 .. Len(w)
  BY DEF Sorted, Registries
<1>3. /\ n \in 0 .. Len(w)
      /\ N = {} => n = Len(w)
      /\ N # {} => n \in N /\ \A i \in N : n <= i
  <2>1. n = IF N = {} THEN Len(w) ELSE Min(N)
    BY DEF Admitted
  <2>2. N \subseteq Nat /\ N \subseteq 1 .. Len(w)
    BY <1>2
  <2>3. CASE N = {}
    BY <1>2, <2>1, <2>3
  <2>4. CASE N # {}
    <3> HIDE DEF N, n, w
    <3>1. Min(N) \in N /\ \A y \in N : Min(N) <= y
      BY <2>2, <2>4, Least
    <3>2. Min(N) \in 0 .. Len(w)
      <4>1. Min(N) \in 1 .. Len(w)
        BY <2>2, <3>1
      <4>2. QED
        BY <1>2, <4>1
    <3>3. n = Min(N)
      BY <2>1, <2>4
    <3>4. n \in 0 .. Len(w) /\ n \in N /\ \A y \in N : n <= y
      BY <3>1, <3>2, <3>3
    <3>5. QED
      BY <2>4, <3>4
  <2>5. QED
    BY <2>3, <2>4
<1> HIDE DEF n
<1>4. /\ ls \in Seq(Launches) /\ Len(ls) = n /\ DOMAIN ls = 1 .. n
      /\ \A i \in 1 .. n : ls[i] = w[i]
  BY <1>2, <1>3
<1>5. /\ ws \in Seq(Launches) /\ Len(ws) = Len(w) - n /\ DOMAIN ws = 1 .. Len(w) - n
      /\ \A i \in 1 .. Len(w) - n : ws[i] = w[n + i]
  BY <1>2, <1>3
<1> HIDE DEF ls, ws
<1>6. /\ s \in Registries /\ s.waiters = ws /\ s.pending = e.pending
      /\ s.outcome = e.outcome /\ s.down = e.down
  BY <1>2, <1>5 DEF Registries
<1> HIDE DEF s
<1>7. Filled(e) = t
  BY DEF Filled, s, ls, ws, n
<1>8. /\ t \in Registries /\ t.waiters = ws /\ t.down = e.down \o fs
      /\ \A r \in Runs : (\A i \in DOMAIN ls : RunOf[ls[i]] # r) => t.pending[r] = e.pending[r]
  <2>1. s \in Registries /\ ls \in Seq(Launches)
    BY <1>4, <1>6
  <2> HIDE DEF s, ls, t
  <2>2. /\ t \in Registries /\ t.waiters = s.waiters /\ t.down = s.down \o fs
        /\ \A r \in Runs : (\A i \in DOMAIN ls : RunOf[ls[i]] # r) => t.pending[r] = s.pending[r]
    BY <2>1, StartedIs, Zenon DEF t
  <2>3. QED
    BY <1>6, <2>2
<1>9. \A k \in DOMAIN ls : \E i \in DOMAIN ls :
         /\ RunOf[ls[i]] = RunOf[ls[k]]
         /\ \A j \in DOMAIN ls : RunOf[ls[j]] = RunOf[ls[k]] => j <= i
         /\ t.pending[RunOf[ls[k]]] = [launch |-> ls[i], stdin |-> <<>>]
  <2>1. s \in Registries /\ ls \in Seq(Launches)
    BY <1>4, <1>6
  <2> HIDE DEF s, ls, t
  <2>2. QED
    BY <2>1, StartedIs, Zenon DEF t
<1>10. \A l \in Launches :
         t.outcome[l] = IF t.pending[RunOf[l]].launch = l
                        THEN IF l \in ToSet(ls) THEN "waited" ELSE e.outcome[l]
                        ELSE IF l \in ToSet(ls) \/ l = e.pending[RunOf[l]].launch
                        THEN "superseded" ELSE e.outcome[l]
  <2>1. s \in Registries /\ ls \in Seq(Launches)
    BY <1>4, <1>6
  <2> HIDE DEF s, ls, t
  <2>2. \A l \in Launches :
         t.outcome[l] = IF t.pending[RunOf[l]].launch = l
                        THEN IF l \in ToSet(ls) THEN "waited" ELSE s.outcome[l]
                        ELSE IF l \in ToSet(ls) \/ l = s.pending[RunOf[l]].launch
                        THEN "superseded" ELSE s.outcome[l]
    BY <2>1, StartedIs, Zenon DEF t
  <2>3. QED
    BY <1>6, <2>2
<1> HIDE DEF t
<1>11. /\ \A l : l \in ToSet(ls) <=> \E i \in 1 .. n : w[i] = l
       /\ \A l : l \in ToSet(ws) <=> \E i \in n + 1 .. Len(w) : w[i] = l
       /\ \A l : l \in ToSet(w) <=> \E i \in 1 .. Len(w) : w[i] = l
  <2>1. \A l : l \in ToSet(ls) <=> \E i \in 1 .. n : w[i] = l
    BY <1>4 DEF ToSet
  <2>2. ASSUME NEW l PROVE l \in ToSet(ws) <=> \E i \in n + 1 .. Len(w) : w[i] = l
    <3>1. ASSUME l \in ToSet(ws) PROVE \E i \in n + 1 .. Len(w) : w[i] = l
      <4>1. PICK k \in 1 .. Len(w) - n : ws[k] = l
        BY <1>5, <3>1 DEF ToSet
      <4>2. n + k \in n + 1 .. Len(w) /\ w[n + k] = l
        BY <1>2, <1>3, <1>5, <4>1
      <4>3. QED
        BY <4>2
    <3>2. ASSUME NEW i \in n + 1 .. Len(w), w[i] = l PROVE l \in ToSet(ws)
      <4>1. i - n \in 1 .. Len(w) - n /\ n + (i - n) = i
        BY <1>2, <1>3
      <4>2. ws[i - n] = l
        BY <1>5, <3>2, <4>1
      <4>3. QED
        BY <1>5, <4>1, <4>2 DEF ToSet
    <3>3. QED
      BY <3>1, <3>2
  <2>3. \A l : l \in ToSet(w) <=> \E i \in 1 .. Len(w) : w[i] = l
    BY <1>2 DEF ToSet
  <2>4. QED
    BY <2>1, <2>2, <2>3
<1>12. \A i, j \in 1 .. Len(w) : w[i] = w[j] => i = j
  BY <1>2 DEF Exact, IsInjective
<1>13. /\ \A l : ~(l \in ToSet(ls) /\ l \in ToSet(ws))
       /\ \A l : l \in ToSet(w) <=> l \in ToSet(ls) \/ l \in ToSet(ws)
  <2>1. ASSUME NEW l, l \in ToSet(ls), l \in ToSet(ws) PROVE FALSE
    <3>1. PICK i \in 1 .. n : w[i] = l
      BY <1>11, <2>1
    <3>2. PICK j \in n + 1 .. Len(w) : w[j] = l
      BY <1>11, <2>1
    <3>3. QED
      BY <1>2, <1>3, <1>12, <3>1, <3>2
  <2>2. \A i : i \in 1 .. Len(w) <=> i \in 1 .. n \/ i \in n + 1 .. Len(w)
    BY <1>2, <1>3
  <2>3. QED
    BY <1>11, <2>1, <2>2
<1>14. \A l \in Launches : t.pending[RunOf[l]].launch = l =>
          \/ l \in ToSet(ls)
          \/ /\ e.pending[RunOf[l]].launch = l /\ t.pending[RunOf[l]] = e.pending[RunOf[l]]
             /\ \A i \in DOMAIN ls : RunOf[ls[i]] # RunOf[l]
  <2> SUFFICES ASSUME NEW l \in Launches, t.pending[RunOf[l]].launch = l
               PROVE  \/ l \in ToSet(ls)
                      \/ /\ e.pending[RunOf[l]].launch = l /\ t.pending[RunOf[l]] = e.pending[RunOf[l]]
                         /\ \A i \in DOMAIN ls : RunOf[ls[i]] # RunOf[l]
    OBVIOUS
  <2>1. CASE \A i \in DOMAIN ls : RunOf[ls[i]] # RunOf[l]
    BY <1>1, <1>8, <2>1
  <2>2. CASE ~ \A i \in DOMAIN ls : RunOf[ls[i]] # RunOf[l]
    <3>1. PICK k \in DOMAIN ls : RunOf[ls[k]] = RunOf[l]
      BY <2>2
    <3>2. PICK i \in DOMAIN ls : t.pending[RunOf[l]] = [launch |-> ls[i], stdin |-> <<>>]
      BY <1>9, <3>1
    <3>3. ls[i] = l
      BY <3>2
    <3>4. QED
      BY <3>3, <1>4, <1>11
  <2>3. QED
    BY <2>1, <2>2
<1>15. \A r \in Runs : t.pending[r] = e.pending[r] \/
          /\ t.pending[r].launch \in Launches /\ t.pending[r].stdin = <<>>
          /\ RunOf[t.pending[r].launch] = r
  <2> SUFFICES ASSUME NEW r \in Runs, t.pending[r] # e.pending[r]
               PROVE  /\ t.pending[r].launch \in Launches /\ t.pending[r].stdin = <<>>
                      /\ RunOf[t.pending[r].launch] = r
    OBVIOUS
  <2>1. PICK k \in DOMAIN ls : RunOf[ls[k]] = r
    BY <1>8
  <2>2. PICK i \in DOMAIN ls : RunOf[ls[i]] = r /\ t.pending[r] = [launch |-> ls[i], stdin |-> <<>>]
    BY <1>9, <2>1
  <2>3. ls[i] \in Launches
    BY <1>4
  <2>4. QED
    BY <2>2, <2>3
<1>16. Exact(t)
  <2>1. ASSUME NEW l \in Launches
        PROVE  /\ t.outcome[l] = "waited" <=> t.pending[RunOf[l]].launch = l \/ l \in ToSet(ws)
               /\ ~ (t.pending[RunOf[l]].launch = l /\ l \in ToSet(ws))
    <3>0. /\ e.outcome[l] = "waited" <=> e.pending[RunOf[l]].launch = l \/ l \in ToSet(w)
          /\ ~ (e.pending[RunOf[l]].launch = l /\ l \in ToSet(w))
      BY DEF Exact
    <3>1. CASE t.pending[RunOf[l]].launch = l
      BY <1>10, <1>13, <1>14, <3>0, <3>1
    <3>2. CASE t.pending[RunOf[l]].launch # l
      BY <1>10, <1>13, <3>0, <3>2
    <3>3. QED
      BY <3>1, <3>2
  <2>2. IsInjective(ws)
    <3> SUFFICES ASSUME NEW i \in 1 .. Len(w) - n, NEW j \in 1 .. Len(w) - n, ws[i] = ws[j]
                 PROVE  i = j
      BY <1>5 DEF IsInjective
    <3>1. n + i \in 1 .. Len(w) /\ n + j \in 1 .. Len(w) /\ w[n + i] = w[n + j]
      BY <1>2, <1>3, <1>5
    <3>2. QED
      BY <1>2, <1>3, <1>12, <3>1
  <2>3. QED
    BY <1>8, <2>1, <2>2 DEF Exact
<1>17. inFlight(t.pending) = inFlight(e.pending) \union (IF N = {} THEN {} ELSE {RunOf[w[n]]})
  <2>1. ASSUME NEW r \in inFlight(t.pending), r \notin inFlight(e.pending)
        PROVE  N # {} /\ r = RunOf[w[n]]
    <3>1. r \in Runs /\ t.pending[r] # e.pending[r] /\ e.pending[r] = Idle
      BY <2>1 DEF inFlight
    <3>2. PICK i \in 1 .. n : RunOf[w[i]] = r
      BY <1>4, <1>8, <3>1
    <3>3. i \in N
      BY <1>2, <1>3, <3>1, <3>2
    <3>4. n = i
      BY <1>2, <1>3, <3>2, <3>3
    <3>5. QED
      BY <3>2, <3>3, <3>4
  <2>2. ASSUME NEW r \in inFlight(e.pending) PROVE r \in inFlight(t.pending)
    <3>1. CASE t.pending[r] = e.pending[r]
      BY <3>1 DEF inFlight
    <3>2. CASE t.pending[r] # e.pending[r]
      BY <1>1, <1>15, <3>2 DEF inFlight, Idle
    <3>3. QED
      BY <3>1, <3>2
  <2>3. ASSUME N # {} PROVE RunOf[w[n]] \in inFlight(t.pending)
    <3>1. n \in N /\ n \in 1 .. n
      BY <1>2, <1>3, <2>3
    <3>2. RunOf[w[n]] \in Runs /\ ls[n] = w[n] /\ n \in DOMAIN ls /\ ls[n] \in Launches
      BY <1>1, <1>2, <1>3, <1>4, <3>1
    <3>3. PICK i \in DOMAIN ls : t.pending[RunOf[w[n]]] = [launch |-> ls[i], stdin |-> <<>>]
      BY <1>9, <3>2
    <3>4. ls[i] \in Launches
      BY <1>4
    <3>5. QED
      BY <1>1, <3>2, <3>3, <3>4 DEF inFlight, Idle
  <2>4. QED
    BY <2>1, <2>2, <2>3
<1>18. IsFiniteSet(inFlight(t.pending)) /\ Room(t, 0)
  <2>1. IsFiniteSet(inFlight(e.pending))
    BY DEF Sorted
  <2>2. CASE N = {}
    <3>1. inFlight(t.pending) = inFlight(e.pending) /\ Len(ws) = 0 /\ ws = <<>>
      BY <1>3, <1>5, <1>17, <2>2
    <3>2. QED
      BY <1>8, <2>1, <3>1 DEF Room
  <2>3. CASE N # {}
    <3>1. n \in 1 .. Len(w) /\ e.pending[RunOf[w[n]]] = Idle /\ RunOf[w[n]] \notin inFlight(e.pending)
      BY <1>2, <1>3, <2>3 DEF inFlight
    <3>2. w # <<>>
      BY <1>2, <3>1
    <3>3. Cardinality(inFlight(e.pending)) = limits.cap - 1
      BY <3>2 DEF Room
    <3>4. /\ IsFiniteSet(inFlight(t.pending))
          /\ Cardinality(inFlight(t.pending)) = Cardinality(inFlight(e.pending)) + 1
      <4> DEFINE A == inFlight(e.pending)
                 x == RunOf[w[n]]
      <4>1. inFlight(t.pending) = A \cup {x} /\ x \notin A /\ IsFiniteSet(A)
        BY <1>17, <2>1, <2>3, <3>1
      <4> HIDE DEF A, x
      <4>2. IsFiniteSet(A \cup {x}) /\ Cardinality(A \cup {x}) = Cardinality(A) + 1
        BY <4>1, FS_AddElement
      <4>3. QED
        BY <4>1, <4>2 DEF A
    <3>5. QED
      BY <1>1, <3>3, <3>4 DEF Room
  <2>4. QED
    BY <2>2, <2>3
<1>19. /\ fs \in Seq(FrameSet) /\ Len(fs) = n /\ DOMAIN fs = 1 .. n
       /\ \A i \in 1 .. n : fs[i] = Frame("launch", w[i], 0) /\ w[i] \in Launches
  <2>1. \A i \in 1 .. n : w[i] \in Launches /\ Frame("launch", w[i], 0) \in FrameSet
    BY <1>1, <1>2, <1>3 DEF Frame, FrameSet
  <2>2. fs = [i \in 1 .. n |-> Frame("launch", w[i], 0)]
    BY <1>4
  <2>3. n \in Nat
    BY <1>2, <1>3
  <2> HIDE DEF fs
  <2>4. QED
    BY <2>1, <2>2, <2>3
<1> HIDE DEF fs
<1>20. \A i \in DOMAIN t.down :
          /\ t.down[i].kind \in {"launch", "stdin"} => t.down[i].launch \in Launches
          /\ t.down[i].kind = "stop" => t.down[i].launch \in Launches \union Runs
  <2> SUFFICES ASSUME NEW i \in DOMAIN t.down
               PROVE  /\ t.down[i].kind \in {"launch", "stdin"} => t.down[i].launch \in Launches
                      /\ t.down[i].kind = "stop" => t.down[i].launch \in Launches \union Runs
    OBVIOUS
  <2>1. e.down \in Seq(FrameSet)
    BY <1>2 DEF Registries
  <2>2. CASE i \in DOMAIN e.down
    <3>1. t.down[i] = e.down[i]
      BY <1>8, <1>19, <2>1, <2>2, Joined
    <3>2. QED
      BY <2>2, <3>1 DEF Sorted
  <2>3. ASSUME NEW j \in DOMAIN fs, i = Len(e.down) + j
        PROVE  t.down[i].kind = "launch" /\ t.down[i].launch \in Launches
    <3>1. t.down[i] = fs[j]
      BY <1>8, <1>19, <2>1, <2>3, Joined
    <3>2. QED
      BY <1>19, <3>1 DEF Frame
  <2>4. i \in DOMAIN e.down \/ \E j \in DOMAIN fs : i = Len(e.down) + j
    BY <1>8, <1>19, <2>1, Joined
  <2>5. QED
    BY <2>2, <2>3, <2>4
<1>21. Sorted(t)
  <2>1. \A r \in Runs : /\ t.pending[r].launch = None => t.pending[r].stdin = <<>>
                        /\ t.pending[r].launch # None => RunOf[t.pending[r].launch] = r
                        /\ t.pending[r].stdin = <<>>
    BY <1>1, <1>15 DEF Sorted
  <2>2. QED
    BY <1>8, <1>18, <1>20, <2>1 DEF Sorted
<1>22. \A l \in Launches : /\ CallsIn(e, l) => CallsIn(t, l)
                           /\ t.outcome[l] # "new" \/ e.outcome[l] = "new"
                           /\ l \in ToSet(ls) => ~CallsIn(e, l) /\ CallsIn(t, l)
  <2> SUFFICES ASSUME NEW l \in Launches
               PROVE  /\ CallsIn(e, l) => CallsIn(t, l)
                      /\ t.outcome[l] # "new" \/ e.outcome[l] = "new"
                      /\ l \in ToSet(ls) => ~CallsIn(e, l) /\ CallsIn(t, l)
    OBVIOUS
  <2>1. t.outcome[l] # "new" \/ e.outcome[l] = "new"
    BY <1>10
  <2>2. l \in ToSet(ls) => t.outcome[l] # "new"
    BY <1>10
  <2>3. QED
    BY <1>8, <1>13, <2>1, <2>2 DEF CallsIn
<1>23. Advance(e, t, fs)
  <2>1. ASSUME NEW l \in Launches, t.pending[RunOf[l]].launch = l
        PROVE  \/ /\ e.pending[RunOf[l]].launch = l
                  /\ \A j \in DOMAIN fs : ~StartsRun(fs[j], RunOf[l])
               \/ \E i \in DOMAIN fs :
                     /\ Starts(fs[i], l)
                     /\ \A j \in DOMAIN fs : StartsRun(fs[j], RunOf[l]) => j <= i
    <3>1. CASE \A i \in DOMAIN ls : RunOf[ls[i]] # RunOf[l]
      <4>1. e.pending[RunOf[l]].launch = l
        BY <1>1, <1>8, <2>1, <3>1
      <4>2. \A j \in DOMAIN fs : ~StartsRun(fs[j], RunOf[l])
        BY <1>4, <1>19, <3>1 DEF StartsRun, Frame
      <4>3. QED
        BY <4>1, <4>2
    <3>2. ASSUME NEW k \in DOMAIN ls, RunOf[ls[k]] = RunOf[l]
          PROVE  \E i \in DOMAIN fs :
                     /\ Starts(fs[i], l)
                     /\ \A j \in DOMAIN fs : StartsRun(fs[j], RunOf[l]) => j <= i
      <4>1. PICK i \in DOMAIN ls :
               /\ \A j \in DOMAIN ls : RunOf[ls[j]] = RunOf[l] => j <= i
               /\ t.pending[RunOf[l]] = [launch |-> ls[i], stdin |-> <<>>]
        BY <1>9, <3>2
      <4>2. ls[i] = l
        BY <2>1, <4>1
      <4>3. i \in DOMAIN fs /\ Starts(fs[i], l)
        BY <1>4, <1>19, <4>2 DEF Starts, Frame
      <4>4. \A j \in DOMAIN fs : StartsRun(fs[j], RunOf[l]) => j <= i
        BY <1>4, <1>19, <4>1 DEF StartsRun, Frame
      <4>5. QED
        BY <4>3, <4>4
    <3>3. QED
      BY <3>1, <3>2
  <2>2. \A i \in DOMAIN fs : fs[i].kind = "launch" /\ fs[i].launch \in Launches
    BY <1>19 DEF Frame
  <2>3. ASSUME NEW i \in DOMAIN fs, NEW l \in Launches, Starts(fs[i], l)
        PROVE  /\ ~CallsIn(e, l) /\ CallsIn(t, l)
               /\ \A j \in DOMAIN fs : Starts(fs[j], l) => j = i
    <3>1. w[i] = l /\ l \in ToSet(ls)
      BY <1>11, <1>19, <2>3 DEF Starts, Frame
    <3>2. \A j \in DOMAIN fs : Starts(fs[j], l) => j = i
      BY <1>2, <1>3, <1>12, <1>19, <3>1 DEF Starts, Frame
    <3>3. QED
      BY <1>22, <3>1, <3>2
  <2>4. \A r \in Runs : t.pending[r] = e.pending[r] \/ t.pending[r].stdin = <<>>
    BY <1>15
  <2>5. fs \in Seq(FrameSet) /\ t.down = e.down \o fs
    BY <1>8, <1>19 DEF fs
  <2>6. QED
    BY <1>22, <2>1, <2>2, <2>3, <2>4, <2>5 DEF Advance
<1>24. /\ Tells(e, t, {})
       /\ \A l \in Launches : e.outcome[l] \notin {"new", "waited"} => t.outcome[l] = e.outcome[l]
  <2> SUFFICES ASSUME NEW l \in Launches
               PROVE  /\ t.outcome[l] \in {"complete", "disconnected"} => e.outcome[l] = t.outcome[l]
                      /\ e.outcome[l] \notin {"new", "waited"} => t.outcome[l] = e.outcome[l]
    BY DEF Tells
  <2>1. e.outcome[l] = "waited" <=> e.pending[RunOf[l]].launch = l \/ l \in ToSet(w)
    BY DEF Exact
  <2>2. QED
    BY <1>10, <1>13, <2>1
<1>25. QED
  BY <1>7, <1>16, <1>18, <1>21, <1>23, <1>24

LEMMA FillsOffline ==
  ASSUME limits \in Bounds, ~online, NEW e, Sorted(e), Exact(e),
         Cardinality(inFlight(e.pending)) <= limits.cap
  PROVE  LET t == Filled(e)
         IN /\ Sorted(t) /\ Exact(t) /\ Room(t, 0) /\ Tells(e, t, {})
            /\ Advance(e, t, <<>>) /\ t.pending = e.pending
            /\ \A l \in Launches : e.outcome[l] \notin {"new", "waited"} => t.outcome[l] = e.outcome[l]
<1> DEFINE Q == [l \in Launches |-> IF l \in ToSet(e.waiters) THEN "offline" ELSE e.outcome[l]]
           t == Filled(e)
<1>1. e \in Registries /\ Len(e.waiters) \in Nat
  BY DEF Sorted, Registries
<1>2. t = [e EXCEPT !.waiters = <<>>, !.outcome = Q]
  BY DEF Filled
<1>3. Q \in [Launches -> Outcomes]
  BY <1>1 DEF Registries, Outcomes, Settled
<1>4. \A l \in Launches : Q[l] = IF l \in ToSet(e.waiters) THEN "offline" ELSE e.outcome[l]
  OBVIOUS
<1> HIDE DEF Q, t
<1>5. /\ t.waiters = <<>> /\ t.outcome = Q /\ t.pending = e.pending /\ t.down = e.down
      /\ t \in Registries
  <2>1. /\ e = [pending |-> e.pending, waiters |-> e.waiters, outcome |-> e.outcome, down |-> e.down]
        /\ t = [pending |-> e.pending, waiters |-> <<>>, outcome |-> Q, down |-> e.down]
    BY <1>1, <1>2 DEF Registries
  <2>2. <<>> \in Seq(Launches)
    OBVIOUS
  <2>3. QED
    BY <1>1, <1>3, <2>1, <2>2 DEF Registries
<1>6. Sorted(t)
  BY <1>5 DEF Sorted
<1>7. ToSet(t.waiters) = {}
  BY <1>5 DEF ToSet
<1>8. Exact(t)
  <2>1. IsInjective(t.waiters)
    BY <1>5 DEF IsInjective
  <2>2. ASSUME NEW l \in Launches
        PROVE  t.outcome[l] = "waited" <=> t.pending[RunOf[l]].launch = l
    BY <1>4, <1>5 DEF Exact
  <2>3. QED
    BY <1>7, <2>1, <2>2 DEF Exact
<1>9. Room(t, 0)
  BY <1>5 DEF Room
<1>10. Tells(e, t, {})
  BY <1>4, <1>5 DEF Tells
<1>11. Advance(e, t, <<>>)
  <2>1. \A l \in Launches : CallsIn(e, l) => CallsIn(t, l)
    BY <1>4, <1>5, <1>7 DEF CallsIn
  <2>2. t.down = e.down \o <<>> /\ <<>> \in Seq(FrameSet)
    BY <1>1, <1>5 DEF Registries
  <2>3. QED
    BY <1>5, <2>1, <2>2 DEF Advance
<1>12. ASSUME NEW l \in Launches, e.outcome[l] \notin {"new", "waited"} PROVE t.outcome[l] = e.outcome[l]
  BY <1>4, <1>5, <1>12 DEF Exact
<1>13. QED
  BY <1>5, <1>6, <1>8, <1>9, <1>10, <1>11, <1>12 DEF t

(* releaseSlot. *)
LEMMA Fills ==
  ASSUME limits \in Bounds, NEW e, NEW t, t = Filled(e),
         Sorted(e), Exact(e), Room(e, 1) \/ (Room(e, 0) /\ e.waiters = <<>>)
  PROVE  /\ Sorted(t) /\ Exact(t) /\ Room(t, 0) /\ Tells(e, t, {})
         /\ \E more : Advance(e, t, more)
         /\ ~online => t.pending = e.pending
         /\ \A l \in Launches : e.outcome[l] \notin {"new", "waited"} => t.outcome[l] = e.outcome[l]
<1>1. CASE online
  BY <1>1, FillsOnline
<1>2. CASE ~online
  <2>1. Cardinality(inFlight(e.pending)) <= limits.cap
    BY DEF Room
  <2>2. QED
    BY <1>2, <2>1, FillsOffline
<1>3. QED
  BY <1>1, <1>2

(* One advance after another. *)
LEMMA Advances ==
  ASSUME limits \in Bounds, NEW s, NEW t, NEW u, NEW a, NEW b,
         Advance(s, t, a), Advance(t, u, b), s.down \in Seq(FrameSet)
  PROVE  Advance(s, u, a \o b)
<1> DEFINE c == a \o b
<1>0. RunOf \in [Launches -> Runs]
  BY Given
<1>1. a \in Seq(FrameSet) /\ b \in Seq(FrameSet) /\ t.down = s.down \o a /\ u.down = t.down \o b
  BY DEF Advance
<1>2. /\ c \in Seq(FrameSet)
      /\ \A i \in DOMAIN a : i \in DOMAIN c /\ c[i] = a[i]
      /\ \A i \in DOMAIN b : Len(a) + i \in DOMAIN c /\ c[Len(a) + i] = b[i]
      /\ \A i \in DOMAIN c : i \in DOMAIN a \/ \E j \in DOMAIN b : i = Len(a) + j
  <2>1. a \in Seq(FrameSet) /\ b \in Seq(FrameSet)
    BY <1>1
  <2>2. QED
    BY <2>1, Joined, SMTT(30)
<1>3. u.down = s.down \o c
  <2>1. s.down \in Seq(FrameSet)
    OBVIOUS
  <2>2. (s.down \o a) \o b = s.down \o (a \o b)
    <3> DEFINE d == s.down
    <3>1. d \in Seq(FrameSet) /\ a \in Seq(FrameSet) /\ b \in Seq(FrameSet)
      BY <1>1, <2>1
    <3> HIDE DEF d
    <3>2. (d \o a) \o b = d \o (a \o b)
      BY ONLY <3>1, ConcatAssociative, SMTT(60)
    <3>3. QED
      BY <3>2 DEF d
  <2>3. QED
    BY <1>1, <2>2
<1>4. /\ Len(a) \in Nat /\ Len(b) \in Nat /\ DOMAIN a = 1 .. Len(a) /\ DOMAIN b = 1 .. Len(b)
      /\ DOMAIN c \subseteq Nat
  BY <1>1, <1>2
<1> HIDE DEF c
<1>5. \A l \in Launches : /\ CallsIn(s, l) => CallsIn(t, l)
                          /\ CallsIn(t, l) => CallsIn(u, l)
  BY DEF Advance
<1>6. \A i \in DOMAIN a, l \in Launches :
         /\ Starts(a[i], l) => /\ ~CallsIn(s, l) /\ CallsIn(t, l)
                               /\ \A j \in DOMAIN a : Starts(a[j], l) => j = i
         /\ a[i].kind = "stop" /\ a[i].launch = l =>
                CallsIn(t, l) /\ \A j \in DOMAIN a : Starts(a[j], l) => j < i
  BY DEF Advance
<1>7. \A i \in DOMAIN b, l \in Launches :
         /\ Starts(b[i], l) => /\ ~CallsIn(t, l) /\ CallsIn(u, l)
                               /\ \A j \in DOMAIN b : Starts(b[j], l) => j = i
         /\ b[i].kind = "stop" /\ b[i].launch = l =>
                CallsIn(u, l) /\ \A j \in DOMAIN b : Starts(b[j], l) => j < i
  BY DEF Advance
<1>8. ASSUME NEW i \in DOMAIN c, NEW l \in Launches, Starts(c[i], l)
      PROVE  /\ ~CallsIn(s, l) /\ CallsIn(u, l)
             /\ \A j \in DOMAIN c : Starts(c[j], l) => j = i
  <2>1. CASE i \in DOMAIN a
    <3>1. Starts(a[i], l) /\ ~CallsIn(s, l) /\ CallsIn(t, l) /\ CallsIn(u, l)
      BY <1>2, <1>5, <1>6, <1>8, <2>1
    <3>2. ASSUME NEW j \in DOMAIN c, Starts(c[j], l) PROVE j = i
      <4>1. CASE j \in DOMAIN a
        BY <1>2, <1>6, <2>1, <3>1, <3>2, <4>1
      <4>2. ASSUME NEW k \in DOMAIN b, j = Len(a) + k PROVE FALSE
        BY <1>2, <1>7, <3>1, <3>2, <4>2
      <4>3. QED
        BY <1>2, <4>1, <4>2
    <3>3. QED
      BY <3>1, <3>2
  <2>2. ASSUME NEW m \in DOMAIN b, i = Len(a) + m
        PROVE  /\ ~CallsIn(s, l) /\ CallsIn(u, l)
               /\ \A j \in DOMAIN c : Starts(c[j], l) => j = i
    <3>1. Starts(b[m], l) /\ ~CallsIn(s, l) /\ ~CallsIn(t, l) /\ CallsIn(u, l)
      BY <1>2, <1>5, <1>7, <1>8, <2>2
    <3>2. ASSUME NEW j \in DOMAIN c, Starts(c[j], l) PROVE j = i
      <4>1. CASE j \in DOMAIN a
        BY <1>2, <1>6, <3>1, <3>2, <4>1
      <4>2. ASSUME NEW k \in DOMAIN b, j = Len(a) + k PROVE j = i
        <5>1. Starts(b[k], l)
          BY <1>2, <3>2, <4>2
        <5>2. QED
          BY <1>7, <2>2, <3>1, <4>2, <5>1
      <4>3. QED
        BY <1>2, <4>1, <4>2
    <3>3. QED
      BY <3>1, <3>2
  <2>3. QED
    BY <1>2, <2>1, <2>2
<1>9. ASSUME NEW i \in DOMAIN c, NEW l \in Launches, c[i].kind = "stop", c[i].launch = l
      PROVE  CallsIn(u, l) /\ \A j \in DOMAIN c : Starts(c[j], l) => j < i
  <2>1. CASE i \in DOMAIN a
    <3>1. a[i].kind = "stop" /\ a[i].launch = l
      BY <1>2, <1>9, <2>1
    <3>2. CallsIn(t, l) /\ CallsIn(u, l)
      BY <1>5, <1>6, <2>1, <3>1
    <3>3. ASSUME NEW j \in DOMAIN c, Starts(c[j], l) PROVE j < i
      <4>1. CASE j \in DOMAIN a
        BY <1>2, <1>6, <2>1, <3>1, <3>3, <4>1
      <4>2. ASSUME NEW k \in DOMAIN b, j = Len(a) + k PROVE FALSE
        BY <1>2, <1>7, <3>2, <3>3, <4>2
      <4>3. QED
        BY <1>2, <4>1, <4>2
    <3>4. QED
      BY <3>2, <3>3
  <2>2. ASSUME NEW m \in DOMAIN b, i = Len(a) + m
        PROVE  CallsIn(u, l) /\ \A j \in DOMAIN c : Starts(c[j], l) => j < i
    <3>1. b[m].kind = "stop" /\ b[m].launch = l
      BY <1>2, <1>9, <2>2
    <3>2. ASSUME NEW j \in DOMAIN c, Starts(c[j], l) PROVE j < i
      <4>1. CASE j \in DOMAIN a
        BY <1>4, <2>2, <4>1
      <4>2. ASSUME NEW k \in DOMAIN b, j = Len(a) + k PROVE j < i
        <5>1. Starts(b[k], l)
          BY <1>2, <3>2, <4>2
        <5>2. k < m
          BY <1>7, <3>1, <5>1
        <5>3. QED
          BY <1>4, <2>2, <4>2, <5>2
      <4>3. QED
        BY <1>2, <4>1, <4>2
    <3>3. QED
      BY <1>7, <3>1, <3>2
  <2>3. QED
    BY <1>2, <2>1, <2>2
<1>10. ASSUME NEW i \in DOMAIN c
       PROVE  /\ c[i].kind \in {"launch", "stop"}
              /\ c[i].kind = "launch" => c[i].launch \in Launches
              /\ c[i].kind = "stop" => c[i].launch \in Launches \union Runs
  <2>1. CASE i \in DOMAIN a
    BY <1>2, <2>1 DEF Advance
  <2>2. ASSUME NEW m \in DOMAIN b, i = Len(a) + m
        PROVE  /\ c[i].kind \in {"launch", "stop"}
               /\ c[i].kind = "launch" => c[i].launch \in Launches
               /\ c[i].kind = "stop" => c[i].launch \in Launches \union Runs
    <3>1. c[i] = b[m]
      BY <1>2, <2>2
    <3>2. QED
      BY <2>2, <3>1 DEF Advance
  <2>3. QED
    BY <1>2, <2>1, <2>2
<1>11. ASSUME NEW l \in Launches, u.pending[RunOf[l]].launch = l
       PROVE  \/ /\ s.pending[RunOf[l]].launch = l
                 /\ \A j \in DOMAIN c : ~StartsRun(c[j], RunOf[l])
              \/ \E i \in DOMAIN c :
                    /\ Starts(c[i], l)
                    /\ \A j \in DOMAIN c : StartsRun(c[j], RunOf[l]) => j <= i
  <2>1. CASE \E i \in DOMAIN b : /\ Starts(b[i], l)
                                 /\ \A j \in DOMAIN b : StartsRun(b[j], RunOf[l]) => j <= i
    <3>1. PICK i \in DOMAIN b : /\ Starts(b[i], l)
                                /\ \A j \in DOMAIN b : StartsRun(b[j], RunOf[l]) => j <= i
      BY <2>1
    <3>2. Len(a) + i \in DOMAIN c /\ Starts(c[Len(a) + i], l)
      BY <1>2, <3>1
    <3>3. ASSUME NEW j \in DOMAIN c, StartsRun(c[j], RunOf[l]) PROVE j <= Len(a) + i
      <4>1. CASE j \in DOMAIN a
        BY <1>4, <4>1
      <4>2. ASSUME NEW k \in DOMAIN b, j = Len(a) + k PROVE j <= Len(a) + i
        <5>1. StartsRun(b[k], RunOf[l])
          BY <1>2, <3>3, <4>2
        <5>2. k <= i
          BY <3>1, <5>1
        <5>3. QED
          BY <1>4, <4>2, <5>2
      <4>3. QED
        BY <1>2, <4>1, <4>2
    <3>4. QED
      BY <3>2, <3>3
  <2>2. CASE t.pending[RunOf[l]].launch = l /\ \A j \in DOMAIN b : ~StartsRun(b[j], RunOf[l])
    <3>1. CASE s.pending[RunOf[l]].launch = l /\ \A j \in DOMAIN a : ~StartsRun(a[j], RunOf[l])
      <4>1. ASSUME NEW j \in DOMAIN c PROVE ~StartsRun(c[j], RunOf[l])
        BY <1>2, <2>2, <3>1
      <4>2. QED
        BY <3>1, <4>1
    <3>2. ASSUME NEW i \in DOMAIN a, Starts(a[i], l),
                 \A j \in DOMAIN a : StartsRun(a[j], RunOf[l]) => j <= i
          PROVE  \E k \in DOMAIN c :
                    /\ Starts(c[k], l)
                    /\ \A j \in DOMAIN c : StartsRun(c[j], RunOf[l]) => j <= k
      <4>1. i \in DOMAIN c /\ Starts(c[i], l)
        BY <1>2, <3>2
      <4>2. ASSUME NEW j \in DOMAIN c, StartsRun(c[j], RunOf[l]) PROVE j <= i
        BY <1>2, <2>2, <3>2, <4>2
      <4>3. QED
        BY <4>1, <4>2
    <3>3. QED
      BY <2>2, <3>1, <3>2 DEF Advance
  <2>3. QED
    BY <1>11, <2>1, <2>2 DEF Advance
<1>12. \A r \in Runs : u.pending[r] = s.pending[r] \/ u.pending[r].stdin = <<>>
  BY DEF Advance
<1>13. QED
  <2>1. \A l \in Launches :
          /\ CallsIn(s, l) => CallsIn(u, l)
          /\ u.pending[RunOf[l]].launch = l =>
                \/ /\ s.pending[RunOf[l]].launch = l
                   /\ \A j \in DOMAIN c : ~StartsRun(c[j], RunOf[l])
                \/ \E i \in DOMAIN c :
                      /\ Starts(c[i], l)
                      /\ \A j \in DOMAIN c : StartsRun(c[j], RunOf[l]) => j <= i
    BY <1>5, <1>11
  <2>2. \A i \in DOMAIN c, l \in Launches :
          /\ Starts(c[i], l) => /\ ~CallsIn(s, l) /\ CallsIn(u, l)
                                /\ \A j \in DOMAIN c : Starts(c[j], l) => j = i
          /\ c[i].kind = "stop" /\ c[i].launch = l =>
                CallsIn(u, l) /\ \A j \in DOMAIN c : Starts(c[j], l) => j < i
    BY <1>8, <1>9
  <2>3. Advance(s, u, c)
    BY <1>2, <1>3, <1>10, <1>12, <2>1, <2>2, Zenon DEF Advance
  <2>4. QED
    BY <2>3 DEF c

-----------------------------------------------------------------------------
(* A dispatch that ends. *)
LEMMA EndedIs ==
  ASSUME limits \in Bounds, NEW s, Sorted(s), Exact(s), Room(s, 0),
         NEW l \in Launches, s.pending[RunOf[l]].launch = l, NEW how \in Settled
  PROVE  LET t == Ended(s, l, how)
         IN /\ Sorted(t) /\ Exact(t) /\ Room(t, 0) /\ Tells(s, t, {l})
            /\ \E more : Advance(s, t, more)
            /\ t.outcome[l] = how
            /\ ~online => \A r \in Runs \ {RunOf[l]} : t.pending[r] = s.pending[r]
<1> DEFINE e == [s EXCEPT !.pending[RunOf[l]] = Idle, !.outcome[l] = how]
           t == Filled(e)
<1>0. RunOf \in [Launches -> Runs] /\ None \notin Launches /\ limits.cap \in Nat \ {0}
  BY Given
<1>1. s \in Registries /\ RunOf[l] \in Runs
  BY <1>0 DEF Sorted
<1>2. /\ e.pending = [s.pending EXCEPT ![RunOf[l]] = Idle]
      /\ e.outcome = [s.outcome EXCEPT ![l] = how]
      /\ e.waiters = s.waiters /\ e.down = s.down
      /\ e = [pending |-> e.pending, waiters |-> s.waiters, outcome |-> e.outcome, down |-> s.down]
  <2> DEFINE P == [s.pending EXCEPT ![RunOf[l]] = Idle]
             Q == [s.outcome EXCEPT ![l] = how]
  <2>1. e = [s EXCEPT !.pending = P, !.outcome = Q]
    OBVIOUS
  <2> HIDE DEF e, P, Q
  <2>2. /\ e.pending = P /\ e.outcome = Q /\ e.waiters = s.waiters /\ e.down = s.down
        /\ e = [pending |-> P, waiters |-> s.waiters, outcome |-> Q, down |-> s.down]
    BY <1>1, <2>1 DEF Registries
  <2>3. QED
    BY <2>2 DEF P, Q
<1>3. Idle \in [launch : Launches \union {None}, stdin : Seq(1 .. limits.stdin)]
  BY DEF Idle
<1>4. e \in Registries
  <2>1. e.pending \in [Runs -> [launch : Launches \union {None}, stdin : Seq(1 .. limits.stdin)]]
    BY <1>1, <1>2, <1>3 DEF Registries
  <2>2. e.outcome \in [Launches -> Outcomes]
    BY <1>1, <1>2 DEF Registries, Outcomes
  <2>3. QED
    BY <1>1, <1>2, <2>1, <2>2 DEF Registries
<1> HIDE DEF e
<1>5. /\ \A r \in Runs : e.pending[r] = IF r = RunOf[l] THEN Idle ELSE s.pending[r]
      /\ \A k \in Launches : e.outcome[k] = IF k = l THEN how ELSE s.outcome[k]
  BY <1>1, <1>2 DEF Registries
<1>6. /\ inFlight(e.pending) = inFlight(s.pending) \ {RunOf[l]}
      /\ RunOf[l] \in inFlight(s.pending)
  BY <1>0, <1>1, <1>5 DEF inFlight, Idle
<1>7. /\ IsFiniteSet(inFlight(e.pending))
      /\ Cardinality(inFlight(e.pending)) = Cardinality(inFlight(s.pending)) - 1
  <2>1. IsFiniteSet(inFlight(s.pending))
    BY DEF Sorted
  <2>2. QED
    BY <1>6, <2>1, FS_RemoveElement
<1>8. Sorted(e)
  <2>1. \A r \in Runs : /\ e.pending[r].launch = None => e.pending[r].stdin = <<>>
                        /\ e.pending[r].launch # None => RunOf[e.pending[r].launch] = r
                        /\ online => e.pending[r].stdin = <<>>
    BY <1>5 DEF Sorted, Idle
  <2>2. QED
    BY <1>2, <1>4, <1>7, <2>1 DEF Sorted
<1>9. Exact(e)
  <2>1. ASSUME NEW k \in Launches
        PROVE  /\ e.outcome[k] = "waited" <=> e.pending[RunOf[k]].launch = k \/ k \in ToSet(s.waiters)
               /\ ~ (e.pending[RunOf[k]].launch = k /\ k \in ToSet(s.waiters))
    <3>1. how # "waited" /\ RunOf[k] \in Runs
      BY <1>0 DEF Settled
    <3>2. CASE k = l
      BY <1>0, <1>5, <3>1, <3>2 DEF Exact, Idle
    <3>3. CASE k # l /\ RunOf[k] = RunOf[l]
      BY <1>0, <1>5, <3>1, <3>3 DEF Exact, Idle
    <3>4. CASE RunOf[k] # RunOf[l]
      BY <1>5, <3>1, <3>4 DEF Exact
    <3>5. QED
      BY <3>2, <3>3, <3>4
  <2>2. QED
    BY <1>2, <2>1 DEF Exact
<1>10. Room(e, 1)
  <2>1. Cardinality(inFlight(s.pending)) \in Nat
    BY FS_CardinalityType DEF Sorted
  <2>2. QED
    BY <1>0, <1>2, <1>7, <2>1 DEF Room
<1>11. /\ Sorted(t) /\ Exact(t) /\ Room(t, 0) /\ Tells(e, t, {})
       /\ \A k \in Launches : e.outcome[k] \notin {"new", "waited"} => t.outcome[k] = e.outcome[k]
       /\ ~online => t.pending = e.pending
       /\ \E more : Advance(e, t, more)
  <2> HIDE DEF e
  <2>1. Sorted(e) /\ Exact(e) /\ Room(e, 1) /\ t = Filled(e)
    BY <1>8, <1>9, <1>10
  <2> HIDE DEF t
  <2>2. QED
    BY <2>1, Fills
<1>12. Advance(s, e, <<>>)
  <2>1. \A k \in Launches : CallsIn(s, k) => CallsIn(e, k)
    BY <1>2, <1>5 DEF CallsIn, Settled
  <2>2. ASSUME NEW k \in Launches, e.pending[RunOf[k]].launch = k
        PROVE  s.pending[RunOf[k]].launch = k
    BY <1>0, <1>5, <2>2 DEF Idle
  <2>3. \A r \in Runs : e.pending[r] = s.pending[r] \/ e.pending[r].stdin = <<>>
    BY <1>5 DEF Idle
  <2>4. e.down = s.down \o <<>> /\ <<>> \in Seq(FrameSet)
    BY <1>1, <1>2 DEF Registries
  <2>5. QED
    BY <2>1, <2>2, <2>3, <2>4 DEF Advance
<1>13. \E more : Advance(s, t, more)
  <2>1. PICK more : Advance(e, t, more)
    BY <1>11
  <2>2. s.down \in Seq(FrameSet)
    BY <1>1 DEF Registries
  <2>3. Advance(s, t, <<>> \o more)
    BY <1>12, <2>1, <2>2, Advances
  <2>4. QED
    BY <2>3
<1>14. t.outcome[l] = how
  BY <1>5, <1>11 DEF Settled
<1>15. Tells(s, t, {l})
  BY <1>5, <1>11 DEF Tells
<1>16. Ended(s, l, how) = t
  BY DEF Ended, e
<1>17. QED
  BY <1>5, <1>11, <1>13, <1>14, <1>15, <1>16

LEMMA Appended ==
  ASSUME NEW S, NEW a \in Seq(S), NEW x \in S
  PROVE  /\ Append(a, x) \in Seq(S) /\ Len(Append(a, x)) = Len(a) + 1
         /\ Len(a) \in Nat /\ DOMAIN a = 1 .. Len(a) /\ DOMAIN Append(a, x) = 1 .. Len(a) + 1
         /\ Append(a, x)[Len(a) + 1] = x
         /\ \A i \in DOMAIN a : Append(a, x)[i] = a[i]
         /\ \A i \in DOMAIN Append(a, x) : i \in DOMAIN a \/ i = Len(a) + 1
         /\ \A y : y \in ToSet(Append(a, x)) <=> y \in ToSet(a) \/ y = x
         /\ IsInjective(a) /\ x \notin ToSet(a) => IsInjective(Append(a, x))
<1> DEFINE b == Append(a, x)
<1>1. /\ b \in Seq(S) /\ Len(b) = Len(a) + 1 /\ b[Len(a) + 1] = x
      /\ \A i \in 1 .. Len(a) : b[i] = a[i]
      /\ Len(a) \in Nat /\ DOMAIN a = 1 .. Len(a) /\ DOMAIN b = 1 .. Len(a) + 1
  OBVIOUS
<1> HIDE DEF b
<1>2. \A i \in DOMAIN b : i \in DOMAIN a \/ i = Len(a) + 1
  BY <1>1
<1>3. \A y : y \in ToSet(b) <=> y \in ToSet(a) \/ y = x
  BY <1>1, <1>2 DEF ToSet
<1>4. ASSUME IsInjective(a), x \notin ToSet(a), NEW i \in DOMAIN b, NEW j \in DOMAIN b, b[i] = b[j]
      PROVE  i = j
  BY <1>1, <1>2, <1>4 DEF IsInjective, ToSet
<1>5. IsInjective(a) /\ x \notin ToSet(a) => IsInjective(b)
  BY <1>4 DEF IsInjective
<1>6. QED
  BY <1>1, <1>2, <1>3, <1>5 DEF b

(* A launch that waits for a slot. *)
LEMMA WaitsIs ==
  ASSUME limits \in Bounds, Sorted(Now), Exact(Now), Room(Now, 0),
         NEW l \in Launches, outcome[l] = "new",
         ~ (Cardinality(inFlight(pending)) < limits.cap)
  PROVE  LET t == [Now EXCEPT !.waiters = Append(@, l), !.outcome[l] = "waited"]
         IN Sorted(t) /\ Exact(t) /\ Room(t, 0) /\ Tells(Now, t, {}) /\ \E more : Advance(Now, t, more)
<1> DEFINE t == [Now EXCEPT !.waiters = Append(@, l), !.outcome[l] = "waited"]
<1>0. RunOf \in [Launches -> Runs] /\ limits.cap \in Nat \ {0}
  BY Given
<1>1. /\ Now \in Registries /\ Now.pending = pending /\ Now.waiters = waiters
      /\ Now.outcome = outcome /\ Now.down = down
  BY DEF Sorted, Now
<1>2. /\ waiters \in Seq(Launches) /\ outcome \in [Launches -> Outcomes]
      /\ down \in Seq(FrameSet)
  BY <1>1 DEF Registries
<1>3. /\ t = [pending |-> pending, waiters |-> Append(waiters, l),
              outcome |-> [outcome EXCEPT ![l] = "waited"], down |-> down]
  <2> DEFINE Q == [outcome EXCEPT ![l] = "waited"]
             ws == Append(waiters, l)
  <2>1. t = [Now EXCEPT !.waiters = ws, !.outcome = Q]
    BY <1>1
  <2> HIDE DEF t, Q, ws
  <2>2. t = [pending |-> pending, waiters |-> ws, outcome |-> Q, down |-> down]
    BY <2>1 DEF Now
  <2>3. QED
    BY <2>2 DEF Q, ws
<1>4. /\ t.pending = pending /\ t.waiters = Append(waiters, l) /\ t.down = down
      /\ t.outcome = [outcome EXCEPT ![l] = "waited"]
  BY <1>3
<1>5. t.outcome \in [Launches -> Outcomes] /\ \A k \in Launches : t.outcome[k] = IF k = l THEN "waited" ELSE outcome[k]
  BY <1>2, <1>4 DEF Outcomes
<1>6. t \in Registries
  BY <1>1, <1>2, <1>3, <1>5, Appended DEF Registries
<1> HIDE DEF t
<1>7. Sorted(t)
  BY <1>1, <1>4, <1>6 DEF Sorted
<1>8. /\ outcome[l] # "waited" /\ l \notin ToSet(waiters) /\ pending[RunOf[l]].launch # l
  BY <1>1 DEF Exact
<1>9. \A y : y \in ToSet(t.waiters) <=> y \in ToSet(waiters) \/ y = l
  BY <1>2, <1>4, Appended
<1>10. Exact(t)
  <2>1. IsInjective(t.waiters)
    BY <1>1, <1>2, <1>4, <1>8, Appended DEF Exact
  <2>2. ASSUME NEW k \in Launches
        PROVE  /\ t.outcome[k] = "waited" <=> pending[RunOf[k]].launch = k \/ k \in ToSet(t.waiters)
               /\ ~ (pending[RunOf[k]].launch = k /\ k \in ToSet(t.waiters))
    BY <1>1, <1>5, <1>8, <1>9 DEF Exact
  <2>3. QED
    BY <1>4, <2>1, <2>2 DEF Exact
<1>11. Room(t, 0)
  <2>1. Cardinality(inFlight(pending)) \in Nat
    BY <1>1, FS_CardinalityType DEF Sorted
  <2>2. QED
    BY <1>0, <1>1, <1>4, <2>1 DEF Room
<1>12. Advance(Now, t, <<>>)
  <2>1. ASSUME NEW k \in Launches, CallsIn(Now, k) PROVE CallsIn(t, k)
    BY <1>1, <1>5, <1>9, <2>1 DEF CallsIn
  <2>2. t.down = Now.down \o <<>> /\ <<>> \in Seq(FrameSet)
    BY <1>1, <1>2, <1>4
  <2>3. QED
    BY <1>1, <1>4, <2>1, <2>2 DEF Advance
<1>13. Tells(Now, t, {})
  BY <1>1, <1>5 DEF Tells
<1>14. QED
  BY <1>7, <1>10, <1>11, <1>12, <1>13 DEF t

(* A stop is sent to an attempt called, or to all of a Run's. *)
LEMMA SendsStop ==
  ASSUME limits \in Bounds, NEW s, Sorted(s), Exact(s), Room(s, 0),
         NEW x \in Launches \union Runs, x \in Launches => CallsIn(s, x)
  PROVE  LET t == [s EXCEPT !.down = Sent(@, <<StopFrame(x)>>)]
         IN /\ Sorted(t) /\ Exact(t) /\ Room(t, 0) /\ Tells(s, t, {}) /\ \E more : Advance(s, t, more)
            /\ t.pending = s.pending /\ t.waiters = s.waiters /\ t.outcome = s.outcome
<1> DEFINE t == [s EXCEPT !.down = Sent(@, <<StopFrame(x)>>)]
           m == IF online THEN <<StopFrame(x)>> ELSE <<>>
<1>1. s \in Registries /\ s.down \in Seq(FrameSet) /\ limits.stdin \in Nat
  BY Given DEF Sorted, Registries
<1>2. StopFrame(x) \in FrameSet /\ StopFrame(x).kind = "stop" /\ StopFrame(x).launch = x
  BY <1>1 DEF StopFrame, Frame, FrameSet
<1>3. /\ m \in Seq(FrameSet) /\ \A i \in DOMAIN m : i = 1 /\ m[i] = StopFrame(x)
      /\ online => m = <<StopFrame(x)>> /\ DOMAIN m = {1} /\ m[1] = StopFrame(x)
  BY <1>2
<1>4. s.down \o m \in Seq(FrameSet) /\ Sent(s.down, <<StopFrame(x)>>) = s.down \o m
  <2>1. s.down \o m \in Seq(FrameSet)
    BY <1>1, <1>3, Joined
  <2>2. s.down \o <<>> = s.down
    BY <1>1
  <2>3. QED
    BY <1>3, <2>1, <2>2 DEF Sent
<1> HIDE DEF m
<1>5. /\ t.pending = s.pending /\ t.waiters = s.waiters /\ t.outcome = s.outcome
      /\ t.down = s.down \o m /\ t \in Registries
  <2> DEFINE d == s.down \o m
  <2>1. t = [s EXCEPT !.down = d]
    BY <1>4
  <2> HIDE DEF t, d
  <2>2. /\ t.pending = s.pending /\ t.waiters = s.waiters /\ t.outcome = s.outcome /\ t.down = d
        /\ t = [pending |-> s.pending, waiters |-> s.waiters, outcome |-> s.outcome, down |-> d]
    BY <1>1, <2>1 DEF Registries
  <2>3. d \in Seq(FrameSet)
    BY <1>4 DEF d
  <2>4. t \in Registries
    BY <1>1, <2>2, <2>3 DEF Registries
  <2>5. QED
    BY <2>2, <2>4 DEF d
<1> HIDE DEF t
<1>6. \A i \in DOMAIN t.down :
          /\ t.down[i].kind \in {"launch", "stdin"} => t.down[i].launch \in Launches
          /\ t.down[i].kind = "stop" => t.down[i].launch \in Launches \union Runs
  <2> SUFFICES ASSUME NEW i \in DOMAIN t.down
               PROVE  /\ t.down[i].kind \in {"launch", "stdin"} => t.down[i].launch \in Launches
                      /\ t.down[i].kind = "stop" => t.down[i].launch \in Launches \union Runs
    OBVIOUS
  <2>1. CASE i \in DOMAIN s.down
    <3>1. t.down[i] = s.down[i]
      BY <1>1, <1>3, <1>5, <2>1, Joined
    <3>2. QED
      BY <2>1, <3>1 DEF Sorted
  <2>2. ASSUME NEW j \in DOMAIN m, i = Len(s.down) + j
        PROVE  t.down[i].kind = "stop" /\ t.down[i].launch = x
    <3>1. t.down[i] = m[j]
      BY <1>1, <1>3, <1>5, <2>2, Joined
    <3>2. QED
      BY <1>2, <1>3, <3>1
  <2>3. i \in DOMAIN s.down \/ \E j \in DOMAIN m : i = Len(s.down) + j
    BY <1>1, <1>3, <1>5, Joined
  <2>4. QED
    BY <2>1, <2>2, <2>3
<1>7. ~online => t.down = <<>>
  BY <1>1, <1>5 DEF Sorted, m
<1>8. Sorted(t)
  BY <1>5, <1>6, <1>7 DEF Sorted
<1>9. Exact(t) /\ Room(t, 0) /\ Tells(s, t, {})
  BY <1>5 DEF Exact, Room, Tells
<1>10. Advance(s, t, m)
  <2>1. \A l \in Launches : CallsIn(s, l) <=> CallsIn(t, l)
    BY <1>5 DEF CallsIn
  <2>2. \A i \in DOMAIN m : m[i].kind = "stop" /\ m[i].launch = x
    BY <1>2, <1>3
  <2>3. ASSUME NEW i \in DOMAIN m, NEW l \in Launches
        PROVE  /\ ~Starts(m[i], l)
               /\ ~StartsRun(m[i], RunOf[l])
               /\ m[i].launch = l => CallsIn(t, l)
    BY <2>1, <2>2 DEF Starts, StartsRun
  <2>4. QED
    BY <1>3, <1>5, <2>1, <2>2, <2>3 DEF Advance
<1>11. QED
  BY <1>5, <1>8, <1>9, <1>10 DEF t

LEMMA NowIs ==
  ASSUME Sorted(Now)
  PROVE  /\ Now.pending = pending /\ Now.waiters = waiters /\ Now.outcome = outcome /\ Now.down = down
         /\ waiters \in Seq(Launches) /\ outcome \in [Launches -> Outcomes] /\ down \in Seq(FrameSet)
         /\ pending \in [Runs -> [launch : Launches \union {None}, stdin : Seq(1 .. limits.stdin)]]
BY DEF Sorted, Now, Registries

(* A waiter is taken out of the queue. *)
LEMMA DropsWaiter ==
  ASSUME limits \in Bounds, Sorted(Now), Exact(Now), Room(Now, 0),
         NEW r \in Runs, WaitingOf(r) # {}
  PROVE  LET t == Terminated(r)
         IN /\ Sorted(t) /\ Exact(t) /\ Room(t, 0) /\ Tells(Now, t, {}) /\ \E more : Advance(Now, t, more)
            /\ t.pending = pending
            /\ \A l \in Launches : l = waiters[Min(WaitingOf(r))] => CallsIn(t, l)
<1> DEFINE n == Min(WaitingOf(r))
           ws == RemoveAt(waiters, n)
           Q == [outcome EXCEPT ![waiters[n]] = "abandoned"]
           t == Terminated(r)
<1>0. RunOf \in [Launches -> Runs]
  BY Given
<1>1. /\ Now.pending = pending /\ Now.waiters = waiters /\ Now.outcome = outcome /\ Now.down = down
      /\ waiters \in Seq(Launches) /\ outcome \in [Launches -> Outcomes] /\ down \in Seq(FrameSet)
      /\ Now \in Registries
  BY NowIs DEF Sorted
<1>2. n \in DOMAIN waiters /\ waiters[n] \in Launches /\ Len(waiters) \in Nat /\ DOMAIN waiters = 1 .. Len(waiters)
  <2>1. WaitingOf(r) \subseteq Nat /\ WaitingOf(r) \subseteq DOMAIN waiters
    BY <1>1 DEF WaitingOf
  <2>2. n \in WaitingOf(r)
    BY <2>1, Least
  <2>3. QED
    BY <1>1, <2>1, <2>2
<1>3. t = [Now EXCEPT !.waiters = ws, !.outcome = Q]
  BY <1>1 DEF Terminated
<1> HIDE DEF n
<1>4. /\ ws \in Seq(Launches) /\ Len(ws) = Len(waiters) - 1 /\ DOMAIN ws = 1 .. Len(waiters) - 1
      /\ \A k \in DOMAIN ws : ws[k] = IF k < n THEN waiters[k] ELSE waiters[k + 1]
  <2>1. /\ ws \in Seq(Launches) /\ Len(ws) = Len(waiters) - 1
        /\ \A k \in DOMAIN ws : ws[k] = IF k < n THEN waiters[k] ELSE waiters[k + 1]
    BY <1>1, <1>2, TakenOut, Zenon
  <2> HIDE DEF ws
  <2>2. QED
    BY <1>2, <2>1
<1>5. Q \in [Launches -> Outcomes] /\ \A l \in Launches : Q[l] = IF l = waiters[n] THEN "abandoned" ELSE outcome[l]
  BY <1>1, <1>2 DEF Outcomes, Settled
<1> HIDE DEF t, ws, Q
<1>6. /\ t.pending = pending /\ t.waiters = ws /\ t.outcome = Q /\ t.down = down
      /\ t = [pending |-> pending, waiters |-> ws, outcome |-> Q, down |-> down]
  BY <1>3 DEF Now
<1>7. t \in Registries
  BY <1>1, <1>4, <1>5, <1>6 DEF Registries
<1>8. Sorted(t)
  BY <1>1, <1>6, <1>7 DEF Sorted
<1>9. \A i, j \in 1 .. Len(waiters) : waiters[i] = waiters[j] => i = j
  BY <1>1, <1>2 DEF Exact, IsInjective
<1>10. ASSUME NEW l PROVE l \in ToSet(ws) <=> l \in ToSet(waiters) /\ l # waiters[n]
  <2>1. ASSUME NEW k \in DOMAIN ws, ws[k] = l PROVE l \in ToSet(waiters) /\ l # waiters[n]
    <3>1. CASE k < n
      BY <1>2, <1>4, <1>9, <2>1, <3>1 DEF ToSet
    <3>2. CASE k >= n
      <4>1. k + 1 \in 1 .. Len(waiters) /\ k + 1 # n /\ waiters[k + 1] = l
        BY <1>2, <1>4, <2>1, <3>2
      <4>2. QED
        BY <1>2, <1>9, <4>1 DEF ToSet
    <3>3. QED
      BY <1>2, <1>4, <3>1, <3>2
  <2>2. ASSUME NEW k \in 1 .. Len(waiters), waiters[k] = l, l # waiters[n] PROVE l \in ToSet(ws)
    <3>1. CASE k < n
      <4>1. k \in DOMAIN ws /\ ws[k] = l
        BY <1>2, <1>4, <2>2, <3>1
      <4>2. QED
        BY <4>1 DEF ToSet
    <3>2. CASE k > n
      <4>1. k - 1 \in DOMAIN ws /\ ~(k - 1 < n) /\ (k - 1) + 1 = k
        BY <1>2, <1>4, <3>2
      <4>2. ws[k - 1] = l
        BY <1>4, <2>2, <4>1
      <4>3. QED
        BY <4>1, <4>2 DEF ToSet
    <3>3. QED
      BY <1>2, <2>2, <3>1, <3>2
  <2>3. QED
    BY <1>2, <2>1, <2>2 DEF ToSet
<1>11. IsInjective(ws)
  <2> SUFFICES ASSUME NEW i \in DOMAIN ws, NEW j \in DOMAIN ws, ws[i] = ws[j] PROVE i = j
    BY DEF IsInjective
  <2>1. /\ i \in 1 .. Len(waiters) /\ j \in 1 .. Len(waiters)
        /\ i + 1 \in 1 .. Len(waiters) /\ j + 1 \in 1 .. Len(waiters)
    BY <1>2, <1>4
  <2>2. CASE i < n /\ j < n
    BY <1>4, <1>9, <2>1, <2>2
  <2>3. CASE i < n /\ ~(j < n)
    BY <1>2, <1>4, <1>9, <2>1, <2>3
  <2>4. CASE ~(i < n) /\ j < n
    BY <1>2, <1>4, <1>9, <2>1, <2>4
  <2>5. CASE ~(i < n) /\ ~(j < n)
    BY <1>2, <1>4, <1>9, <2>1, <2>5
  <2>6. QED
    BY <2>2, <2>3, <2>4, <2>5
<1>12. waiters[n] \in ToSet(waiters)
  BY <1>2 DEF ToSet
<1>13. Exact(t)
  <2>1. ASSUME NEW k \in Launches
        PROVE  /\ Q[k] = "waited" <=> pending[RunOf[k]].launch = k \/ k \in ToSet(ws)
               /\ ~ (pending[RunOf[k]].launch = k /\ k \in ToSet(ws))
    BY <1>1, <1>5, <1>10, <1>12 DEF Exact
  <2>2. QED
    BY <1>6, <1>11, <2>1 DEF Exact
<1>14. Room(t, 0)
  <2>1. waiters # <<>>
    BY <1>2
  <2>2. QED
    BY <1>1, <1>6, <2>1 DEF Room
<1>15. ASSUME NEW l \in Launches
       PROVE  /\ CallsIn(Now, l) => CallsIn(t, l)
              /\ l = waiters[n] => CallsIn(t, l)
  BY <1>1, <1>5, <1>6, <1>10 DEF CallsIn
<1>16. Advance(Now, t, <<>>)
  <2>1. t.down = Now.down \o <<>> /\ <<>> \in Seq(FrameSet)
    BY <1>1, <1>6
  <2>2. QED
    BY <1>1, <1>6, <1>15, <2>1 DEF Advance
<1>17. Tells(Now, t, {})
  BY <1>1, <1>5, <1>6 DEF Tells
<1>18. QED
  BY <1>6, <1>8, <1>13, <1>14, <1>15, <1>16, <1>17 DEF t, n

(* sendTerminate. *)
LEMMA TerminatedIs ==
  ASSUME limits \in Bounds, Sorted(Now), Exact(Now), Room(Now, 0), NEW r \in Runs
  PROVE  LET t == Terminated(r)
         IN /\ Sorted(t) /\ Exact(t) /\ Room(t, 0) /\ Tells(Now, t, {}) /\ \E more : Advance(Now, t, more)
            /\ t.pending = pending
            /\ \A l \in Launches : CallsIn(Now, l) => CallsIn(t, l)
            /\ WaitingOf(r) # {} => \A l \in Launches : l = waiters[Min(WaitingOf(r))] => CallsIn(t, l)
<1>0. Now.pending = pending
  BY NowIs
<1>1. CASE WaitingOf(r) # {}
  BY <1>1, DropsWaiter DEF Advance
<1>2. CASE WaitingOf(r) = {}
  <2>1. Target(r) \in Launches \union Runs /\ (Target(r) \in Launches => CallsIn(Now, Target(r)))
    <3>1. CASE pending[r] = Idle
      BY <3>1, Given DEF Target
    <3>2. CASE pending[r] # Idle
      <4>1. pending[r].launch # None /\ pending[r].launch \in Launches /\ RunOf[pending[r].launch] = r
        BY <1>0, <3>2, IdleIs, NowIs DEF Sorted
      <4>2. Target(r) = pending[r].launch
        BY <3>2 DEF Target
      <4>3. CallsIn(Now, Target(r))
        BY <1>0, <4>1, <4>2 DEF Exact, CallsIn
      <4>4. QED
        BY <4>1, <4>2, <4>3
    <3>3. QED
      BY <3>1, <3>2
  <2>2. Terminated(r) = [Now EXCEPT !.down = Sent(@, <<StopFrame(Target(r))>>)]
    BY <1>2 DEF Terminated
  <2> DEFINE t == Terminated(r)
  <2>3. /\ Sorted(t) /\ Exact(t) /\ Room(t, 0) /\ Tells(Now, t, {}) /\ \E more : Advance(Now, t, more)
        /\ t.pending = Now.pending
    <3> HIDE DEF t
    <3>1. t = [Now EXCEPT !.down = Sent(@, <<StopFrame(Target(r))>>)]
      BY <2>2 DEF t
    <3>2. QED
      BY <2>1, <3>1, SendsStop, Zenon
  <2>4. QED
    BY <1>0, <1>2, <2>3 DEF Advance
<1>3. QED
  BY <1>1, <1>2

(* A dispatch that starts at once, nobody waiting before it. *)
LEMMA StartsAtOnce ==
  ASSUME limits \in Bounds, online, Sorted(Now), Exact(Now), Room(Now, 0),
         NEW l \in Launches, outcome[l] = "new",
         Cardinality(inFlight(pending)) < limits.cap
  PROVE  LET t == Started(Now, <<l>>)
         IN /\ Sorted(t) /\ Exact(t) /\ Room(t, 0) /\ t.waiters = <<>>
            /\ Tells(Now, t, {}) /\ \E more : Advance(Now, t, more)
<1> DEFINE ls == <<l>>
           t == Started(Now, ls)
           fs == [i \in DOMAIN ls |-> Frame("launch", ls[i], 0)]
           r == RunOf[l]
<1>0. /\ RunOf \in [Launches -> Runs] /\ None \notin Launches /\ None \notin Runs
      /\ limits.cap \in Nat \ {0} /\ limits.stdin \in Nat
  BY Given
<1>1. /\ Now.pending = pending /\ Now.waiters = waiters /\ Now.outcome = outcome /\ Now.down = down
      /\ Now \in Registries /\ waiters \in Seq(Launches) /\ outcome \in [Launches -> Outcomes]
      /\ down \in Seq(FrameSet)
  BY NowIs DEF Sorted
<1>2. /\ ls \in Seq(Launches) /\ DOMAIN ls = {1} /\ ls[1] = l /\ \A x : x \in ToSet(ls) <=> x = l
  BY DEF ToSet
<1>3. waiters = <<>> /\ IsFiniteSet(inFlight(pending)) /\ Cardinality(inFlight(pending)) \in Nat
  <2>1. IsFiniteSet(inFlight(pending)) /\ Cardinality(inFlight(pending)) \in Nat
    BY <1>1, FS_CardinalityType DEF Sorted
  <2>2. QED
    BY <1>0, <1>1, <2>1 DEF Room
<1> HIDE DEF ls
<1>4. /\ t \in Registries /\ t.waiters = Now.waiters /\ t.down = Now.down \o fs
      /\ \A q \in Runs : (\A i \in DOMAIN ls : RunOf[ls[i]] # q) => t.pending[q] = Now.pending[q]
  <2> HIDE DEF t
  <2>1. QED
    BY <1>1, <1>2, StartedIs, Zenon DEF t
<1>5. \A k \in DOMAIN ls : \E i \in DOMAIN ls :
         /\ RunOf[ls[i]] = RunOf[ls[k]]
         /\ \A j \in DOMAIN ls : RunOf[ls[j]] = RunOf[ls[k]] => j <= i
         /\ t.pending[RunOf[ls[k]]] = [launch |-> ls[i], stdin |-> <<>>]
  <2> HIDE DEF t
  <2>1. QED
    BY <1>1, <1>2, StartedIs, Zenon DEF t
<1>6. \A k \in Launches :
         t.outcome[k] = IF t.pending[RunOf[k]].launch = k
                        THEN IF k \in ToSet(ls) THEN "waited" ELSE Now.outcome[k]
                        ELSE IF k \in ToSet(ls) \/ k = Now.pending[RunOf[k]].launch
                        THEN "superseded" ELSE Now.outcome[k]
  <2> HIDE DEF t
  <2>1. QED
    BY <1>1, <1>2, StartedIs, Zenon DEF t
<1>7. /\ fs \in Seq(FrameSet) /\ DOMAIN fs = {1} /\ fs[1] = Frame("launch", l, 0)
  <2>1. Frame("launch", l, 0) \in FrameSet
    BY <1>0 DEF Frame, FrameSet
  <2>2. fs = <<Frame("launch", l, 0)>>
    BY <1>2 DEF ls
  <2> HIDE DEF fs
  <2>3. QED
    BY <2>1, <2>2
<1> HIDE DEF t, fs
<1>8. \A q \in Runs : t.pending[q] = IF q = r THEN [launch |-> l, stdin |-> <<>>] ELSE pending[q]
  BY <1>1, <1>2, <1>4, <1>5
<1>9. t.waiters = <<>> /\ ToSet(t.waiters) = {}
  BY <1>1, <1>3, <1>4 DEF ToSet
<1>10. \A k \in Launches : /\ outcome[k] = "waited" <=> pending[RunOf[k]].launch = k
                           /\ k \notin ToSet(waiters)
  BY <1>1, <1>3 DEF Exact, ToSet
<1>11. r \in Runs /\ pending[r].launch # l
  BY <1>0, <1>10
<1>12. Exact(t)
  <2>1. ASSUME NEW k \in Launches
        PROVE  t.outcome[k] = "waited" <=> t.pending[RunOf[k]].launch = k
    <3>1. CASE t.pending[RunOf[k]].launch = k
      <4>1. CASE k = l
        BY <1>2, <1>6, <3>1, <4>1
      <4>2. CASE k # l
        <5>1. RunOf[k] # r
          BY <1>0, <1>8, <3>1, <4>2
        <5>2. pending[RunOf[k]].launch = k
          BY <1>0, <1>8, <3>1, <5>1
        <5>3. QED
          BY <1>1, <1>2, <1>6, <1>10, <3>1, <4>2, <5>2
      <4>3. QED
        BY <4>1, <4>2
    <3>2. CASE t.pending[RunOf[k]].launch # k
      BY <1>1, <1>2, <1>6, <1>10, <3>2
    <3>3. QED
      BY <3>1, <3>2
  <2>2. IsInjective(t.waiters)
    BY <1>9 DEF IsInjective
  <2>3. QED
    BY <1>9, <2>1, <2>2 DEF Exact
<1>13. IsFiniteSet(inFlight(t.pending)) /\ Cardinality(inFlight(t.pending)) <= limits.cap
  <2> DEFINE A == inFlight(pending)
  <2>1. inFlight(t.pending) = A \cup {r}
    BY <1>0, <1>8, <1>11 DEF inFlight, Idle
  <2>2. IsFiniteSet(A) /\ Cardinality(A) \in Nat /\ Cardinality(A) < limits.cap
    BY <1>3
  <2> HIDE DEF A
  <2>3. IsFiniteSet(A \cup {r}) /\ Cardinality(A \cup {r}) <= Cardinality(A) + 1
    <3>1. /\ IsFiniteSet(A \cup {r})
          /\ Cardinality(A \cup {r}) = IF r \in A THEN Cardinality(A) ELSE Cardinality(A) + 1
      BY <2>2, FS_AddElement
    <3>2. QED
      BY <2>2, <3>1
  <2>4. Cardinality(A \cup {r}) \in Nat
    BY <2>3, FS_CardinalityType
  <2>5. QED
    BY <1>0, <2>1, <2>2, <2>3, <2>4
<1>14. Room(t, 0)
  BY <1>9, <1>13 DEF Room
<1>15. \A i \in DOMAIN t.down :
          /\ t.down[i].kind \in {"launch", "stdin"} => t.down[i].launch \in Launches
          /\ t.down[i].kind = "stop" => t.down[i].launch \in Launches \union Runs
  <2> SUFFICES ASSUME NEW i \in DOMAIN t.down
               PROVE  /\ t.down[i].kind \in {"launch", "stdin"} => t.down[i].launch \in Launches
                      /\ t.down[i].kind = "stop" => t.down[i].launch \in Launches \union Runs
    OBVIOUS
  <2>1. CASE i \in DOMAIN down
    <3>1. t.down[i] = down[i]
      BY <1>1, <1>4, <1>7, <2>1, Joined
    <3>2. QED
      BY <1>1, <2>1, <3>1 DEF Sorted
  <2>2. ASSUME NEW j \in DOMAIN fs, i = Len(down) + j
        PROVE  t.down[i].kind = "launch" /\ t.down[i].launch = l
    <3>1. t.down[i] = fs[j]
      BY <1>1, <1>4, <1>7, <2>2, Joined
    <3>2. QED
      BY <1>7, <3>1 DEF Frame
  <2>3. i \in DOMAIN down \/ \E j \in DOMAIN fs : i = Len(down) + j
    BY <1>1, <1>4, <1>7, Joined
  <2>4. QED
    BY <2>1, <2>2, <2>3
<1>16. Sorted(t)
  <2>1. \A q \in Runs : /\ t.pending[q].launch = None => t.pending[q].stdin = <<>>
                        /\ t.pending[q].launch # None => RunOf[t.pending[q].launch] = q
                        /\ t.pending[q].stdin = <<>>
    BY <1>0, <1>1, <1>8 DEF Sorted
  <2>2. QED
    BY <1>4, <1>13, <1>15, <2>1 DEF Sorted
<1>17. Tells(Now, t, {})
  BY <1>1, <1>6 DEF Tells
<1>18. Advance(Now, t, fs)
  <2>1. \A k \in Launches : CallsIn(Now, k) => CallsIn(t, k)
    BY <1>1, <1>6, <1>9 DEF CallsIn
  <2>2. ~CallsIn(Now, l) /\ CallsIn(t, l)
    BY <1>1, <1>2, <1>6, <1>9 DEF CallsIn
  <2>3. \A i \in DOMAIN fs : /\ i = 1 /\ fs[i].kind = "launch" /\ fs[i].launch = l
                             /\ Starts(fs[i], l) /\ StartsRun(fs[i], r)
    BY <1>7 DEF Frame, Starts, StartsRun
  <2>4. ASSUME NEW k \in Launches, t.pending[RunOf[k]].launch = k
        PROVE  \/ /\ Now.pending[RunOf[k]].launch = k
                  /\ \A j \in DOMAIN fs : ~StartsRun(fs[j], RunOf[k])
               \/ \E i \in DOMAIN fs :
                     /\ Starts(fs[i], k)
                     /\ \A j \in DOMAIN fs : StartsRun(fs[j], RunOf[k]) => j <= i
    <3>1. CASE RunOf[k] = r
      <4>1. k = l
        BY <1>8, <1>11, <2>4, <3>1
      <4>2. QED
        BY <1>7, <2>3, <4>1
    <3>2. CASE RunOf[k] # r
      <4>1. pending[RunOf[k]].launch = k
        BY <1>0, <1>8, <2>4, <3>2
      <4>2. \A j \in DOMAIN fs : ~StartsRun(fs[j], RunOf[k])
        BY <2>3, <3>2 DEF StartsRun
      <4>3. QED
        BY <1>1, <4>1, <4>2
    <3>3. QED
      BY <3>1, <3>2
  <2>5. ASSUME NEW i \in DOMAIN fs, NEW k \in Launches
        PROVE  /\ Starts(fs[i], k) => /\ ~CallsIn(Now, k) /\ CallsIn(t, k)
                                      /\ \A j \in DOMAIN fs : Starts(fs[j], k) => j = i
               /\ fs[i].kind # "stop"
    BY <2>2, <2>3 DEF Starts
  <2>6. t.down = Now.down \o fs
    BY <1>4
  <2>7. \A q \in Runs : t.pending[q] = Now.pending[q] \/ t.pending[q].stdin = <<>>
    BY <1>1, <1>8
  <2>8. \A i \in DOMAIN fs :
          /\ fs[i].kind \in {"launch", "stop"}
          /\ fs[i].kind = "launch" => fs[i].launch \in Launches
          /\ fs[i].kind # "stop"
    BY <2>3
  <2>9. QED
    BY <1>7, <2>1, <2>4, <2>5, <2>6, <2>7, <2>8 DEF Advance
<1>19. QED
  BY <1>9, <1>12, <1>14, <1>16, <1>17, <1>18 DEF t, ls

LEMMA LaunchedIs ==
  ASSUME limits \in Bounds, online, Sorted(Now), Exact(Now), Room(Now, 0),
         NEW l \in Launches, outcome[l] = "new",
         Cardinality(inFlight(pending)) < limits.cap
  PROVE  LET t == Launched(l)
         IN Sorted(t) /\ Exact(t) /\ Room(t, 0) /\ Tells(Now, t, {}) /\ \E more : Advance(Now, t, more)
<1> DEFINE s == Started(Now, <<l>>)
           t == Filled(s)
<1>1. /\ Sorted(s) /\ Exact(s) /\ Room(s, 0) /\ s.waiters = <<>>
      /\ Tells(Now, s, {}) /\ \E more : Advance(Now, s, more)
  BY StartsAtOnce
<1>2. Launched(l) = IF pending[RunOf[l]] = Idle THEN s ELSE t
  BY DEF Launched
<1> HIDE DEF s
<1>3. /\ Sorted(t) /\ Exact(t) /\ Room(t, 0) /\ Tells(s, t, {})
      /\ \E more : Advance(s, t, more)
  BY <1>1, Fills, Zenon
<1> HIDE DEF t
<1>4. \E more : Advance(Now, t, more)
  <2>1. PICK a : Advance(Now, s, a)
    BY <1>1
  <2>2. PICK b : Advance(s, t, b)
    BY <1>3
  <2>3. Now.down \in Seq(FrameSet)
    BY NowIs
  <2>4. QED
    BY <2>1, <2>2, <2>3, Advances
<1>5. Tells(Now, t, {})
  BY <1>1, <1>3 DEF Tells
<1>6. QED
  BY <1>1, <1>2, <1>3, <1>4, <1>5

-----------------------------------------------------------------------------
(* The rest of the state, around the registry.                             *)
Around ==
    /\ limits \in Bounds
    /\ link \in 0 .. made /\ sink \in 0 .. made /\ made \in Nat
    /\ bound \in BOOLEAN
    /\ grace \subseteq inFlight(pending) /\ (online => grace = {})
    /\ owed \subseteq Launches /\ stopping \subseteq Launches /\ confirmed \subseteq Launches
    /\ IsFiniteSet(owed) /\ IsFiniteSet(Queued)
    /\ up \in Seq([kind : {"complete", "launched"}, launch : Launches])
    /\ newest \in [Runs -> has \union {None}] /\ started \subseteq Launches
    /\ \A r \in Runs : newest[r] # None => RunOf[newest[r]] = r
    /\ has \subseteq Launches /\ ending \subseteq has /\ lost \subseteq Launches
    /\ typed \in [Launches -> 0 .. limits.stdin]
    /\ read \in [Launches -> Seq(FrameSet)]
    /\ restarts \in 0 .. limits.restarts /\ stops \in 0 .. limits.stops

SInv == Around /\ Sorted(Now) /\ Exact(Now) /\ Room(Now, 0)

LEMMA SlotsFollow == ASSUME SInv PROVE SlotsAreExact
<1>0. RunOf \in [Launches -> Runs] /\ limits \in Bounds
  BY Given DEF SInv, Around
<1>1. /\ Now.pending = pending /\ Now.waiters = waiters /\ Now.outcome = outcome /\ Now.down = down
      /\ waiters \in Seq(Launches) /\ outcome \in [Launches -> Outcomes] /\ down \in Seq(FrameSet)
      /\ pending \in [Runs -> [launch : Launches \union {None}, stdin : Seq(1 .. limits.stdin)]]
  BY NowIs DEF SInv
<1>2. TypeOK
  BY <1>1 DEF SInv, Around, TypeOK, Outcomes
<1>3. CapHolds
  BY <1>1 DEF SInv, Room, CapHolds
<1>4. NoIdleSlot
  <2>1. waiters # <<>> => Cardinality(inFlight(pending)) = limits.cap
    <3>1. limits.cap \in Nat
      BY <1>0, Given
    <3>2. QED
      BY <1>1, <3>1 DEF SInv, Room
  <2>2. ASSUME NEW l \in Launches
        PROVE  /\ outcome[l] = "waited" <=> pending[RunOf[l]].launch = l \/ l \in ToSet(waiters)
               /\ outcome[l] = "waited" => Waiting(l)
    BY <1>1 DEF SInv, Exact, Waiting
  <2>3. IsInjective(waiters)
    BY <1>1 DEF SInv, Exact
  <2>4. QED
    BY <2>1, <2>2, <2>3 DEF NoIdleSlot
<1>5. QED
  BY <1>2, <1>3, <1>4 DEF SlotsAreExact

(* The registry after a step, and a step that only turns it over.          *)
Later == [pending |-> pending', waiters |-> waiters', outcome |-> outcome', down |-> down']
Turnover(X) ==
    /\ Sorted(Later) /\ Exact(Later) /\ Room(Later, 0)
    /\ Tells(Now, Later, X) /\ \E more : Advance(Now, Later, more)
    /\ UNCHANGED <<linkVars, has, newest, ending, lost, read, typed>>

LEMMA BecomesIs ==
  ASSUME NEW t, t \in Registries, Becomes(t) PROVE Later = t
BY DEF Becomes, Later, Registries

LEMMA LaterIs ==
  ASSUME UNCHANGED <<sink, limits>>
  PROVE  /\ Sorted(Later) => Sorted(Now)'
         /\ Exact(Later) => Exact(Now)'
         /\ Room(Later, 0) => Room(Now, 0)'
<1>1. Now' = Later
  BY DEF Now, Later
<1>2. online' = online /\ Registries' = Registries
  BY DEF online, Registries, FrameSet
<1>3. Sorted(Later) => Sorted(Now)'
  BY <1>1, <1>2 DEF Sorted
<1>4. Exact(Later) => Exact(Now)'
  BY <1>1 DEF Exact
<1>5. Room(Later, 0) => Room(Now, 0)'
  BY <1>1 DEF Room
<1>6. QED
  BY <1>3, <1>4, <1>5

LEMMA DispatchTurns ==
  ASSUME SInv, NEW l \in Launches, Dispatch(l)
  PROVE  Turnover({}) /\ UNCHANGED <<grace, owed, stopping, confirmed, up, started, stops>>
<1> DEFINE t == IF Cardinality(inFlight(pending)) < limits.cap THEN Launched(l)
                ELSE [Now EXCEPT !.waiters = Append(@, l), !.outcome[l] = "waited"]
<1>1. /\ limits \in Bounds /\ Sorted(Now) /\ Exact(Now) /\ Room(Now, 0)
      /\ online /\ outcome[l] = "new" /\ Becomes(t)
      /\ UNCHANGED <<linkVars, grace, owed, stopping, confirmed, hostVars, counters>>
  BY DEF Dispatch, SInv, Around
<1>2. Sorted(t) /\ Exact(t) /\ Room(t, 0) /\ Tells(Now, t, {}) /\ \E more : Advance(Now, t, more)
  <2>1. CASE Cardinality(inFlight(pending)) < limits.cap
    <3>1. t = Launched(l)
      BY <2>1
    <3> HIDE DEF t
    <3>2. QED
      BY <1>1, <2>1, <3>1, LaunchedIs
  <2>2. CASE ~ (Cardinality(inFlight(pending)) < limits.cap)
    <3>1. t = [Now EXCEPT !.waiters = Append(@, l), !.outcome[l] = "waited"]
      BY <2>2
    <3> HIDE DEF t
    <3>2. QED
      BY <1>1, <2>2, <3>1, WaitsIs, Zenon
  <2>3. QED
    BY <2>1, <2>2
<1> HIDE DEF t
<1>3. Later = t
  BY <1>1, <1>2, BecomesIs DEF Sorted
<1>4. QED
  BY <1>1, <1>2, <1>3 DEF Turnover, hostVars, counters

LEMMA TerminateTurns ==
  ASSUME SInv, NEW r \in Runs, sendTerminate(r)
  PROVE  Turnover({}) /\ UNCHANGED <<grace, stopping, confirmed, up, started, pending>>
<1> DEFINE t == Terminated(r)
<1>1. /\ limits \in Bounds /\ Sorted(Now) /\ Exact(Now) /\ Room(Now, 0) /\ Becomes(t)
      /\ UNCHANGED <<linkVars, grace, stopping, confirmed, hostVars, typed>>
  BY DEF sendTerminate, SInv, Around
<1>2. /\ Sorted(t) /\ Exact(t) /\ Room(t, 0) /\ Tells(Now, t, {}) /\ \E more : Advance(Now, t, more)
      /\ t.pending = pending
  BY <1>1, TerminatedIs
<1> HIDE DEF t
<1>3. Later = t
  BY <1>1, <1>2, BecomesIs DEF Sorted
<1>4. QED
  BY <1>1, <1>2, <1>3 DEF Turnover, hostVars, Becomes

LEMMA StopTurns ==
  ASSUME SInv, NEW l \in Launches, Stop(l)
  PROVE  Turnover({}) /\ online /\ UNCHANGED <<grace, owed, confirmed, up, started, pending>>
<1> DEFINE s == IF Registered(RunOf[l]) THEN Terminated(RunOf[l]) ELSE Now
           t == [s EXCEPT !.down = Sent(@, <<StopFrame(l)>>)]
           r == RunOf[l]
<1>0. RunOf \in [Launches -> Runs] /\ r \in Runs
  BY Given DEF SInv, Around
<1>1. /\ limits \in Bounds /\ Sorted(Now) /\ Exact(Now) /\ Room(Now, 0) /\ Becomes(t)
      /\ online /\ outcome[l] # "new"
      /\ l \in ToSet(waiters) => l = waiters[Min(WaitingOf(RunOf[l]))]
      /\ UNCHANGED <<linkVars, grace, owed, confirmed, hostVars, typed>>
  BY DEF Stop, SInv, Around
<1>2. Now.pending = pending /\ Now.waiters = waiters /\ Now.outcome = outcome /\ Now.down = down
      /\ waiters \in Seq(Launches)
  BY <1>1, NowIs
<1>3. l \in ToSet(waiters) => WaitingOf(r) # {}
  BY <1>2 DEF ToSet, WaitingOf
<1>4. /\ Sorted(s) /\ Exact(s) /\ Room(s, 0) /\ Tells(Now, s, {}) /\ \E more : Advance(Now, s, more)
      /\ s.pending = pending /\ CallsIn(s, l)
  <2>1. CASE Registered(r)
    <3>1. s = Terminated(r)
      BY <2>1
    <3> HIDE DEF s
    <3>2. /\ Sorted(s) /\ Exact(s) /\ Room(s, 0) /\ Tells(Now, s, {}) /\ \E more : Advance(Now, s, more)
          /\ s.pending = pending
          /\ \A k \in Launches : CallsIn(Now, k) => CallsIn(s, k)
          /\ WaitingOf(r) # {} => \A k \in Launches : k = waiters[Min(WaitingOf(r))] => CallsIn(s, k)
      BY <1>0, <1>1, <3>1, TerminatedIs
    <3>3. CASE l \in ToSet(waiters)
      BY <1>1, <1>3, <3>2, <3>3
    <3>4. CASE l \notin ToSet(waiters)
      BY <1>1, <1>2, <3>2, <3>4 DEF CallsIn
    <3>5. QED
      BY <3>2, <3>3, <3>4
  <2>2. CASE ~Registered(r)
    <3>1. s = Now /\ l \notin ToSet(waiters)
      BY <1>3, <2>2 DEF Registered
    <3>2. Advance(Now, Now, <<>>)
      <4>1. Now.down = Now.down \o <<>> /\ <<>> \in Seq(FrameSet)
        BY <1>1 DEF Sorted, Registries
      <4>2. QED
        BY <4>1 DEF Advance
    <3>3. Tells(Now, Now, {})
      BY DEF Tells
    <3>4. CallsIn(Now, l)
      BY <1>1, <1>2, <3>1 DEF CallsIn
    <3> HIDE DEF s
    <3>5. QED
      BY <1>1, <1>2, <3>1, <3>2, <3>3, <3>4
  <2>3. QED
    BY <2>1, <2>2
<1> HIDE DEF s
<1>5. /\ Sorted(t) /\ Exact(t) /\ Room(t, 0) /\ Tells(s, t, {}) /\ \E more : Advance(s, t, more)
      /\ t.pending = pending
  <2> HIDE DEF t
  <2>1. /\ Sorted(t) /\ Exact(t) /\ Room(t, 0) /\ Tells(s, t, {}) /\ \E more : Advance(s, t, more)
        /\ t.pending = s.pending
    BY <1>1, <1>4, SendsStop, Zenon DEF t
  <2>2. QED
    BY <1>4, <2>1
<1> HIDE DEF t
<1>6. \E more : Advance(Now, t, more)
  <2>1. PICK a : Advance(Now, s, a)
    BY <1>4
  <2>2. PICK b : Advance(s, t, b)
    BY <1>5
  <2>3. Now.down \in Seq(FrameSet)
    BY <1>1, NowIs
  <2>4. QED
    BY <1>1, <2>1, <2>2, <2>3, Advances
<1>7. Tells(Now, t, {})
  BY <1>4, <1>5 DEF Tells
<1>8. Later = t
  BY <1>1, <1>5, BecomesIs DEF Sorted
<1>9. QED
  BY <1>1, <1>5, <1>6, <1>7, <1>8 DEF Turnover, hostVars, Becomes

LEMMA AbandonTurns ==
  ASSUME SInv, NEW l \in Launches, Abandon(l)
  PROVE  /\ Turnover({}) /\ UNCHANGED <<stopping, confirmed, up, started, stops>>
         /\ ~online => \A r \in Runs \ {RunOf[l]} : pending'[r] = pending[r]
<1> DEFINE s == Terminated(RunOf[l])
           t == Ended(s, l, "limit")
<1>0. RunOf \in [Launches -> Runs] /\ RunOf[l] \in Runs
  BY Given DEF SInv, Around
<1>1. /\ limits \in Bounds /\ Sorted(Now) /\ Exact(Now) /\ Room(Now, 0) /\ Becomes(t)
      /\ pending[RunOf[l]].launch = l
      /\ UNCHANGED <<linkVars, stopping, confirmed, hostVars, counters>>
  BY DEF Abandon, SInv, Around
<1>2. /\ Sorted(s) /\ Exact(s) /\ Room(s, 0) /\ Tells(Now, s, {}) /\ \E more : Advance(Now, s, more)
      /\ s.pending = pending
  BY <1>0, <1>1, TerminatedIs
<1> HIDE DEF s
<1>3. /\ Sorted(t) /\ Exact(t) /\ Room(t, 0) /\ Tells(s, t, {l}) /\ \E more : Advance(s, t, more)
      /\ t.outcome[l] = "limit"
      /\ ~online => \A r \in Runs \ {RunOf[l]} : t.pending[r] = s.pending[r]
  <2>1. "limit" \in Settled /\ s.pending[RunOf[l]].launch = l
    BY <1>1, <1>2 DEF Settled
  <2> HIDE DEF t
  <2>2. QED
    BY <1>1, <1>2, <2>1, EndedIs DEF t
<1> HIDE DEF t
<1>4. \E more : Advance(Now, t, more)
  <2>1. PICK a : Advance(Now, s, a)
    BY <1>2
  <2>2. PICK b : Advance(s, t, b)
    BY <1>3
  <2>3. Now.down \in Seq(FrameSet)
    BY <1>1, NowIs
  <2>4. QED
    BY <1>1, <2>1, <2>2, <2>3, Advances
<1>5. Tells(Now, t, {})
  BY <1>2, <1>3 DEF Tells
<1>6. Later = t /\ pending' = t.pending
  BY <1>1, <1>3, BecomesIs DEF Sorted, Becomes
<1>7. QED
  BY <1>1, <1>2, <1>3, <1>4, <1>5, <1>6 DEF Turnover, hostVars, counters

(* A dispatch of the registry ends and nothing else happens to it. *)
LEMMA EndTurns ==
  ASSUME SInv, NEW l \in Launches, pending[RunOf[l]].launch = l, NEW how \in Settled,
         Becomes(Ended(Now, l, how)),
         UNCHANGED <<linkVars, has, newest, ending, lost, read, typed>>
  PROVE  /\ Turnover({l}) /\ outcome'[l] = how
         /\ ~online => \A r \in Runs \ {RunOf[l]} : pending'[r] = pending[r]
<1> DEFINE t == Ended(Now, l, how)
<1>1. /\ limits \in Bounds /\ Sorted(Now) /\ Exact(Now) /\ Room(Now, 0) /\ Now.pending = pending
  BY NowIs DEF SInv, Around
<1>2. Becomes(t)
  OBVIOUS
<1> HIDE DEF t
<1>3. /\ Sorted(t) /\ Exact(t) /\ Room(t, 0) /\ Tells(Now, t, {l}) /\ \E more : Advance(Now, t, more)
      /\ t.outcome[l] = how
      /\ ~online => \A r \in Runs \ {RunOf[l]} : t.pending[r] = pending[r]
  <2> DEFINE s == Now
  <2>1. /\ limits \in Bounds /\ Sorted(s) /\ Exact(s) /\ Room(s, 0) /\ s.pending[RunOf[l]].launch = l
        /\ t = Ended(s, l, how)
    BY <1>1 DEF t
  <2> HIDE DEF s
  <2>2. how \in Settled
    OBVIOUS
  <2>3. LET u == Ended(s, l, how)
        IN /\ Sorted(u) /\ Exact(u) /\ Room(u, 0) /\ Tells(s, u, {l})
           /\ \E more : Advance(s, u, more)
           /\ u.outcome[l] = how
           /\ ~online => \A r \in Runs \ {RunOf[l]} : u.pending[r] = s.pending[r]
    BY <2>1, <2>2, EndedIs, ZenonT(60)
  <2>4. QED
    BY <1>1, <2>1, <2>3 DEF s
<1>4. Later = t /\ pending' = t.pending /\ outcome' = t.outcome
  BY <1>2, <1>3, BecomesIs DEF Sorted, Becomes
<1>5. QED
  BY <1>3, <1>4 DEF Turnover

-----------------------------------------------------------------------------
(* Every step keeps the slots. *)
LEMMA Shortened ==
  ASSUME NEW S, NEW a \in Seq(S), a # <<>>
  PROVE  /\ Head(a) \in S /\ Tail(a) \in Seq(S) /\ Len(Tail(a)) = Len(a) - 1
         /\ Len(a) \in Nat \ {0} /\ Head(a) = a[1] /\ 1 \in DOMAIN a
         /\ \A i \in DOMAIN Tail(a) : i + 1 \in DOMAIN a /\ Tail(a)[i] = a[i + 1]
         /\ \A i \in DOMAIN a : i # 1 => i - 1 \in DOMAIN Tail(a)
OBVIOUS

LEMMA QueuedIs ==
  ASSUME pending \in [Runs -> [launch : Launches \union {None}, stdin : Seq(1 .. limits.stdin)]]
  PROVE  \A x : x \in Queued <=> \E r \in Runs : \E i \in DOMAIN pending[r].stdin : x = <<r, i>>
BY DEF Queued

(* The queues of a registry that keeps them or lets go of them. *)
LEMMA QueuedShrinks ==
  ASSUME IsFiniteSet(Queued), \A r \in Runs : pending'[r] = pending[r] \/ pending'[r].stdin = <<>>
  PROVE  IsFiniteSet(Queued)'
<1>1. Queued' = UNION {{r} \X DOMAIN pending'[r].stdin : r \in Runs}
  BY DEF Queued
<1>2. Queued' \subseteq Queued
  <2>1. ASSUME NEW x \in Queued' PROVE x \in Queued
    <3>1. PICK r \in Runs : x \in {r} \X DOMAIN pending'[r].stdin
      BY <1>1
    <3>2. DOMAIN pending'[r].stdin # {}
      BY <3>1
    <3>3. pending'[r].stdin # <<>>
      BY <3>2
    <3>4. pending'[r] = pending[r]
      BY <3>3
    <3>5. QED
      BY <3>1, <3>4 DEF Queued
  <2>2. QED
    BY <2>1
<1>3. QED
  BY <1>2, FS_Subset

LEMMA Turned ==
  ASSUME SInv, NEW X, Turnover(X),
         grace' \subseteq inFlight(pending'), online => grace' = {},
         owed' \subseteq Launches, IsFiniteSet(owed'),
         stopping' \subseteq Launches, confirmed' \subseteq Launches, started' \subseteq Launches,
         up' \in Seq([kind : {"complete", "launched"}, launch : Launches]),
         stops' \in 0 .. limits.stops
  PROVE  SInv'
<1>1. UNCHANGED <<link, sink, made, bound, restarts, limits>>
  BY DEF Turnover, linkVars
<1>2. Sorted(Now)' /\ Exact(Now)' /\ Room(Now, 0)'
  BY <1>1, LaterIs DEF Turnover
<1>3. \A r \in Runs : pending'[r] = pending[r] \/ pending'[r].stdin = <<>>
  BY DEF Turnover, Advance, Now, Later
<1>4. IsFiniteSet(Queued)'
  BY <1>3, QueuedShrinks DEF SInv, Around
<1>5. FrameSet' = FrameSet /\ online' = online /\ inFlight(pending)' = inFlight(pending')
  BY <1>1 DEF FrameSet, online, inFlight
<1>6. Around'
  BY <1>1, <1>4, <1>5 DEF SInv, Around, Turnover
<1>7. QED
  BY <1>2, <1>6 DEF SInv

(* The registry is not touched. *)
LEMMA Rests ==
  ASSUME SInv, UNCHANGED <<pending, waiters, outcome, down, sink, limits>>
  PROVE  Sorted(Now)' /\ Exact(Now)' /\ Room(Now, 0)' /\ Queued' = Queued /\ online' = online /\ FrameSet' = FrameSet
<1>1. Later = Now /\ Queued' = Queued /\ online' = online /\ FrameSet' = FrameSet
  BY DEF Later, Now, Queued, online, FrameSet
<1>2. QED
  BY <1>1, LaterIs DEF SInv

LEMMA EndRuns ==
  ASSUME SInv, NEW l \in Launches, ~online,
         \A r \in Runs \ {RunOf[l]} : pending'[r] = pending[r]
  PROVE  grace \ {RunOf[l]} \subseteq inFlight(pending')
BY DEF SInv, Around, inFlight

LEMMA DispatchKeepsSlots == ASSUME SInv, NEW l \in Launches, Dispatch(l) PROVE SInv'
<1>1. Turnover({}) /\ UNCHANGED <<grace, owed, stopping, confirmed, up, started, stops>>
  BY DispatchTurns
<1>2. grace' = {}
  BY <1>1 DEF Dispatch, SInv, Around
<1>3. QED
  BY <1>1, <1>2, Turned DEF SInv, Around

LEMMA StopKeepsSlots == ASSUME SInv, NEW l \in Launches, Stop(l) PROVE SInv'
<1>1. Turnover({}) /\ online /\ UNCHANGED <<grace, owed, confirmed, up, started, pending>>
  BY StopTurns
<1>2. grace' = {} /\ stopping' \subseteq Launches /\ stops' = stops + 1 /\ stops < limits.stops
  BY <1>1 DEF Stop, SInv, Around
<1>3. stops' \in 0 .. limits.stops
  BY <1>2, Given DEF SInv, Around
<1>4. QED
  BY <1>1, <1>2, <1>3, Turned DEF SInv, Around

LEMMA TerminateKeepsSlots == ASSUME SInv, NEW r \in Runs, sendTerminate(r) PROVE SInv'
<1>1. Turnover({}) /\ UNCHANGED <<grace, stopping, confirmed, up, started, pending>>
  BY TerminateTurns
<1>2. stops' = stops + 1 /\ stops < limits.stops /\ owed' = OwedAfter(r)
  BY DEF sendTerminate
<1>3. stops' \in 0 .. limits.stops
  BY <1>2, Given DEF SInv, Around
<1>4. owed' \subseteq Launches /\ IsFiniteSet(owed')
  <2>1. CASE owed' = owed
    BY <2>1 DEF SInv, Around
  <2>2. CASE owed' = owed \union {pending[r].launch} /\ pending[r] # Idle
    <3>1. pending[r].launch \in Launches
      BY <2>2, NowIs, IdleIs DEF SInv
    <3>2. IsFiniteSet(owed)
      BY DEF SInv, Around
    <3>3. QED
      BY <2>2, <3>1, <3>2, FS_AddElement DEF SInv, Around
  <2>3. QED
    BY <1>2, <2>1, <2>2 DEF OwedAfter
<1>5. QED
  BY <1>1, <1>3, <1>4, Turned DEF SInv, Around

LEMMA AbandonKeepsSlots == ASSUME SInv, NEW l \in Launches, Abandon(l) PROVE SInv'
<1>1. /\ Turnover({}) /\ UNCHANGED <<stopping, confirmed, up, started, stops>>
      /\ ~online => \A r \in Runs \ {RunOf[l]} : pending'[r] = pending[r]
  BY AbandonTurns
<1>2. /\ owed' = OwedAfter(RunOf[l]) /\ grace' = grace \ {RunOf[l]}
      /\ pending[RunOf[l]].launch = l
  BY DEF Abandon
<1>3. grace' \subseteq inFlight(pending') /\ (online => grace' = {})
  <2>1. CASE online
    BY <1>2, <2>1 DEF SInv, Around
  <2>2. CASE ~online
    BY <1>1, <1>2, <2>2, EndRuns
  <2>3. QED
    BY <2>1, <2>2
<1>4. owed' \subseteq Launches /\ IsFiniteSet(owed')
  <2>1. owed' = owed \/ owed' = owed \union {l}
    BY <1>2 DEF OwedAfter
  <2>2. IsFiniteSet(owed) /\ owed \subseteq Launches
    BY DEF SInv, Around
  <2>3. QED
    BY <2>1, <2>2, FS_AddElement
<1>5. QED
  BY <1>1, <1>3, <1>4, Turned DEF SInv, Around

LEMMA GraceKeepsSlots == ASSUME SInv, NEW r \in Runs, GraceEnds(r) PROVE SInv'
<1> DEFINE l == pending[r].launch
<1>1. /\ r \in grace /\ grace' = grace \ {r} /\ owed' = owed \union {l}
      /\ Becomes(Ended(Now, l, "disconnected"))
      /\ UNCHANGED <<linkVars, stopping, confirmed, hostVars, counters>>
  BY DEF GraceEnds
<1>2. r \in Runs /\ pending[r] # Idle /\ ~online
  BY <1>1 DEF SInv, Around, inFlight
<1>3. l \in Launches /\ RunOf[l] = r
  BY <1>2, NowIs, IdleIs DEF SInv, Sorted
<1> HIDE DEF l
<1>4. pending[RunOf[l]].launch = l /\ "disconnected" \in Settled
  BY <1>3 DEF l, Settled
<1>5. Turnover({l}) /\ \A q \in Runs \ {r} : pending'[q] = pending[q]
  BY <1>1, <1>2, <1>3, <1>4, EndTurns DEF hostVars, counters
<1>6. grace' \subseteq inFlight(pending')
  BY <1>1, <1>2, <1>3, <1>5, EndRuns
<1>7. owed' \subseteq Launches /\ IsFiniteSet(owed')
  <2>1. IsFiniteSet(owed) /\ owed \subseteq Launches
    BY DEF SInv, Around
  <2>2. QED
    BY <1>1, <1>3, <2>1, FS_AddElement
<1>8. QED
  BY <1>1, <1>2, <1>5, <1>6, <1>7, Turned DEF SInv, Around, hostVars, counters

LEMMA CompleteKeepsSlots == ASSUME SInv, receiveComplete PROVE SInv'
<1> DEFINE l == Head(up).launch
<1>1. /\ up # <<>> /\ up' = Tail(up)
      /\ confirmed' = confirmed \union ({l} \intersect stopping) /\ stopping' = stopping \ {l}
      /\ UNCHANGED <<linkVars, owed, has, newest, started, ending, lost, read, counters>>
  BY DEF receiveComplete
<1>2. \/ /\ pending[RunOf[l]].launch = l /\ Becomes(Ended(Now, l, "complete"))
         /\ grace' = grace \ {RunOf[l]}
      \/ UNCHANGED <<pending, waiters, outcome, down, grace>>
  BY DEF receiveComplete
<1>3. /\ up \in Seq([kind : {"complete", "launched"}, launch : Launches])
      /\ stopping \subseteq Launches /\ confirmed \subseteq Launches
  BY DEF SInv, Around
<1>4. l \in Launches /\ up' \in Seq([kind : {"complete", "launched"}, launch : Launches])
  <2>1. /\ Head(up) \in [kind : {"complete", "launched"}, launch : Launches]
        /\ Tail(up) \in Seq([kind : {"complete", "launched"}, launch : Launches])
    BY <1>1, <1>3, Shortened
  <2>2. QED
    BY <1>1, <1>3, <2>1
<1> HIDE DEF l
<1>5. CASE /\ pending[RunOf[l]].launch = l /\ Becomes(Ended(Now, l, "complete"))
           /\ grace' = grace \ {RunOf[l]}
  <2>1. /\ Turnover({l})
        /\ ~online => \A r \in Runs \ {RunOf[l]} : pending'[r] = pending[r]
    <3>1. "complete" \in Settled
      BY DEF Settled
    <3>2. QED
      BY <1>1, <1>4, <1>5, <3>1, EndTurns DEF counters
  <2>2. grace' \subseteq inFlight(pending') /\ (online => grace' = {})
    <3>1. CASE online
      BY <1>5, <3>1 DEF SInv, Around
    <3>2. CASE ~online
      BY <1>4, <1>5, <2>1, <3>2, EndRuns
    <3>3. QED
      BY <3>1, <3>2
  <2>3. QED
    BY <1>1, <1>3, <1>4, <2>1, <2>2, Turned DEF SInv, Around, counters
<1>6. CASE UNCHANGED <<pending, waiters, outcome, down, grace>>
  <2>1. UNCHANGED <<sink, limits>>
    BY <1>1 DEF linkVars
  <2>2. /\ Sorted(Now)' /\ Exact(Now)' /\ Room(Now, 0)' /\ Queued' = Queued /\ online' = online
        /\ FrameSet' = FrameSet
    BY <1>6, <2>1, Rests
  <2>3. confirmed' \subseteq Launches /\ stopping' \subseteq Launches
    BY <1>1, <1>3, <1>4
  <2>4. Around'
    BY <1>1, <1>4, <1>6, <2>2, <2>3 DEF SInv, Around, linkVars, counters
  <2>5. QED
    BY <2>2, <2>4 DEF SInv
<1>7. QED
  BY <1>2, <1>5, <1>6

LEMMA LaunchedKeepsSlots == ASSUME SInv, receiveLaunched PROVE SInv'
<1>1. /\ up # <<>> /\ up' = Tail(up)
      /\ started' = started \/ started' = started \union {Head(up).launch}
      /\ UNCHANGED <<linkVars, pending, waiters, outcome, down, grace, owed, stopping, confirmed,
                     has, newest, ending, lost, read, counters>>
  BY DEF receiveLaunched
<1>2. up \in Seq([kind : {"complete", "launched"}, launch : Launches]) /\ started \subseteq Launches
  BY DEF SInv, Around
<1>3. /\ Head(up) \in [kind : {"complete", "launched"}, launch : Launches]
      /\ Tail(up) \in Seq([kind : {"complete", "launched"}, launch : Launches])
  BY <1>1, <1>2, Shortened
<1>4. up' \in Seq([kind : {"complete", "launched"}, launch : Launches]) /\ started' \subseteq Launches
  BY <1>1, <1>2, <1>3
<1>5. UNCHANGED <<sink, limits>>
  BY <1>1 DEF linkVars
<1>6. /\ Sorted(Now)' /\ Exact(Now)' /\ Room(Now, 0)' /\ Queued' = Queued /\ online' = online
      /\ FrameSet' = FrameSet
  BY <1>1, <1>5, Rests
<1>7. Around'
  BY <1>1, <1>4, <1>6 DEF SInv, Around, linkVars, counters
<1>8. QED
  BY <1>6, <1>7 DEF SInv

LEMMA TimeOutKeepsSlots == ASSUME SInv, NEW l \in Launches, StopTimesOut(l) PROVE SInv'
<1>1. /\ stopping' = stopping \ {l}
      /\ UNCHANGED <<linkVars, pending, waiters, outcome, down, grace, owed, confirmed, hostVars, counters>>
  BY DEF StopTimesOut
<1>2. UNCHANGED <<sink, limits>>
  BY <1>1 DEF linkVars
<1>3. /\ Sorted(Now)' /\ Exact(Now)' /\ Room(Now, 0)' /\ Queued' = Queued /\ online' = online
      /\ FrameSet' = FrameSet
  BY <1>1, <1>2, Rests
<1>4. Around'
  BY <1>1, <1>3 DEF SInv, Around, linkVars, counters, hostVars
<1>5. QED
  BY <1>3, <1>4 DEF SInv

(* What a Run's controller types is on its way or in the queue. *)
LEMMA StdinIs ==
  ASSUME SInv, NEW l \in Launches, sendStdin(l)
  PROVE  /\ RunOf[l] \in Runs /\ pending[RunOf[l]].launch = l /\ l \in started
         /\ typed[l] \in Nat /\ typed' = [typed EXCEPT ![l] = typed[l] + 1]
         /\ typed[l] + 1 \in 1 .. limits.stdin
         /\ typed' \in [Launches -> 0 .. limits.stdin]
         /\ online => /\ down' = Append(down, Frame("stdin", l, typed[l] + 1)) /\ pending' = pending
                      /\ Frame("stdin", l, typed[l] + 1) \in FrameSet
         /\ ~online => /\ down' = down
                       /\ pending' = [pending EXCEPT ![RunOf[l]] =
                            [launch |-> l, stdin |-> Append(pending[RunOf[l]].stdin, typed[l] + 1)]]
         /\ UNCHANGED <<linkVars, waiters, outcome, grace, owed, stopping, confirmed, hostVars, stops>>
<1>0. RunOf \in [Launches -> Runs] /\ limits.stdin \in Nat /\ limits \in Bounds
  BY Given DEF SInv, Around
<1>1. /\ pending[RunOf[l]].launch = l /\ l \in started /\ typed[l] < limits.stdin
      /\ typed' = [typed EXCEPT ![l] = @ + 1]
      /\ UNCHANGED <<linkVars, waiters, outcome, grace, owed, stopping, confirmed, hostVars, stops>>
  BY DEF sendStdin
<1>2. typed \in [Launches -> 0 .. limits.stdin]
  BY DEF SInv, Around
<1>3. typed[l] \in Nat /\ typed[l] + 1 \in 1 .. limits.stdin /\ typed'[l] = typed[l] + 1
      /\ typed' \in [Launches -> 0 .. limits.stdin]
  BY <1>0, <1>1, <1>2
<1>4. /\ pending \in [Runs -> [launch : Launches \union {None}, stdin : Seq(1 .. limits.stdin)]]
      /\ down \in Seq(FrameSet)
  BY NowIs DEF SInv
<1>5. CASE online
  <2>1. down' = down \o <<Frame("stdin", l, typed[l] + 1)>> /\ pending' = pending
    BY <1>3, <1>5 DEF sendStdin, Sent
  <2>2. Frame("stdin", l, typed[l] + 1) \in FrameSet
    BY <1>0, <1>3 DEF Frame, FrameSet
  <2>3. down' = Append(down, Frame("stdin", l, typed[l] + 1))
    BY <1>4, <2>1, <2>2
  <2>4. QED
    BY <1>0, <1>1, <1>3, <1>5, <2>1, <2>2, <2>3
<1>6. CASE ~online
  <2>1. down' = down /\ pending' = [pending EXCEPT ![RunOf[l]].stdin = Append(@, typed[l] + 1)]
    BY <1>3, <1>6 DEF sendStdin
  <2>2. pending[RunOf[l]] = [launch |-> l, stdin |-> pending[RunOf[l]].stdin]
    BY <1>0, <1>1, <1>4
  <2>3. [pending[RunOf[l]] EXCEPT !.stdin = Append(@, typed[l] + 1)]
          = [launch |-> l, stdin |-> Append(pending[RunOf[l]].stdin, typed[l] + 1)]
    <3> DEFINE q == pending[RunOf[l]].stdin
               b == Append(q, typed[l] + 1)
    <3>1. [pending[RunOf[l]] EXCEPT !.stdin = b] = [launch |-> l, stdin |-> b]
      <4> HIDE DEF b
      <4>1. QED
        BY <2>2
    <3>2. QED
      BY <3>1
  <2>4. QED
    BY <1>0, <1>1, <1>3, <1>6, <2>1, <2>3
<1>7. QED
  BY <1>5, <1>6

LEMMA StdinKeepsSlots == ASSUME SInv, NEW l \in Launches, sendStdin(l) PROVE SInv'
<1> DEFINE r == RunOf[l]
           x == typed[l] + 1
<1>0. /\ RunOf \in [Launches -> Runs] /\ None \notin Launches /\ limits \in Bounds
      /\ UNCHANGED <<link, sink, made, bound, restarts, limits>>
  BY Given, StdinIs DEF SInv, Around, linkVars
<1>1. /\ r \in Runs /\ pending[r].launch = l /\ x \in 1 .. limits.stdin
      /\ typed' \in [Launches -> 0 .. limits.stdin]
      /\ UNCHANGED <<linkVars, waiters, outcome, grace, owed, stopping, confirmed, hostVars, stops>>
  BY StdinIs
<1>2. /\ online => down' = Append(down, Frame("stdin", l, x)) /\ pending' = pending /\ Frame("stdin", l, x) \in FrameSet
      /\ ~online => /\ down' = down
                    /\ pending' = [pending EXCEPT ![r] = [launch |-> l, stdin |-> Append(pending[r].stdin, x)]]
  BY StdinIs
<1>3. /\ Now.pending = pending /\ Now.waiters = waiters /\ Now.outcome = outcome /\ Now.down = down
      /\ waiters \in Seq(Launches) /\ outcome \in [Launches -> Outcomes] /\ down \in Seq(FrameSet)
      /\ pending \in [Runs -> [launch : Launches \union {None}, stdin : Seq(1 .. limits.stdin)]]
  BY NowIs DEF SInv
<1> HIDE DEF x
<1>4. /\ pending' \in [Runs -> [launch : Launches \union {None}, stdin : Seq(1 .. limits.stdin)]]
      /\ \A q \in Runs : pending'[q].launch = pending[q].launch
      /\ \A q \in Runs : q # r \/ online => pending'[q].stdin = pending[q].stdin
      /\ ~online => pending'[r].stdin = Append(pending[r].stdin, x)
  <2>1. CASE online
    BY <1>2, <1>3, <2>1
  <2>2. CASE ~online
    <3>1. Append(pending[r].stdin, x) \in Seq(1 .. limits.stdin)
      <4>1. pending[r].stdin \in Seq(1 .. limits.stdin)
        BY <1>1, <1>3
      <4>2. QED
        BY <1>1, <4>1, Appended
    <3>2. [launch |-> l, stdin |-> Append(pending[r].stdin, x)]
             \in [launch : Launches \union {None}, stdin : Seq(1 .. limits.stdin)]
      BY <3>1
    <3>3. \A q \in Runs : pending'[q] = IF q = r THEN [launch |-> l, stdin |-> Append(pending[r].stdin, x)]
                                        ELSE pending[q]
      BY <1>2, <1>3, <2>2
    <3>4. pending' \in [Runs -> [launch : Launches \union {None}, stdin : Seq(1 .. limits.stdin)]]
      BY <1>2, <1>3, <2>2, <3>2
    <3>5. QED
      BY <1>1, <2>2, <3>3, <3>4
  <2>3. QED
    BY <2>1, <2>2
<1>5. /\ down' \in Seq(FrameSet)
      /\ \A i \in DOMAIN down' : /\ down'[i].kind \in {"launch", "stdin"} => down'[i].launch \in Launches
                                 /\ down'[i].kind = "stop" => down'[i].launch \in Launches \union Runs
  <2>1. \A i \in DOMAIN down : /\ down[i].kind \in {"launch", "stdin"} => down[i].launch \in Launches
                               /\ down[i].kind = "stop" => down[i].launch \in Launches \union Runs
    BY <1>3 DEF SInv, Sorted
  <2>2. CASE online
    <3>1. /\ down' \in Seq(FrameSet) /\ DOMAIN down' = 1 .. Len(down) + 1
          /\ down'[Len(down) + 1] = Frame("stdin", l, x)
          /\ \A i \in DOMAIN down : down'[i] = down[i]
          /\ \A i \in DOMAIN down' : i \in DOMAIN down \/ i = Len(down) + 1
      <4> DEFINE f == Frame("stdin", l, x)
      <4>1. down' = Append(down, f) /\ f \in FrameSet /\ down \in Seq(FrameSet)
        BY <1>2, <1>3, <2>2
      <4> HIDE DEF f
      <4>2. /\ Append(down, f) \in Seq(FrameSet) /\ DOMAIN Append(down, f) = 1 .. Len(down) + 1
            /\ Append(down, f)[Len(down) + 1] = f
            /\ \A i \in DOMAIN down : Append(down, f)[i] = down[i]
            /\ \A i \in DOMAIN Append(down, f) : i \in DOMAIN down \/ i = Len(down) + 1
        BY <4>1, Appended
      <4>3. QED
        BY <4>1, <4>2 DEF f
    <3>2. down'[Len(down) + 1].kind = "stdin" /\ down'[Len(down) + 1].launch = l
      BY <3>1 DEF Frame
    <3>3. \A i \in DOMAIN down' : /\ down'[i].kind \in {"launch", "stdin"} => down'[i].launch \in Launches
                                  /\ down'[i].kind = "stop" => down'[i].launch \in Launches \union Runs
      BY <2>1, <3>1, <3>2
    <3>4. QED
      BY <3>1, <3>3
  <2>3. CASE ~online
    BY <1>2, <1>3, <2>1, <2>3
  <2>4. QED
    BY <2>2, <2>3
<1>6. ASSUME NEW q \in Runs PROVE (pending'[q] = Idle) <=> (pending[q] = Idle)
  <2>1. CASE online
    BY <1>2, <2>1
  <2>2. CASE ~online /\ q = r
    BY <1>0, <1>1, <1>4, <2>2 DEF Idle
  <2>3. CASE ~online /\ q # r
    BY <1>2, <1>3, <2>3
  <2>4. QED
    BY <2>1, <2>2, <2>3
<1>7. inFlight(pending)' = inFlight(pending)
  BY <1>6 DEF inFlight
<1>8. Now' = [pending |-> pending', waiters |-> waiters, outcome |-> outcome, down |-> down']
  BY <1>1 DEF Now
<1>9. FrameSet' = FrameSet /\ Registries' = Registries /\ online' = online
  BY <1>0 DEF FrameSet, Registries, online
<1>10. Now' \in Registries
  BY <1>3, <1>4, <1>5, <1>8 DEF Registries
<1>11. Sorted(Now)'
  <2>1. \A q \in Runs : /\ pending[q].launch = None => pending[q].stdin = <<>>
                        /\ pending[q].launch # None => RunOf[pending[q].launch] = q
    BY <1>3 DEF SInv, Sorted
  <2>2. \A q \in Runs : /\ pending'[q].launch = None => pending'[q].stdin = <<>>
                        /\ pending'[q].launch # None => RunOf[pending'[q].launch] = q
    <3> SUFFICES ASSUME NEW q \in Runs
                 PROVE  /\ pending'[q].launch = None => pending'[q].stdin = <<>>
                        /\ pending'[q].launch # None => RunOf[pending'[q].launch] = q
      OBVIOUS
    <3>1. pending'[q].launch = pending[q].launch
      BY <1>4
    <3>2. CASE q = r
      BY <1>0, <1>1, <2>1, <3>1, <3>2
    <3>3. CASE q # r
      BY <1>4, <2>1, <3>1, <3>3
    <3>4. QED
      BY <3>2, <3>3
  <2>3. online => \A q \in Runs : pending'[q].stdin = <<>>
    BY <1>3, <1>4 DEF SInv, Sorted
  <2>4. ~online => down' = <<>>
    BY <1>2, <1>3 DEF SInv, Sorted
  <2>5. IsFiniteSet(inFlight(pending)')
    BY <1>3, <1>7 DEF SInv, Sorted
  <2>6. inFlight(Now.pending)' = inFlight(pending)' /\ Now.pending' = pending' /\ Now.down' = down'
    BY <1>8 DEF inFlight
  <2>7. QED
    BY <1>5, <1>9, <1>10, <2>2, <2>3, <2>4, <2>5, <2>6 DEF Sorted
<1>12. Exact(Now)' /\ Room(Now, 0)'
  <2>1. /\ Now.outcome' = outcome /\ Now.waiters' = waiters /\ Now.pending' = pending'
        /\ inFlight(Now.pending)' = inFlight(pending)' /\ limits' = limits
    BY <1>0, <1>8 DEF inFlight
  <2>2. \A k \in Launches : pending'[RunOf[k]].launch = pending[RunOf[k]].launch
    BY <1>0, <1>4
  <2>3. Exact(Now)'
    BY <1>3, <2>1, <2>2 DEF SInv, Exact
  <2>4. Room(Now, 0)'
    BY <1>3, <1>7, <2>1 DEF SInv, Room
  <2>5. QED
    BY <2>3, <2>4
<1>13. IsFiniteSet(Queued)'
  <2>1. IsFiniteSet(Queued)
    BY DEF SInv, Around
  <2>2. CASE online
    BY <1>2, <2>1, <2>2 DEF Queued
  <2>3. CASE ~online
    <3> DEFINE n == Len(pending[r].stdin) + 1
    <3>1. DOMAIN pending'[r].stdin = DOMAIN pending[r].stdin \cup {n}
      <4>1. pending[r].stdin \in Seq(1 .. limits.stdin)
        BY <1>1, <1>3
      <4>2. /\ DOMAIN Append(pending[r].stdin, x) = 1 .. Len(pending[r].stdin) + 1
            /\ DOMAIN pending[r].stdin = 1 .. Len(pending[r].stdin) /\ Len(pending[r].stdin) \in Nat
        BY <1>1, <4>1, Appended
      <4>3. pending'[r].stdin = Append(pending[r].stdin, x)
        BY <1>4, <2>3
      <4>4. QED
        BY <4>2, <4>3
    <3>2. Queued' = UNION {{q} \X DOMAIN pending'[q].stdin : q \in Runs}
      BY DEF Queued
    <3>3. Queued' \subseteq Queued \cup {<<r, n>>}
      <4>1. ASSUME NEW q \in Runs, NEW y \in {q} \X DOMAIN pending'[q].stdin
            PROVE  y \in Queued \cup {<<r, n>>}
        <5>1. CASE q = r
          <6>1. y = <<r, n>> \/ y \in {r} \X DOMAIN pending[r].stdin
            BY <3>1, <4>1, <5>1
          <6>2. QED
            BY <1>1, <6>1 DEF Queued
        <5>2. CASE q # r
          BY <1>4, <4>1, <5>2 DEF Queued
        <5>3. QED
          BY <5>1, <5>2
      <4>2. QED
        BY <3>2, <4>1
    <3>4. IsFiniteSet(Queued \cup {<<r, n>>})
      BY <2>1, FS_AddElement
    <3>5. QED
      BY <3>3, <3>4, FS_Subset
  <2>4. QED
    BY <2>2, <2>3
<1>14. Around'
  BY <1>0, <1>1, <1>7, <1>9, <1>13 DEF SInv, Around, hostVars
<1>15. QED
  BY <1>11, <1>12, <1>14 DEF SInv

(* The frames a reconnection replays: what waited at each launch, the      *)
(* stops that are owed, all of them, and the answer to the hello.          *)
Replays(o, f) ==
    /\ f \in Seq(FrameSet)
    /\ \A i \in DOMAIN f :
          \/ /\ i \in DOMAIN o
             /\ \E r \in Runs : \E k \in DOMAIN pending[r].stdin :
                   /\ o[i] = <<r, k>> /\ pending[r].launch \in Launches
                   /\ f[i] = Frame("stdin", pending[r].launch, pending[r].stdin[k])
          \/ f[i].kind = "stop" /\ f[i].launch \in owed
          \/ f[i].kind = "ack"
    /\ \A l \in owed : \E i \in DOMAIN f : f[i].kind = "stop" /\ f[i].launch = l

LEMMA ReplayIs ==
  ASSUME SInv, NEW o \in Orders, NEW stopped \in SetToSeqs(owed),
         NEW f, f = Replayed(o, stopped) \o <<Frame("ack", None, 0)>>
  PROVE  Replays(o, f)
<1> DEFINE n == Cardinality(Queued)
           m == Cardinality(owed)
           A == StdinOf(o)
           B == [j \in DOMAIN stopped |-> StopFrame(stopped[j])]
           C == <<Frame("ack", None, 0)>>
<1>1. /\ limits \in Bounds /\ RunOf \in [Launches -> Runs] /\ limits.stdin \in Nat /\ owed \subseteq Launches
      /\ IsFiniteSet(Queued) /\ IsFiniteSet(owed) /\ n \in Nat /\ m \in Nat
  BY Given, FS_CardinalityType DEF SInv, Around
<1>2. o \in [1 .. n -> Queued]
  BY DEF Orders, SetToSeqs
<1>3. stopped \in [1 .. m -> owed] /\ \A i, j \in 1 .. m : i # j => stopped[i] # stopped[j]
  BY DEF SetToSeqs
<1>4. /\ pending \in [Runs -> [launch : Launches \union {None}, stdin : Seq(1 .. limits.stdin)]]
      /\ \A r \in Runs : pending[r].launch = None => pending[r].stdin = <<>>
  BY NowIs DEF SInv, Sorted
<1>5. ASSUME NEW i \in 1 .. n
      PROVE  \E r \in Runs : \E k \in DOMAIN pending[r].stdin :
                /\ o[i] = <<r, k>> /\ pending[r].launch \in Launches /\ pending[r].stdin[k] \in 1 .. limits.stdin
                /\ A[i] = Frame("stdin", pending[r].launch, pending[r].stdin[k])
  <2>1. PICK r \in Runs : \E k \in DOMAIN pending[r].stdin : o[i] = <<r, k>>
    BY <1>2, <1>4, QueuedIs
  <2>2. PICK k \in DOMAIN pending[r].stdin : o[i] = <<r, k>>
    BY <2>1
  <2>3. pending[r].stdin \in Seq(1 .. limits.stdin) /\ pending[r].launch \in Launches \union {None}
    BY <1>4
  <2>4. pending[r].launch \in Launches
    <3>1. pending[r].stdin # <<>>
      BY <2>2
    <3>2. QED
      BY <1>4, <2>3, <3>1
  <2>5. pending[r].stdin[k] \in 1 .. limits.stdin
    BY <2>3, Member, Zenon
  <2>6. A[i] = Frame("stdin", pending[r].launch, pending[r].stdin[k])
    BY <1>2, <2>2 DEF StdinOf
  <2>7. QED
    BY <2>2, <2>4, <2>5, <2>6
<1>6. A \in Seq(FrameSet) /\ DOMAIN A = 1 .. n /\ Len(A) = n
  <2>1. DOMAIN A = 1 .. n
    BY <1>2 DEF StdinOf
  <2>2. ASSUME NEW i \in 1 .. n PROVE A[i] \in FrameSet
    <3>1. PICK l \in Launches, x \in 1 .. limits.stdin : A[i] = Frame("stdin", l, x)
      BY <1>5
    <3>2. Frame("stdin", l, x) \in FrameSet
      BY <1>1 DEF Frame, FrameSet
    <3>3. QED
      BY <3>1, <3>2
  <2>3. A = [i \in 1 .. n |-> A[i]]
    BY <1>2 DEF StdinOf
  <2> HIDE DEF A, n
  <2>4. A \in [1 .. n -> FrameSet]
    BY <2>2, <2>3
  <2>5. QED
    BY <1>1, <2>1, <2>4
<1>7. B \in Seq(FrameSet) /\ DOMAIN B = 1 .. m /\ Len(B) = m
  <2>1. \A j \in 1 .. m : StopFrame(stopped[j]) \in FrameSet
    BY <1>1, <1>3 DEF StopFrame, Frame, FrameSet
  <2> HIDE DEF m
  <2>2. B \in [1 .. m -> FrameSet]
    BY <1>3, <2>1
  <2>3. QED
    BY <1>1, <2>2
<1>8. C \in Seq(FrameSet) /\ DOMAIN C = {1} /\ C[1].kind = "ack"
  <2>1. Frame("ack", None, 0) \in FrameSet /\ Frame("ack", None, 0).kind = "ack"
    BY <1>1 DEF Frame, FrameSet
  <2>2. QED
    BY <2>1
<1>9. f = (A \o B) \o C
  BY DEF Replayed
<1>10. \A j \in DOMAIN B : B[j] = StopFrame(stopped[j]) /\ stopped[j] \in owed
  BY <1>3
<1> HIDE DEF A, B, C, n, m
<1>11. /\ A \o B \in Seq(FrameSet)
       /\ \A i \in DOMAIN A : i \in DOMAIN (A \o B) /\ (A \o B)[i] = A[i]
       /\ \A j \in DOMAIN B : Len(A) + j \in DOMAIN (A \o B) /\ (A \o B)[Len(A) + j] = B[j]
       /\ \A i \in DOMAIN (A \o B) : i \in DOMAIN A \/ \E j \in DOMAIN B : i = Len(A) + j
  BY <1>6, <1>7, Joined
<1> DEFINE D == A \o B
<1> HIDE DEF D
<1>12. /\ f \in Seq(FrameSet)
       /\ \A i \in DOMAIN D : i \in DOMAIN f /\ f[i] = D[i]
       /\ \A i \in DOMAIN C : f[Len(D) + i] = C[i]
       /\ \A i \in DOMAIN f : i \in DOMAIN D \/ \E j \in DOMAIN C : i = Len(D) + j
  <2>1. D \in Seq(FrameSet) /\ f = D \o C
    BY <1>9, <1>11 DEF D
  <2>2. /\ D \o C \in Seq(FrameSet)
        /\ \A i \in DOMAIN D : i \in DOMAIN (D \o C) /\ (D \o C)[i] = D[i]
        /\ \A i \in DOMAIN C : (D \o C)[Len(D) + i] = C[i]
        /\ \A i \in DOMAIN (D \o C) : i \in DOMAIN D \/ \E j \in DOMAIN C : i = Len(D) + j
    BY <1>8, <2>1, Joined, SMT
  <2>3. QED
    BY <2>1, <2>2, Zenon
<1>13. /\ \A i \in DOMAIN A : i \in DOMAIN f /\ f[i] = A[i]
       /\ \A j \in DOMAIN B : Len(A) + j \in DOMAIN f /\ f[Len(A) + j] = B[j]
  BY <1>11, <1>12 DEF D
<1>14. ASSUME NEW i \in DOMAIN f
       PROVE  \/ /\ i \in DOMAIN o
                 /\ \E r \in Runs : \E k \in DOMAIN pending[r].stdin :
                       /\ o[i] = <<r, k>> /\ pending[r].launch \in Launches
                       /\ f[i] = Frame("stdin", pending[r].launch, pending[r].stdin[k])
              \/ f[i].kind = "stop" /\ f[i].launch \in owed
              \/ f[i].kind = "ack"
  <2>1. CASE i \in DOMAIN A
    <3>1. i \in 1 .. n /\ f[i] = A[i] /\ i \in DOMAIN o
      BY <1>2, <1>6, <1>13, <2>1
    <3>2. QED
      BY <1>5, <3>1
  <2>2. CASE \E j \in DOMAIN B : i = Len(A) + j
    <3>1. PICK j \in DOMAIN B : i = Len(A) + j
      BY <2>2
    <3>2. f[i] = StopFrame(stopped[j]) /\ stopped[j] \in owed
      BY <1>10, <1>13, <3>1
    <3>3. QED
      BY <3>2 DEF StopFrame, Frame
  <2>3. CASE \E j \in DOMAIN C : i = Len(D) + j
    BY <1>8, <1>12, <2>3
  <2>4. QED
    BY <1>11, <1>12, <2>1, <2>2, <2>3 DEF D
<1>15. ASSUME NEW l \in owed PROVE \E i \in DOMAIN f : f[i].kind = "stop" /\ f[i].launch = l
  <2>1. stopped \in Surjection(1 .. m, owed)
    <3>1. stopped \in Injection(1 .. m, owed)
      BY <1>3 DEF Injection, IsInjective
    <3>2. Cardinality(1 .. m) = Cardinality(owed)
      BY <1>1, FS_Interval DEF m
    <3>3. QED
      BY <1>1, <3>1, <3>2, FS_Injection
  <2>2. PICK j \in 1 .. m : stopped[j] = l
    BY <2>1 DEF Surjection
  <2>3. j \in DOMAIN B /\ B[j] = StopFrame(l)
    BY <1>7, <1>10, <2>2
  <2>4. Len(A) + j \in DOMAIN f /\ f[Len(A) + j] = StopFrame(l)
    BY <1>13, <2>3
  <2>5. QED
    BY <2>4 DEF StopFrame, Frame
<1>16. QED
  BY <1>12, <1>14, <1>15 DEF Replays

LEMMA LostKeepsSlots == ASSUME SInv, LinkLost PROVE SInv'
<1>1. /\ link' = 0 /\ bound' = FALSE /\ up' = <<>> /\ lost' = lost \union Of(up, "complete")
      /\ UNCHANGED <<sink, made, restarts, limits, pending, grace, waiters, outcome, owed, stopping,
                     confirmed, down, has, newest, ending, started, read, counters>>
  BY DEF LinkLost
<1>2. /\ Sorted(Now)' /\ Exact(Now)' /\ Room(Now, 0)' /\ Queued' = Queued /\ online' = online
      /\ FrameSet' = FrameSet
  BY <1>1, Rests
<1>3. Of(up, "complete") \subseteq Launches
  <2>1. up \in Seq([kind : {"complete", "launched"}, launch : Launches])
    BY DEF SInv, Around
  <2>2. \A i \in 1 .. Len(up) : up[i].launch \in Launches
    <3> DEFINE R == [kind : {"complete", "launched"}, launch : Launches]
    <3>1. up \in Seq(R)
      BY <2>1
    <3> HIDE DEF R
    <3>2. \A i \in 1 .. Len(up) : up[i] \in R
      BY <3>1
    <3>3. QED
      BY <3>2 DEF R
  <2>3. QED
    BY <2>2 DEF Of
<1>4. up' \in Seq([kind : {"complete", "launched"}, launch : Launches]) /\ link' \in 0 .. made'
  BY <1>1 DEF SInv, Around
<1>5. Around'
  BY <1>1, <1>2, <1>3, <1>4 DEF SInv, Around, counters, inFlight
<1>6. QED
  BY <1>2, <1>5 DEF SInv

LEMMA ReconnectKeepsSlots == ASSUME SInv, Reconnect PROVE SInv'
<1>1. /\ link' = made + 1 /\ made' = made + 1
      /\ UNCHANGED <<sink, bound, restarts, limits, pending, grace, waiters, outcome, owed, stopping,
                     confirmed, down, hostVars, counters>>
  BY DEF Reconnect
<1>2. /\ Sorted(Now)' /\ Exact(Now)' /\ Room(Now, 0)' /\ Queued' = Queued /\ online' = online
      /\ FrameSet' = FrameSet
  BY <1>1, Rests
<1>3. link' \in 0 .. made' /\ sink' \in 0 .. made' /\ made' \in Nat
  BY <1>1 DEF SInv, Around
<1>4. Around'
  BY <1>1, <1>2, <1>3 DEF SInv, Around, counters, hostVars, inFlight
<1>5. QED
  BY <1>2, <1>4 DEF SInv

LEMMA StartsOf ==
  ASSUME SInv PROVE Of(down, "launch") \subseteq Launches
BY NowIs DEF SInv, Sorted, Of

(* The registry hears of a connection: the queues empty, and the socket     *)
(* carries what is replayed.                                               *)
LEMMA RegisterKeepsSlots == ASSUME SInv, registerConnection PROVE SInv'
<1>0. /\ RunOf \in [Launches -> Runs] /\ None \notin Launches /\ limits \in Bounds /\ limits.stdin \in Nat
  BY Given DEF SInv, Around
<1>1. /\ link # 0 /\ sink' = link /\ lost' = lost \union Of(down, "launch")
      /\ pending' = [r \in Runs |-> [pending[r] EXCEPT !.stdin = <<>>]]
      /\ grace' = {} /\ owed' = {}
      /\ UNCHANGED <<link, made, bound, restarts, limits, waiters, outcome, stopping, confirmed,
                     up, has, newest, ending, started, read, counters>>
  BY DEF registerConnection
<1>2. PICK o \in Orders, stopped \in SetToSeqs(owed) : down' = Replayed(o, stopped) \o <<Frame("ack", None, 0)>>
  BY DEF registerConnection
<1>3. /\ down' \in Seq(FrameSet)
      /\ \A i \in DOMAIN down' : /\ down'[i].kind \in {"launch", "stdin"} => down'[i].launch \in Launches
                                 /\ down'[i].kind = "stop" => down'[i].launch \in Launches
  <2> DEFINE f == Replayed(o, stopped) \o <<Frame("ack", None, 0)>>
  <2> HIDE DEF f
  <2>1. Replays(o, f)
    BY ReplayIs DEF f
  <2>2. owed \subseteq Launches
    BY DEF SInv, Around
  <2>3. \A i \in DOMAIN f : /\ f[i].kind \in {"launch", "stdin"} => f[i].launch \in Launches
                            /\ f[i].kind = "stop" => f[i].launch \in Launches
    BY <2>1, <2>2 DEF Replays, Frame
  <2>4. down' = f
    BY <1>2 DEF f
  <2>5. QED
    BY <2>1, <2>3, <2>4 DEF Replays
<1>4. /\ Now.pending = pending /\ Now.waiters = waiters /\ Now.outcome = outcome /\ Now.down = down
      /\ waiters \in Seq(Launches) /\ outcome \in [Launches -> Outcomes] /\ down \in Seq(FrameSet)
      /\ pending \in [Runs -> [launch : Launches \union {None}, stdin : Seq(1 .. limits.stdin)]]
  BY NowIs DEF SInv
<1>5. \A r \in Runs : pending'[r] = [launch |-> pending[r].launch, stdin |-> <<>>]
  BY <1>1, <1>4
<1>50. \A r \in Runs : pending'[r].launch = pending[r].launch /\ pending'[r].stdin = <<>>
  <2>1. ASSUME NEW r \in Runs PROVE pending'[r].launch = pending[r].launch /\ pending'[r].stdin = <<>>
    <3> DEFINE x == pending[r].launch
               e == <<>>
    <3>1. pending'[r] = [launch |-> x, stdin |-> e]
      BY <1>5
    <3> HIDE DEF x, e
    <3>2. pending'[r].launch = x /\ pending'[r].stdin = e
      BY <3>1
    <3>3. QED
      BY <3>2 DEF x, e
  <2>2. QED
    BY <2>1
<1>6. pending' \in [Runs -> [launch : Launches \union {None}, stdin : Seq(1 .. limits.stdin)]]
  <2>1. <<>> \in Seq(1 .. limits.stdin)
    OBVIOUS
  <2>2. pending' = [r \in Runs |-> [launch |-> pending[r].launch, stdin |-> <<>>]]
    BY <1>1, <1>5
  <2>3. QED
    BY <1>4, <2>1, <2>2
<1>7. \A r \in Runs : /\ pending[r].launch = None => pending[r].stdin = <<>>
                      /\ pending[r].launch # None => RunOf[pending[r].launch] = r
  BY <1>4 DEF SInv, Sorted
<1>8. inFlight(pending)' = inFlight(pending)
  <2>1. \A r \in Runs : (pending'[r] = Idle) <=> (pending[r] = Idle)
    <3> SUFFICES ASSUME NEW r \in Runs PROVE (pending'[r] = Idle) <=> (pending[r] = Idle)
      OBVIOUS
    <3>1. (pending[r] = Idle) <=> (pending[r].launch = None)
      BY <1>4, IdleIs DEF SInv
    <3>2. (pending'[r] = Idle) <=> (pending[r].launch = None)
      <4>1. pending'[r] = [launch |-> pending[r].launch, stdin |-> <<>>]
        BY <1>5
      <4>2. pending'[r].launch = pending[r].launch
        BY <4>1
      <4>3. pending[r].launch = None => pending'[r] = Idle
        BY <4>1 DEF Idle
      <4>4. pending'[r] = Idle => pending'[r].launch = None
        BY DEF Idle
      <4>5. QED
        BY <4>2, <4>3, <4>4
    <3>3. QED
      BY <3>1, <3>2
  <2>2. QED
    BY <2>1 DEF inFlight
<1>9. Now' = [pending |-> pending', waiters |-> waiters, outcome |-> outcome, down |-> down']
  BY <1>1 DEF Now
<1>10. FrameSet' = FrameSet /\ Registries' = Registries
  BY <1>1 DEF FrameSet, Registries
<1>11. Now' \in Registries
  BY <1>3, <1>4, <1>6, <1>9 DEF Registries
<1>12. online'
  BY <1>1 DEF online
<1>13. Sorted(Now)'
  <2>1. \A r \in Runs : /\ pending'[r].launch = None => pending'[r].stdin = <<>>
                        /\ pending'[r].launch # None => RunOf[pending'[r].launch] = r
                        /\ pending'[r].stdin = <<>>
    BY <1>7, <1>50, Zenon
  <2>2. IsFiniteSet(inFlight(pending)')
    BY <1>4, <1>8 DEF SInv, Sorted
  <2>3. inFlight(Now.pending)' = inFlight(pending)' /\ Now.pending' = pending' /\ Now.down' = down'
    BY <1>9 DEF inFlight
  <2>4. QED
    BY <1>3, <1>10, <1>11, <1>12, <2>1, <2>2, <2>3 DEF Sorted
<1>14. Exact(Now)' /\ Room(Now, 0)'
  <2>1. /\ Now.outcome' = outcome /\ Now.waiters' = waiters /\ Now.pending' = pending'
        /\ inFlight(Now.pending)' = inFlight(pending)' /\ limits' = limits
    BY <1>1, <1>9 DEF inFlight
  <2>2. ASSUME NEW k \in Launches PROVE pending'[RunOf[k]].launch = pending[RunOf[k]].launch
    <3>1. RunOf[k] \in Runs
      BY <1>0
    <3>2. pending'[RunOf[k]] = [launch |-> pending[RunOf[k]].launch, stdin |-> <<>>]
      BY <1>5, <3>1
    <3>3. QED
      BY <3>2
  <2>3. Exact(Now)'
    BY <1>4, <2>1, <2>2 DEF SInv, Exact
  <2>4. Room(Now, 0)'
    BY <1>4, <1>8, <2>1 DEF SInv, Room
  <2>5. QED
    BY <2>3, <2>4
<1>15. IsFiniteSet(Queued)'
  <2>1. \A r \in Runs : pending'[r].stdin = <<>>
    BY <1>50, Zenon
  <2>2. QED
    BY <2>1, QueuedShrinks DEF SInv, Around
<1>16. lost' \subseteq Launches
  BY <1>1, StartsOf DEF SInv, Around
<1>17. IsFiniteSet(owed') /\ grace' \subseteq inFlight(pending)' /\ owed' \subseteq Launches
  BY <1>1, FS_EmptySet
<1>18. Around'
  BY <1>1, <1>10, <1>15, <1>16, <1>17 DEF SInv, Around, counters
<1>19. QED
  BY <1>13, <1>14, <1>18 DEF SInv

LEMMA UnregisterKeepsSlots == ASSUME SInv, unregisterConnection PROVE SInv'
<1>1. /\ sink' = 0 /\ down' = <<>> /\ lost' = lost \union Of(down, "launch")
      /\ grace' = inFlight(pending) /\ online
      /\ UNCHANGED <<link, made, bound, restarts, limits, pending, waiters, outcome, owed, stopping,
                     confirmed, up, has, newest, ending, started, read, counters>>
  BY DEF unregisterConnection
<1>2. /\ Now.pending = pending /\ Now.waiters = waiters /\ Now.outcome = outcome /\ Now.down = down
      /\ Now \in Registries
  BY NowIs DEF SInv, Sorted
<1>3. Now' = [Now EXCEPT !.down = <<>>]
  BY <1>1 DEF Now
<1>4. FrameSet' = FrameSet /\ Registries' = Registries /\ ~online'
  BY <1>1 DEF FrameSet, Registries, online
<1>5. /\ Now.pending' = Now.pending /\ Now.waiters' = Now.waiters /\ Now.outcome' = Now.outcome
      /\ Now.down' = <<>> /\ Now' \in Registries
  <2>1. <<>> \in Seq(FrameSet)
    OBVIOUS
  <2>2. QED
    BY <1>2, <1>3, <1>4, <2>1 DEF Registries
<1>6. inFlight(Now.pending)' = inFlight(Now.pending) /\ inFlight(pending)' = inFlight(pending)
  BY <1>1, <1>5 DEF inFlight
<1>7. Sorted(Now)'
  BY <1>4, <1>5, <1>6 DEF SInv, Sorted
<1>8. Exact(Now)' /\ Room(Now, 0)'
  BY <1>1, <1>5, <1>6 DEF SInv, Exact, Room
<1>9. Queued' = Queued
  BY <1>1 DEF Queued
<1>10. lost' \subseteq Launches
  BY <1>1, StartsOf DEF SInv, Around
<1>11. sink' \in 0 .. made'
  BY <1>1 DEF SInv, Around
<1>12. Around'
  BY <1>1, <1>4, <1>6, <1>9, <1>10, <1>11 DEF SInv, Around, counters
<1>13. QED
  BY <1>7, <1>8, <1>12 DEF SInv

LEMMA RestartKeepsSlots == ASSUME SInv, ServerRestarts PROVE SInv'
<1>0. limits \in Bounds /\ limits.cap \in Nat \ {0} /\ limits.restarts \in Nat /\ RunOf \in [Launches -> Runs]
      /\ None \notin Launches
  BY Given DEF SInv, Around
<1>1. /\ restarts < limits.restarts /\ restarts' = restarts + 1
      /\ link' = 0 /\ bound' = FALSE /\ sink' = 0 /\ down' = <<>> /\ up' = <<>>
      /\ lost' = lost \union Of(down, "launch") \union Of(up, "complete")
      /\ pending' = [r \in Runs |-> Idle] /\ grace' = {} /\ waiters' = <<>>
      /\ outcome' = [l \in Launches |-> IF outcome[l] = "waited" THEN "forgotten" ELSE outcome[l]]
      /\ owed' = {} /\ stopping' = {}
      /\ UNCHANGED <<made, limits, confirmed, has, newest, ending, started, read, counters>>
  BY DEF ServerRestarts
<1>2. /\ outcome \in [Launches -> Outcomes]
  BY NowIs DEF SInv
<1>3. /\ Now.pending' = [r \in Runs |-> Idle] /\ Now.waiters' = <<>> /\ Now.down' = <<>>
      /\ Now' = [pending |-> [r \in Runs |-> Idle], waiters |-> <<>>, outcome |-> outcome', down |-> <<>>]
      /\ Now.outcome' = outcome'
  BY <1>1 DEF Now
<1>4. FrameSet' = FrameSet /\ Registries' = Registries /\ ~online'
  BY <1>1 DEF FrameSet, Registries, online
<1>5. outcome' \in [Launches -> Outcomes] /\ \A l \in Launches : outcome'[l] # "waited"
  BY <1>1, <1>2 DEF Outcomes
<1>6. Now' \in Registries
  <2>1. Idle \in [launch : Launches \union {None}, stdin : Seq(1 .. limits.stdin)]
    BY DEF Idle
  <2>2. [r \in Runs |-> Idle] \in [Runs -> [launch : Launches \union {None}, stdin : Seq(1 .. limits.stdin)]]
    BY <2>1
  <2>3. <<>> \in Seq(Launches) /\ <<>> \in Seq(FrameSet)
    OBVIOUS
  <2>4. QED
    BY <1>3, <1>4, <1>5, <2>2, <2>3 DEF Registries
<1>7. inFlight(Now.pending)' = {} /\ inFlight(pending)' = {}
  BY <1>1, <1>3 DEF inFlight
<1>8. Cardinality({}) = 0 /\ IsFiniteSet({})
  BY FS_EmptySet
<1>9. Sorted(Now)'
  <2>1. \A r \in Runs : Now.pending'[r].launch = None /\ Now.pending'[r].stdin = <<>>
    BY <1>3 DEF Idle
  <2>2. IsFiniteSet(inFlight(Now.pending)')
    BY <1>7, <1>8
  <2>3. \A i \in DOMAIN Now.down' : FALSE
    BY <1>3
  <2> HIDE DEF Now
  <2>4. QED
    BY <1>3, <1>4, <1>6, <2>1, <2>2, <2>3 DEF Sorted
<1>10. Exact(Now)'
  <2>1. \A l \in Launches : l \notin ToSet(Now.waiters') /\ Now.pending'[RunOf[l]].launch # l
    BY <1>0, <1>3 DEF ToSet, Idle
  <2>2. IsInjective(Now.waiters')
    BY <1>3 DEF IsInjective
  <2>3. QED
    BY <1>3, <1>5, <2>1, <2>2 DEF Exact
<1>11. Room(Now, 0)'
  <2>1. Cardinality(inFlight(Now.pending)') = 0 /\ limits'.cap \in Nat /\ ~(Now.waiters' # <<>>)
    BY <1>0, <1>1, <1>3, <1>7, <1>8
  <2>2. Cardinality(inFlight(Now.pending))' <= limits'.cap
    BY <2>1
  <2>3. QED
    BY <2>1, <2>2 DEF Room
<1>12. Queued' = {}
  BY <1>1 DEF Queued, Idle
<1>13. lost' \subseteq Launches
  <2>1. up \in Seq([kind : {"complete", "launched"}, launch : Launches])
    BY DEF SInv, Around
  <2>2. \A i \in 1 .. Len(up) : up[i].launch \in Launches
    <3> DEFINE R == [kind : {"complete", "launched"}, launch : Launches]
    <3>1. up \in Seq(R)
      BY <2>1
    <3> HIDE DEF R
    <3>2. \A i \in 1 .. Len(up) : up[i] \in R
      BY <3>1
    <3>3. QED
      BY <3>2 DEF R
  <2>3. Of(up, "complete") \subseteq Launches
    BY <2>2 DEF Of
  <2>4. QED
    BY <1>1, <2>3, StartsOf DEF SInv, Around
<1>14. restarts' \in 0 .. limits.restarts /\ sink' \in 0 .. made' /\ link' \in 0 .. made'
  BY <1>0, <1>1 DEF SInv, Around
<1>15. up' \in Seq([kind : {"complete", "launched"}, launch : Launches])
  BY <1>1
<1>16. Around'
  BY <1>1, <1>4, <1>7, <1>8, <1>12, <1>13, <1>14, <1>15 DEF SInv, Around, counters
<1>17. QED
  BY <1>9, <1>10, <1>11, <1>16 DEF SInv

(* What the daemon reports is on its way, or lost. *)
LEMMA AnswerIs ==
  ASSUME SInv, NEW l \in Launches, NEW kind \in {"complete", "launched"}, Answer(kind, l)
  PROVE  /\ \/ up' = up /\ lost' \subseteq lost \union {l}
            \/ up' = Append(up, [kind |-> kind, launch |-> l]) /\ lost' = lost
         /\ up' \in Seq([kind : {"complete", "launched"}, launch : Launches])
         /\ lost' \subseteq Launches
<1> DEFINE f == [kind |-> kind, launch |-> l]
<1>1. /\ up \in Seq([kind : {"complete", "launched"}, launch : Launches]) /\ lost \subseteq Launches
      /\ f \in [kind : {"complete", "launched"}, launch : Launches]
  BY DEF SInv, Around
<1>2. \/ up' = up /\ lost' \subseteq lost \union {l}
      \/ up' = Append(up, f) /\ lost' = lost
  BY DEF Answer
<1> HIDE DEF f
<1>3. Append(up, f) \in Seq([kind : {"complete", "launched"}, launch : Launches])
  BY <1>1, Appended
<1>4. QED
  BY <1>1, <1>2, <1>3 DEF f

(* A frame reaches the daemon. *)
LEMMA ReceivesIs ==
  ASSUME SInv, HostReceives
  PROVE  LET f == Head(down) IN
         /\ down # <<>> /\ online /\ sink = link /\ down' = Tail(down) /\ HostStep
         /\ f \in FrameSet
         /\ f.kind \in {"launch", "stdin"} => f.launch \in Launches
         /\ f.kind = "stop" => f.launch \in Launches \union Runs
         /\ \/ /\ f.kind = "launch" /\ has' = has \union {f.launch}
               /\ newest' = [newest EXCEPT ![RunOf[f.launch]] = f.launch]
               /\ Answer("launched", f.launch) \/ UNCHANGED <<up, lost>>
               /\ UNCHANGED <<bound, ending, read>>
            \/ /\ f.kind = "stop" /\ ending' = ending \union (Named(f) \intersect has)
               /\ IF f.launch \in Launches \ has THEN Answer("complete", f.launch)
                                                 ELSE UNCHANGED <<up, lost>>
               /\ UNCHANGED <<bound, has, newest, read>>
            \/ /\ f.kind = "stdin"
               /\ read' = [l \in Launches |-> IF l = newest[RunOf[f.launch]] THEN Append(read[l], f) ELSE read[l]]
               /\ UNCHANGED <<bound, has, newest, up, ending, lost>>
            \/ /\ f.kind = "ack" /\ bound' = TRUE
               /\ UNCHANGED <<has, newest, up, ending, lost, read>>
<1> DEFINE f == Head(down)
<1>1. /\ Now.down = down /\ down \in Seq(FrameSet) /\ (~online => down = <<>>)
      /\ \A i \in DOMAIN down : /\ down[i].kind \in {"launch", "stdin"} => down[i].launch \in Launches
                                /\ down[i].kind = "stop" => down[i].launch \in Launches \union Runs
  BY NowIs DEF SInv, Sorted
<1>2. /\ down # <<>> /\ sink = link /\ down' = Tail(down) /\ HostStep
      /\ \/ /\ f.kind = "launch" /\ has' = has \union {f.launch}
            /\ newest' = [newest EXCEPT ![RunOf[f.launch]] = f.launch]
            /\ Answer("launched", f.launch) \/ UNCHANGED <<up, lost>>
            /\ UNCHANGED <<bound, ending, read>>
         \/ /\ f.kind = "stop" /\ ending' = ending \union (Named(f) \intersect has)
            /\ IF f.launch \in Launches \ has THEN Answer("complete", f.launch)
                                              ELSE UNCHANGED <<up, lost>>
            /\ UNCHANGED <<bound, has, newest, read>>
         \/ /\ f.kind = "stdin"
            /\ read' = [l \in Launches |-> IF l = newest[RunOf[f.launch]] THEN Append(read[l], f) ELSE read[l]]
            /\ UNCHANGED <<bound, has, newest, up, ending, lost>>
         \/ /\ f.kind = "ack" /\ bound' = TRUE
            /\ UNCHANGED <<has, newest, up, ending, lost, read>>
  BY Zenon DEF HostReceives
<1>3. f = down[1] /\ 1 \in DOMAIN down /\ f \in FrameSet
  BY <1>1, <1>2, Shortened
<1>4. /\ f.kind \in {"launch", "stdin"} => f.launch \in Launches
      /\ f.kind = "stop" => f.launch \in Launches \union Runs
  BY <1>1, <1>3
<1> HIDE DEF f
<1>5. online
  BY <1>1, <1>2
<1>6. QED
  BY <1>2, <1>3, <1>4, <1>5, Zenon DEF f

LEMMA ReceivesKeepsSlots == ASSUME SInv, HostReceives PROVE SInv'
<1> DEFINE f == Head(down)
           S == [kind : {"complete", "launched"}, launch : Launches]
<1>0. /\ RunOf \in [Launches -> Runs] /\ None \notin Launches /\ limits \in Bounds
  BY Given DEF SInv, Around
<1>1. /\ down # <<>> /\ online /\ sink = link /\ down' = Tail(down) /\ HostStep
      /\ f \in FrameSet
      /\ f.kind \in {"launch", "stdin"} => f.launch \in Launches
      /\ f.kind = "stop" => f.launch \in Launches \union Runs
  BY ReceivesIs
<1>2. \/ /\ f.kind = "launch" /\ has' = has \union {f.launch}
         /\ newest' = [newest EXCEPT ![RunOf[f.launch]] = f.launch]
         /\ Answer("launched", f.launch) \/ UNCHANGED <<up, lost>>
         /\ UNCHANGED <<bound, ending, read>>
      \/ /\ f.kind = "stop" /\ ending' = ending \union (Named(f) \intersect has)
         /\ IF f.launch \in Launches \ has THEN Answer("complete", f.launch)
                                           ELSE UNCHANGED <<up, lost>>
         /\ UNCHANGED <<bound, has, newest, read>>
      \/ /\ f.kind = "stdin"
         /\ read' = [l \in Launches |-> IF l = newest[RunOf[f.launch]] THEN Append(read[l], f) ELSE read[l]]
         /\ UNCHANGED <<bound, has, newest, up, ending, lost>>
      \/ /\ f.kind = "ack" /\ bound' = TRUE
         /\ UNCHANGED <<has, newest, up, ending, lost, read>>
  BY ReceivesIs
<1> HIDE DEF f, S
<1>3. /\ UNCHANGED <<link, sink, made, restarts, limits, pending, grace, waiters, outcome, owed,
                     stopping, confirmed, started, typed, stops>>
  BY <1>1 DEF HostStep, counters
<1>4. /\ up \in Seq(S) /\ lost \subseteq Launches /\ has \subseteq Launches /\ ending \subseteq has
      /\ newest \in [Runs -> has \union {None}] /\ read \in [Launches -> Seq(FrameSet)] /\ bound \in BOOLEAN
      /\ \A r \in Runs : newest[r] # None => RunOf[newest[r]] = r
  BY DEF SInv, Around, S
<1>5. /\ up' \in Seq(S) /\ lost' \subseteq Launches /\ bound' \in BOOLEAN
      /\ has' \subseteq Launches /\ ending' \subseteq has'
      /\ newest' \in [Runs -> has' \union {None}] /\ read' \in [Launches -> Seq(FrameSet)]
      /\ \A r \in Runs : newest'[r] # None => RunOf[newest'[r]] = r
  <2>1. CASE f.kind = "launch"
    <3>1. /\ f.launch \in Launches /\ has' = has \union {f.launch}
          /\ newest' = [newest EXCEPT ![RunOf[f.launch]] = f.launch]
          /\ Answer("launched", f.launch) \/ UNCHANGED <<up, lost>>
          /\ UNCHANGED <<bound, ending, read>>
      BY <1>1, <1>2, <2>1
    <3>2. up' \in Seq(S) /\ lost' \subseteq Launches
      <4>1. CASE Answer("launched", f.launch)
        BY <3>1, <4>1, AnswerIs DEF S
      <4>2. CASE UNCHANGED <<up, lost>>
        BY <1>4, <4>2
      <4>3. QED
        BY <3>1, <4>1, <4>2
    <3>3. newest' \in [Runs -> has' \union {None}]
      BY <1>0, <1>4, <3>1
    <3>4. \A r \in Runs : newest'[r] = IF r = RunOf[f.launch] THEN f.launch ELSE newest[r]
      BY <1>0, <1>4, <3>1
    <3>5. QED
      BY <1>4, <3>1, <3>2, <3>3, <3>4
  <2>2. CASE f.kind = "stop"
    <3>1. /\ ending' = ending \union (Named(f) \intersect has)
          /\ IF f.launch \in Launches \ has THEN Answer("complete", f.launch)
                                            ELSE UNCHANGED <<up, lost>>
          /\ UNCHANGED <<bound, has, newest, read>>
      BY <1>2, <2>2
    <3>2. up' \in Seq(S) /\ lost' \subseteq Launches
      <4>1. CASE f.launch \in Launches /\ Answer("complete", f.launch)
        BY <4>1, AnswerIs DEF S
      <4>2. CASE UNCHANGED <<up, lost>>
        BY <1>4, <4>2
      <4>3. QED
        BY <3>1, <4>1, <4>2
    <3>3. QED
      BY <1>4, <3>1, <3>2
  <2>3. CASE f.kind = "stdin"
    <3>1. /\ read' = [l \in Launches |-> IF l = newest[RunOf[f.launch]] THEN Append(read[l], f) ELSE read[l]]
          /\ UNCHANGED <<bound, has, newest, up, ending, lost>>
      BY <1>2, <2>3
    <3>2. \A l \in Launches : Append(read[l], f) \in Seq(FrameSet)
      BY <1>1, <1>4, Appended
    <3>3. QED
      BY <1>4, <3>1, <3>2
  <2>4. CASE f.kind = "ack"
    BY <1>2, <1>4, <2>4
  <2>5. QED
    BY <1>2, <2>1, <2>2, <2>3, <2>4
<1>6. FrameSet' = FrameSet /\ Registries' = Registries /\ online' = online /\ Queued' = Queued
      /\ inFlight(pending)' = inFlight(pending)
  BY <1>3 DEF FrameSet, Registries, online, Queued, inFlight
<1>7. /\ Now.down = down /\ down \in Seq(FrameSet) /\ Now \in Registries
  BY NowIs DEF SInv, Sorted
<1>8. /\ down' \in Seq(FrameSet)
      /\ \A i \in DOMAIN down' : i + 1 \in DOMAIN down /\ down'[i] = down[i + 1]
  BY <1>1, <1>7, Shortened
<1>9. Now' = [Now EXCEPT !.down = down']
  BY <1>3 DEF Now
<1>10. /\ Now.pending' = Now.pending /\ Now.waiters' = Now.waiters /\ Now.outcome' = Now.outcome
       /\ Now.down' = down' /\ Now' \in Registries
  BY <1>6, <1>7, <1>8, <1>9 DEF Registries
<1>11. inFlight(Now.pending)' = inFlight(Now.pending)
  BY <1>10 DEF inFlight
<1>12. Sorted(Now)'
  <2>1. \A i \in DOMAIN down' : /\ down'[i].kind \in {"launch", "stdin"} => down'[i].launch \in Launches
                                /\ down'[i].kind = "stop" => down'[i].launch \in Launches \union Runs
    BY <1>7, <1>8 DEF SInv, Sorted
  <2>2. QED
    BY <1>1, <1>6, <1>10, <1>11, <2>1 DEF SInv, Sorted
<1>13. Exact(Now)' /\ Room(Now, 0)'
  BY <1>3, <1>10, <1>11 DEF SInv, Exact, Room
<1>14. Around'
  BY <1>3, <1>5, <1>6 DEF SInv, Around, S
<1>15. QED
  BY <1>12, <1>13, <1>14 DEF SInv

LEMMA EndsKeepsSlots == ASSUME SInv, NEW l \in Launches, HostEnds(l) PROVE SInv'
<1> DEFINE S == [kind : {"complete", "launched"}, launch : Launches]
<1>0. /\ RunOf \in [Launches -> Runs] /\ None \notin Launches /\ limits \in Bounds
  BY Given DEF SInv, Around
<1>1. /\ l \in has /\ has' = has \ {l} /\ ending' = ending \ {l}
      /\ newest' = [newest EXCEPT ![RunOf[l]] = IF @ = l THEN None ELSE @]
      /\ Answer("complete", l)
      /\ UNCHANGED <<bound, down, read, link, sink, made, restarts, limits, pending, grace, waiters, outcome,
                     owed, stopping, confirmed, started, typed, stops>>
  BY DEF HostEnds, HostStep, counters
<1>2. up' \in Seq(S) /\ lost' \subseteq Launches
  BY <1>1, AnswerIs
<1> HIDE DEF S
<1>3. /\ has \subseteq Launches /\ ending \subseteq has /\ newest \in [Runs -> has \union {None}]
      /\ \A r \in Runs : newest[r] # None => RunOf[newest[r]] = r
  BY DEF SInv, Around
<1>4. \A r \in Runs : newest'[r] = IF r = RunOf[l] /\ newest[r] = l THEN None ELSE newest[r]
  BY <1>0, <1>1, <1>3
<1>5. /\ newest' \in [Runs -> has' \union {None}] /\ \A r \in Runs : newest'[r] # None => RunOf[newest'[r]] = r
  <2>1. \A r \in Runs : newest'[r] \in has' \union {None}
    <3> SUFFICES ASSUME NEW r \in Runs PROVE newest'[r] \in has' \union {None}
      OBVIOUS
    <3>1. newest[r] = l => r = RunOf[l]
      BY <1>0, <1>3
    <3>2. QED
      BY <1>1, <1>3, <1>4, <3>1
  <2>2. newest' \in [Runs -> has' \union {None}]
    BY <1>1, <1>3, <2>1
  <2>3. QED
    BY <1>3, <1>4, <2>2
<1>6. has' \subseteq Launches /\ ending' \subseteq has'
  BY <1>1, <1>3
<1>7. /\ Sorted(Now)' /\ Exact(Now)' /\ Room(Now, 0)' /\ Queued' = Queued /\ online' = online
      /\ FrameSet' = FrameSet
  BY <1>1, Rests
<1>8. inFlight(pending)' = inFlight(pending)
  BY <1>1 DEF inFlight
<1>9. Around'
  BY <1>1, <1>2, <1>5, <1>6, <1>7, <1>8 DEF SInv, Around, S
<1>10. QED
  BY <1>7, <1>9 DEF SInv

(* It begins so. *)
LEMMA InitHasSlots == ASSUME Init PROVE SInv
<1>0. limits \in Bounds
  BY DEF Init
<1>1. /\ limits.cap \in Nat \ {0} /\ limits.stdin \in Nat /\ RunOf \in [Launches -> Runs]
      /\ limits.restarts \in Nat /\ limits.stops \in Nat /\ None \notin Launches
  BY <1>0, Given
<1>2. Now = [pending |-> [r \in Runs |-> Idle], waiters |-> <<>>,
             outcome |-> [l \in Launches |-> "new"], down |-> <<>>]
  BY DEF Init, Now
<1>3. Now \in Registries
  <2>1. Idle \in [launch : Launches \union {None}, stdin : Seq(1 .. limits.stdin)]
    BY DEF Idle
  <2>2. [r \in Runs |-> Idle] \in [Runs -> [launch : Launches \union {None}, stdin : Seq(1 .. limits.stdin)]]
    BY <2>1
  <2>3. <<>> \in Seq(Launches) /\ <<>> \in Seq(FrameSet)
    OBVIOUS
  <2>4. [l \in Launches |-> "new"] \in [Launches -> Outcomes]
    BY DEF Outcomes
  <2>5. QED
    BY <1>2, <2>2, <2>3, <2>4 DEF Registries
<1>4. inFlight(Now.pending) = {} /\ inFlight(pending) = {}
  BY <1>2 DEF Init, inFlight
<1>5. Cardinality({}) = 0 /\ IsFiniteSet({})
  BY FS_EmptySet
<1>6. /\ \A r \in Runs : /\ Now.pending[r].launch = None /\ Now.pending[r].stdin = <<>>
      /\ Now.waiters = <<>> /\ Now.down = <<>> /\ \A l \in Launches : Now.outcome[l] = "new"
  BY <1>2 DEF Idle
<1>7. Sorted(Now)
  <2>1. \A i \in DOMAIN Now.down : FALSE
    BY <1>6
  <2> HIDE DEF Now
  <2>2. QED
    BY <1>3, <1>4, <1>5, <1>6, <2>1 DEF Sorted
<1>8. Exact(Now)
  <2>1. \A l \in Launches : l \notin ToSet(Now.waiters) /\ Now.pending[RunOf[l]].launch # l
    BY <1>1, <1>6 DEF ToSet
  <2>2. IsInjective(Now.waiters)
    BY <1>6 DEF IsInjective
  <2>3. QED
    BY <1>6, <2>1, <2>2 DEF Exact
<1>9. Room(Now, 0)
  BY <1>1, <1>4, <1>5, <1>6 DEF Room
<1>10. Queued = {}
  BY DEF Queued, Idle, Init
<1>11. Around
  BY <1>0, <1>1, <1>4, <1>5, <1>10 DEF Init, Around
<1>12. QED
  BY <1>7, <1>8, <1>9, <1>11 DEF SInv

LEMMA SlotsStep == ASSUME SInv, [Next]_vars PROVE SInv'
<1>1. CASE Next
  <2>1. ASSUME NEW l \in Launches, \/ Dispatch(l) \/ Stop(l) \/ StopTimesOut(l) \/ Abandon(l)
                                   \/ sendStdin(l) \/ HostEnds(l)
        PROVE  SInv'
    BY <2>1, DispatchKeepsSlots, StopKeepsSlots, TimeOutKeepsSlots, AbandonKeepsSlots, StdinKeepsSlots,
       EndsKeepsSlots
  <2>2. ASSUME NEW r \in Runs, sendTerminate(r) \/ GraceEnds(r) PROVE SInv'
    BY <2>2, TerminateKeepsSlots, GraceKeepsSlots
  <2>3. QED
    BY <1>1, <2>1, <2>2, CompleteKeepsSlots, LaunchedKeepsSlots, RegisterKeepsSlots, UnregisterKeepsSlots,
       LostKeepsSlots, ReconnectKeepsSlots, RestartKeepsSlots, ReceivesKeepsSlots DEF Next
<1>2. CASE UNCHANGED vars
  <2>1. /\ Sorted(Now)' /\ Exact(Now)' /\ Room(Now, 0)' /\ Queued' = Queued /\ online' = online
        /\ FrameSet' = FrameSet
    BY <1>2, Rests DEF vars
  <2>2. Around'
    BY <1>2, <2>1 DEF SInv, Around, vars, inFlight
  <2>3. QED
    BY <2>1, <2>2 DEF SInv
<1>3. QED
  BY <1>1, <1>2

(* The registry never waits for more Runs than the host may execute, no     *)
(* slot is idle while a launch waits for one, and each unsettled dispatch   *)
(* is waited for or in the queue, once.                                     *)
THEOREM SlotsAreAlwaysExact == Spec => []SlotsAreExact
<1>1. Init => SInv
  BY InitHasSlots
<1>2. SInv /\ [Next]_vars => SInv'
  BY SlotsStep
<1>3. SInv => SlotsAreExact
  BY SlotsFollow
<1>4. QED
  BY <1>1, <1>2, <1>3, PTL DEF Spec

-----------------------------------------------------------------------------
(* What the registry says of an attempt.  Its launch was sent, or never will *)
(* be; it is over for good; it is the one its Run waits for; and none of its *)
(* Run is in front of it on the host.                                        *)
Types(f, l) == f.kind = "stdin" /\ f.launch = l
Stops(f, l) == f.kind = "stop" /\ f.launch = l
Calls(l) == outcome[l] # "new" /\ l \notin ToSet(waiters)
Gone(l) == Calls(l) /\ l \notin has /\ \A i \in DOMAIN down : ~Starts(down[i], l)
Current(l) == pending[RunOf[l]].launch = l
Foremost(l) == /\ newest[RunOf[l]] \in {l, None}
               /\ \A i \in DOMAIN down : ~StartsRun(down[i], RunOf[l])

(* An attempt is started at most once, and stopped after that.               *)
StartedOnce ==
    /\ \A l \in Launches : l \in has \union owed \union started => Calls(l)
    /\ \A i \in DOMAIN up : Calls(up[i].launch)
    /\ \A i \in DOMAIN down, l \in Launches :
         /\ Starts(down[i], l) => /\ Calls(l) /\ l \notin has
                                  /\ \A j \in DOMAIN down : Starts(down[j], l) => j = i
         /\ Stops(down[i], l) => /\ Calls(l)
                                 /\ \A j \in DOMAIN down : Starts(down[j], l) => j < i

(* What is reported to have ended has, and for good.                         *)
EndedIsGone ==
    /\ \A i \in DOMAIN up : up[i].kind = "complete" => Gone(up[i].launch)
    /\ \A l \in Launches : l \in confirmed \/ outcome[l] = "complete" => Gone(l)

(* The launch sent last is the one the Run waits for, and what is typed goes *)
(* to it.                                                                    *)
Turns ==
    /\ \A l \in Launches, j \in DOMAIN down : Current(l) /\ StartsRun(down[j], RunOf[l]) =>
         \/ Starts(down[j], l)
         \/ \E i \in DOMAIN down : j < i /\ Starts(down[i], l)
    /\ \A l \in Launches : Current(l) /\ l \in started => Foremost(l)
    /\ \A i \in DOMAIN up : up[i].kind = "launched" /\ Current(up[i].launch) => Foremost(up[i].launch)
    /\ \A i \in DOMAIN down, l \in Launches : Types(down[i], l) =>
          /\ newest[RunOf[l]] \in {l, None}
          /\ \A j \in DOMAIN down : StartsRun(down[j], RunOf[l]) => i < j

(* The lines of an attempt, read, on their way and queued, are in order.     *)
LinesRead(l) == \A i \in DOMAIN read[l] :
    /\ read[l][i].launch = l /\ read[l][i].n <= typed[l]
    /\ i > 1 => read[l][i - 1].n < read[l][i].n
LinesSent(l) == \A i \in DOMAIN down : Types(down[i], l) =>
    /\ down[i].n <= typed[l]
    /\ \A j \in DOMAIN read[l] : read[l][j].n < down[i].n
    /\ \A j \in DOMAIN down : Types(down[j], l) /\ i < j => down[i].n < down[j].n
LinesQueued(l) == Current(l) => \A i \in DOMAIN pending[RunOf[l]].stdin :
    /\ l \in started /\ pending[RunOf[l]].stdin[i] <= typed[l]
    /\ \A j \in DOMAIN read[l] : read[l][j].n < pending[RunOf[l]].stdin[i]
    /\ \A j \in DOMAIN pending[RunOf[l]].stdin :
          i < j => pending[RunOf[l]].stdin[i] < pending[RunOf[l]].stdin[j]
Lines == \A l \in Launches : LinesRead(l) /\ LinesSent(l) /\ LinesQueued(l)

(* With at most one loss, the stop of an attempt given up is owed until the  *)
(* daemon is back, and then it is on its way or has arrived.                 *)
OneSocket == IF limits.losses = 0
             THEN sink \in {0, link} /\ grace = {}
             ELSE \/ made = 1 /\ link \in {0, 1} /\ sink \in {0, 1} /\ (link = 1 => sink = 1)
                  \/ made = 2 /\ link = 2 /\ sink \in 0 .. 2
Owing(l) == /\ limits.losses # 0
            /\ \/ sink = 0 /\ l \in owed
               \/ sink = 2 /\ (l \in ending \/ \E i \in DOMAIN down : Stops(down[i], l))
Owes ==
    /\ (link # 0 => restarts < made) /\ restarts <= made
    /\ \A l \in Launches : outcome[l] = "disconnected" =>
          \A i \in DOMAIN down : ~Starts(down[i], l)
    /\ limits.losses + limits.restarts <= 1 =>
         OneSocket /\ \A l \in has : outcome[l] = "disconnected" => Owing(l)

Truth == SInv /\ StartedOnce /\ EndedIsGone /\ Turns /\ Lines /\ Owes

LEMMA TruthFollows == ASSUME Truth PROVE SaidIsSo
<1>0. /\ limits \in Bounds /\ limits.losses \in Nat /\ limits.restarts \in Nat /\ has \subseteq Launches
      /\ down \in Seq(FrameSet) /\ read \in [Launches -> Seq(FrameSet)] /\ confirmed \subseteq Launches
  BY Given, NowIs DEF Truth, SInv, Around
<1>1. ConfirmedIsGone
  <2>1. ASSUME NEW l \in confirmed
        PROVE  /\ l \notin has \union ToSet(waiters)
               /\ \A i \in 1 .. Len(down) : ~(down[i].kind = "launch" /\ down[i].launch = l)
    <3>1. Gone(l)
      BY <1>0, <2>1 DEF Truth, EndedIsGone
    <3>2. DOMAIN down = 1 .. Len(down)
      BY <1>0
    <3>3. QED
      BY <3>1, <3>2 DEF Gone, Calls, Starts
  <2>2. QED
    BY <2>1 DEF ConfirmedIsGone
<1>2. CompleteIsOwn
  BY <1>0 DEF Truth, EndedIsGone, Gone, CompleteIsOwn
<1>3. StdinInOrder
  <2>1. ASSUME NEW l \in Launches, NEW i \in 1 .. Len(read[l])
        PROVE  /\ read[l][i].launch = l
               /\ i > 1 => read[l][i - 1].n < read[l][i].n
    <3>1. read[l] \in Seq(FrameSet)
      BY <1>0
    <3>2. i \in DOMAIN read[l]
      BY <3>1
    <3>3. LinesRead(l)
      BY DEF Truth, Lines
    <3>4. QED
      BY <3>2, <3>3 DEF LinesRead
  <2>2. QED
    BY <2>1 DEF StdinInOrder
<1>4. GivenUpIsStopped
  <2>1. ASSUME limits.losses + limits.restarts <= 1, NEW l \in has, outcome[l] = "disconnected"
        PROVE  \/ l \in owed \union ending
               \/ \E i \in 1 .. Len(down) : down[i].kind = "stop" /\ l \in Named(down[i])
    <3>1. Owing(l)
      BY <2>1 DEF Truth, Owes
    <3>2. DOMAIN down = 1 .. Len(down)
      BY <1>0
    <3>3. CASE \E i \in DOMAIN down : Stops(down[i], l)
      BY <1>0, <3>2, <3>3 DEF Stops, Named
    <3>4. QED
      BY <3>1, <3>3 DEF Owing
  <2>2. QED
    BY <2>1 DEF GivenUpIsStopped
<1>5. QED
  BY <1>1, <1>2, <1>3, <1>4 DEF SaidIsSo, FramesAreTheirs

(* What is known of the state wherever one of these facts is looked at.      *)
LEMMA ShapeIs ==
  ASSUME SInv
  PROVE  /\ limits \in Bounds /\ RunOf \in [Launches -> Runs] /\ None \notin Launches
         /\ limits.losses \in Nat /\ limits.restarts \in Nat
         /\ down \in Seq(FrameSet) /\ DOMAIN down = 1 .. Len(down) /\ Len(down) \in Nat
         /\ up \in Seq([kind : {"complete", "launched"}, launch : Launches])
         /\ \A i \in DOMAIN up : up[i].launch \in Launches /\ up[i].kind \in {"complete", "launched"}
         /\ \A i \in DOMAIN down : down[i].n \in Int
         /\ \A l \in Launches : /\ read[l] \in Seq(FrameSet) /\ DOMAIN read[l] = 1 .. Len(read[l])
                                /\ Len(read[l]) \in Nat /\ typed[l] \in Int
                                /\ \A i \in DOMAIN read[l] : read[l][i].n \in Int
         /\ \A r \in Runs : /\ pending[r].launch = None => pending[r].stdin = <<>>
                            /\ pending[r].launch # None => RunOf[pending[r].launch] = r
                            /\ pending[r].stdin \in Seq(1 .. limits.stdin)
         /\ has \subseteq Launches /\ ending \subseteq has
         /\ \A i \in DOMAIN down : down[i].kind \in {"launch", "stdin"} => down[i].launch \in Launches
         /\ online => \A r \in Runs : pending[r].stdin = <<>>
         /\ ~online => down = <<>>
<1> DEFINE R == [kind : {"complete", "launched"}, launch : Launches]
<1>1. /\ limits \in Bounds /\ RunOf \in [Launches -> Runs] /\ None \notin Launches
      /\ limits.losses \in Nat /\ limits.restarts \in Nat /\ limits.stdin \in Nat
  BY Given DEF SInv, Around
<1>2. /\ down \in Seq(FrameSet) /\ up \in Seq(R) /\ read \in [Launches -> Seq(FrameSet)]
      /\ typed \in [Launches -> 0 .. limits.stdin] /\ has \subseteq Launches /\ ending \subseteq has
      /\ pending \in [Runs -> [launch : Launches \union {None}, stdin : Seq(1 .. limits.stdin)]]
  BY NowIs DEF SInv, Around
<1>3. \A f \in R : f.launch \in Launches /\ f.kind \in {"complete", "launched"}
  OBVIOUS
<1>4. \A f \in FrameSet : f.n \in Int
  BY <1>1 DEF FrameSet
<1> HIDE DEF R
<1>5. \A i \in DOMAIN up : up[i] \in R
  BY <1>2, Member
<1>6. \A i \in DOMAIN down : down[i] \in FrameSet
  BY <1>2, Member
<1>7. DOMAIN down = 1 .. Len(down) /\ Len(down) \in Nat
  BY <1>2
<1>8. ASSUME NEW l \in Launches
      PROVE  /\ read[l] \in Seq(FrameSet) /\ DOMAIN read[l] = 1 .. Len(read[l])
             /\ Len(read[l]) \in Nat /\ typed[l] \in Int
             /\ \A i \in DOMAIN read[l] : read[l][i].n \in Int
  <2>1. read[l] \in Seq(FrameSet) /\ typed[l] \in Int
    BY <1>1, <1>2
  <2>2. \A i \in DOMAIN read[l] : read[l][i] \in FrameSet
    BY <2>1, Member
  <2>3. DOMAIN read[l] = 1 .. Len(read[l]) /\ Len(read[l]) \in Nat
    BY <2>1
  <2>4. QED
    BY <1>4, <2>1, <2>2, <2>3
<1>9. ASSUME NEW r \in Runs PROVE pending[r].stdin \in Seq(1 .. limits.stdin)
  BY <1>2
<1>10. /\ \A r \in Runs : /\ pending[r].launch = None => pending[r].stdin = <<>>
                          /\ pending[r].launch # None => RunOf[pending[r].launch] = r
       /\ \A i \in DOMAIN down : down[i].kind \in {"launch", "stdin"} => down[i].launch \in Launches
       /\ online => \A r \in Runs : pending[r].stdin = <<>>
       /\ ~online => down = <<>>
  BY NowIs DEF SInv, Sorted
<1>11. QED
  BY <1>1, <1>2, <1>3, <1>4, <1>5, <1>6, <1>7, <1>8, <1>9, <1>10 DEF R

(* The frames a step adds.                                                   *)
Fresh == DOMAIN down' \ DOMAIN down
Extends ==
    /\ DOMAIN down' = 1 .. Len(down') /\ Len(down') \in Nat
    /\ \A i \in DOMAIN down : i \in DOMAIN down' /\ down'[i] = down[i]
    /\ \A i \in DOMAIN down, j \in Fresh : i < j
    /\ \A l \in Launches :
          /\ Calls(l) => Calls(l)'
          /\ Current(l)' =>
                \/ Current(l) /\ \A j \in Fresh : ~StartsRun(down'[j], RunOf[l])
                \/ \E i \in Fresh : /\ Starts(down'[i], l)
                                    /\ \A j \in Fresh : StartsRun(down'[j], RunOf[l]) => j <= i
    /\ \A i \in Fresh : down'[i].kind \in {"launch", "stop"}
    /\ \A i \in Fresh, l \in Launches :
          /\ Starts(down'[i], l) => /\ ~Calls(l) /\ Calls(l)'
                                    /\ \A j \in Fresh : Starts(down'[j], l) => j = i
          /\ Stops(down'[i], l) => /\ Calls(l)'
                                   /\ \A j \in Fresh : Starts(down'[j], l) => j < i
    /\ \A r \in Runs : pending'[r] = pending[r] \/ pending'[r].stdin = <<>>

LEMMA TurnExtends == ASSUME SInv, NEW X, Turnover(X) PROVE Extends
<1>0. /\ down \in Seq(FrameSet) /\ DOMAIN down = 1 .. Len(down) /\ Len(down) \in Nat
  BY ShapeIs
<1>1. PICK more : Advance(Now, Later, more)
  BY DEF Turnover
<1>2. more \in Seq(FrameSet) /\ down' = down \o more
  BY <1>1 DEF Advance, Now, Later
<1>3. /\ down' \in Seq(FrameSet)
      /\ \A i \in DOMAIN down : i \in DOMAIN down' /\ down'[i] = down[i]
      /\ \A i \in DOMAIN more : Len(down) + i \in DOMAIN down' /\ down'[Len(down) + i] = more[i]
      /\ \A i \in DOMAIN down' : i \in DOMAIN down \/ \E j \in DOMAIN more : i = Len(down) + j
  <2>1. /\ down \o more \in Seq(FrameSet)
        /\ \A i \in DOMAIN down : i \in DOMAIN (down \o more) /\ (down \o more)[i] = down[i]
        /\ \A i \in DOMAIN more : Len(down) + i \in DOMAIN (down \o more) /\ (down \o more)[Len(down) + i] = more[i]
        /\ \A i \in DOMAIN (down \o more) : i \in DOMAIN down \/ \E j \in DOMAIN more : i = Len(down) + j
    <3>1. down \in Seq(FrameSet) /\ more \in Seq(FrameSet)
      BY <1>0, <1>2
    <3>2. QED
      BY <3>1, Joined
  <2>2. QED
    BY <1>2, <2>1, Zenon
<1>4. DOMAIN more = 1 .. Len(more) /\ Len(more) \in Nat /\ DOMAIN down' = 1 .. Len(down') /\ Len(down') \in Nat
  BY <1>2, <1>3
<1>5. \A j \in DOMAIN more : Len(down) + j \in Fresh /\ down'[Len(down) + j] = more[j]
  BY <1>0, <1>3, <1>4 DEF Fresh
<1>6. \A i \in Fresh : \E j \in DOMAIN more : i = Len(down) + j /\ down'[i] = more[j]
  BY <1>3 DEF Fresh
<1>7. \A i \in DOMAIN down, j \in Fresh : i < j
  BY <1>0, <1>4, <1>6
<1>8. \A l \in Launches : /\ CallsIn(Now, l) <=> Calls(l)
                          /\ CallsIn(Later, l) <=> Calls(l)'
                          /\ Now.pending[RunOf[l]].launch = l <=> Current(l)
                          /\ Later.pending[RunOf[l]].launch = l <=> Current(l)'
  BY DEF CallsIn, Now, Later, Calls, Current
<1>9. ASSUME NEW l \in Launches
      PROVE  /\ Calls(l) => Calls(l)'
             /\ Current(l)' =>
                  \/ Current(l) /\ \A j \in Fresh : ~StartsRun(down'[j], RunOf[l])
                  \/ \E i \in Fresh : /\ Starts(down'[i], l)
                                      /\ \A j \in Fresh : StartsRun(down'[j], RunOf[l]) => j <= i
  <2>1. Calls(l) => Calls(l)'
    BY <1>1, <1>8 DEF Advance
  <2>2. ASSUME Current(l)'
        PROVE  \/ Current(l) /\ \A j \in DOMAIN more : ~StartsRun(more[j], RunOf[l])
               \/ \E i \in DOMAIN more :
                      /\ Starts(more[i], l)
                      /\ \A j \in DOMAIN more : StartsRun(more[j], RunOf[l]) => j <= i
    BY <1>1, <1>8, <2>2 DEF Advance
  <2>3. ASSUME NEW i \in DOMAIN more, Starts(more[i], l),
               \A j \in DOMAIN more : StartsRun(more[j], RunOf[l]) => j <= i
        PROVE  \E k \in Fresh : /\ Starts(down'[k], l)
                                /\ \A j \in Fresh : StartsRun(down'[j], RunOf[l]) => j <= k
    <3>1. Len(down) + i \in Fresh /\ Starts(down'[Len(down) + i], l)
      BY <1>5, <2>3
    <3>2. ASSUME NEW j \in Fresh, StartsRun(down'[j], RunOf[l]) PROVE j <= Len(down) + i
      <4>1. PICK m \in DOMAIN more : j = Len(down) + m /\ down'[j] = more[m]
        BY <1>6
      <4>2. m <= i
        BY <2>3, <3>2, <4>1
      <4>3. QED
        BY <1>0, <1>4, <4>1, <4>2
    <3>3. QED
      BY <3>1, <3>2
  <2>4. ASSUME \A j \in DOMAIN more : ~StartsRun(more[j], RunOf[l])
        PROVE  \A j \in Fresh : ~StartsRun(down'[j], RunOf[l])
    BY <1>6, <2>4
  <2>5. QED
    BY <2>1, <2>2, <2>3, <2>4
<1>10. ASSUME NEW i \in Fresh
       PROVE  /\ down'[i].kind \in {"launch", "stop"}
              /\ \A l \in Launches :
                   /\ Starts(down'[i], l) => /\ ~Calls(l) /\ Calls(l)'
                                             /\ \A j \in Fresh : Starts(down'[j], l) => j = i
                   /\ Stops(down'[i], l) => /\ Calls(l)'
                                            /\ \A j \in Fresh : Starts(down'[j], l) => j < i
  <2>1. PICK k \in DOMAIN more : i = Len(down) + k /\ down'[i] = more[k]
    BY <1>6
  <2>2. more[k].kind \in {"launch", "stop"}
    BY <1>1 DEF Advance
  <2>3. ASSUME NEW l \in Launches
        PROVE  /\ Starts(more[k], l) => /\ ~Calls(l) /\ Calls(l)'
                                        /\ \A j \in DOMAIN more : Starts(more[j], l) => j = k
               /\ Stops(more[k], l) => Calls(l)' /\ \A j \in DOMAIN more : Starts(more[j], l) => j < k
    BY <1>1, <1>8 DEF Advance, Stops
  <2>4. ASSUME NEW l \in Launches, Starts(more[k], l), NEW j \in Fresh, Starts(down'[j], l) PROVE j = i
    BY <1>6, <2>1, <2>3, <2>4
  <2>5. ASSUME NEW l \in Launches, Stops(more[k], l), NEW j \in Fresh, Starts(down'[j], l) PROVE j < i
    <3>1. PICK m \in DOMAIN more : j = Len(down) + m /\ down'[j] = more[m]
      BY <1>6
    <3>2. m < k
      BY <2>3, <2>5, <3>1
    <3>3. QED
      BY <1>0, <1>4, <2>1, <3>1, <3>2
  <2>6. QED
    BY <2>1, <2>2, <2>3, <2>4, <2>5
<1>11. \A r \in Runs : pending'[r] = pending[r] \/ pending'[r].stdin = <<>>
  BY <1>1 DEF Advance, Now, Later
<1>12. QED
  BY <1>3, <1>4, <1>7, <1>9, <1>10, <1>11 DEF Extends

-----------------------------------------------------------------------------
(* The registry untouched is a registry turned over. *)
LEMMA RestExtends ==
  ASSUME SInv, UNCHANGED <<pending, waiters, outcome, down>>
  PROVE  Extends
<1>1. DOMAIN down = 1 .. Len(down) /\ Len(down) \in Nat
  BY ShapeIs
<1>2. Fresh = {}
  BY DEF Fresh
<1>3. \A l \in Launches : (Calls(l) <=> Calls(l)') /\ (Current(l) <=> Current(l)')
  BY DEF Calls, Current
<1>4. QED
  BY <1>1, <1>2, <1>3 DEF Extends

LEMMA CurrentCalls ==
  ASSUME SInv, NEW l \in Launches, Current(l)
  PROVE  Calls(l) /\ outcome[l] = "waited"
BY NowIs DEF SInv, Exact, Current, Calls

LEMMA DisconnectedCalls ==
  ASSUME SInv, NEW l \in Launches, outcome[l] = "disconnected"
  PROVE  Calls(l)
BY NowIs DEF SInv, Exact, Calls

LEMMA GoneStays ==
  ASSUME Extends, has' \subseteq has, NEW l \in Launches, Gone(l)
  PROVE  Gone(l)'
<1>1. Calls(l) /\ l \notin has /\ \A i \in DOMAIN down : ~Starts(down[i], l)
  BY DEF Gone
<1>2. Calls(l)' /\ l \notin has'
  BY <1>1 DEF Extends
<1>3. ASSUME NEW i \in DOMAIN down', Starts(down'[i], l) PROVE FALSE
  <2>1. CASE i \in DOMAIN down
    BY <1>1, <1>3, <2>1 DEF Extends
  <2>2. CASE i \in Fresh
    BY <1>1, <1>3, <2>2 DEF Extends
  <2>3. QED
    BY <2>1, <2>2 DEF Fresh
<1>4. QED
  BY <1>2, <1>3 DEF Gone

(* The parts, one by one, over a turn of the registry.                     *)
LEMMA StartsOnceStill ==
  ASSUME Truth, Extends, has' \subseteq has,
         \A l \in Launches : l \in owed' \union started' => Calls(l),
         \A i \in DOMAIN up' : up'[i].launch \in Launches /\ Calls(up'[i].launch)
  PROVE  StartedOnce'
<1>0. StartedOnce /\ \A l \in Launches : Calls(l) => Calls(l)'
  BY DEF Truth, Extends
<1>1. \A l \in Launches : l \in has' \union owed' \union started' => Calls(l)'
  BY <1>0 DEF StartedOnce
<1>2. (\A i \in DOMAIN up : Calls(up[i].launch))'
  <2>1. ASSUME NEW i \in DOMAIN up', NEW l \in Launches, up'[i].launch = l PROVE Calls(l)'
    BY <1>0, <2>1
  <2>2. QED
    BY <2>1 DEF Calls
<1>3. ASSUME NEW i \in DOMAIN down', NEW l \in Launches
      PROVE  /\ Starts(down'[i], l) => /\ Calls(l)' /\ l \notin has'
                                       /\ \A j \in DOMAIN down' : Starts(down'[j], l) => j = i
             /\ Stops(down'[i], l) => /\ Calls(l)'
                                      /\ \A j \in DOMAIN down' : Starts(down'[j], l) => j < i
  <2>1. CASE i \in DOMAIN down
    <3>1. down'[i] = down[i]
      BY <2>1 DEF Extends
    <3>2. ASSUME Calls(l), NEW j \in DOMAIN down', Starts(down'[j], l)
          PROVE  j \in DOMAIN down /\ Starts(down[j], l)
      <4>1. j \notin Fresh
        BY <3>2 DEF Extends
      <4>2. QED
        BY <3>2, <4>1 DEF Extends, Fresh
    <3>3. /\ Starts(down[i], l) => /\ Calls(l) /\ l \notin has
                                   /\ \A j \in DOMAIN down : Starts(down[j], l) => j = i
          /\ Stops(down[i], l) => /\ Calls(l)
                                  /\ \A j \in DOMAIN down : Starts(down[j], l) => j < i
      BY <1>0, <2>1 DEF StartedOnce
    <3>4. QED
      BY <1>0, <3>1, <3>2, <3>3
  <2>2. CASE i \in Fresh
    <3>1. /\ Starts(down'[i], l) => /\ ~Calls(l) /\ Calls(l)'
                                    /\ \A j \in Fresh : Starts(down'[j], l) => j = i
          /\ Stops(down'[i], l) => /\ Calls(l)'
                                   /\ \A j \in Fresh : Starts(down'[j], l) => j < i
      BY <2>2 DEF Extends
    <3>2. ~Calls(l) => l \notin has
      BY <1>0 DEF StartedOnce
    <3>3. \A j \in DOMAIN down : j < i /\ down'[j] = down[j]
      BY <2>2 DEF Extends
    <3>4. \A j \in DOMAIN down : Starts(down[j], l) => Calls(l)
      BY <1>0 DEF StartedOnce
    <3>5. \A j \in DOMAIN down' : j \in DOMAIN down \/ j \in Fresh
      BY DEF Fresh
    <3>6. QED
      BY <3>1, <3>2, <3>3, <3>4, <3>5
  <2>3. QED
    BY <2>1, <2>2 DEF Fresh
<1>4. QED
  BY <1>1, <1>2, <1>3 DEF StartedOnce

LEMMA TurnsStill ==
  ASSUME Truth, Extends,
         \A r \in Runs : newest'[r] \in {newest[r], None},
         \A l \in Launches : l \in started' => Calls(l) /\ (Current(l) => Foremost(l)),
         \A i \in DOMAIN up' : /\ up'[i].launch \in Launches /\ Calls(up'[i].launch)
                               /\ up'[i].kind = "launched" /\ Current(up'[i].launch) => Foremost(up'[i].launch)
  PROVE  Turns'
<1>0. /\ Turns /\ RunOf \in [Launches -> Runs]
      /\ \A i \in DOMAIN down' : i \in DOMAIN down \/ i \in Fresh
      /\ \A i \in DOMAIN down : i \in DOMAIN down' /\ down'[i] = down[i]
      /\ \A i \in DOMAIN down, j \in Fresh : i < j
  BY ShapeIs DEF Truth, Fresh, Extends
<1>1. ASSUME NEW l \in Launches, NEW j \in DOMAIN down', Current(l)', StartsRun(down'[j], RunOf[l])
      PROVE  \/ Starts(down'[j], l)
             \/ \E i \in DOMAIN down' : j < i /\ Starts(down'[i], l)
  <2>1. CASE Current(l) /\ \A k \in Fresh : ~StartsRun(down'[k], RunOf[l])
    <3>1. j \in DOMAIN down /\ StartsRun(down[j], RunOf[l])
      BY <1>0, <1>1, <2>1
    <3>2. Starts(down[j], l) \/ \E i \in DOMAIN down : j < i /\ Starts(down[i], l)
      BY <1>0, <2>1, <3>1 DEF Turns
    <3>3. QED
      BY <1>0, <3>1, <3>2
  <2>2. ASSUME NEW i \in Fresh, Starts(down'[i], l), \A k \in Fresh : StartsRun(down'[k], RunOf[l]) => k <= i
        PROVE  Starts(down'[j], l) \/ \E k \in DOMAIN down' : j < k /\ Starts(down'[k], l)
    <3>1. i \in DOMAIN down' /\ DOMAIN down' \subseteq Int
      BY DEF Fresh, Extends
    <3>2. j < i \/ j = i
      BY <1>0, <1>1, <2>2, <3>1
    <3>3. QED
      BY <2>2, <3>1, <3>2
  <2>3. QED
    BY <1>1, <2>1, <2>2 DEF Extends
<1>2. ASSUME NEW l \in Launches, Calls(l), Current(l) => Foremost(l), Current(l)'
      PROVE  Foremost(l)'
  <2>1. Current(l) /\ \A j \in Fresh : ~StartsRun(down'[j], RunOf[l])
    BY <1>2 DEF Extends
  <2>2. Foremost(l)
    BY <1>2, <2>1
  <2>3. newest'[RunOf[l]] \in {l, None}
    BY <1>0, <2>2 DEF Foremost
  <2>4. \A j \in DOMAIN down' : ~StartsRun(down'[j], RunOf[l])
    BY <1>0, <2>1, <2>2 DEF Foremost
  <2>5. QED
    BY <2>3, <2>4 DEF Foremost
<1>3. \A l \in Launches : l \in started' /\ Current(l)' => Foremost(l)'
  BY <1>2
<1>4. (\A i \in DOMAIN up : up[i].kind = "launched" /\ Current(up[i].launch) => Foremost(up[i].launch))'
  <2>1. ASSUME NEW i \in DOMAIN up', NEW l \in Launches, up'[i].launch = l, up'[i].kind = "launched", Current(l)'
        PROVE  Foremost(l)'
    BY <1>2, <2>1
  <2>2. QED
    BY <2>1 DEF Current, Foremost
<1>5. ASSUME NEW i \in DOMAIN down', NEW l \in Launches, Types(down'[i], l)
      PROVE  /\ newest'[RunOf[l]] \in {l, None}
             /\ \A j \in DOMAIN down' : StartsRun(down'[j], RunOf[l]) => i < j
  <2>1. i \in DOMAIN down /\ Types(down[i], l)
    <3>1. i \notin Fresh
      BY <1>5 DEF Extends, Types
    <3>2. QED
      BY <1>0, <1>5, <3>1
  <2>2. /\ newest[RunOf[l]] \in {l, None}
        /\ \A j \in DOMAIN down : StartsRun(down[j], RunOf[l]) => i < j
    BY <1>0, <2>1 DEF Turns
  <2>3. QED
    BY <1>0, <2>1, <2>2
<1>6. QED
  BY <1>1, <1>3, <1>4, <1>5 DEF Turns

LEMMA LinesStill ==
  ASSUME Truth, Extends, UNCHANGED <<read, typed>>, started \subseteq started'
  PROVE  Lines'
<1>0. /\ Lines /\ RunOf \in [Launches -> Runs]
      /\ \A i \in DOMAIN down' : i \in DOMAIN down \/ i \in Fresh
      /\ \A i \in DOMAIN down : i \in DOMAIN down' /\ down'[i] = down[i]
  BY ShapeIs DEF Truth, Fresh, Extends
<1>1. ASSUME NEW l \in Launches PROVE LinesRead(l)'
  BY <1>0 DEF Lines, LinesRead
<1>2. ASSUME NEW l \in Launches PROVE LinesSent(l)'
  <2>1. \A i \in DOMAIN down' : Types(down'[i], l) => i \in DOMAIN down /\ Types(down[i], l) /\ down'[i] = down[i]
    BY <1>0 DEF Extends, Types
  <2>2. LinesSent(l)
    BY <1>0 DEF Lines
  <2>3. QED
    BY <2>1, <2>2 DEF LinesSent
<1>3. ASSUME NEW l \in Launches PROVE LinesQueued(l)'
  <2>1. SUFFICES ASSUME Current(l)', pending'[RunOf[l]].stdin # <<>> PROVE LinesQueued(l)'
    <3>1. pending'[RunOf[l]].stdin = <<>> => DOMAIN pending'[RunOf[l]].stdin = {}
      OBVIOUS
    <3>2. QED
      BY <2>1, <3>1 DEF LinesQueued
  <2>2. pending'[RunOf[l]] = pending[RunOf[l]]
    BY <1>0, <2>1 DEF Extends
  <2>3. Current(l) /\ LinesQueued(l)
    BY <1>0, <2>1, <2>2 DEF Current, Lines
  <2>4. QED
    BY <2>2, <2>3 DEF LinesQueued
<1>4. QED
  BY <1>1, <1>2, <1>3 DEF Lines

LEMMA OwesStill ==
  ASSUME Truth, SInv', Extends, UNCHANGED <<linkVars, ending>>, has' \subseteq has,
         owed \subseteq owed', grace' \subseteq grace,
         \A l \in Launches : outcome'[l] = "disconnected" =>
            outcome[l] = "disconnected" \/ (sink = 0 /\ l \in owed' /\ grace # {})
  PROVE  Owes'
<1>0. /\ Owes /\ SInv /\ UNCHANGED <<link, sink, made, bound, restarts, limits>>
      /\ has \subseteq Launches
  BY ShapeIs DEF Truth, linkVars
<1>1. sink = 0 => down' = <<>>
  <2>1. ~online' => down' = <<>>
    <3>1. (~online => Now.down = <<>>)'
      BY DEF SInv, Sorted
    <3>2. QED
      BY <3>1 DEF Now
  <2>2. QED
    BY <1>0, <2>1 DEF online
<1>2. ASSUME NEW l \in Launches, outcome'[l] = "disconnected", NEW i \in DOMAIN down'
      PROVE  ~Starts(down'[i], l)
  <2>1. CASE sink = 0
    <3>1. DOMAIN down' = {}
      BY <1>1, <2>1
    <3>2. QED
      BY <1>2, <3>1
  <2>2. CASE outcome[l] = "disconnected"
    <3>1. Calls(l) /\ \A j \in DOMAIN down : ~Starts(down[j], l)
      BY <1>0, <2>2, DisconnectedCalls DEF Owes
    <3>2. CASE i \in DOMAIN down
      BY <3>1, <3>2 DEF Extends
    <3>3. CASE i \in Fresh
      BY <3>1, <3>3 DEF Extends
    <3>4. QED
      BY <1>2, <3>2, <3>3 DEF Fresh
  <2>3. QED
    BY <1>2, <2>1, <2>2
<1>3. ASSUME limits.losses + limits.restarts <= 1
      PROVE  OneSocket' /\ \A l \in has' : outcome'[l] = "disconnected" => Owing(l)'
  <2>1. OneSocket /\ \A l \in has : outcome[l] = "disconnected" => Owing(l)
    BY <1>0, <1>3 DEF Owes
  <2>2. OneSocket'
    BY <1>0, <2>1 DEF OneSocket
  <2>3. ASSUME NEW l \in has', outcome'[l] = "disconnected" PROVE Owing(l)'
    <3>1. CASE outcome[l] = "disconnected"
      <4>1. Owing(l)
        BY <2>1, <3>1
      <4>2. \A i \in DOMAIN down : i \in DOMAIN down' /\ down'[i] = down[i]
        BY DEF Extends
      <4>3. QED
        BY <1>0, <4>1, <4>2 DEF Owing
    <3>2. CASE sink = 0 /\ l \in owed' /\ grace # {}
      <4>1. limits.losses # 0
        BY <2>1, <3>2 DEF OneSocket
      <4>2. QED
        BY <1>0, <3>2, <4>1 DEF Owing
    <3>3. QED
      BY <1>0, <2>3, <3>1, <3>2
  <2>4. QED
    BY <2>2, <2>3
<1>4. (link' # 0 => restarts' < made') /\ restarts' <= made'
  BY <1>0 DEF Owes
<1>5. QED
  BY <1>0, <1>2, <1>3, <1>4 DEF Owes

-----------------------------------------------------------------------------
(* A turn of the registry keeps what it says true, when it adds nothing to   *)
(* what is known of the host but what is so.                                 *)
LEMMA TurnKeepsTruth ==
  ASSUME Truth, SInv', NEW X, Turnover(X),
         started' = started, grace' \subseteq grace, owed \subseteq owed',
         \A l \in Launches : l \in owed' => l \in owed \/ Current(l),
         \A i \in DOMAIN up' : \E j \in DOMAIN up : up'[i] = up[j],
         \A l \in Launches : l \in confirmed' => l \in confirmed \/ Gone(l),
         \A l \in X : l \in Launches => outcome'[l] # "complete" \/ Gone(l),
         \A l \in X : outcome'[l] = "disconnected" => sink = 0 /\ l \in owed' /\ grace # {}
  PROVE  Truth'
<1>0. /\ SInv /\ StartedOnce /\ EndedIsGone /\ Turns
      /\ UNCHANGED <<linkVars, has, newest, ending, lost, read, typed>>
      /\ \A i \in DOMAIN up : up[i].launch \in Launches
  BY ShapeIs DEF Truth, Turnover
<1>1. Extends
  BY <1>0, TurnExtends
<1>2. \A l \in Launches : l \notin X /\ outcome'[l] \in {"complete", "disconnected"} => outcome[l] = outcome'[l]
  BY DEF Turnover, Tells, Now, Later
<1>3. StartedOnce'
  <2>1. \A l \in Launches : l \in owed' \union started' => Calls(l)
    BY <1>0, CurrentCalls DEF StartedOnce
  <2>2. \A i \in DOMAIN up' : up'[i].launch \in Launches /\ Calls(up'[i].launch)
    BY <1>0 DEF StartedOnce
  <2>3. has' \subseteq has
    BY <1>0
  <2>4. QED
    BY <1>1, <2>1, <2>2, <2>3, StartsOnceStill
<1>4. EndedIsGone'
  <2>0. \A l \in Launches : Gone(l) => Gone(l)'
    BY <1>0, <1>1, GoneStays
  <2>1. ASSUME NEW i \in DOMAIN up', up'[i].kind = "complete", NEW l \in Launches, up'[i].launch = l
        PROVE  Gone(l)'
    BY <1>0, <2>0, <2>1 DEF EndedIsGone
  <2>2. (\A i \in DOMAIN up : up[i].kind = "complete" => Gone(up[i].launch))'
    <3>1. \A i \in DOMAIN up' : up'[i].launch \in Launches
      BY <1>0
    <3>2. QED
      BY <2>1, <3>1 DEF Gone, Calls
  <2>3. ASSUME NEW l \in Launches, l \in confirmed' \/ outcome'[l] = "complete" PROVE Gone(l)'
    BY <1>0, <1>2, <2>0, <2>3 DEF EndedIsGone
  <2>4. QED
    BY <2>2, <2>3 DEF EndedIsGone
<1>5. Turns'
  <2>1. \A l \in Launches : l \in started' => Calls(l) /\ (Current(l) => Foremost(l))
    BY <1>0 DEF StartedOnce, Turns
  <2>2. \A i \in DOMAIN up' : /\ up'[i].launch \in Launches /\ Calls(up'[i].launch)
                              /\ up'[i].kind = "launched" /\ Current(up'[i].launch) => Foremost(up'[i].launch)
    BY <1>0 DEF StartedOnce, Turns
  <2>3. \A r \in Runs : newest'[r] \in {newest[r], None}
    BY <1>0
  <2>4. QED
    BY <1>1, <2>1, <2>2, <2>3, TurnsStill
<1>6. Lines'
  BY <1>0, <1>1, LinesStill
<1>7. Owes'
  <2>1. \A l \in Launches : outcome'[l] = "disconnected" =>
            outcome[l] = "disconnected" \/ (sink = 0 /\ l \in owed' /\ grace # {})
    BY <1>2
  <2>2. UNCHANGED <<linkVars, ending>> /\ has' \subseteq has
    BY <1>0
  <2>3. QED
    BY <1>1, <2>1, <2>2, OwesStill
<1>8. QED
  BY <1>3, <1>4, <1>5, <1>6, <1>7 DEF Truth

LEMMA DispatchKeepsTruth == ASSUME Truth, NEW l \in Launches, Dispatch(l) PROVE Truth'
<1>1. SInv /\ SInv'
  BY DispatchKeepsSlots DEF Truth
<1>2. Turnover({}) /\ UNCHANGED <<grace, owed, stopping, confirmed, up, started, stops>>
  BY <1>1, DispatchTurns
<1>3. QED
  BY <1>1, <1>2, TurnKeepsTruth

LEMMA StopKeepsTruth == ASSUME Truth, NEW l \in Launches, Stop(l) PROVE Truth'
<1>1. SInv /\ SInv'
  BY StopKeepsSlots DEF Truth
<1>2. Turnover({}) /\ UNCHANGED <<grace, owed, confirmed, up, started, pending>>
  BY <1>1, StopTurns
<1>3. QED
  BY <1>1, <1>2, TurnKeepsTruth

LEMMA TerminateKeepsTruth == ASSUME Truth, NEW r \in Runs, sendTerminate(r) PROVE Truth'
<1>1. SInv /\ SInv'
  BY TerminateKeepsSlots DEF Truth
<1>2. Turnover({}) /\ UNCHANGED <<grace, stopping, confirmed, up, started, pending>>
  BY <1>1, TerminateTurns
<1>3. owed' = OwedAfter(r)
  BY DEF sendTerminate
<1>4. \A l \in Launches : l \in owed' => l \in owed \/ Current(l)
  <2>1. \A l \in Launches : l = pending[r].launch => RunOf[l] = r
    BY <1>1, ShapeIs
  <2>2. QED
    BY <1>3, <2>1 DEF OwedAfter, Current
<1>5. owed \subseteq owed'
  BY <1>3 DEF OwedAfter
<1>6. QED
  BY <1>1, <1>2, <1>4, <1>5, TurnKeepsTruth

LEMMA AbandonKeepsTruth == ASSUME Truth, NEW l \in Launches, Abandon(l) PROVE Truth'
<1>1. SInv /\ SInv'
  BY AbandonKeepsSlots DEF Truth
<1>2. Turnover({}) /\ UNCHANGED <<stopping, confirmed, up, started, stops>>
  BY <1>1, AbandonTurns
<1>3. /\ owed' = OwedAfter(RunOf[l]) /\ grace' \subseteq grace /\ Current(l)
  BY DEF Abandon, Current
<1>4. \A k \in Launches : k \in owed' => k \in owed \/ Current(k)
  BY <1>3 DEF OwedAfter, Current
<1>5. owed \subseteq owed'
  BY <1>3 DEF OwedAfter
<1>6. QED
  BY <1>1, <1>2, <1>3, <1>4, <1>5, TurnKeepsTruth

LEMMA GraceKeepsTruth == ASSUME Truth, NEW r \in Runs, GraceEnds(r) PROVE Truth'
<1> DEFINE l == pending[r].launch
<1>1. SInv /\ SInv'
  BY GraceKeepsSlots DEF Truth
<1>2. /\ r \in grace /\ grace' \subseteq grace /\ owed' = owed \union {l}
      /\ Becomes(Ended(Now, l, "disconnected"))
      /\ UNCHANGED <<linkVars, stopping, confirmed, hostVars, counters>>
  BY DEF GraceEnds
<1>3. pending[r] # Idle /\ sink = 0
  BY <1>1, <1>2 DEF SInv, Around, inFlight, online
<1>4. l \in Launches /\ RunOf[l] = r
  BY <1>1, <1>3, NowIs, IdleIs DEF SInv, Sorted
<1>5. Current(l)
  BY <1>4 DEF Current
<1> HIDE DEF l
<1>6. Turnover({l}) /\ outcome'[l] = "disconnected"
  <2>1. "disconnected" \in Settled /\ pending[RunOf[l]].launch = l
    BY <1>5 DEF Settled, Current
  <2>2. QED
    BY <1>1, <1>2, <1>4, <2>1, EndTurns DEF hostVars, counters
<1>7. UNCHANGED <<confirmed, up, started>>
  BY <1>2 DEF hostVars
<1>8. QED
  BY <1>1, <1>2, <1>3, <1>5, <1>6, <1>7, TurnKeepsTruth

(* A step that leaves the registry alone is a turn of nothing. *)
LEMMA RestTurns ==
  ASSUME SInv, UNCHANGED <<pending, waiters, outcome, down, linkVars, has, newest, ending, lost, read, typed>>
  PROVE  Turnover({})
<1>1. Later = Now
  BY DEF Later, Now
<1>2. Sorted(Later) /\ Exact(Later) /\ Room(Later, 0) /\ Tells(Now, Later, {})
  BY <1>1 DEF SInv, Tells
<1>3. Advance(Now, Now, <<>>)
  <2>1. Now.down = Now.down \o <<>> /\ <<>> \in Seq(FrameSet)
    BY DEF SInv, Sorted, Registries
  <2>2. QED
    BY <2>1 DEF Advance
<1>4. QED
  BY <1>1, <1>2, <1>3 DEF Turnover

LEMMA TimeOutKeepsTruth == ASSUME Truth, NEW l \in Launches, StopTimesOut(l) PROVE Truth'
<1>1. SInv /\ SInv'
  BY TimeOutKeepsSlots DEF Truth
<1>2. UNCHANGED <<linkVars, pending, waiters, outcome, down, grace, owed, confirmed, hostVars, counters>>
  BY DEF StopTimesOut
<1>3. Turnover({}) /\ UNCHANGED <<up, started>>
  BY <1>1, <1>2, RestTurns DEF hostVars, counters
<1>4. QED
  BY <1>1, <1>2, <1>3, TurnKeepsTruth

LEMMA CompleteKeepsTruth == ASSUME Truth, receiveComplete PROVE Truth'
<1> DEFINE l == Head(up).launch
<1>1. SInv /\ SInv'
  BY CompleteKeepsSlots DEF Truth
<1>2. /\ up # <<>> /\ Head(up).kind = "complete" /\ up' = Tail(up)
      /\ confirmed' = confirmed \union ({l} \intersect stopping)
      /\ UNCHANGED <<linkVars, owed, has, newest, started, ending, lost, read, counters>>
  BY DEF receiveComplete
<1>3. \/ /\ pending[RunOf[l]].launch = l /\ Becomes(Ended(Now, l, "complete"))
         /\ grace' = grace \ {RunOf[l]}
      \/ UNCHANGED <<pending, waiters, outcome, down, grace>>
  BY DEF receiveComplete
<1>4. /\ 1 \in DOMAIN up /\ Head(up) = up[1]
      /\ \A i \in DOMAIN up' : i + 1 \in DOMAIN up /\ up'[i] = up[i + 1]
  BY <1>1, <1>2, ShapeIs, Shortened
<1>5. l \in Launches /\ Gone(l)
  BY <1>1, <1>2, <1>4, ShapeIs DEF Truth, EndedIsGone
<1> HIDE DEF l
<1>6. \A i \in DOMAIN up' : \E j \in DOMAIN up : up'[i] = up[j]
  BY <1>4
<1>7. \A k \in Launches : k \in confirmed' => k \in confirmed \/ Gone(k)
  BY <1>2, <1>5
<1>8. grace' \subseteq grace
  BY <1>3
<1>9. CASE pending[RunOf[l]].launch = l /\ Becomes(Ended(Now, l, "complete"))
  <2>1. Turnover({l}) /\ outcome'[l] = "complete"
    <3>1. "complete" \in Settled
      BY DEF Settled
    <3>2. QED
      BY <1>1, <1>2, <1>5, <1>9, <3>1, EndTurns DEF counters
  <2>2. QED
    BY <1>1, <1>2, <1>5, <1>6, <1>7, <1>8, <2>1, TurnKeepsTruth
<1>10. CASE UNCHANGED <<pending, waiters, outcome, down, grace>>
  <2>1. Turnover({})
    BY <1>1, <1>2, <1>10, RestTurns DEF counters
  <2>2. QED
    BY <1>1, <1>2, <1>6, <1>7, <1>8, <2>1, TurnKeepsTruth
<1>11. QED
  BY <1>3, <1>9, <1>10

(* A host that has not changed, and a registry that has not. *)
LEMMA GoneInTheSame ==
  ASSUME UNCHANGED <<waiters, outcome, down>>, has' \subseteq has, NEW l \in Launches, Gone(l)
  PROVE  Gone(l)'
BY DEF Gone, Calls

(* What is on its way back when something is added, or taken. *)
LEMMA AnsweredIs ==
  ASSUME SInv, NEW l \in Launches, NEW kind \in {"complete", "launched"}, Answer(kind, l)
  PROVE  \A i \in DOMAIN up' : \/ \E j \in DOMAIN up : up'[i] = up[j]
                               \/ up'[i].kind = kind /\ up'[i].launch = l
<1> DEFINE S == [kind : {"complete", "launched"}, launch : Launches]
           f == [kind |-> kind, launch |-> l]
<1>1. up' = up \/ up' = Append(up, f)
  BY AnswerIs
<1>2. up \in Seq(S) /\ f \in S
  BY ShapeIs
<1>3. f.kind = kind /\ f.launch = l
  OBVIOUS
<1> HIDE DEF f, S
<1>4. /\ Append(up, f)[Len(up) + 1] = f
      /\ \A i \in DOMAIN up : Append(up, f)[i] = up[i]
      /\ \A i \in DOMAIN Append(up, f) : i \in DOMAIN up \/ i = Len(up) + 1
  BY <1>2, Appended
<1>5. QED
  BY <1>1, <1>3, <1>4

LEMMA LaunchedKeepsTruth == ASSUME Truth, receiveLaunched PROVE Truth'
<1> DEFINE l == Head(up).launch
<1>1. SInv /\ SInv' /\ StartedOnce /\ EndedIsGone /\ Turns
  BY LaunchedKeepsSlots DEF Truth
<1>2. /\ up # <<>> /\ Head(up).kind = "launched" /\ up' = Tail(up)
      /\ started' = IF Current(l) THEN started \union {l} ELSE started
      /\ UNCHANGED <<linkVars, pending, waiters, outcome, down, grace, owed, stopping, confirmed,
                     has, newest, ending, lost, read, counters>>
  BY DEF receiveLaunched, Current
<1>3. /\ 1 \in DOMAIN up /\ Head(up) = up[1]
      /\ \A i \in DOMAIN up' : i + 1 \in DOMAIN up /\ up'[i] = up[i + 1]
      /\ \A i \in DOMAIN up : up[i].launch \in Launches
  BY <1>1, <1>2, ShapeIs, Shortened
<1>4. l \in Launches /\ Calls(l) /\ (Current(l) => Foremost(l))
  BY <1>1, <1>2, <1>3 DEF StartedOnce, Turns
<1> HIDE DEF l
<1>5. Extends /\ has' \subseteq has
  BY <1>1, <1>2, RestExtends
<1>6. /\ \A k \in Launches : k \in owed' \union started' => Calls(k)
      /\ \A k \in Launches : k \in started' => Calls(k) /\ (Current(k) => Foremost(k))
  BY <1>1, <1>2, <1>4 DEF StartedOnce, Turns
<1>7. \A i \in DOMAIN up' : /\ up'[i].launch \in Launches /\ Calls(up'[i].launch)
                            /\ up'[i].kind = "launched" /\ Current(up'[i].launch) => Foremost(up'[i].launch)
                            /\ up'[i].kind = "complete" => Gone(up'[i].launch)
  BY <1>1, <1>3 DEF StartedOnce, Turns, EndedIsGone
<1>8. StartedOnce'
  BY <1>5, <1>6, <1>7, StartsOnceStill
<1>9. Turns'
  <2>1. \A r \in Runs : newest'[r] \in {newest[r], None}
    BY <1>2
  <2>2. QED
    BY <1>5, <1>6, <1>7, <2>1, TurnsStill
<1>10. Lines'
  <2>1. UNCHANGED <<read, typed>> /\ started \subseteq started'
    BY <1>2 DEF counters
  <2>2. QED
    BY <1>5, <2>1, LinesStill
<1>11. Owes'
  <2>1. UNCHANGED <<linkVars, ending, owed, grace, outcome>>
    BY <1>2
  <2>2. QED
    BY <1>1, <1>5, <2>1, OwesStill
<1>12. EndedIsGone'
  <2>1. \A k \in Launches : Gone(k) => Gone(k)'
    BY <1>5, GoneStays
  <2>2. ASSUME NEW i \in DOMAIN up', up'[i].kind = "complete", NEW k \in Launches, up'[i].launch = k
        PROVE  Gone(k)'
    BY <1>7, <2>1, <2>2
  <2>3. (\A i \in DOMAIN up : up[i].kind = "complete" => Gone(up[i].launch))'
    <3>1. \A i \in DOMAIN up' : up'[i].launch \in Launches
      BY <1>7
    <3>2. QED
      BY <2>2, <3>1 DEF Gone, Calls
  <2>4. \A k \in Launches : k \in confirmed' \/ outcome'[k] = "complete" => Gone(k)'
    BY <1>1, <1>2, <2>1 DEF EndedIsGone
  <2>5. QED
    BY <2>3, <2>4 DEF EndedIsGone
<1>13. QED
  BY <1>1, <1>8, <1>9, <1>10, <1>11, <1>12 DEF Truth

(* The host and the registry as they were, and perhaps nothing on its way    *)
(* back: what was true of them is.                                           *)
LEMMA AsItWas ==
  ASSUME Truth, UNCHANGED <<pending, waiters, outcome, down, owed, confirmed, has, newest, started, read, typed>>,
         up' = up \/ up' = <<>>
  PROVE  StartedOnce' /\ EndedIsGone' /\ Turns' /\ Lines'
<1>1. \A i \in DOMAIN up' : i \in DOMAIN up /\ up'[i] = up[i]
  OBVIOUS
<1>2. SInv /\ StartedOnce /\ EndedIsGone /\ Turns
  BY DEF Truth
<1>3. \A i \in DOMAIN up : up[i].launch \in Launches
  BY <1>2, ShapeIs
<1>4. Extends
  BY <1>2, RestExtends
<1>5. StartedOnce'
  <2>1. /\ \A l \in Launches : l \in owed' \union started' => Calls(l)
        /\ \A i \in DOMAIN up' : up'[i].launch \in Launches /\ Calls(up'[i].launch)
        /\ has' \subseteq has
    BY <1>1, <1>2, <1>3 DEF StartedOnce
  <2>2. QED
    BY <1>4, <2>1, StartsOnceStill
<1>6. EndedIsGone'
  BY <1>1, <1>2 DEF EndedIsGone, Gone, Calls
<1>7. Turns'
  <2>1. /\ \A l \in Launches : l \in started' => Calls(l) /\ (Current(l) => Foremost(l))
        /\ \A i \in DOMAIN up' : /\ up'[i].launch \in Launches /\ Calls(up'[i].launch)
                                 /\ up'[i].kind = "launched" /\ Current(up'[i].launch) => Foremost(up'[i].launch)
        /\ \A r \in Runs : newest'[r] \in {newest[r], None}
    BY <1>1, <1>2, <1>3 DEF StartedOnce, Turns
  <2>2. QED
    BY <1>4, <2>1, TurnsStill
<1>8. Lines'
  BY <1>4, LinesStill
<1>9. QED
  BY <1>5, <1>6, <1>7, <1>8

LEMMA LostKeepsTruth == ASSUME Truth, LinkLost PROVE Truth'
<1>1. SInv /\ SInv' /\ Owes
  BY LostKeepsSlots DEF Truth
<1>2. /\ link # 0 /\ made - restarts <= limits.losses /\ link' = 0 /\ up' = <<>>
      /\ UNCHANGED <<sink, made, restarts, limits, pending, grace, waiters, outcome, owed, stopping,
                     confirmed, down, has, newest, started, ending, read, typed>>
  BY DEF LinkLost, counters
<1>3. StartedOnce' /\ EndedIsGone' /\ Turns' /\ Lines'
  BY <1>2, AsItWas
<1>4. /\ limits.losses \in Nat /\ limits.restarts \in Nat /\ made \in Nat
      /\ restarts \in 0 .. limits.restarts /\ link \in 0 .. made /\ sink \in 0 .. made
  BY <1>1, ShapeIs DEF SInv, Around
<1>5. Owes'
  <2>1. limits.losses + limits.restarts <= 1 => OneSocket'
    <3>1. SUFFICES ASSUME limits.losses + limits.restarts <= 1 PROVE OneSocket'
      OBVIOUS
    <3>2. restarts < made /\ limits.losses # 0
      BY <1>1, <1>2, <1>4 DEF Owes
    <3>3. limits.losses = 1 /\ restarts = 0 /\ made = 1
      BY <1>2, <1>4, <3>1, <3>2
    <3>4. sink \in {0, 1}
      BY <1>4, <3>3
    <3>5. QED
      BY <1>2, <3>2, <3>3, <3>4 DEF OneSocket
  <2>2. limits.losses + limits.restarts <= 1 => \A l \in has' : outcome'[l] = "disconnected" => Owing(l)'
    BY <1>1, <1>2 DEF Owes, Owing
  <2>3. /\ (link' # 0 => restarts' < made') /\ restarts' <= made'
        /\ \A l \in Launches : outcome'[l] = "disconnected" => \A i \in DOMAIN down' : ~Starts(down'[i], l)
    BY <1>1, <1>2 DEF Owes
  <2>4. QED
    BY <1>2, <2>1, <2>2, <2>3 DEF Owes
<1>6. QED
  BY <1>1, <1>3, <1>5 DEF Truth

LEMMA ReconnectKeepsTruth == ASSUME Truth, Reconnect PROVE Truth'
<1>1. SInv /\ SInv' /\ Owes
  BY ReconnectKeepsSlots DEF Truth
<1>2. /\ link = 0 /\ link' = made + 1 /\ made' = made + 1
      /\ UNCHANGED <<sink, restarts, limits, pending, grace, waiters, outcome, owed, stopping,
                     confirmed, down, up, has, newest, started, ending, read, typed>>
  BY DEF Reconnect, counters, hostVars
<1>3. StartedOnce' /\ EndedIsGone' /\ Turns' /\ Lines'
  BY <1>2, AsItWas
<1>4. made \in Nat /\ restarts \in Int
  BY <1>1, ShapeIs DEF SInv, Around
<1>5. Owes'
  <2>1. limits.losses + limits.restarts <= 1 => OneSocket'
    BY <1>1, <1>2, <1>4 DEF Owes, OneSocket
  <2>2. limits.losses + limits.restarts <= 1 => \A l \in has' : outcome'[l] = "disconnected" => Owing(l)'
    BY <1>1, <1>2 DEF Owes, Owing
  <2>3. restarts' < made' /\ restarts' <= made'
    BY <1>1, <1>2, <1>4 DEF Owes
  <2>4. \A l \in Launches : outcome'[l] = "disconnected" => \A i \in DOMAIN down' : ~Starts(down'[i], l)
    BY <1>1, <1>2 DEF Owes
  <2>5. QED
    BY <1>2, <2>1, <2>2, <2>3, <2>4 DEF Owes
<1>6. QED
  BY <1>1, <1>3, <1>5 DEF Truth

(* With nothing on its way to the host, what is known of it is kept.         *)
LEMMA Cut ==
  ASSUME Truth, down' = <<>>, has' = has, newest' = newest, started' = started, read' = read, typed' = typed,
         up' = up \/ up' = <<>>, confirmed' = confirmed, owed' \subseteq owed,
         \A l \in Launches : Calls(l) => Calls(l)',
         \A l \in Launches : outcome'[l] = "complete" => outcome[l] = "complete",
         \A r \in Runs : pending'[r] \in {pending[r], Idle}
  PROVE  StartedOnce' /\ EndedIsGone' /\ Turns' /\ Lines'
<1>0. /\ SInv /\ StartedOnce /\ EndedIsGone /\ Turns /\ Lines
      /\ RunOf \in [Launches -> Runs] /\ None \notin Launches
      /\ \A i \in DOMAIN up : up[i].launch \in Launches
  BY ShapeIs DEF Truth
<1>1. DOMAIN down' = {} /\ \A i \in DOMAIN up' : i \in DOMAIN up /\ up'[i] = up[i]
  OBVIOUS
<1>2. \A l \in Launches : Current(l)' => Current(l)
  BY <1>0 DEF Current, Idle
<1>3. \A l \in Launches : (Gone(l) => Gone(l)') /\ (Foremost(l) => Foremost(l)')
  BY <1>1 DEF Gone, Foremost
<1>4. StartedOnce'
  <2>1. \A l \in Launches : l \in has' \union owed' \union started' => Calls(l)'
    BY <1>0 DEF StartedOnce
  <2>2. (\A i \in DOMAIN up : Calls(up[i].launch))'
    <3>1. \A i \in DOMAIN up, l \in Launches : up[i].launch = l => Calls(l)'
      BY <1>0 DEF StartedOnce
    <3>2. QED
      BY <1>0, <1>1, <3>1 DEF Calls
  <2>3. QED
    BY <1>1, <2>1, <2>2 DEF StartedOnce
<1>5. EndedIsGone'
  <2>1. \A i \in DOMAIN up, l \in Launches : up[i].launch = l /\ up[i].kind = "complete" => Gone(l)'
    BY <1>0, <1>3 DEF EndedIsGone
  <2>2. (\A i \in DOMAIN up : up[i].kind = "complete" => Gone(up[i].launch))'
    BY <1>0, <1>1, <2>1 DEF Gone, Calls
  <2>3. \A l \in Launches : l \in confirmed' \/ outcome'[l] = "complete" => Gone(l)'
    BY <1>0, <1>3 DEF EndedIsGone
  <2>4. QED
    BY <2>2, <2>3 DEF EndedIsGone
<1>6. Turns'
  <2>1. \A l \in Launches : Current(l)' /\ l \in started' => Foremost(l)'
    BY <1>0, <1>2, <1>3 DEF Turns
  <2>2. \A i \in DOMAIN up, l \in Launches : up[i].launch = l /\ up[i].kind = "launched" /\ Current(l)' => Foremost(l)'
    BY <1>0, <1>2, <1>3 DEF Turns
  <2>3. (\A i \in DOMAIN up : up[i].kind = "launched" /\ Current(up[i].launch) => Foremost(up[i].launch))'
    BY <1>0, <1>1, <2>2 DEF Foremost, Current
  <2>4. QED
    BY <1>1, <2>1, <2>3 DEF Turns
<1>7. Lines'
  <2>1. ASSUME NEW l \in Launches PROVE LinesRead(l)' /\ LinesSent(l)' /\ LinesQueued(l)'
    <3>1. LinesRead(l) /\ LinesQueued(l)
      BY <1>0 DEF Lines
    <3>2. LinesRead(l)' /\ LinesSent(l)'
      BY <1>1, <3>1 DEF LinesRead, LinesSent
    <3>3. Current(l)' => Current(l) /\ pending'[RunOf[l]] = pending[RunOf[l]]
      BY <1>0, <1>2 DEF Current, Idle
    <3>4. LinesQueued(l)'
      BY <3>1, <3>3 DEF LinesQueued
    <3>5. QED
      BY <3>2, <3>4
  <2>2. QED
    BY <2>1 DEF Lines
<1>8. QED
  BY <1>4, <1>5, <1>6, <1>7

LEMMA UnregisterKeepsTruth == ASSUME Truth, unregisterConnection PROVE Truth'
<1>1. SInv /\ SInv' /\ Owes
  BY UnregisterKeepsSlots DEF Truth
<1>2. /\ sink # 0 /\ sink # link /\ sink' = 0 /\ down' = <<>>
      /\ UNCHANGED <<link, made, restarts, limits, pending, waiters, outcome, owed, stopping,
                     confirmed, up, has, newest, started, ending, read, typed>>
  BY DEF unregisterConnection, counters, online
<1>3. StartedOnce' /\ EndedIsGone' /\ Turns' /\ Lines'
  <2>1. \A l \in Launches : Calls(l) => Calls(l)'
    BY <1>2 DEF Calls
  <2>2. QED
    BY <1>2, <2>1, Cut
<1>4. Owes'
  <2>0. made \in Nat /\ link \in Int /\ sink \in Int
    BY <1>1 DEF SInv, Around
  <2>1. limits.losses + limits.restarts <= 1 =>
            OneSocket' /\ \A l \in has' : outcome'[l] = "disconnected" => Owing(l)'
    <3>1. SUFFICES ASSUME limits.losses + limits.restarts <= 1
                   PROVE  OneSocket' /\ \A l \in has' : outcome'[l] = "disconnected" => Owing(l)'
      OBVIOUS
    <3>2. OneSocket /\ \A l \in has : outcome[l] = "disconnected" => Owing(l)
      BY <1>1, <3>1 DEF Owes
    <3>3. limits.losses # 0 /\ (sink = 2 => link # 2)
      BY <1>2, <3>2 DEF OneSocket
    <3>4. OneSocket'
      BY <1>2, <2>0, <3>2, <3>3 DEF OneSocket
    <3>5. ~ \E l \in has : outcome[l] = "disconnected"
      BY <1>2, <2>0, <3>2, <3>3 DEF OneSocket, Owing
    <3>6. QED
      BY <1>2, <3>4, <3>5
  <2>2. DOMAIN down' = {}
    BY <1>2
  <2>3. QED
    BY <1>1, <1>2, <2>1, <2>2 DEF Owes
<1>5. QED
  BY <1>1, <1>3, <1>4 DEF Truth

LEMMA RestartKeepsTruth == ASSUME Truth, ServerRestarts PROVE Truth'
<1>1. SInv /\ SInv' /\ Owes
  BY RestartKeepsSlots DEF Truth
<1>2. /\ restarts < limits.restarts /\ restarts' = restarts + 1 /\ link # 0 /\ link' = 0 /\ sink' = 0
      /\ down' = <<>> /\ up' = <<>> /\ pending' = [r \in Runs |-> Idle] /\ grace' = {} /\ waiters' = <<>>
      /\ outcome' = [l \in Launches |-> IF outcome[l] = "waited" THEN "forgotten" ELSE outcome[l]]
      /\ owed' = {} /\ stopping' = {}
      /\ UNCHANGED <<made, limits, confirmed, has, newest, started, ending, read, typed>>
  BY DEF ServerRestarts, counters
<1>3. StartedOnce' /\ EndedIsGone' /\ Turns' /\ Lines'
  <2>1. \A l \in Launches : Calls(l) => Calls(l)'
    <3>1. ToSet(<<>>) = {}
      BY DEF ToSet
    <3>2. QED
      BY <1>2, <3>1 DEF Calls
  <2>2. \A l \in Launches : outcome'[l] = "complete" => outcome[l] = "complete"
    BY <1>2
  <2>3. \A r \in Runs : pending'[r] \in {pending[r], Idle}
    BY <1>2
  <2>4. QED
    BY <1>2, <2>1, <2>2, <2>3, Cut
<1>4. Owes'
  <2>0. /\ made \in Nat /\ restarts \in Nat /\ limits.losses \in Nat /\ limits.restarts \in Nat
        /\ has \subseteq Launches
    BY <1>1, ShapeIs DEF SInv, Around
  <2>1. limits.losses + limits.restarts <= 1 =>
            OneSocket' /\ \A l \in has' : outcome'[l] = "disconnected" => Owing(l)'
    <3>1. SUFFICES ASSUME limits.losses + limits.restarts <= 1
                   PROVE  OneSocket' /\ \A l \in has' : outcome'[l] = "disconnected" => Owing(l)'
      OBVIOUS
    <3>2. \A l \in has : outcome[l] = "disconnected" => Owing(l)
      BY <1>1, <3>1 DEF Owes
    <3>3. limits.losses = 0
      BY <1>2, <2>0, <3>1
    <3>4. OneSocket' /\ ~ \E l \in has : outcome[l] = "disconnected"
      BY <1>2, <3>2, <3>3 DEF OneSocket, Owing
    <3>5. QED
      BY <1>2, <2>0, <3>4
  <2>2. DOMAIN down' = {}
    BY <1>2
  <2>3. (link' # 0 => restarts' < made') /\ restarts' <= made'
    BY <1>1, <1>2, <2>0 DEF Owes
  <2>4. QED
    BY <1>2, <2>1, <2>2, <2>3 DEF Owes
<1>5. QED
  BY <1>1, <1>3, <1>4 DEF Truth

LEMMA EndsKeepsTruth == ASSUME Truth, NEW l \in Launches, HostEnds(l) PROVE Truth'
<1>1. SInv /\ SInv' /\ StartedOnce /\ EndedIsGone /\ Turns /\ Owes
  BY EndsKeepsSlots DEF Truth
<1>2. /\ l \in has /\ has' = has \ {l} /\ ending' = ending \ {l}
      /\ newest' = [newest EXCEPT ![RunOf[l]] = IF @ = l THEN None ELSE @]
      /\ Answer("complete", l)
      /\ UNCHANGED <<bound, down, read, link, sink, made, restarts, limits, pending, grace, waiters, outcome,
                     owed, stopping, confirmed, started, typed, stops>>
  BY DEF HostEnds, HostStep, counters
<1>3. /\ Extends /\ has' \subseteq has
      /\ \A i \in DOMAIN up : up[i].launch \in Launches
      /\ newest \in [Runs -> has \union {None}]
  BY <1>1, <1>2, RestExtends, ShapeIs DEF SInv, Around
<1>4. \A i \in DOMAIN up' : \/ \E j \in DOMAIN up : up'[i] = up[j]
                            \/ up'[i].kind = "complete" /\ up'[i].launch = l
  BY <1>1, <1>2, AnsweredIs
<1>5. Calls(l) /\ \A i \in DOMAIN down : ~Starts(down[i], l)
  BY <1>1, <1>2 DEF StartedOnce
<1>6. /\ Gone(l)'
      /\ \A k \in Launches : Gone(k) => Gone(k)'
  BY <1>2, <1>3, <1>5, GoneStays DEF Gone, Calls
<1>7. StartedOnce'
  <2>1. /\ \A k \in Launches : k \in owed' \union started' => Calls(k)
        /\ \A i \in DOMAIN up' : up'[i].launch \in Launches /\ Calls(up'[i].launch)
    BY <1>1, <1>2, <1>3, <1>4, <1>5 DEF StartedOnce
  <2>2. QED
    BY <1>3, <2>1, StartsOnceStill
<1>8. EndedIsGone'
  <2>1. \A i \in DOMAIN up', k \in Launches : up'[i].launch = k /\ up'[i].kind = "complete" => Gone(k)'
    BY <1>1, <1>3, <1>4, <1>6 DEF EndedIsGone
  <2>2. \A i \in DOMAIN up' : up'[i].launch \in Launches
    BY <1>3, <1>4
  <2>3. (\A i \in DOMAIN up : up[i].kind = "complete" => Gone(up[i].launch))'
    BY <2>1, <2>2 DEF Gone, Calls
  <2>4. \A k \in Launches : k \in confirmed' \/ outcome'[k] = "complete" => Gone(k)'
    BY <1>1, <1>2, <1>6 DEF EndedIsGone
  <2>5. QED
    BY <2>3, <2>4 DEF EndedIsGone
<1>9. Turns'
  <2>1. /\ \A k \in Launches : k \in started' => Calls(k) /\ (Current(k) => Foremost(k))
        /\ \A i \in DOMAIN up' : /\ up'[i].launch \in Launches /\ Calls(up'[i].launch)
                                 /\ up'[i].kind = "launched" /\ Current(up'[i].launch) => Foremost(up'[i].launch)
    BY <1>1, <1>2, <1>3, <1>4, <1>5 DEF StartedOnce, Turns
  <2>2. \A r \in Runs : newest'[r] \in {newest[r], None}
    BY <1>2, <1>3
  <2>3. QED
    BY <1>3, <2>1, <2>2, TurnsStill
<1>10. Lines'
  <2>1. UNCHANGED <<read, typed>> /\ started \subseteq started'
    BY <1>2
  <2>2. QED
    BY <1>3, <2>1, LinesStill
<1>11. Owes'
  <2>1. ASSUME limits.losses + limits.restarts <= 1
        PROVE  OneSocket' /\ \A k \in has' : outcome'[k] = "disconnected" => Owing(k)'
    <3>1. OneSocket /\ \A k \in has : outcome[k] = "disconnected" => Owing(k)
      BY <1>1, <2>1 DEF Owes
    <3>2. OneSocket'
      BY <1>2, <3>1 DEF OneSocket
    <3>3. ASSUME NEW k \in has', outcome'[k] = "disconnected" PROVE Owing(k)'
      <4>1. k # l /\ Owing(k)
        BY <1>2, <3>1, <3>3
      <4>2. QED
        BY <1>2, <4>1 DEF Owing
    <3>4. QED
      BY <3>2, <3>3
  <2>2. QED
    BY <1>1, <1>2, <2>1 DEF Owes
<1>12. QED
  BY <1>1, <1>7, <1>8, <1>9, <1>10, <1>11 DEF Truth

(* A line is typed: it is the attempt's last, wherever it waits.             *)
LEMMA StdinKeepsTruth == ASSUME Truth, NEW l \in Launches, sendStdin(l) PROVE Truth'
<1> DEFINE r == RunOf[l]
           n == typed[l] + 1
           f == Frame("stdin", l, n)
           e == Len(down) + 1
<1>1. SInv /\ SInv' /\ StartedOnce /\ EndedIsGone /\ Turns /\ Lines /\ Owes
  BY StdinKeepsSlots DEF Truth
<1>2. /\ r \in Runs /\ Current(l) /\ l \in started /\ typed[l] \in Nat /\ n \in 1 .. limits.stdin
      /\ \A k \in Launches : typed'[k] = IF k = l THEN n ELSE typed[k]
      /\ UNCHANGED <<linkVars, waiters, outcome, grace, owed, stopping, confirmed, hostVars, stops>>
  <2>1. /\ typed' = [typed EXCEPT ![l] = n] /\ typed \in [Launches -> 0 .. limits.stdin]
        /\ r \in Runs /\ Current(l) /\ l \in started /\ typed[l] \in Nat /\ n \in 1 .. limits.stdin
        /\ UNCHANGED <<linkVars, waiters, outcome, grace, owed, stopping, confirmed, hostVars, stops>>
    BY <1>1, StdinIs DEF Current, SInv, Around
  <2> HIDE DEF n
  <2>2. QED
    BY <2>1
<1>3. /\ online => down' = Append(down, f) /\ pending' = pending /\ f \in FrameSet
      /\ ~online => /\ down' = down
                    /\ pending' = [pending EXCEPT ![r] = [launch |-> l, stdin |-> Append(pending[r].stdin, n)]]
  BY <1>1, StdinIs
<1>4. /\ down \in Seq(FrameSet) /\ DOMAIN down = 1 .. Len(down) /\ Len(down) \in Nat
      /\ pending \in [Runs -> [launch : Launches \union {None}, stdin : Seq(1 .. limits.stdin)]]
      /\ pending[r].stdin \in Seq(1 .. limits.stdin)
      /\ RunOf \in [Launches -> Runs] /\ \A k \in Launches : typed[k] \in Int
      /\ \A i \in DOMAIN up : up[i].launch \in Launches
  BY <1>1, <1>2, NowIs, ShapeIs DEF SInv
<1>5. f.kind = "stdin" /\ f.launch = l /\ f.n = n
  BY DEF Frame
<1> HIDE DEF f, n
<1>6. /\ \A i \in DOMAIN down : i \in DOMAIN down' /\ down'[i] = down[i]
      /\ \A i \in DOMAIN down' : i \in DOMAIN down \/ (online /\ i = e /\ down'[i] = f)
      /\ \A i \in DOMAIN down : i < e
  <2>1. CASE online
    <3>1. /\ \A i \in DOMAIN down : Append(down, f)[i] = down[i]
          /\ DOMAIN Append(down, f) = 1 .. Len(down) + 1
          /\ Append(down, f)[Len(down) + 1] = f
          /\ \A i \in DOMAIN Append(down, f) : i \in DOMAIN down \/ i = Len(down) + 1
      BY <1>3, <1>4, <2>1, Appended
    <3>2. QED
      BY <1>3, <1>4, <2>1, <3>1
  <2>2. CASE ~online
    <3>1. down' = down
      BY <1>3, <2>2
    <3>2. \A i \in DOMAIN down : i < e
      BY <1>4
    <3>3. QED
      BY <3>1, <3>2
  <2>3. QED
    BY <2>1, <2>2
<1>7. /\ \A q \in Runs : pending'[q].launch = pending[q].launch
      /\ ~online => pending'[r] = [launch |-> l, stdin |-> Append(pending[r].stdin, n)]
  <2> DEFINE v == [launch |-> l, stdin |-> Append(pending[r].stdin, n)]
  <2>1. v.launch = l /\ pending[r].launch = l /\ r \in Runs
    BY <1>2 DEF Current
  <2>2. (online => pending' = pending) /\ (~online => pending' = [pending EXCEPT ![r] = v])
    BY <1>3
  <2> HIDE DEF v
  <2>3. ~online => \A q \in Runs : pending'[q] = IF q = r THEN v ELSE pending[q]
    BY <1>4, <2>1, <2>2
  <2>4. QED
    BY <2>1, <2>2, <2>3 DEF v
<1>8. UNCHANGED <<has, newest, ending, up, started, read>>
  BY <1>2 DEF hostVars
<1>9. /\ \A k \in Launches : (Calls(k) <=> Calls(k)') /\ (Current(k) <=> Current(k)')
      /\ \A i \in DOMAIN down' : down'[i].kind # "stdin" => i \in DOMAIN down /\ down'[i] = down[i]
  BY <1>2, <1>4, <1>5, <1>6, <1>7 DEF Calls, Current
<1>10. \A k \in Launches : (Gone(k) => Gone(k)') /\ (Foremost(k) => Foremost(k)')
  BY <1>8, <1>9 DEF Gone, Foremost, Starts, StartsRun
<1>11. Foremost(l)
  BY <1>1, <1>2 DEF Turns
<1>12. StartedOnce'
  <2>1. \A k \in Launches : k \in has' \union owed' \union started' => Calls(k)'
    BY <1>1, <1>2, <1>8, <1>9 DEF StartedOnce
  <2>2. (\A i \in DOMAIN up : Calls(up[i].launch))'
    BY <1>1, <1>2, <1>8 DEF StartedOnce, Calls
  <2>3. ASSUME NEW i \in DOMAIN down', NEW k \in Launches
        PROVE  /\ Starts(down'[i], k) => /\ Calls(k)' /\ k \notin has'
                                         /\ \A j \in DOMAIN down' : Starts(down'[j], k) => j = i
               /\ Stops(down'[i], k) => /\ Calls(k)'
                                        /\ \A j \in DOMAIN down' : Starts(down'[j], k) => j < i
    <3>1. /\ \A j \in DOMAIN down' : Starts(down'[j], k) => j \in DOMAIN down /\ Starts(down[j], k)
          /\ Stops(down'[i], k) => i \in DOMAIN down /\ Stops(down[i], k)
      BY <1>9 DEF Starts, Stops
    <3>2. \A j \in DOMAIN down :
             /\ Starts(down[j], k) => /\ Calls(k) /\ k \notin has
                                      /\ \A m \in DOMAIN down : Starts(down[m], k) => m = j
             /\ Stops(down[j], k) => /\ Calls(k)
                                     /\ \A m \in DOMAIN down : Starts(down[m], k) => m < j
      BY <1>1 DEF StartedOnce
    <3>3. QED
      BY <1>8, <1>9, <3>1, <3>2
  <2>4. QED
    BY <2>1, <2>2, <2>3 DEF StartedOnce
<1>13. EndedIsGone'
  <2>1. (\A i \in DOMAIN up : up[i].kind = "complete" => Gone(up[i].launch))'
    <3>1. \A i \in DOMAIN up, k \in Launches : up[i].launch = k /\ up[i].kind = "complete" => Gone(k)'
      BY <1>1, <1>10 DEF EndedIsGone
    <3>2. QED
      BY <1>4, <1>8, <3>1 DEF Gone, Calls
  <2>2. \A k \in Launches : k \in confirmed' \/ outcome'[k] = "complete" => Gone(k)'
    BY <1>1, <1>2, <1>10 DEF EndedIsGone
  <2>3. QED
    BY <2>1, <2>2 DEF EndedIsGone
<1>14. Turns'
  <2>1. ASSUME NEW k \in Launches, NEW j \in DOMAIN down', Current(k)', StartsRun(down'[j], RunOf[k])
        PROVE  Starts(down'[j], k) \/ \E i \in DOMAIN down' : j < i /\ Starts(down'[i], k)
    <3>1. j \in DOMAIN down /\ StartsRun(down[j], RunOf[k]) /\ Current(k)
      BY <1>9, <2>1 DEF StartsRun
    <3>2. Starts(down[j], k) \/ \E i \in DOMAIN down : j < i /\ Starts(down[i], k)
      BY <1>1, <3>1 DEF Turns
    <3>3. QED
      BY <1>6, <3>1, <3>2
  <2>2. \A k \in Launches : Current(k)' /\ k \in started' => Foremost(k)'
    BY <1>1, <1>8, <1>9, <1>10 DEF Turns
  <2>3. (\A i \in DOMAIN up : up[i].kind = "launched" /\ Current(up[i].launch) => Foremost(up[i].launch))'
    <3>1. \A i \in DOMAIN up, k \in Launches : up[i].launch = k /\ up[i].kind = "launched" /\ Current(k)' => Foremost(k)'
      BY <1>1, <1>9, <1>10 DEF Turns
    <3>2. QED
      BY <1>4, <1>8, <3>1 DEF Foremost, Current
  <2>4. ASSUME NEW i \in DOMAIN down', NEW k \in Launches, Types(down'[i], k)
        PROVE  /\ newest'[RunOf[k]] \in {k, None}
               /\ \A j \in DOMAIN down' : StartsRun(down'[j], RunOf[k]) => i < j
    <3>0. \A j \in DOMAIN down' : StartsRun(down'[j], RunOf[k]) => j \in DOMAIN down /\ StartsRun(down[j], RunOf[k])
      BY <1>9 DEF StartsRun
    <3>1. CASE i \in DOMAIN down
      <4>1. Types(down[i], k)
        BY <1>6, <2>4, <3>1
      <4>2. /\ newest[RunOf[k]] \in {k, None}
            /\ \A j \in DOMAIN down : StartsRun(down[j], RunOf[k]) => i < j
        BY <1>1, <3>1, <4>1 DEF Turns
      <4>3. QED
        BY <1>8, <3>0, <4>2
    <3>2. CASE down'[i] = f
      <4>1. k = l
        BY <1>5, <2>4, <3>2 DEF Types
      <4>2. QED
        BY <1>8, <1>11, <3>0, <4>1 DEF Foremost
    <3>3. QED
      BY <1>6, <3>1, <3>2
  <2>5. QED
    BY <2>1, <2>2, <2>3, <2>4 DEF Turns
<1>15. Lines'
  <2>1. ASSUME NEW k \in Launches PROVE LinesRead(k)' /\ LinesSent(k)' /\ LinesQueued(k)'
    <3>1. /\ LinesRead(k) /\ LinesSent(k) /\ LinesQueued(k)
          /\ typed[k] \in Int /\ typed[l] \in Nat /\ typed'[k] = IF k = l THEN typed[k] + 1 ELSE typed[k]
          /\ \A i \in DOMAIN read[k] : read[k][i].n \in Int
          /\ \A i \in DOMAIN down : down[i].n \in Int
      BY <1>1, <1>2, ShapeIs DEF Lines, n
    <3>2. LinesRead(k)'
      BY <1>8, <3>1 DEF LinesRead
    <3>3. LinesSent(k)'
      <4>1. ASSUME NEW i \in DOMAIN down', Types(down'[i], k)
            PROVE  /\ down'[i].n <= typed'[k]
                   /\ \A j \in DOMAIN read'[k] : read'[k][j].n < down'[i].n
                   /\ \A j \in DOMAIN down' : Types(down'[j], k) /\ i < j => down'[i].n < down'[j].n
        <5>1. CASE i \in DOMAIN down
          <6>1. /\ Types(down[i], k) /\ down'[i] = down[i] /\ down[i].n <= typed[k]
                /\ \A j \in DOMAIN read[k] : read[k][j].n < down[i].n
                /\ \A j \in DOMAIN down : Types(down[j], k) /\ i < j => down[i].n < down[j].n
            BY <1>6, <3>1, <4>1, <5>1 DEF LinesSent
          <6>2. \A j \in DOMAIN down' : Types(down'[j], k) => \/ j \in DOMAIN down /\ Types(down[j], k) /\ down'[j] = down[j]
                                                              \/ k = l /\ down'[j].n = typed[k] + 1
            BY <1>5, <1>6 DEF Types, n
          <6>3. QED
            BY <1>8, <3>1, <5>1, <6>1, <6>2
        <5>2. CASE i = e /\ down'[i] = f
          <6>1. k = l /\ down'[i].n = typed[k] + 1
            BY <1>5, <4>1, <5>2 DEF Types, n
          <6>2. \A j \in DOMAIN down' : ~(i < j)
            BY <1>4, <1>6, <5>2
          <6>3. \A j \in DOMAIN read[k] : read[k][j].n <= typed[k]
            BY <3>1 DEF LinesRead
          <6>4. QED
            BY <1>8, <3>1, <6>1, <6>2, <6>3
        <5>3. QED
          BY <1>6, <5>1, <5>2
      <4>2. QED
        BY <4>1 DEF LinesSent
    <3>4. LinesQueued(k)'
      <4>1. CASE online \/ RunOf[k] # r
        <5>1. pending'[RunOf[k]] = pending[RunOf[k]]
          BY <1>2, <1>3, <1>4, <4>1
        <5>2. QED
          <6> DEFINE q == pending[RunOf[k]].stdin
          <6>1. q \in Seq(1 .. limits.stdin)
            BY <1>4
          <6> HIDE DEF q
          <6>2. \A i \in DOMAIN q : q[i] \in Int
            <7>1. \A i \in DOMAIN q : q[i] \in 1 .. limits.stdin
              BY <6>1, Member
            <7>2. QED
              BY <7>1
          <6>3. Current(k) => \A i \in DOMAIN q :
                   /\ k \in started /\ q[i] <= typed[k]
                   /\ \A j \in DOMAIN read[k] : read[k][j].n < q[i]
                   /\ \A j \in DOMAIN q : i < j => q[i] < q[j]
            BY <3>1 DEF LinesQueued, q
          <6>4. \A i \in DOMAIN q : q[i] <= typed[k] => q[i] <= typed'[k]
            BY <3>1, <6>2
          <6>5. QED
            BY <1>8, <1>9, <5>1, <6>3, <6>4 DEF LinesQueued, q
      <4>2. CASE ~online /\ RunOf[k] = r
        <5> DEFINE q == pending[r].stdin
        <5>1. SUFFICES ASSUME Current(k) PROVE LinesQueued(k)'
          BY <1>9 DEF LinesQueued
        <5>2. k = l
          BY <1>2, <4>2, <5>1 DEF Current
        <5>3. q \in Seq(1 .. limits.stdin) /\ n \in 1 .. limits.stdin
          BY <1>2, <1>4
        <5>4. \A i \in DOMAIN q : /\ q[i] <= typed[l]
                                  /\ \A j \in DOMAIN read[l] : read[l][j].n < q[i]
                                  /\ \A j \in DOMAIN q : i < j => q[i] < q[j]
          BY <3>1, <4>2, <5>1, <5>2 DEF LinesQueued
        <5> HIDE DEF q
        <5>5. pending'[r].stdin = Append(q, n)
          BY <1>7, <4>2 DEF q
        <5>6. /\ \A i \in DOMAIN q : Append(q, n)[i] = q[i] /\ q[i] \in Int
              /\ Append(q, n)[Len(q) + 1] = n
              /\ \A i \in DOMAIN Append(q, n) : i \in DOMAIN q \/ i = Len(q) + 1
              /\ \A i \in DOMAIN q : i \in Int /\ i < Len(q) + 1
              /\ Len(q) \in Nat
          <6>1. /\ \A i \in DOMAIN q : Append(q, n)[i] = q[i]
                /\ Append(q, n)[Len(q) + 1] = n
                /\ \A i \in DOMAIN Append(q, n) : i \in DOMAIN q \/ i = Len(q) + 1
                /\ Len(q) \in Nat /\ DOMAIN q = 1 .. Len(q)
            BY <5>3, Appended
          <6>2. \A i \in DOMAIN q : q[i] \in 1 .. limits.stdin
            BY <5>3, Member
          <6>3. QED
            BY <6>1, <6>2
        <5>7. \A j \in DOMAIN read[l] : read[l][j].n \in Int /\ read[l][j].n <= typed[l]
          BY <3>1, <5>2 DEF LinesRead
        <5>8. n = typed[l] + 1 /\ typed[l] \in Int /\ typed'[l] = n
          BY <1>2, <5>2 DEF n
        <5>9. ASSUME NEW i \in DOMAIN Append(q, n)
              PROVE  /\ Append(q, n)[i] <= typed'[l]
                     /\ \A j \in DOMAIN read[l] : read[l][j].n < Append(q, n)[i]
                     /\ \A j \in DOMAIN Append(q, n) : i < j => Append(q, n)[i] < Append(q, n)[j]
          BY <5>4, <5>6, <5>7, <5>8
        <5>10. QED
          BY <1>2, <1>8, <4>2, <5>2, <5>5, <5>9 DEF LinesQueued
      <4>3. QED
        BY <4>1, <4>2
    <3>5. QED
      BY <3>2, <3>3, <3>4
  <2>2. QED
    BY <2>1 DEF Lines
<1>16. Owes'
  <2>0. UNCHANGED <<link, sink, made, restarts, limits>>
    BY <1>2 DEF linkVars
  <2>1. ASSUME limits.losses + limits.restarts <= 1
        PROVE  OneSocket' /\ \A k \in has' : outcome'[k] = "disconnected" => Owing(k)'
    <3>1. OneSocket /\ \A k \in has : outcome[k] = "disconnected" => Owing(k)
      BY <1>1, <2>1 DEF Owes
    <3>2. OneSocket'
      BY <1>2, <2>0, <3>1 DEF OneSocket
    <3>3. \A k \in Launches : Owing(k) => Owing(k)'
      BY <1>2, <1>6, <1>8, <2>0 DEF Owing
    <3>4. has \subseteq Launches
      BY <1>1, ShapeIs
    <3>5. QED
      BY <1>2, <1>8, <3>1, <3>2, <3>3, <3>4
  <2>2. \A k \in Launches : outcome'[k] = "disconnected" => \A i \in DOMAIN down' : ~Starts(down'[i], k)
    BY <1>1, <1>2, <1>9 DEF Owes, Starts
  <2>3. QED
    BY <1>1, <2>0, <2>1, <2>2 DEF Owes
<1>17. QED
  BY <1>1, <1>12, <1>13, <1>14, <1>15, <1>16 DEF Truth

(* The host is back: what waited goes to the attempts waited for, and what   *)
(* was owed is sent.                                                         *)
LEMMA RegisterKeepsTruth == ASSUME Truth, registerConnection PROVE Truth'
<1>1. /\ SInv /\ SInv' /\ StartedOnce /\ EndedIsGone /\ Turns /\ Lines /\ Owes
      /\ \A i \in DOMAIN up : up[i].launch \in Launches
  BY RegisterKeepsSlots, ShapeIs DEF Truth
<1>2. /\ link # 0 /\ sink # link /\ sink' = link
      /\ pending' = [r \in Runs |-> [pending[r] EXCEPT !.stdin = <<>>]]
      /\ grace' = {} /\ owed' = {}
      /\ UNCHANGED <<link, made, restarts, limits, waiters, outcome, stopping, confirmed,
                     up, has, newest, ending, started, read, typed>>
  BY DEF registerConnection, counters
<1>3. PICK o \in Orders, stopped \in SetToSeqs(owed) : down' = Replayed(o, stopped) \o <<Frame("ack", None, 0)>>
  BY DEF registerConnection
<1> DEFINE f == Replayed(o, stopped) \o <<Frame("ack", None, 0)>>
<1> HIDE DEF f
<1>4. down' = f
  BY <1>3 DEF f
<1>5. Replays(o, f)
  <2>1. SInv
    BY <1>1
  <2>2. QED
    BY <2>1, ReplayIs DEF f
<1>6. \A l \in owed : \E i \in DOMAIN f : f[i].kind = "stop" /\ f[i].launch = l
  BY <1>5 DEF Replays
<1>7. \A i \in DOMAIN f : f[i].kind # "launch" /\ (f[i].kind = "stop" => f[i].launch \in owed)
  BY <1>5 DEF Replays, Frame
<1>8. \A m, n \in DOMAIN o : m < n /\ o[m][1] = o[n][1] => o[m][2] < o[n][2]
  BY DEF Orders
<1>9. /\ RunOf \in [Launches -> Runs] /\ None \notin Launches
      /\ \A r \in Runs : pending[r].launch # None => RunOf[pending[r].launch] = r
      /\ pending \in [Runs -> [launch : Launches \union {None}, stdin : Seq(1 .. limits.stdin)]]
  BY <1>1, ShapeIs, NowIs DEF SInv
<1>10. \A r \in Runs : pending'[r].launch = pending[r].launch /\ pending'[r].stdin = <<>>
  BY <1>2, <1>9
<1>11. \A i \in DOMAIN down', l \in Launches : ~Starts(down'[i], l) /\ ~StartsRun(down'[i], RunOf[l])
  BY <1>4, <1>7 DEF Starts, StartsRun
<1>12. ASSUME NEW i \in DOMAIN down', NEW l \in Launches, Types(down'[i], l)
      PROVE  \E k \in DOMAIN pending[RunOf[l]].stdin :
                /\ i \in DOMAIN o /\ o[i] = <<RunOf[l], k>> /\ Current(l)
                /\ down'[i].n = pending[RunOf[l]].stdin[k]
  <2>0. i \in DOMAIN f /\ f[i].kind = "stdin" /\ f[i].launch = l
    BY <1>4, <1>12 DEF Types
  <2>1. PICK r \in Runs : \E k \in DOMAIN pending[r].stdin :
            /\ i \in DOMAIN o /\ o[i] = <<r, k>> /\ pending[r].launch \in Launches
            /\ f[i] = Frame("stdin", pending[r].launch, pending[r].stdin[k])
    BY <1>5, <2>0 DEF Replays
  <2>2. PICK k \in DOMAIN pending[r].stdin :
            /\ i \in DOMAIN o /\ o[i] = <<r, k>> /\ pending[r].launch \in Launches
            /\ f[i] = Frame("stdin", pending[r].launch, pending[r].stdin[k])
    BY <2>1
  <2>3. pending[r].launch = l /\ down'[i].n = pending[r].stdin[k]
    BY <1>4, <2>0, <2>2 DEF Frame
  <2>4. r = RunOf[l]
    BY <1>9, <2>3
  <2>5. QED
    BY <2>2, <2>3, <2>4 DEF Current
<1>13. /\ \A l \in Launches : (Calls(l) <=> Calls(l)') /\ (Current(l) <=> Current(l)')
       /\ \A l \in Launches : (Gone(l) => Gone(l)') /\ (Foremost(l) => Foremost(l)')
  BY <1>2, <1>9, <1>10, <1>11 DEF Calls, Current, Gone, Foremost
<1>14. StartedOnce'
  <2>1. \A l \in Launches : l \in has' \union owed' \union started' => Calls(l)'
    BY <1>1, <1>2, <1>13 DEF StartedOnce
  <2>2. (\A i \in DOMAIN up : Calls(up[i].launch))'
    BY <1>1, <1>2 DEF StartedOnce, Calls
  <2>3. \A i \in DOMAIN down', l \in Launches : Stops(down'[i], l) => Calls(l)'
    <3>1. \A i \in DOMAIN down', l \in Launches : Stops(down'[i], l) => l \in owed
      BY <1>4, <1>7 DEF Stops
    <3>2. QED
      BY <1>1, <1>13, <3>1 DEF StartedOnce
  <2>4. QED
    BY <1>11, <2>1, <2>2, <2>3 DEF StartedOnce
<1>15. EndedIsGone'
  <2>1. (\A i \in DOMAIN up : up[i].kind = "complete" => Gone(up[i].launch))'
    <3>1. \A i \in DOMAIN up, l \in Launches : up[i].launch = l /\ up[i].kind = "complete" => Gone(l)'
      BY <1>1, <1>13 DEF EndedIsGone
    <3>2. QED
      BY <1>1, <1>2, <3>1 DEF Gone, Calls
  <2>2. \A l \in Launches : l \in confirmed' \/ outcome'[l] = "complete" => Gone(l)'
    BY <1>1, <1>2, <1>13 DEF EndedIsGone
  <2>3. QED
    BY <2>1, <2>2 DEF EndedIsGone
<1>16. Turns'
  <2>1. \A l \in Launches : Current(l)' /\ l \in started' => Foremost(l)'
    BY <1>1, <1>2, <1>13 DEF Turns
  <2>2. (\A i \in DOMAIN up : up[i].kind = "launched" /\ Current(up[i].launch) => Foremost(up[i].launch))'
    <3>1. \A i \in DOMAIN up, l \in Launches : up[i].launch = l /\ up[i].kind = "launched" /\ Current(l)' => Foremost(l)'
      BY <1>1, <1>13 DEF Turns
    <3>2. QED
      BY <1>1, <1>2, <3>1 DEF Foremost, Current
  <2>3. ASSUME NEW i \in DOMAIN down', NEW l \in Launches, Types(down'[i], l)
        PROVE  newest'[RunOf[l]] \in {l, None}
    <3>1. PICK k \in DOMAIN pending[RunOf[l]].stdin : Current(l)
      BY <1>12, <2>3
    <3>2. LinesQueued(l)
      BY <1>1 DEF Lines
    <3>3. l \in started
      BY <3>1, <3>2 DEF LinesQueued
    <3>4. QED
      BY <1>1, <1>2, <3>1, <3>3 DEF Turns, Foremost
  <2>4. QED
    BY <1>11, <2>1, <2>2, <2>3 DEF Turns
<1>17. Lines'
  <2>1. ASSUME NEW l \in Launches PROVE LinesRead(l)' /\ LinesSent(l)' /\ LinesQueued(l)'
    <3>1. LinesRead(l) /\ LinesQueued(l)
      BY <1>1 DEF Lines
    <3>2. LinesRead(l)'
      BY <1>2, <3>1 DEF LinesRead
    <3>3. LinesQueued(l)'
      BY <1>9, <1>10 DEF LinesQueued
    <3>4. LinesSent(l)'
      <4>1. ASSUME NEW i \in DOMAIN down', Types(down'[i], l)
            PROVE  /\ down'[i].n <= typed[l]
                   /\ \A j \in DOMAIN read[l] : read[l][j].n < down'[i].n
                   /\ \A j \in DOMAIN down' : Types(down'[j], l) /\ i < j => down'[i].n < down'[j].n
        <5>1. PICK k \in DOMAIN pending[RunOf[l]].stdin :
                /\ i \in DOMAIN o /\ o[i] = <<RunOf[l], k>> /\ Current(l)
                /\ down'[i].n = pending[RunOf[l]].stdin[k]
          BY <1>12, <4>1
        <5>2. /\ pending[RunOf[l]].stdin[k] <= typed[l]
              /\ \A j \in DOMAIN read[l] : read[l][j].n < pending[RunOf[l]].stdin[k]
              /\ \A m \in DOMAIN pending[RunOf[l]].stdin :
                    k < m => pending[RunOf[l]].stdin[k] < pending[RunOf[l]].stdin[m]
          BY <3>1, <5>1 DEF LinesQueued
        <5>3. ASSUME NEW j \in DOMAIN down', Types(down'[j], l), i < j PROVE down'[i].n < down'[j].n
          <6>1. PICK m \in DOMAIN pending[RunOf[l]].stdin :
                  /\ j \in DOMAIN o /\ o[j] = <<RunOf[l], m>> /\ Current(l)
                  /\ down'[j].n = pending[RunOf[l]].stdin[m]
            BY <1>12, <5>3
          <6>2. o[i][1] = o[j][1] /\ o[i][2] = k /\ o[j][2] = m
            BY <5>1, <6>1
          <6>3. k < m
            BY <1>8, <5>1, <5>3, <6>1, <6>2
          <6>4. QED
            BY <5>1, <5>2, <6>1, <6>3
        <5>4. QED
          BY <5>1, <5>2, <5>3
      <4>2. QED
        BY <1>2, <4>1 DEF LinesSent
    <3>5. QED
      BY <3>2, <3>3, <3>4
  <2>2. QED
    BY <2>1 DEF Lines
<1>18. Owes'
  <2>0. made \in Nat /\ link \in 0 .. made /\ sink \in 0 .. made
    BY <1>1 DEF SInv, Around
  <2>1. ASSUME limits.losses + limits.restarts <= 1
        PROVE  OneSocket' /\ \A l \in has' : outcome'[l] = "disconnected" => Owing(l)'
    <3>1. OneSocket /\ \A l \in has : outcome[l] = "disconnected" => Owing(l)
      BY <1>1, <2>1 DEF Owes
    <3>2. limits.losses # 0 => made = 2 /\ link = 2
      BY <1>2, <2>0, <3>1 DEF OneSocket
    <3>3. OneSocket'
      BY <1>2, <3>2 DEF OneSocket
    <3>4. ASSUME NEW l \in has', outcome'[l] = "disconnected" PROVE Owing(l)'
      <4>1. limits.losses # 0 /\ sink = 0 /\ l \in owed
        BY <1>2, <3>1, <3>2, <3>4 DEF Owing
      <4>2. \E i \in DOMAIN down' : Stops(down'[i], l)
        BY <1>4, <1>6, <4>1 DEF Stops
      <4>3. QED
        BY <1>2, <3>2, <4>1, <4>2 DEF Owing
    <3>5. QED
      BY <3>3, <3>4
  <2>2. QED
    BY <1>1, <1>2, <1>11, <2>1 DEF Owes
<1>19. QED
  BY <1>1, <1>14, <1>15, <1>16, <1>17, <1>18 DEF Truth

LEMMA InitIsTrue == ASSUME Init PROVE Truth
<1>1. SInv
  BY InitHasSlots
<1>2. /\ link = 1 /\ sink = 1 /\ made = 1 /\ pending = [r \in Runs |-> Idle] /\ grace = {} /\ waiters = <<>>
      /\ outcome = [l \in Launches |-> "new"] /\ owed = {} /\ confirmed = {} /\ down = <<>> /\ up = <<>>
      /\ has = {} /\ started = {} /\ read = [l \in Launches |-> <<>>] /\ restarts = 0
  BY DEF Init
<1>3. /\ RunOf \in [Launches -> Runs] /\ None \notin Launches /\ has \subseteq Launches
  BY <1>1, ShapeIs
<1>4. DOMAIN down = {} /\ DOMAIN up = {} /\ \A l \in Launches : ~Current(l) /\ DOMAIN read[l] = {}
  BY <1>2, <1>3 DEF Current, Idle
<1>5. StartedOnce /\ EndedIsGone /\ Turns
  BY <1>2, <1>4 DEF StartedOnce, EndedIsGone, Turns
<1>6. Lines
  BY <1>4 DEF Lines, LinesRead, LinesSent, LinesQueued
<1>7. Owes
  BY <1>2 DEF Owes, OneSocket
<1>8. QED
  BY <1>1, <1>5, <1>6, <1>7 DEF Truth

(* The host takes the frame in front: the rest move up by one. *)
LEMMA TakesIs ==
  ASSUME SInv, HostReceives
  PROVE  /\ 1 \in DOMAIN down /\ Head(down) = down[1]
         /\ DOMAIN down \subseteq Nat \ {0} /\ DOMAIN down' \subseteq Nat \ {0}
         /\ \A i \in DOMAIN down' : i + 1 \in DOMAIN down /\ down'[i] = down[i + 1]
         /\ \A i \in DOMAIN down : i # 1 => i - 1 \in DOMAIN down' /\ down'[i - 1] = down[i]
<1>1. down \in Seq(FrameSet) /\ down # <<>> /\ down' = Tail(down) /\ DOMAIN down = 1 .. Len(down)
  BY ShapeIs, ReceivesIs
<1>2. /\ Len(down) \in Nat \ {0} /\ Head(down) = down[1] /\ 1 \in DOMAIN down
      /\ Tail(down) \in Seq(FrameSet)
      /\ \A i \in DOMAIN Tail(down) : i + 1 \in DOMAIN down /\ Tail(down)[i] = down[i + 1]
      /\ \A i \in DOMAIN down : i # 1 => i - 1 \in DOMAIN Tail(down)
  BY <1>1, Shortened
<1>3. DOMAIN Tail(down) \subseteq Nat \ {0}
  BY <1>2
<1>4. \A i \in DOMAIN down : i # 1 => Tail(down)[i - 1] = down[i]
  <2>1. ASSUME NEW i \in DOMAIN down, i # 1 PROVE Tail(down)[i - 1] = down[i]
    <3>1. i - 1 \in DOMAIN Tail(down) /\ (i - 1) + 1 = i
      BY <1>1, <1>2, <2>1
    <3>2. Tail(down)[i - 1] = down[(i - 1) + 1]
      BY <1>2, <3>1
    <3>3. QED
      BY <3>1, <3>2
  <2>2. QED
    BY <2>1
<1>5. QED
  BY <1>1, <1>2, <1>3, <1>4

LEMMA ReceivesKeepsTruth == ASSUME Truth, HostReceives PROVE Truth'
<1> DEFINE f == Head(down)
           l == f.launch
<1>1. /\ SInv /\ SInv' /\ StartedOnce /\ EndedIsGone /\ Turns /\ Lines /\ Owes
  BY ReceivesKeepsSlots DEF Truth
<1>2. /\ online /\ sink = link
      /\ f.kind \in {"launch", "stdin"} => l \in Launches
      /\ UNCHANGED <<link, sink, made, restarts, limits, pending, grace, waiters, outcome, owed,
                     stopping, confirmed, started, typed, stops>>
  BY <1>1, ReceivesIs DEF HostStep, counters
<1>3. \/ /\ f.kind = "launch" /\ has' = has \union {l}
         /\ newest' = [newest EXCEPT ![RunOf[l]] = l]
         /\ Answer("launched", l) \/ UNCHANGED up
         /\ UNCHANGED <<ending, read>>
      \/ /\ f.kind = "stop" /\ ending' = ending \union (Named(f) \intersect has)
         /\ IF l \in Launches \ has THEN Answer("complete", l) ELSE UNCHANGED up
         /\ UNCHANGED <<has, newest, read>>
      \/ /\ f.kind = "stdin"
         /\ read' = [k \in Launches |-> IF k = newest[RunOf[l]] THEN Append(read[k], f) ELSE read[k]]
         /\ UNCHANGED <<has, newest, up, ending>>
      \/ f.kind = "ack" /\ UNCHANGED <<has, newest, up, ending, read>>
  BY <1>1, ReceivesIs
<1>4. /\ 1 \in DOMAIN down /\ f = down[1]
      /\ DOMAIN down \subseteq Nat \ {0} /\ DOMAIN down' \subseteq Nat \ {0}
      /\ \A i \in DOMAIN down' : i + 1 \in DOMAIN down /\ down'[i] = down[i + 1]
      /\ \A i \in DOMAIN down : i # 1 => i - 1 \in DOMAIN down' /\ down'[i - 1] = down[i]
  BY <1>1, TakesIs
<1>5. /\ RunOf \in [Launches -> Runs] /\ None \notin Launches /\ has \subseteq Launches
      /\ newest \in [Runs -> has \union {None}] /\ read \in [Launches -> Seq(FrameSet)]
      /\ \A i \in DOMAIN up : up[i].launch \in Launches
      /\ \A r \in Runs : pending[r].stdin = <<>>
      /\ f \in FrameSet
  BY <1>1, <1>2, ShapeIs, ReceivesIs DEF SInv, Around
<1> HIDE DEF f
<1>6. \A i \in DOMAIN up' : \/ \E j \in DOMAIN up : up'[i] = up[j]
                            \/ /\ l \in Launches /\ up'[i].launch = l
                               /\ \/ f.kind = "launch" /\ up'[i].kind = "launched"
                                  \/ f.kind = "stop" /\ l \notin has /\ up'[i].kind = "complete"
  <2>1. CASE UNCHANGED up
    BY <2>1
  <2>2. CASE f.kind = "launch" /\ Answer("launched", l)
    <3>1. \A i \in DOMAIN up' : \/ \E j \in DOMAIN up : up'[i] = up[j]
                                \/ up'[i].kind = "launched" /\ up'[i].launch = l
      BY <1>1, <1>2, <2>2, AnsweredIs
    <3>2. QED
      BY <1>2, <2>2, <3>1
  <2>3. CASE f.kind = "stop" /\ l \in Launches \ has /\ Answer("complete", l)
    <3>1. \A i \in DOMAIN up' : \/ \E j \in DOMAIN up : up'[i] = up[j]
                                \/ up'[i].kind = "complete" /\ up'[i].launch = l
      BY <1>1, <2>3, AnsweredIs
    <3>2. QED
      BY <2>3, <3>1
  <2>4. QED
    BY <1>3, <2>1, <2>2, <2>3
<1>7. /\ \A k \in Launches : k \in has' => k \in has \/ Starts(down[1], k)
      /\ \A r \in Runs : newest'[r] = newest[r] \/ (StartsRun(down[1], r) /\ newest'[r] = l)
      /\ has \subseteq has' /\ ending \subseteq ending'
      /\ \A k \in Launches : Stops(down[1], k) /\ k \in has => k \in ending'
  BY <1>2, <1>3, <1>4, <1>5 DEF Starts, StartsRun, Stops, Named
<1>8. \A k \in Launches : (Calls(k) <=> Calls(k)') /\ (Current(k) <=> Current(k)')
  BY <1>2 DEF Calls, Current
<1>9. \A i \in DOMAIN down, k \in Launches :
         /\ Starts(down[i], k) => /\ Calls(k) /\ k \notin has
                                  /\ \A j \in DOMAIN down : Starts(down[j], k) => j = i
         /\ Stops(down[i], k) => /\ Calls(k)
                                 /\ \A j \in DOMAIN down : Starts(down[j], k) => j < i
  BY <1>1 DEF StartedOnce
<1>10. ASSUME NEW k \in Launches, Gone(k) PROVE Gone(k)'
  <2>1. Calls(k) /\ k \notin has /\ \A i \in DOMAIN down : ~Starts(down[i], k)
    BY <1>10 DEF Gone
  <2>2. k \notin has' /\ \A i \in DOMAIN down' : ~Starts(down'[i], k)
    BY <1>4, <1>7, <2>1
  <2>3. QED
    BY <1>8, <2>1, <2>2 DEF Gone
<1>11. ASSUME NEW k \in Launches, Foremost(k) PROVE Foremost(k)'
  <2>1. newest[RunOf[k]] \in {k, None} /\ \A i \in DOMAIN down : ~StartsRun(down[i], RunOf[k])
    BY <1>11 DEF Foremost
  <2>2. newest'[RunOf[k]] = newest[RunOf[k]]
    BY <1>4, <1>5, <1>7, <2>1
  <2>3. \A i \in DOMAIN down' : ~StartsRun(down'[i], RunOf[k])
    BY <1>4, <2>1
  <2>4. QED
    BY <2>1, <2>2, <2>3 DEF Foremost
<1>12. \A i \in DOMAIN up' : up'[i].launch \in Launches
  BY <1>5, <1>6
<1>13. StartedOnce'
  <2>1. \A k \in Launches : k \in has' \union owed' \union started' => Calls(k)'
    BY <1>1, <1>2, <1>4, <1>7, <1>8, <1>9 DEF StartedOnce
  <2>2. (\A i \in DOMAIN up : Calls(up[i].launch))'
    <3>1. ASSUME NEW i \in DOMAIN up', NEW k \in Launches, up'[i].launch = k PROVE Calls(k)'
      <4>1. \/ \E j \in DOMAIN up : up[j].launch = k
            \/ Starts(down[1], k) \/ Stops(down[1], k)
        BY <1>4, <1>6, <3>1 DEF Starts, Stops
      <4>2. QED
        BY <1>1, <1>4, <1>8, <1>9, <4>1 DEF StartedOnce
    <3>2. QED
      BY <1>12, <3>1 DEF Calls
  <2>3. ASSUME NEW i \in DOMAIN down', NEW k \in Launches
        PROVE  /\ Starts(down'[i], k) => /\ Calls(k)' /\ k \notin has'
                                         /\ \A j \in DOMAIN down' : Starts(down'[j], k) => j = i
               /\ Stops(down'[i], k) => /\ Calls(k)'
                                        /\ \A j \in DOMAIN down' : Starts(down'[j], k) => j < i
    <3>1. /\ i \in Nat /\ i + 1 \in DOMAIN down /\ down'[i] = down[i + 1]
          /\ \A j \in DOMAIN down' : j \in Nat /\ j + 1 \in DOMAIN down /\ down'[j] = down[j + 1]
      BY <1>4
    <3>2. /\ Starts(down[i + 1], k) => /\ Calls(k) /\ k \notin has
                                       /\ \A j \in DOMAIN down : Starts(down[j], k) => j = i + 1
          /\ Stops(down[i + 1], k) => /\ Calls(k)
                                      /\ \A j \in DOMAIN down : Starts(down[j], k) => j < i + 1
      BY <1>9, <3>1
    <3>3. Starts(down[i + 1], k) => k \notin has'
      <4>1. i + 1 # 1 \/ i = 0
        BY <3>1
      <4>2. i # 0
        BY <1>4
      <4>3. QED
        BY <1>4, <1>7, <3>2, <4>1, <4>2
    <3>4. ASSUME Starts(down'[i], k), NEW j \in DOMAIN down', Starts(down'[j], k) PROVE j = i
      <4>1. j + 1 = i + 1
        BY <3>1, <3>2, <3>4
      <4>2. QED
        BY <3>1, <4>1
    <3>5. ASSUME Stops(down'[i], k), NEW j \in DOMAIN down', Starts(down'[j], k) PROVE j < i
      <4>1. j + 1 < i + 1
        BY <3>1, <3>2, <3>5
      <4>2. QED
        BY <3>1, <4>1
    <3>6. QED
      BY <1>8, <3>1, <3>2, <3>3, <3>4, <3>5
  <2>4. QED
    BY <2>1, <2>2, <2>3 DEF StartedOnce
<1>14. EndedIsGone'
  <2>1. ASSUME NEW i \in DOMAIN up', NEW k \in Launches, up'[i].launch = k, up'[i].kind = "complete" PROVE Gone(k)'
    <3>1. CASE \E j \in DOMAIN up : up'[i] = up[j]
      BY <1>1, <1>10, <2>1, <3>1 DEF EndedIsGone
    <3>2. CASE f.kind = "stop" /\ l = k /\ l \notin has
      <4>1. Stops(down[1], k)
        BY <1>4, <3>2 DEF Stops
      <4>2. Calls(k) /\ \A j \in DOMAIN down : Starts(down[j], k) => j < 1
        BY <1>4, <1>9, <4>1
      <4>3. \A j \in DOMAIN down : ~Starts(down[j], k)
        BY <1>4, <4>2
      <4>4. QED
        BY <1>10, <3>2, <4>2, <4>3 DEF Gone
    <3>3. QED
      BY <1>6, <2>1, <3>1, <3>2
  <2>2. (\A i \in DOMAIN up : up[i].kind = "complete" => Gone(up[i].launch))'
    BY <1>12, <2>1 DEF Gone, Calls
  <2>3. \A k \in Launches : k \in confirmed' \/ outcome'[k] = "complete" => Gone(k)'
    BY <1>1, <1>2, <1>10 DEF EndedIsGone
  <2>4. QED
    BY <2>2, <2>3 DEF EndedIsGone
<1>15. Turns'
  <2>1. ASSUME NEW k \in Launches, NEW j \in DOMAIN down', Current(k)', StartsRun(down'[j], RunOf[k])
        PROVE  Starts(down'[j], k) \/ \E i \in DOMAIN down' : j < i /\ Starts(down'[i], k)
    <3>1. j \in Nat /\ j + 1 \in DOMAIN down /\ StartsRun(down[j + 1], RunOf[k]) /\ Current(k)
      BY <1>4, <1>8, <2>1
    <3>2. Starts(down[j + 1], k) \/ \E i \in DOMAIN down : j + 1 < i /\ Starts(down[i], k)
      BY <1>1, <3>1 DEF Turns
    <3>3. CASE Starts(down[j + 1], k)
      BY <1>4, <3>3
    <3>4. ASSUME NEW i \in DOMAIN down, j + 1 < i, Starts(down[i], k)
          PROVE  \E m \in DOMAIN down' : j < m /\ Starts(down'[m], k)
      <4>1. i \in Nat /\ i # 1 /\ j < i - 1
        BY <1>4, <3>1, <3>4
      <4>2. i - 1 \in DOMAIN down' /\ down'[i - 1] = down[i]
        BY <1>4, <4>1
      <4>3. QED
        BY <3>4, <4>1, <4>2
    <3>5. QED
      BY <3>2, <3>3, <3>4
  <2>2. \A k \in Launches : Current(k)' /\ k \in started' => Foremost(k)'
    BY <1>1, <1>2, <1>8, <1>11 DEF Turns
  <2>3. ASSUME NEW k \in Launches, Starts(down[1], k), Current(k) PROVE Foremost(k)'
    <3>1. newest'[RunOf[k]] = k
      <4>1. l = k /\ f.kind = "launch"
        BY <1>4, <2>3 DEF Starts
      <4>2. QED
        BY <1>3, <1>5, <4>1
    <3>2. ASSUME NEW j \in DOMAIN down', StartsRun(down'[j], RunOf[k]) PROVE FALSE
      <4>1. PICK i \in DOMAIN down' : Starts(down'[i], k)
        BY <1>8, <2>1, <2>3, <3>2
      <4>2. i \in Nat /\ i + 1 \in DOMAIN down /\ Starts(down[i + 1], k)
        BY <1>4, <4>1
      <4>3. i + 1 = 1
        BY <1>4, <1>9, <2>3, <4>2
      <4>4. i # 0
        BY <1>4
      <4>5. QED
        BY <4>2, <4>3, <4>4
    <3>3. QED
      BY <3>1, <3>2 DEF Foremost
  <2>4. ASSUME NEW i \in DOMAIN up', NEW k \in Launches, up'[i].launch = k, up'[i].kind = "launched", Current(k)'
        PROVE  Foremost(k)'
    <3>1. CASE \E j \in DOMAIN up : up'[i] = up[j]
      BY <1>1, <1>8, <1>11, <2>4, <3>1 DEF Turns
    <3>2. CASE f.kind = "launch" /\ l = k
      BY <1>4, <1>8, <2>3, <2>4, <3>2 DEF Starts
    <3>3. QED
      BY <1>6, <2>4, <3>1, <3>2
  <2>5. (\A i \in DOMAIN up : up[i].kind = "launched" /\ Current(up[i].launch) => Foremost(up[i].launch))'
    BY <1>12, <2>4 DEF Foremost, Current
  <2>6. ASSUME NEW i \in DOMAIN down', NEW k \in Launches, Types(down'[i], k)
        PROVE  /\ newest'[RunOf[k]] \in {k, None}
               /\ \A j \in DOMAIN down' : StartsRun(down'[j], RunOf[k]) => i < j
    <3>1. i \in Nat /\ i + 1 \in DOMAIN down /\ Types(down[i + 1], k)
      BY <1>4, <2>6
    <3>2. /\ newest[RunOf[k]] \in {k, None}
          /\ \A j \in DOMAIN down : StartsRun(down[j], RunOf[k]) => i + 1 < j
      BY <1>1, <3>1 DEF Turns
    <3>3. ~StartsRun(down[1], RunOf[k])
      BY <1>4, <3>1, <3>2
    <3>4. newest'[RunOf[k]] = newest[RunOf[k]]
      BY <1>5, <1>7, <3>3
    <3>5. ASSUME NEW j \in DOMAIN down', StartsRun(down'[j], RunOf[k]) PROVE i < j
      <4>1. j \in Nat /\ j + 1 \in DOMAIN down /\ StartsRun(down[j + 1], RunOf[k])
        BY <1>4, <3>5
      <4>2. i + 1 < j + 1
        BY <3>2, <4>1
      <4>3. QED
        BY <3>1, <4>1, <4>2
    <3>6. QED
      BY <3>2, <3>4, <3>5
  <2>7. QED
    BY <2>1, <2>2, <2>5, <2>6 DEF Turns
<1>16. Lines'
  <2>1. ASSUME NEW k \in Launches PROVE LinesRead(k)' /\ LinesSent(k)' /\ LinesQueued(k)'
    <3>1. /\ LinesRead(k) /\ LinesSent(k)
          /\ read[k] \in Seq(FrameSet) /\ typed' = typed
      BY <1>1, <1>2, <1>5 DEF Lines
    <3>2. \/ read'[k] = read[k]
          \/ Types(f, k) /\ read'[k] = Append(read[k], f)
      <4>1. CASE f.kind = "stdin"
        <5>1. read'[k] = IF k = newest[RunOf[l]] THEN Append(read[k], f) ELSE read[k]
          BY <1>3, <4>1
        <5>2. l \in Launches /\ newest[RunOf[l]] \in {l, None}
          BY <1>1, <1>2, <1>4, <4>1 DEF Turns, Types
        <5>3. QED
          BY <1>5, <4>1, <5>1, <5>2 DEF Types
      <4>2. CASE f.kind # "stdin"
        BY <1>3, <4>2
      <4>3. QED
        BY <4>1, <4>2
    <3>3. LinesQueued(k)'
      BY <1>2, <1>5 DEF LinesQueued
    <3>4. /\ \A i \in DOMAIN down' : i \in Nat /\ i # 0 /\ i + 1 \in DOMAIN down /\ down'[i] = down[i + 1]
          /\ \A i \in DOMAIN read[k] : read[k][i].n \in Int
          /\ \A i \in DOMAIN down : down[i].n \in Int
      BY <1>1, <1>4, ShapeIs
    <3>5. \A i \in DOMAIN down : Types(down[i], k) =>
              /\ down[i].n <= typed[k]
              /\ \A j \in DOMAIN read[k] : read[k][j].n < down[i].n
              /\ \A j \in DOMAIN down : Types(down[j], k) /\ i < j => down[i].n < down[j].n
      BY <3>1 DEF LinesSent
    <3>6. ASSUME NEW i \in DOMAIN down', Types(down'[i], k)
          PROVE  /\ down'[i].n <= typed[k]
                 /\ \A j \in DOMAIN read[k] : read[k][j].n < down'[i].n
                 /\ \A j \in DOMAIN down' : Types(down'[j], k) /\ i < j => down'[i].n < down'[j].n
                 /\ Types(f, k) => f.n < down'[i].n
      <4>1. i \in Nat /\ i # 0 /\ i + 1 \in DOMAIN down /\ Types(down[i + 1], k) /\ down'[i] = down[i + 1]
        BY <3>4, <3>6
      <4>2. /\ down[i + 1].n <= typed[k]
            /\ \A j \in DOMAIN read[k] : read[k][j].n < down[i + 1].n
            /\ \A j \in DOMAIN down : Types(down[j], k) /\ i + 1 < j => down[i + 1].n < down[j].n
        BY <3>5, <4>1
      <4>3. ASSUME NEW j \in DOMAIN down', Types(down'[j], k), i < j PROVE down'[i].n < down'[j].n
        <5>1. j \in Nat /\ j + 1 \in DOMAIN down /\ Types(down[j + 1], k) /\ down'[j] = down[j + 1] /\ i + 1 < j + 1
          BY <3>4, <4>1, <4>3
        <5>2. QED
          BY <4>1, <4>2, <5>1
      <4>4. Types(f, k) => f.n < down'[i].n
        <5>1. 1 < i + 1
          BY <4>1
        <5>2. QED
          BY <1>4, <3>5, <4>1, <5>1
      <4>5. QED
        BY <4>1, <4>2, <4>3, <4>4
    <3>7. CASE read'[k] = read[k]
      <4>1. LinesRead(k)'
        BY <3>1, <3>7 DEF LinesRead
      <4>2. LinesSent(k)'
        BY <3>1, <3>6, <3>7 DEF LinesSent
      <4>3. QED
        BY <3>3, <4>1, <4>2
    <3>8. CASE Types(f, k) /\ read'[k] = Append(read[k], f)
      <4> DEFINE q == read[k]
      <4>1. /\ \A i \in DOMAIN q : q[i].launch = k /\ q[i].n <= typed[k] /\ (i > 1 => q[i - 1].n < q[i].n)
            /\ \A i \in DOMAIN q : q[i].n < f.n
            /\ f.launch = k /\ f.n <= typed[k]
        BY <1>4, <3>1, <3>5, <3>8 DEF LinesRead, Types
      <4> HIDE DEF q
      <4>2. /\ Append(q, f)[Len(q) + 1] = f
            /\ \A i \in DOMAIN q : Append(q, f)[i] = q[i]
            /\ \A i \in DOMAIN Append(q, f) : i \in DOMAIN q \/ i = Len(q) + 1
            /\ Len(q) \in Nat /\ DOMAIN q = 1 .. Len(q)
        <5>1. q \in Seq(FrameSet)
          BY <3>1 DEF q
        <5>2. QED
          BY <1>5, <5>1, Appended
      <4>3. ASSUME NEW i \in DOMAIN Append(q, f)
            PROVE  /\ Append(q, f)[i].launch = k /\ Append(q, f)[i].n <= typed[k]
                   /\ i > 1 => Append(q, f)[i - 1].n < Append(q, f)[i].n
        <5>1. CASE i \in DOMAIN q
          <6>1. i > 1 => i - 1 \in DOMAIN q
            BY <4>2, <5>1
          <6>2. QED
            BY <4>1, <4>2, <5>1, <6>1
        <5>2. CASE i = Len(q) + 1
          <6>1. i > 1 => i - 1 \in DOMAIN q
            BY <4>2, <5>2
          <6>2. QED
            BY <4>1, <4>2, <5>2, <6>1
        <5>3. QED
          BY <4>2, <5>1, <5>2
      <4>4. read'[k] = Append(q, f)
        BY <3>8 DEF q
      <4>5. LinesRead(k)'
        BY <3>1, <4>3, <4>4 DEF LinesRead
      <4>6. \A j \in DOMAIN read'[k] : read'[k][j] = f \/ \E m \in DOMAIN read[k] : read'[k][j] = read[k][m]
        BY <4>2, <4>4 DEF q
      <4>7. LinesSent(k)'
        BY <3>1, <3>6, <3>8, <4>6 DEF LinesSent
      <4>8. QED
        BY <3>3, <4>5, <4>7
    <3>9. QED
      BY <3>2, <3>7, <3>8
  <2>2. QED
    BY <2>1 DEF Lines
<1>17. Owes'
  <2>1. \A k \in Launches : outcome[k] = "disconnected" => \A i \in DOMAIN down : ~Starts(down[i], k)
    BY <1>1 DEF Owes
  <2>2. \A k \in Launches : outcome'[k] = "disconnected" => \A i \in DOMAIN down' : ~Starts(down'[i], k)
    BY <1>2, <1>4, <2>1
  <2>3. ASSUME limits.losses + limits.restarts <= 1
        PROVE  OneSocket' /\ \A k \in has' : outcome'[k] = "disconnected" => Owing(k)'
    <3>1. OneSocket /\ \A k \in has : outcome[k] = "disconnected" => Owing(k)
      BY <1>1, <2>3 DEF Owes
    <3>2. OneSocket'
      BY <1>2, <3>1 DEF OneSocket
    <3>3. ASSUME NEW k \in has', outcome'[k] = "disconnected" PROVE Owing(k)'
      <4>1. k \in Launches /\ has' \subseteq Launches
        BY <1>1, <3>3 DEF SInv, Around
      <4>2. k \in has
        BY <1>2, <1>4, <1>7, <2>1, <3>3, <4>1
      <4>3. Owing(k)
        BY <1>2, <3>1, <3>3, <4>2
      <4>4. CASE sink = 0 /\ k \in owed
        BY <1>2, <4>3, <4>4 DEF Owing
      <4>5. CASE sink = 2 /\ k \in ending
        BY <1>2, <1>7, <4>3, <4>5 DEF Owing
      <4>6. ASSUME sink = 2, NEW i \in DOMAIN down, Stops(down[i], k) PROVE Owing(k)'
        <5>1. CASE i = 1
          BY <1>2, <1>7, <4>1, <4>2, <4>3, <4>6, <5>1 DEF Owing
        <5>2. CASE i # 1
          BY <1>2, <1>4, <4>3, <4>6, <5>2 DEF Owing
        <5>3. QED
          BY <5>1, <5>2
      <4>7. QED
        BY <4>3, <4>4, <4>5, <4>6 DEF Owing
    <3>4. QED
      BY <3>2, <3>3
  <2>4. QED
    BY <1>1, <1>2, <2>2, <2>3 DEF Owes
<1>18. QED
  BY <1>1, <1>13, <1>14, <1>15, <1>16, <1>17 DEF Truth

LEMMA TruthStep == ASSUME Truth, [Next]_vars PROVE Truth'
<1>1. CASE UNCHANGED vars
  <2>1. SInv /\ SInv'
    BY <1>1, SlotsStep DEF Truth
  <2>2. UNCHANGED <<linkVars, pending, waiters, outcome, down, grace, owed, confirmed, hostVars, counters>>
    BY <1>1 DEF vars, linkVars, hostVars, counters
  <2>3. Turnover({}) /\ UNCHANGED <<up, started>>
    BY <2>1, <2>2, RestTurns DEF hostVars, counters
  <2>4. QED
    BY <2>1, <2>2, <2>3, TurnKeepsTruth
<1>2. ASSUME NEW l \in Launches,
             Dispatch(l) \/ Stop(l) \/ StopTimesOut(l) \/ Abandon(l) \/ sendStdin(l) \/ HostEnds(l)
      PROVE  Truth'
  BY <1>2, DispatchKeepsTruth, StopKeepsTruth, TimeOutKeepsTruth, AbandonKeepsTruth, StdinKeepsTruth,
     EndsKeepsTruth
<1>3. ASSUME NEW r \in Runs, sendTerminate(r) \/ GraceEnds(r) PROVE Truth'
  BY <1>3, TerminateKeepsTruth, GraceKeepsTruth
<1>4. CASE receiveComplete \/ receiveLaunched \/ registerConnection \/ unregisterConnection
  BY <1>4, CompleteKeepsTruth, LaunchedKeepsTruth, RegisterKeepsTruth, UnregisterKeepsTruth
<1>5. CASE LinkLost \/ Reconnect \/ ServerRestarts \/ HostReceives
  BY <1>5, LostKeepsTruth, ReconnectKeepsTruth, RestartKeepsTruth, ReceivesKeepsTruth
<1>6. QED
  BY <1>1, <1>2, <1>3, <1>4, <1>5, Zenon DEF Next

(* What the registry says of an attempt is so: a stop reported as confirmed, *)
(* a dispatch reported as complete, the stdin an attempt reads, and the stop *)
(* of one given up (connectionRegistry.ts:464-494, 639-656, 1306-1316), for  *)
(* any launches, Runs and bounds, through losses and restarts.               *)
THEOREM SaidIsAlwaysSo == Spec => []SaidIsSo
<1>1. Init => Truth
  BY InitIsTrue
<1>2. Truth /\ [Next]_vars => Truth'
  BY TruthStep
<1>3. Truth => SaidIsSo
  BY TruthFollows
<1>4. QED
  BY <1>1, <1>2, <1>3, PTL DEF Spec

=============================================================================
