------------------------- MODULE HostLaunch_proofs -------------------------
(***************************************************************************)
(* Theorems about the lease table alone and about the launches that use    *)
(* it, for any launches, Runs, maintenance, directories and plans of who   *)
(* writes and reads which; and, last, about the other requests that the    *)
(* control plane makes of a host.                                          *)
(*                                                                         *)
(* A change of the table is a change of one lease at a time.  So what a    *)
(* lease must be by itself (AtRest) and what giving one up may do to it   *)
(* (Freed) are shown first, for any lease; how leases, attempts and        *)
(* maintenance fit together comes after that, and what the phase of a      *)
(* launch says of its attempt last.                                        *)
(***************************************************************************)
EXTENDS HostLaunch, HostRequests, SequenceTheorems, FiniteSetTheorems, WellFoundedInduction, TLAPS

Owners == Launches \union Maintenance
Waiters == [launchId : Launches, mode : LeaseModes]
Leases == [mode : LeaseModes, holders : SUBSET Owners, queue : Seq(Waiters)]

(* A lease between two lines of the code: a writer is alone, nobody waits   *)
(* twice or for what he holds.                                              *)
Sound(r) ==
    /\ r \in Leases
    /\ \A i \in 1 .. Len(r.queue) : /\ r.queue[i].mode \in {"exclusive", "shared"}
                                    /\ r.queue[i].launchId \notin r.holders
    /\ \A i, j \in 1 .. Len(r.queue) : r.queue[i].launchId = r.queue[j].launchId => i = j
    /\ r.holders # {} => r.mode # "none"
    /\ r.mode = "exclusive" => \A o, p \in r.holders : o = p

(* A lease at rest: free ones are deleted, and whoever waits waits for       *)
(* somebody it cannot join.                                                  *)
AtRest(r) ==
    /\ Sound(r)
    /\ r.mode = "none" \/ r.holders = {} => r = NoLease
    /\ r.queue # <<>> => /\ r.holders # {}
                         /\ r.mode = "exclusive" \/ r.queue[1].mode = "exclusive"

(* The lease r after `count` waiters at its front were let in. *)
LetsIn(r, t, count) ==
    /\ t.holders = r.holders \union {r.queue[i].launchId : i \in 1 .. count}
    /\ Len(t.queue) = Len(r.queue) - count
    /\ \A i \in 1 .. Len(t.queue) : t.queue[i] = r.queue[i + count]
    /\ \/ count = 0 /\ t.mode = r.mode
       \/ count = 0 /\ r.holders = {}
       \/ count = 1 /\ r.holders = {} /\ t.mode = "exclusive"
       \/ /\ t.mode = "shared" /\ (r.holders = {} \/ r.mode # "exclusive")
          /\ \A i \in 1 .. count : r.queue[i].mode = "shared"

(* The lease r after o gave up what it held of it or its place in the queue. *)
Freed(r, t, o) ==
    /\ AtRest(t) /\ o \notin t.holders /\ r.holders \ {o} \subseteq t.holders
    /\ \A j \in 1 .. Len(t.queue) : /\ t.queue[j].launchId # o
                                    /\ \E i \in 1 .. Len(r.queue) : t.queue[j] = r.queue[i]
    /\ r.mode = "exclusive" /\ t.holders \intersect r.holders # {} => t.mode = "exclusive"
    /\ \A a \in t.holders \ r.holders : \E p \in 1 .. Len(r.queue) :
          /\ r.queue[p].launchId = a
          /\ r.queue[p].mode = "exclusive" => t.mode = "exclusive"
          /\ \A i \in 1 .. p, j \in 1 .. Len(t.queue) : t.queue[j] # r.queue[i]

-----------------------------------------------------------------------------
(* The code looks for the first of several keys, and of several waiters.    *)

LEMMA Least ==
  ASSUME NEW T, T \subseteq Nat, T # {}
  PROVE  \E x \in T : \A y \in T : x <= y
<1>1. PICK x \in T : \A y \in T : ~(<<y, x>> \in OpToRel(<, Nat))
  BY NatLessThanWellFounded, WFMin
<1>2. \A y \in T : ~(y < x)
  BY <1>1 DEF OpToRel
<1>3. QED
  BY <1>2

LEMMA DueIsNext ==
  ASSUME NEW l \in Launches, NEW done, Ids(l) \ done # {}
  PROVE  Due(l, done) \in Ids(l) \ done /\ Due(l, done) \in Keys
<1>1. Ids(l) \subseteq Keys /\ Keys \subseteq Nat
  BY PlanAssumption, KeysAssumption DEF Ids
<1>2. \E k \in Ids(l) \ done : \A j \in Ids(l) \ done : k <= j
  BY <1>1, Least
<1>3. QED
  BY <1>1, <1>2 DEF Due

LEMMA ReadersAtFront ==
  ASSUME NEW q \in Seq(Waiters), \A i \in 1 .. Len(q) : q[i].mode \in {"exclusive", "shared"}
  PROVE  /\ Readers(q) \in 0 .. Len(q)
         /\ \A i \in 1 .. Readers(q) : q[i].mode = "shared"
         /\ Readers(q) < Len(q) => q[Readers(q) + 1].mode = "exclusive"
<1>1. DOMAIN q = 1 .. Len(q) /\ Len(q) \in Nat
  OBVIOUS
<1>2. CASE \A i \in DOMAIN q : q[i].mode # "exclusive"
  BY <1>1, <1>2 DEF Readers
<1>3. CASE \E i \in DOMAIN q : q[i].mode = "exclusive"
  <2>1. PICK T : T = {i \in DOMAIN q : q[i].mode = "exclusive"}
    OBVIOUS
  <2>2. T \subseteq Nat /\ T # {}
    BY <1>1, <1>3, <2>1
  <2>3. PICK x \in T : \A y \in T : x <= y
    BY <2>2, Least
  <2>4. x \in DOMAIN q /\ q[x].mode = "exclusive" /\ \A j \in 1 .. x - 1 : q[j].mode = "shared"
    <3>1. x \in DOMAIN q /\ q[x].mode = "exclusive" /\ x \in 1 .. Len(q)
      BY <1>1, <2>1
    <3>2. \A j \in 1 .. x - 1 : j \in 1 .. Len(q) /\ j \notin T
      BY <1>1, <2>3, <3>1
    <3>3. QED
      BY <1>1, <2>1, <3>1, <3>2
  <2>5. PICK c : c = CHOOSE i \in DOMAIN q : /\ q[i].mode = "exclusive"
                                             /\ \A j \in 1 .. i - 1 : q[j].mode = "shared"
    OBVIOUS
  <2>6. c \in DOMAIN q /\ q[c].mode = "exclusive" /\ \A j \in 1 .. c - 1 : q[j].mode = "shared"
    BY <2>4, <2>5
  <2>7. Readers(q) = c - 1
    BY <1>3, <2>5 DEF Readers
  <2>8. QED
    BY <1>1, <2>6, <2>7
<1>4. QED
  BY <1>2, <1>3

-----------------------------------------------------------------------------
(* What the operations make of one lease. *)

LEMMA NoLeaseSettled == AtRest(NoLease) /\ NoLease.queue = <<>> /\ NoLease.holders = {}
<1>1. /\ NoLease.queue = <<>> /\ NoLease.holders = {} /\ NoLease.mode = "none"
      /\ Len(NoLease.queue) = 0
  BY DEF NoLease
<1>2. NoLease \in Leases
  BY DEF NoLease, Leases, LeaseModes
<1>3. QED
  BY <1>1, <1>2 DEF AtRest, Sound

(* admitWaiting leaves a lease at rest and lets in only from the front.     *)
LEMMA AdmitSettles ==
  ASSUME NEW r, Sound(r)
  PROVE  AtRest(Admit(r)) /\ \E m \in 0 .. Len(r.queue) : LetsIn(r, Admit(r), m)
<1>1. PICK q, n : q = r.queue /\ n = Readers(q)
  OBVIOUS
<1>2. /\ q \in Seq(Waiters) /\ Len(q) \in Nat /\ DOMAIN q = 1 .. Len(q)
      /\ r.holders \subseteq Owners /\ r.mode \in LeaseModes
  BY <1>1 DEF Sound, Leases
<1>3. /\ n \in 0 .. Len(q) /\ \A i \in 1 .. n : q[i].mode = "shared"
      /\ n < Len(q) => q[n + 1].mode = "exclusive"
  BY <1>1, <1>2, ReadersAtFront DEF Sound
<1>4. n \in Nat /\ n <= Len(q) /\ Len(q) \in Nat
  <2>1. n \in 0 .. Len(q)
    BY <1>3
  <2>2. Len(q) \in Nat
    BY <1>2
  <2>3. QED
    BY <2>1, <2>2
<1>5. CASE q = <<>>
  <2>1. Len(q) = 0
    BY <1>5
  <2>2. CASE r.holders = {}
    <3>1. Admit(r) = NoLease
      BY <1>1, <1>5, <2>2 DEF Admit
    <3>2. LetsIn(r, NoLease, 0)
      BY <1>1, <2>1, <2>2, NoLeaseSettled DEF LetsIn
    <3>3. QED
      BY <1>1, <2>1, <3>1, <3>2, NoLeaseSettled
  <2>3. CASE r.holders # {}
    <3>1. Admit(r) = r
      BY <1>1, <1>5, <2>3 DEF Admit
    <3>2. LetsIn(r, r, 0)
      BY <1>1, <2>1 DEF LetsIn
    <3>3. AtRest(r)
      BY <1>1, <1>5, <2>3 DEF AtRest, Sound
    <3>4. QED
      BY <1>1, <2>1, <3>1, <3>2, <3>3
  <2>4. QED
    BY <2>2, <2>3
<1>6. CASE q # <<>> /\ (IF n = 0 THEN r.holders # {} ELSE r.holders # {} /\ r.mode = "exclusive")
  <2>1. Admit(r) = r
    BY <1>1, <1>6 DEF Admit
  <2>2. LetsIn(r, r, 0)
    BY <1>1, <1>2 DEF LetsIn
  <2>3. Len(q) > 0
    BY <1>2, <1>6
  <2>4. r.mode = "exclusive" \/ q[1].mode = "exclusive"
    BY <1>2, <1>3, <1>6, <2>3
  <2>5. AtRest(r)
    BY <1>1, <1>6, <2>4 DEF AtRest, Sound
  <2>6. QED
    BY <1>1, <1>2, <2>1, <2>2, <2>5
<1>7. CASE q # <<>> /\ n = 0 /\ r.holders = {}
  <2>1. PICK t : t = [mode |-> "exclusive", holders |-> {q[1].launchId}, queue |-> Tail(q)]
    OBVIOUS
  <2>2. Admit(r) = t
    BY <1>1, <1>7, <2>1 DEF Admit
  <2>3. t.mode = "exclusive" /\ t.holders = {q[1].launchId} /\ t.queue = Tail(q)
    BY <2>1
  <2>4. Len(q) > 0
    BY <1>2, <1>7
  <2>5. /\ Tail(q) \in Seq(Waiters) /\ Len(Tail(q)) = Len(q) - 1
        /\ \A i \in 1 .. Len(Tail(q)) : Tail(q)[i] = q[i + 1]
    BY <1>2, <1>7, HeadTailProperties
  <2>6. t \in Leases
    <3>1. q[1] \in Waiters
      BY <1>2, <2>4
    <3>2. q[1].launchId \in Owners
      BY <3>1 DEF Waiters, Owners
    <3>3. QED
      BY <2>1, <2>5, <3>2 DEF Leases, LeaseModes
  <2>7. LetsIn(r, t, 1)
    BY <1>1, <1>2, <1>7, <2>3, <2>4, <2>5 DEF LetsIn
  <2>8. Sound(t)
    <3>1. \A i \in 1 .. Len(t.queue) : i + 1 \in 1 .. Len(q) /\ i + 1 # 1
      BY <1>2, <2>3, <2>5
    <3>2. ASSUME NEW i \in 1 .. Len(t.queue)
          PROVE  t.queue[i].mode \in {"exclusive", "shared"} /\ t.queue[i].launchId \notin t.holders
      <4>1. t.queue[i] = q[i + 1] /\ i + 1 \in 1 .. Len(q) /\ i + 1 # 1 /\ 1 \in 1 .. Len(q)
        BY <1>2, <2>3, <2>4, <2>5, <3>1
      <4>2. q[i + 1].mode \in {"exclusive", "shared"} /\ q[i + 1].launchId # q[1].launchId
        BY <1>1, <4>1 DEF Sound
      <4>3. QED
        BY <2>3, <4>1, <4>2
    <3>3. ASSUME NEW i \in 1 .. Len(t.queue), NEW j \in 1 .. Len(t.queue),
                 t.queue[i].launchId = t.queue[j].launchId
          PROVE  i = j
      <4>1. /\ t.queue[i] = q[i + 1] /\ i + 1 \in 1 .. Len(q)
            /\ t.queue[j] = q[j + 1] /\ j + 1 \in 1 .. Len(q)
        BY <2>3, <2>5, <3>1
      <4>2. i + 1 = j + 1
        BY <1>1, <3>3, <4>1 DEF Sound
      <4>3. QED
        BY <4>2
    <3>4. QED
      BY <2>3, <2>6, <3>2, <3>3 DEF Sound
  <2>10. AtRest(t)
    BY <2>3, <2>8 DEF AtRest
  <2>11. QED
    BY <1>1, <1>2, <2>2, <2>4, <2>7, <2>10
<1>8. CASE q # <<>> /\ n # 0 /\ ~(r.holders # {} /\ r.mode = "exclusive")
  <2>1. PICK t : t = [mode |-> "shared",
                      holders |-> r.holders \union {q[i].launchId : i \in 1 .. n},
                      queue |-> SubSeq(q, n + 1, Len(q))]
    OBVIOUS
  <2>2. Admit(r) = t
    BY <1>1, <1>8, <2>1 DEF Admit
  <2>3. /\ t.mode = "shared" /\ t.queue = SubSeq(q, n + 1, Len(q))
        /\ t.holders = r.holders \union {q[i].launchId : i \in 1 .. n}
    BY <2>1
  <2>4. /\ t.queue \in Seq(Waiters) /\ Len(t.queue) = Len(q) - n
        /\ \A i \in 1 .. Len(t.queue) : t.queue[i] = q[i + n]
    <3>1. \A i \in n + 1 .. Len(q) : q[i] \in Waiters
      BY <1>2, <1>3
    <3>2. n \in Nat /\ n <= Len(q)
      BY <1>2, <1>3
    <3>3. /\ SubSeq(q, n + 1, Len(q)) \in Seq(Waiters)
          /\ Len(SubSeq(q, n + 1, Len(q))) = IF n + 1 <= Len(q) THEN Len(q) - (n + 1) + 1 ELSE 0
          /\ \A i \in 1 .. Len(q) - (n + 1) + 1 : SubSeq(q, n + 1, Len(q))[i] = q[n + 1 + i - 1]
      BY <1>2, <3>1, <3>2, SubSeqProperties
    <3>4. QED
      BY <1>2, <2>3, <3>2, <3>3
  <2>5. \A i \in 1 .. n : q[i].launchId \in Launches
    <3>1. \A i \in 1 .. n : i \in 1 .. Len(q)
      BY <1>4
    <3>2. \A i \in 1 .. Len(q) : q[i] \in Waiters
      BY <1>2, ElementOfSeq
    <3>3. \A w \in Waiters : w.launchId \in Launches
      BY DEF Waiters
    <3>4. QED
      BY <3>1, <3>2, <3>3
  <2>6. t \in Leases
    BY <1>2, <2>1, <2>3, <2>4, <2>5 DEF Leases, LeaseModes, Owners
  <2>7. LetsIn(r, t, n)
    BY <1>1, <1>2, <1>3, <1>8, <2>3, <2>4 DEF LetsIn
  <2>8. Sound(t)
    <3>1. \A i \in 1 .. Len(t.queue) : i + n \in 1 .. Len(q) /\ i + n \notin 1 .. n
      <4>1. n \in Nat /\ n <= Len(q) /\ Len(q) \in Nat /\ Len(t.queue) = Len(q) - n
        BY <1>4, <2>4
      <4>2. QED
        BY <4>1
    <3>2. ASSUME NEW i \in 1 .. Len(t.queue)
          PROVE  t.queue[i].mode \in {"exclusive", "shared"} /\ t.queue[i].launchId \notin t.holders
      <4>1. t.queue[i] = q[i + n] /\ i + n \in 1 .. Len(q) /\ i + n \notin 1 .. n
        BY <2>4, <3>1
      <4>2. q[i + n].mode \in {"exclusive", "shared"} /\ q[i + n].launchId \notin r.holders
        BY <1>1, <4>1 DEF Sound
      <4>3. \A j \in 1 .. n : q[j].launchId # q[i + n].launchId
        BY <1>1, <1>2, <1>3, <4>1 DEF Sound
      <4>4. QED
        BY <2>3, <4>1, <4>2, <4>3
    <3>3. ASSUME NEW i \in 1 .. Len(t.queue), NEW j \in 1 .. Len(t.queue),
                 t.queue[i].launchId = t.queue[j].launchId
          PROVE  i = j
      <4>1. /\ t.queue[i] = q[i + n] /\ i + n \in 1 .. Len(q)
            /\ t.queue[j] = q[j + n] /\ j + n \in 1 .. Len(q)
        BY <2>4, <3>1
      <4>2. i + n = j + n
        BY <1>1, <3>3, <4>1 DEF Sound
      <4>3. n \in Nat /\ i \in Int /\ j \in Int
        BY <1>3
      <4>4. QED
        BY <4>2, <4>3
    <3>4. QED
      BY <2>3, <2>6, <3>2, <3>3 DEF Sound
  <2>9. t.holders # {}
    <3>1. 1 \in 1 .. n
      BY <1>3, <1>8
    <3>2. QED
      BY <2>3, <3>1
  <2>10. t.queue # <<>> => t.queue[1].mode = "exclusive"
    <3>1. SUFFICES ASSUME t.queue # <<>> PROVE t.queue[1].mode = "exclusive"
      OBVIOUS
    <3>2. Len(t.queue) \in Nat /\ Len(t.queue) # 0
      BY <2>4, <3>1
    <3>3. n \in Nat /\ Len(q) \in Nat /\ Len(t.queue) = Len(q) - n
      BY <1>4, <2>4
    <3>4. 1 \in 1 .. Len(t.queue) /\ n < Len(q) /\ 1 + n = n + 1
      BY <3>2, <3>3
    <3>5. t.queue[1] = q[n + 1]
      BY <2>4, <3>4
    <3>6. QED
      BY <1>3, <3>4, <3>5
  <2>11. QED
    BY <1>1, <1>3, <2>2, <2>3, <2>7, <2>8, <2>9, <2>10 DEF AtRest
<1>9. QED
  BY <1>5, <1>6, <1>7, <1>8

(* What admitWaiting does to a lease somebody left is what Freed says.      *)
LEMMA LetsInFrees ==
  ASSUME NEW r, NEW s, NEW o, NEW shift \in {0, 1}, Sound(s),
         s.mode = r.mode, s.holders = r.holders \ {o},
         Len(s.queue) = Len(r.queue) - shift, Len(r.queue) \in Nat,
         \A i \in 1 .. Len(s.queue) : s.queue[i] = r.queue[i + shift] /\ s.queue[i].launchId # o,
         shift = 1 => r.queue[1].launchId = o
  PROVE  Freed(r, Admit(s), o)
<1>1. PICK t : t = Admit(s)
  OBVIOUS
<1>2. PICK m \in 0 .. Len(s.queue) : LetsIn(s, t, m)
  BY <1>1, AdmitSettles
<1>3. AtRest(t)
  BY <1>1, AdmitSettles
<1>4. m \in Nat /\ m <= Len(s.queue) /\ Len(s.queue) \in Nat
  <2>1. Len(s.queue) \in Nat
    BY DEF Sound, Leases
  <2>2. QED
    BY <2>1
<1>5. /\ t.holders = s.holders \union {s.queue[i].launchId : i \in 1 .. m}
      /\ Len(t.queue) = Len(s.queue) - m
      /\ \A i \in 1 .. Len(t.queue) : t.queue[i] = s.queue[i + m]
  BY <1>2 DEF LetsIn
<1>6. \A j \in 1 .. Len(t.queue) : j + m \in 1 .. Len(s.queue) /\ j + m + shift \in 1 .. Len(r.queue)
  BY <1>4, <1>5
<1>7. \A j \in 1 .. Len(t.queue) : t.queue[j] = r.queue[j + m + shift] /\ t.queue[j].launchId # o
  <2>1. SUFFICES ASSUME NEW j \in 1 .. Len(t.queue)
                 PROVE  t.queue[j] = r.queue[j + m + shift] /\ t.queue[j].launchId # o
    OBVIOUS
  <2>2. t.queue[j] = s.queue[j + m]
    BY <1>5
  <2>3. j + m \in 1 .. Len(s.queue)
    BY <1>6
  <2>4. s.queue[j + m] = r.queue[(j + m) + shift] /\ s.queue[j + m].launchId # o
    BY <2>3
  <2>5. QED
    BY <2>2, <2>4
<1>8. o \notin t.holders /\ r.holders \ {o} \subseteq t.holders
  <2>1. \A i \in 1 .. m : i \in 1 .. Len(s.queue)
    BY <1>4
  <2>2. QED
    BY <1>5, <2>1
<1>9. r.mode = "exclusive" /\ t.holders \intersect r.holders # {} => t.mode = "exclusive"
  <2>1. SUFFICES ASSUME r.mode = "exclusive", NEW a \in t.holders \intersect r.holders
                 PROVE  t.mode = "exclusive"
    OBVIOUS
  <2>2. a \in s.holders
    BY <1>8, <2>1
  <2>3. QED
    BY <1>2, <2>1, <2>2 DEF LetsIn
<1>10. ASSUME NEW a \in t.holders \ r.holders
       PROVE  \E p \in 1 .. Len(r.queue) :
                /\ r.queue[p].launchId = a
                /\ r.queue[p].mode = "exclusive" => t.mode = "exclusive"
                /\ \A i \in 1 .. p, j \in 1 .. Len(t.queue) : t.queue[j] # r.queue[i]
  <2>1. PICK e \in 1 .. m : s.queue[e].launchId = a
    BY <1>5, <1>10
  <2>2. e \in 1 .. Len(s.queue) /\ e + shift \in 1 .. Len(r.queue) /\ s.queue[e] = r.queue[e + shift]
    BY <1>4
  <2>3. s.queue[e].mode = "exclusive" => t.mode = "exclusive"
    <3>1. m # 0
      BY <1>4
    <3>2. QED
      BY <1>2, <3>1 DEF LetsIn
  <2>4. ASSUME NEW i \in 1 .. e + shift, NEW j \in 1 .. Len(t.queue), t.queue[j] = r.queue[i]
        PROVE  FALSE
    <3>1. t.queue[j] = s.queue[j + m] /\ j + m \in 1 .. Len(s.queue) /\ t.queue[j].launchId # o
      BY <1>5, <1>6, <1>7
    <3>2. CASE i - shift \in 1 .. Len(s.queue)
      <4>1. r.queue[i] = s.queue[i - shift]
        BY <3>2, SMTT(30)
      <4>2. j + m = i - shift
        BY <2>4, <3>1, <3>2, <4>1, ZenonT(30) DEF Sound
      <4>3. i - shift <= e /\ e <= m
        OBVIOUS
      <4>4. j + m > m
        BY <1>4
      <4>5. QED
        BY <1>4, <4>2, <4>3, <4>4
    <3>3. CASE i - shift \notin 1 .. Len(s.queue)
      <4>1. shift = 1 /\ i = 1
        BY <1>4, <2>2, <3>3
      <4>2. QED
        BY <2>4, <3>1, <4>1
    <3>4. QED
      BY <3>2, <3>3
  <2>5. QED
    BY <2>1, <2>2, <2>3, <2>4
<1>11. QED
  BY <1>1, <1>3, <1>6, <1>7, <1>8, <1>9, <1>10 DEF Freed

LEMMA DroppedFrees ==
  ASSUME NEW r, NEW o, AtRest(r), o \in r.holders
  PROVE  Freed(r, Dropped(r, o), o)
<1>1. PICK s : s = [r EXCEPT !.holders = @ \ {o}]
  OBVIOUS
<1>2. /\ r \in Leases /\ s.mode = r.mode /\ s.holders = r.holders \ {o} /\ s.queue = r.queue
      /\ s \in Leases /\ Len(r.queue) \in Nat
  BY <1>1 DEF AtRest, Sound, Leases
<1>3. Sound(s)
  BY <1>2 DEF AtRest, Sound
<1>4. \A i \in 1 .. Len(s.queue) : s.queue[i] = r.queue[i + 0] /\ s.queue[i].launchId # o
  BY <1>2 DEF AtRest, Sound
<1>5. Freed(r, Admit(s), o)
  BY <1>2, <1>3, <1>4, LetsInFrees
<1>6. QED
  BY <1>1, <1>5 DEF Dropped

LEMMA RemovedAt ==
  ASSUME NEW q \in Seq(Waiters), NEW p \in 1 .. Len(q)
  PROVE  /\ RemoveAt(q, p) \in Seq(Waiters) /\ Len(RemoveAt(q, p)) = Len(q) - 1
         /\ \A i \in 1 .. Len(q) - 1 : RemoveAt(q, p)[i] = IF i < p THEN q[i] ELSE q[i + 1]
<1>1. Len(q) \in Nat /\ \A i \in 1 .. Len(q) : q[i] \in Waiters
  BY ElementOfSeq
<1>2. /\ SubSeq(q, 1, p - 1) \in Seq(Waiters) /\ Len(SubSeq(q, 1, p - 1)) = p - 1
      /\ \A i \in 1 .. p - 1 : SubSeq(q, 1, p - 1)[i] = q[i]
  <2>1. \A i \in 1 .. p - 1 : q[i] \in Waiters
    BY <1>1
  <2>2. /\ SubSeq(q, 1, p - 1) \in Seq(Waiters)
        /\ Len(SubSeq(q, 1, p - 1)) = IF 1 <= p - 1 THEN p - 1 - 1 + 1 ELSE 0
        /\ \A i \in 1 .. p - 1 - 1 + 1 : SubSeq(q, 1, p - 1)[i] = q[1 + i - 1]
    BY <1>1, <2>1, SubSeqProperties
  <2>3. QED
    BY <1>1, <2>2
<1>3. /\ SubSeq(q, p + 1, Len(q)) \in Seq(Waiters) /\ Len(SubSeq(q, p + 1, Len(q))) = Len(q) - p
      /\ \A i \in 1 .. Len(q) - p : SubSeq(q, p + 1, Len(q))[i] = q[p + i]
  <2>1. \A i \in p + 1 .. Len(q) : q[i] \in Waiters
    BY <1>1
  <2>2. /\ SubSeq(q, p + 1, Len(q)) \in Seq(Waiters)
        /\ Len(SubSeq(q, p + 1, Len(q))) = IF p + 1 <= Len(q) THEN Len(q) - (p + 1) + 1 ELSE 0
        /\ \A i \in 1 .. Len(q) - (p + 1) + 1 : SubSeq(q, p + 1, Len(q))[i] = q[p + 1 + i - 1]
    BY <1>1, <2>1, SubSeqProperties
  <2>3. QED
    BY <1>1, <2>2
<1>4. PICK a, b : a = SubSeq(q, 1, p - 1) /\ b = SubSeq(q, p + 1, Len(q))
  OBVIOUS
<1>5. /\ a \o b \in Seq(Waiters) /\ Len(a \o b) = Len(a) + Len(b)
      /\ \A i \in 1 .. Len(a) + Len(b) : (a \o b)[i] = IF i <= Len(a) THEN a[i] ELSE b[i - Len(a)]
  <2>1. a \in Seq(Waiters) /\ b \in Seq(Waiters)
    BY <1>2, <1>3, <1>4
  <2>2. QED
    BY <2>1, ConcatProperties
<1>6. Len(a) = p - 1 /\ Len(b) = Len(q) - p /\ RemoveAt(q, p) = a \o b
  BY <1>2, <1>3, <1>4 DEF RemoveAt
<1>7. ASSUME NEW i \in 1 .. Len(q) - 1
      PROVE  (a \o b)[i] = IF i < p THEN q[i] ELSE q[i + 1]
  <2>1. (a \o b)[i] = IF i <= p - 1 THEN a[i] ELSE b[i - (p - 1)]
    BY <1>1, <1>5, <1>6
  <2>2. CASE i < p
    <3>1. i \in 1 .. p - 1 /\ i <= p - 1
      BY <1>1, <2>2
    <3>2. a[i] = q[i]
      BY <1>2, <1>4, <3>1
    <3>3. QED
      BY <2>1, <2>2, <3>1, <3>2
  <2>3. CASE ~(i < p)
    <3>1. i - (p - 1) \in 1 .. Len(q) - p /\ p + (i - (p - 1)) = i + 1
      BY <1>1, <2>3
    <3>2. b[i - (p - 1)] = q[i + 1]
      BY <1>3, <1>4, <3>1
    <3>3. QED
      BY <1>1, <2>1, <2>3, <3>2
  <2>4. QED
    BY <2>2, <2>3
<1>8. Len(a \o b) = Len(q) - 1
  BY <1>1, <1>5, <1>6
<1>9. QED
  BY <1>5, <1>6, <1>7, <1>8

LEMMA LeftFrees ==
  ASSUME NEW r, NEW l \in Launches, AtRest(r), Waits(r, l)
  PROVE  Freed(r, Left(r, l), l)
<1>1. PICK q : q = r.queue
  OBVIOUS
<1>2. /\ q \in Seq(Waiters) /\ Len(q) \in Nat /\ DOMAIN q = 1 .. Len(q)
      /\ r \in Leases /\ r.holders \subseteq Owners /\ r.mode \in LeaseModes
  BY <1>1 DEF AtRest, Sound, Leases
<1>3. PICK p \in 1 .. Len(q) : /\ q[p].launchId = l
                               /\ p = CHOOSE i \in DOMAIN q : q[i].launchId = l
  <2>1. \E i \in DOMAIN q : q[i].launchId = l
    BY <1>1 DEF Waits
  <2>2. QED
    BY <1>2, <2>1
<1>4. PICK s : s = [r EXCEPT !.queue = RemoveAt(@, p)]
  OBVIOUS
<1>5. s \in Leases /\ s.queue = RemoveAt(q, p) /\ s.mode = r.mode /\ s.holders = r.holders
  <2>1. RemoveAt(q, p) \in Seq(Waiters)
    BY <1>2, RemovedAt
  <2>2. QED
    BY <1>1, <1>2, <1>4, <2>1 DEF Leases
<1>6. Left(r, l) = IF p = 1 THEN Admit(s) ELSE s
  BY <1>1, <1>3, <1>4 DEF Left
<1>7. Len(s.queue) = Len(q) - 1 /\ \A i \in 1 .. Len(s.queue) :
        s.queue[i] = IF i < p THEN q[i] ELSE q[i + 1]
  <2>1. /\ Len(RemoveAt(q, p)) = Len(q) - 1
        /\ \A i \in 1 .. Len(q) - 1 : RemoveAt(q, p)[i] = IF i < p THEN q[i] ELSE q[i + 1]
    BY <1>2, RemovedAt
  <2>2. QED
    BY <1>5, <2>1
<1>8. \A i \in 1 .. Len(s.queue) : \E j \in 1 .. Len(q) \ {p} :
         s.queue[i] = q[j] /\ j = IF i < p THEN i ELSE i + 1
  <2>1. SUFFICES ASSUME NEW i \in 1 .. Len(s.queue)
                 PROVE  \E j \in 1 .. Len(q) \ {p} :
                           s.queue[i] = q[j] /\ j = IF i < p THEN i ELSE i + 1
    OBVIOUS
  <2>2. i \in Int /\ i >= 1 /\ i <= Len(q) - 1 /\ Len(q) \in Nat /\ p \in Int
    <3>1. Len(q) \in Nat
      BY <1>2
    <3>2. Len(s.queue) = Len(q) - 1
      BY <1>7
    <3>3. QED
      BY <3>1, <3>2
  <2>3. CASE i < p
    <3>1. i \in 1 .. Len(q) \ {p} /\ s.queue[i] = q[i]
      BY <1>7, <2>2, <2>3
    <3>2. QED
      BY <2>3, <3>1
  <2>4. CASE ~(i < p)
    <3>1. i + 1 \in 1 .. Len(q) \ {p} /\ s.queue[i] = q[i + 1]
      BY <1>7, <2>2, <2>4
    <3>2. QED
      BY <2>4, <3>1
  <2>5. QED
    BY <2>3, <2>4
<1>9. \A i \in 1 .. Len(s.queue) : s.queue[i].launchId # l
  BY <1>1, <1>3, <1>8, SMTT(30) DEF AtRest, Sound
<1>10. l \notin r.holders
  BY <1>1, <1>3 DEF AtRest, Sound
<1>11. Sound(s)
  <2>1. ASSUME NEW i \in 1 .. Len(s.queue)
        PROVE  s.queue[i].mode \in {"exclusive", "shared"} /\ s.queue[i].launchId \notin s.holders
    BY <1>1, <1>5, <1>8, SMTT(30) DEF AtRest, Sound
  <2>2. ASSUME NEW i \in 1 .. Len(s.queue), NEW j \in 1 .. Len(s.queue),
               s.queue[i].launchId = s.queue[j].launchId
        PROVE  i = j
    <3>1. PICK a \in 1 .. Len(q) \ {p} : s.queue[i] = q[a] /\ a = IF i < p THEN i ELSE i + 1
      BY <1>8
    <3>2. PICK b \in 1 .. Len(q) \ {p} : s.queue[j] = q[b] /\ b = IF j < p THEN j ELSE j + 1
      BY <1>8
    <3>3. a = b
      BY <1>1, <2>2, <3>1, <3>2, SMTT(30) DEF AtRest, Sound
    <3>4. i \in Int /\ j \in Int /\ p \in Int
      OBVIOUS
    <3>5. QED
      BY <3>1, <3>2, <3>3, <3>4
  <2>3. QED
    BY <1>5, <2>1, <2>2 DEF AtRest, Sound
<1>12. CASE p = 1
  <2>1. \A i \in 1 .. Len(s.queue) : s.queue[i] = q[i + 1] /\ s.queue[i].launchId # l
    BY <1>7, <1>9, <1>12
  <2>2. s.holders = r.holders \ {l}
    BY <1>5, <1>10
  <2>3. q[1].launchId = l
    BY <1>3, <1>12
  <2>4. Freed(r, Admit(s), l)
    BY <1>1, <1>2, <1>5, <1>7, <1>11, <2>1, <2>2, <2>3, LetsInFrees
  <2>5. QED
    BY <1>6, <1>12, <2>4
<1>13. CASE p # 1
  <2>1. q # <<>> /\ 1 \in 1 .. Len(q) /\ 1 < p
    BY <1>2, <1>13
  <2>2. s.queue # <<>> => s.queue[1] = q[1]
    <3>1. 1 \in 1 .. Len(s.queue)
      <4>1. Len(s.queue) = Len(q) - 1 /\ Len(q) \in Nat /\ p <= Len(q) /\ p \in Int
        <5>1. Len(q) \in Nat
          BY <1>2
        <5>2. Len(s.queue) = Len(q) - 1
          BY <1>7
        <5>3. QED
          BY <5>1, <5>2
      <4>2. QED
        BY <2>1, <4>1
    <3>2. QED
      BY <1>7, <2>1, <3>1
  <2>3. AtRest(s)
    <3>1. /\ r.holders # {} /\ (r.mode = "exclusive" \/ q[1].mode = "exclusive")
          /\ r.mode # "none"
      BY <1>1, <2>1, NoLeaseSettled DEF AtRest
    <3>2. QED
      BY <1>5, <1>11, <2>2, <3>1 DEF AtRest
  <2>4. \A j \in 1 .. Len(s.queue) : \E i \in 1 .. Len(r.queue) : s.queue[j] = r.queue[i]
    BY <1>1, <1>8
  <2>5. Freed(r, s, l)
    BY <1>5, <1>9, <1>10, <2>3, <2>4 DEF Freed
  <2>6. QED
    BY <1>6, <1>13, <2>5
<1>14. QED
  BY <1>12, <1>13

(* acquireOne: the lease is taken or the queue grows at its end. *)
LEMMA AskedSettles ==
  ASSUME NEW r, NEW l \in Launches, NEW m \in {"exclusive", "shared"}, AtRest(r),
         l \notin r.holders, \A i \in 1 .. Len(r.queue) : r.queue[i].launchId # l,
         NEW t, t = Asked(r, l, m)
  PROVE  /\ AtRest(t)
         /\ Joins(r, m) =>
              /\ t.holders = r.holders \union {l} /\ t.mode = m /\ t.queue = <<>> /\ r.queue = <<>>
              /\ r.holders = {} \/ (r.mode = "shared" /\ m = "shared")
         /\ ~Joins(r, m) =>
              /\ t.holders = r.holders /\ t.mode = r.mode
              /\ Len(t.queue) = Len(r.queue) + 1 /\ t.queue[Len(r.queue) + 1] = Waiter(l, m)
              /\ \A i \in 1 .. Len(r.queue) : t.queue[i] = r.queue[i]
<1>1. /\ r \in Leases /\ r.queue \in Seq(Waiters) /\ Len(r.queue) \in Nat
      /\ r.holders \subseteq Owners /\ r.mode \in LeaseModes /\ l \in Owners /\ m \in LeaseModes
  BY DEF AtRest, Sound, Leases, Owners, LeaseModes
<1>2. CASE Joins(r, m)
  <2>1. t = [r EXCEPT !.mode = m, !.holders = @ \union {l}]
    BY <1>2 DEF Asked
  <2>2. t \in Leases /\ t.mode = m /\ t.holders = r.holders \union {l} /\ t.queue = r.queue
    BY <1>1, <2>1, ZenonT(30) DEF Leases
  <2>3. r.queue = <<>> /\ Len(r.queue) = 0 /\ (r.holders = {} \/ (r.mode = "shared" /\ m = "shared"))
    BY <1>2, NoLeaseSettled DEF Joins
  <2>4. AtRest(t)
    BY <2>2, <2>3 DEF AtRest, Sound
  <2>5. QED
    BY <1>2, <2>2, <2>3, <2>4
<1>3. CASE ~Joins(r, m)
  <2>1. PICK w : w = Waiter(l, m)
    OBVIOUS
  <2>2. w \in Waiters /\ w.launchId = l /\ w.mode = m
    BY <1>1, <2>1 DEF Waiter, Waiters
  <2>3. PICK u : u = Append(r.queue, w)
    OBVIOUS
  <2>4. /\ u \in Seq(Waiters) /\ u # <<>> /\ Len(u) = Len(r.queue) + 1
        /\ \A i \in 1 .. Len(r.queue) : u[i] = r.queue[i]
        /\ u[Len(r.queue) + 1] = w
    BY <1>1, <2>2, <2>3, AppendProperties
  <2>5. t = [r EXCEPT !.queue = u]
    BY <1>3, <2>1, <2>3 DEF Asked
  <2>6. t \in Leases /\ t.mode = r.mode /\ t.holders = r.holders /\ t.queue = u
    BY <1>1, <2>4, <2>5 DEF Leases
  <2>7. r # NoLease /\ (m = "shared" => r.mode # "shared" \/ r.queue # <<>>)
    BY <1>3 DEF Joins
  <2>8. r.holders # {} /\ r.mode \in {"exclusive", "shared"}
    BY <1>1, <2>7 DEF AtRest, LeaseModes
  <2>9. r.mode = "exclusive" \/ u[1].mode = "exclusive"
    <3>1. CASE r.queue = <<>>
      <4>1. Len(r.queue) + 1 = 1
        BY <3>1
      <4>2. QED
        BY <2>2, <2>4, <2>7, <2>8, <3>1, <4>1
    <3>2. CASE r.queue # <<>>
      <4>1. 1 \in 1 .. Len(r.queue)
        BY <1>1, <3>2
      <4>2. QED
        BY <2>4, <3>2, <4>1 DEF AtRest
    <3>3. QED
      BY <3>1, <3>2
  <2>10. \A i \in 1 .. Len(u) : i \in 1 .. Len(r.queue) \/ i = Len(r.queue) + 1
    BY <1>1, <2>4
  <2>11. \A i \in 1 .. Len(u) : u[i].mode \in {"exclusive", "shared"} /\ u[i].launchId \notin r.holders
    BY <2>2, <2>4, <2>10 DEF AtRest, Sound
  <2>12. \A i, j \in 1 .. Len(u) : u[i].launchId = u[j].launchId => i = j
    BY <2>2, <2>4, <2>10 DEF AtRest, Sound
  <2>13. AtRest(t)
    BY <2>4, <2>6, <2>8, <2>9, <2>11, <2>12 DEF AtRest, Sound
  <2>14. QED
    BY <1>3, <2>1, <2>4, <2>6, <2>13
<1>4. QED
  BY <1>2, <1>3

-----------------------------------------------------------------------------
(* The invariant: each lease is at rest, and the leases, the attempts and   *)
(* the maintenance say the same about who holds and who awaits what.        *)

Typed ==
    /\ lease \in [Keys -> Leases] /\ attempt \in [Launches -> Outcomes]
    /\ held \in [Launches -> SUBSET Keys]
    /\ cancelled \subseteq Launches /\ tending \subseteq Maintenance

LeasesSettled == \A k \in Keys : AtRest(lease[k])

(* What somebody counts as his, the table gives him. *)
HoldersAreTrue ==
    /\ \A l \in Launches : \A k \in held[l] : l \in lease[k].holders
    /\ \A l \in Launches : attempt[l] = "granted" => l \in lease[Due(l, held[l])].holders
    /\ \A h \in tending : h \in lease[Tends[h]].holders

(* Whoever writes a directory holds it exclusively. *)
ModesAreTrue == \A k \in Keys : \A o \in lease[k].holders :
    o \in Maintenance \/ k \in Writes[o] => lease[k].mode = "exclusive"

(* Who stands in a queue waits there, for the next of his leases. *)
QueuesAreTrue == \A k \in Keys : \A i \in 1 .. Len(lease[k].queue) :
    LET l == lease[k].queue[i].launchId
    IN  /\ attempt[l] = "queued" /\ k = Due(l, held[l])
        /\ k \in Writes[l] => lease[k].queue[i].mode = "exclusive"

(* An attempt under way lacks a lease; one that ended has all or none. *)
ProgressIsTrue == \A l \in Launches :
    /\ held[l] \subseteq Ids(l)
    /\ attempt[l] \in {"queued", "granted", "refused"} => held[l] # Ids(l)
    /\ attempt[l] \in {"idle", "cancelled", "released"} => held[l] = {}
    /\ attempt[l] = "acquired" => held[l] = Ids(l)

LInv == /\ Typed /\ LeasesSettled /\ NoneLeftBehind /\ HoldersAreTrue
        /\ ModesAreTrue /\ QueuesAreTrue /\ ProgressIsTrue

LEMMA Wakes ==
  ASSUME NEW table, NEW p \in Launches
  PROVE  Woken(table, attempt)[p] =
           IF attempt[p] = "queued" /\ p \in table[Due(p, held[p])].holders THEN "granted" ELSE attempt[p]
BY DEF Woken

(* The next lease of an attempt under way. *)
LEMMA DueOf ==
  ASSUME LInv, NEW l \in Launches, attempt[l] \in {"queued", "granted", "refused"}
  PROVE  /\ Due(l, held[l]) \in Keys /\ Due(l, held[l]) \in Ids(l)
         /\ Due(l, held[l]) \notin held[l]
<1>1. Ids(l) \ held[l] # {}
  BY DEF LInv, ProgressIsTrue
<1>2. QED
  BY <1>1, DueIsNext

(* Owner o gives up leases or its place in a queue; whoever that lets in is *)
(* told.                                                                    *)
LEMMA LetGo ==
  ASSUME LInv, NEW o \in Owners,
         \A k \in Keys : lease'[k] = lease[k] \/ Freed(lease[k], lease'[k], o),
         \A k \in Keys : o \in lease'[k].holders => o \in Launches /\ k \in held'[o],
         o \in Launches => \A k \in held'[o] : o \in lease'[k].holders,
         \A k \in Keys : \A i \in 1 .. Len(lease'[k].queue) : lease'[k].queue[i].launchId # o,
         o \in Launches => \/ attempt'[o] \in {"cancelled", "released"} /\ held'[o] = {}
                           \/ attempt'[o] = "refused" /\ held'[o] = held[o] /\ held[o] # Ids(o),
         \A p \in Launches \ {o} : held'[p] = held[p] /\ attempt'[p] = Woken(lease', attempt)[p],
         Typed', tending' = tending \ {o}
  PROVE  LInv' /\ ServedInOrder
<1>1. \A p \in Launches \ {o} : attempt'[p] =
         IF attempt[p] = "queued" /\ p \in lease'[Due(p, held[p])].holders THEN "granted" ELSE attempt[p]
  BY Wakes
<1>2. \A k \in Keys : AtRest(lease'[k])
  BY DEF LInv, LeasesSettled, Freed
<1>3. \A k \in Keys : \A a \in lease[k].holders : a # o => a \in lease'[k].holders
  BY DEF Freed
<1>4. ASSUME NEW k \in Keys, NEW a \in lease'[k].holders, a \notin lease[k].holders
      PROVE  /\ Freed(lease[k], lease'[k], o) /\ a # o /\ a \in Launches
             /\ \E p \in 1 .. Len(lease[k].queue) :
                  /\ lease[k].queue[p].launchId = a
                  /\ lease[k].queue[p].mode = "exclusive" => lease'[k].mode = "exclusive"
                  /\ \A i \in 1 .. p, j \in 1 .. Len(lease'[k].queue) :
                        lease'[k].queue[j] # lease[k].queue[i]
  <2>1. Freed(lease[k], lease'[k], o)
    BY <1>4
  <2>2. PICK p \in 1 .. Len(lease[k].queue) :
               /\ lease[k].queue[p].launchId = a
               /\ lease[k].queue[p].mode = "exclusive" => lease'[k].mode = "exclusive"
               /\ \A i \in 1 .. p, j \in 1 .. Len(lease'[k].queue) :
                     lease'[k].queue[j] # lease[k].queue[i]
    BY <1>4, <2>1 DEF Freed
  <2>3. a # o
    BY <1>4, <2>1 DEF Freed
  <2>4. lease[k].queue \in Seq(Waiters)
    BY DEF LInv, Typed, Leases
  <2>5. lease[k].queue[p] \in Waiters
    BY <2>4, ElementOfSeq
  <2>6. a \in Launches
    BY <2>2, <2>5 DEF Waiters
  <2>7. QED
    BY <2>1, <2>2, <2>3, <2>6
<1>5. ASSUME NEW k \in Keys, NEW a \in lease'[k].holders, a \notin lease[k].holders
      PROVE  /\ attempt[a] = "queued" /\ k = Due(a, held[a])
             /\ k \in Writes[a] => lease'[k].mode = "exclusive"
  <2>1. PICK p \in 1 .. Len(lease[k].queue) :
               /\ lease[k].queue[p].launchId = a
               /\ lease[k].queue[p].mode = "exclusive" => lease'[k].mode = "exclusive"
    BY <1>4, <1>5
  <2>2. QED
    BY <2>1 DEF LInv, QueuesAreTrue
<1>6. NoneLeftBehind'
  <2>1. SUFFICES ASSUME NEW k \in Keys, NEW a \in lease'[k].holders, a # o
                 PROVE  \/ a \in tending' /\ k = Tends[a]
                        \/ a \in Launches /\ (k \in held'[a] \/ (attempt'[a] = "granted" /\ k = Due(a, held'[a])))
    BY DEF NoneLeftBehind
  <2>2. CASE a \in lease[k].holders
    <3>1. \/ a \in tending /\ k = Tends[a]
          \/ a \in Launches /\ (k \in held[a] \/ (attempt[a] = "granted" /\ k = Due(a, held[a])))
      BY <2>2 DEF LInv, NoneLeftBehind
    <3>2. QED
      BY <1>1, <2>1, <3>1
  <2>3. CASE a \notin lease[k].holders
    <3>1. a \in Launches /\ attempt[a] = "queued" /\ k = Due(a, held[a])
      BY <1>4, <1>5, <2>3
    <3>2. QED
      BY <1>1, <2>1, <3>1
  <2>4. QED
    BY <2>2, <2>3
<1>7. HoldersAreTrue'
  <2>1. ASSUME NEW l \in Launches, NEW k \in held'[l]
        PROVE  l \in lease'[k].holders
    <3>1. CASE l = o
      BY <2>1, <3>1
    <3>2. CASE l # o
      <4>1. k \in held[l] /\ k \in Keys /\ l \in lease[k].holders
        BY <2>1, <3>2 DEF LInv, Typed, HoldersAreTrue
      <4>2. QED
        BY <1>3, <3>2, <4>1
    <3>3. QED
      BY <3>1, <3>2
  <2>2. ASSUME NEW l \in Launches, attempt'[l] = "granted"
        PROVE  l \in lease'[Due(l, held'[l])].holders
    <3>1. l # o
      BY <2>2
    <3>2. held'[l] = held[l]
      BY <3>1
    <3>3. CASE attempt[l] = "granted"
      <4>1. Due(l, held[l]) \in Keys /\ l \in lease[Due(l, held[l])].holders
        BY <3>3, DueOf DEF LInv, HoldersAreTrue
      <4>2. QED
        BY <1>3, <3>1, <3>2, <4>1
    <3>4. CASE attempt[l] # "granted"
      BY <1>1, <2>2, <3>1, <3>2, <3>4
    <3>5. QED
      BY <3>3, <3>4
  <2>3. ASSUME NEW h \in tending'
        PROVE  h \in lease'[Tends[h]].holders
    <3>1. h \in tending /\ h # o /\ Tends[h] \in Keys
      BY <2>3, PlanAssumption DEF LInv, Typed
    <3>2. QED
      BY <1>3, <3>1 DEF LInv, HoldersAreTrue
  <2>4. QED
    BY <2>1, <2>2, <2>3 DEF HoldersAreTrue
<1>8. ModesAreTrue'
  <2>1. SUFFICES ASSUME NEW k \in Keys, NEW a \in lease'[k].holders, a \in Maintenance \/ k \in Writes[a]
                 PROVE  lease'[k].mode = "exclusive"
    BY DEF ModesAreTrue
  <2>2. CASE a \in lease[k].holders
    <3>1. lease[k].mode = "exclusive"
      BY <2>1, <2>2 DEF LInv, ModesAreTrue
    <3>2. QED
      BY <2>1, <2>2, <3>1 DEF Freed
  <2>3. CASE a \notin lease[k].holders
    BY <1>4, <1>5, <2>1, <2>3, OwnersAssumption
  <2>4. QED
    BY <2>2, <2>3
<1>9. QueuesAreTrue'
  <2>1. SUFFICES ASSUME NEW k \in Keys, NEW i \in 1 .. Len(lease'[k].queue)
                 PROVE  /\ attempt'[lease'[k].queue[i].launchId] = "queued"
                        /\ k = Due(lease'[k].queue[i].launchId, held'[lease'[k].queue[i].launchId])
                        /\ k \in Writes[lease'[k].queue[i].launchId] => lease'[k].queue[i].mode = "exclusive"
    BY DEF QueuesAreTrue
  <2>2. PICK j \in 1 .. Len(lease[k].queue) : lease'[k].queue[i] = lease[k].queue[j]
    BY DEF Freed
  <2>3. PICK l : l = lease[k].queue[j].launchId
    OBVIOUS
  <2>4. attempt[l] = "queued" /\ k = Due(l, held[l])
        /\ (k \in Writes[l] => lease[k].queue[j].mode = "exclusive")
    BY <2>3 DEF LInv, QueuesAreTrue
  <2>5. l \in Launches /\ l # o
    <3>1. lease[k].queue \in Seq(Waiters)
      BY DEF LInv, Typed, Leases
    <3>2. lease[k].queue[j] \in Waiters
      BY <3>1, ElementOfSeq
    <3>3. QED
      BY <2>2, <2>3, <3>2 DEF Waiters
  <2>6. l \notin lease'[k].holders
    BY <1>2, <2>2, <2>3 DEF AtRest, Sound
  <2>7. attempt'[l] = "queued" /\ held'[l] = held[l]
    BY <1>1, <2>4, <2>5, <2>6
  <2>8. QED
    BY <2>2, <2>3, <2>4, <2>7
<1>10. ProgressIsTrue'
  BY <1>1 DEF LInv, ProgressIsTrue
<1>11. ServedInOrder
  <2>1. SUFFICES ASSUME NEW k \in Keys, NEW a \in lease'[k].holders \ lease[k].holders,
                        NEW i \in Ahead(k, a), NEW j \in DOMAIN lease'[k].queue
                 PROVE  lease'[k].queue[j] # lease[k].queue[i]
    BY DEF ServedInOrder
  <2>2. /\ lease[k].queue \in Seq(Waiters) /\ lease'[k].queue \in Seq(Waiters)
    BY DEF LInv, Typed, Leases
  <2>3. /\ i \in 1 .. Len(lease[k].queue) /\ j \in 1 .. Len(lease'[k].queue)
        /\ \A n \in 1 .. i : lease[k].queue[n].launchId # a
    BY <2>1, <2>2 DEF Ahead
  <2>4. PICK p \in 1 .. Len(lease[k].queue) :
           /\ lease[k].queue[p].launchId = a
           /\ \A m \in 1 .. p, n \in 1 .. Len(lease'[k].queue) :
                 lease'[k].queue[n] # lease[k].queue[m]
    BY <1>4
  <2>5. i \in 1 .. p
    <3>1. p \notin 1 .. i
      BY <2>3, <2>4
    <3>2. QED
      BY <2>3, <3>1
  <2>6. QED
    BY <2>3, <2>4, <2>5
<1>12. QED
  BY <1>2, <1>6, <1>7, <1>8, <1>9, <1>10, <1>11 DEF LInv, LeasesSettled

-----------------------------------------------------------------------------
(* The steps. *)

(* An attempt that does not stand in a queue holds what it counts as his    *)
(* and what it was granted.                                                 *)
Done(l) == IF attempt[l] = "granted" THEN held[l] \union {Due(l, held[l])} ELSE held[l]

LEMMA DoneIsHeld ==
  ASSUME LInv, NEW l \in Launches
  PROVE  /\ \A k \in Keys : l \in lease[k].holders <=> k \in Done(l)
         /\ Done(l) \subseteq Ids(l) /\ Done(l) \subseteq Keys
         /\ attempt[l] # "queued" => \A k \in Keys : \A i \in 1 .. Len(lease[k].queue) :
                                       lease[k].queue[i].launchId # l
<1>1. l \notin tending
  BY OwnersAssumption DEF LInv, Typed
<1>2. \A k \in Keys : l \in lease[k].holders =>
         k \in held[l] \/ (attempt[l] = "granted" /\ k = Due(l, held[l]))
  BY <1>1 DEF LInv, NoneLeftBehind
<1>3. attempt[l] = "granted" => Due(l, held[l]) \in Ids(l) /\ Due(l, held[l]) \in Keys
  BY DueOf
<1>4. held[l] \subseteq Ids(l) /\ held[l] \subseteq Keys
  BY DEF LInv, Typed, ProgressIsTrue
<1>5. \A k \in Done(l) : l \in lease[k].holders
  BY DEF LInv, HoldersAreTrue, Done
<1>6. \A k \in Keys : \A i \in 1 .. Len(lease[k].queue) :
         attempt[lease[k].queue[i].launchId] = "queued"
  BY DEF LInv, QueuesAreTrue
<1>7. QED
  BY <1>2, <1>3, <1>4, <1>5, <1>6 DEF Done

(* Leases are released by their holder. *)
LEMMA ReleasedFrees ==
  ASSUME LInv, NEW o \in Owners, NEW ks, lease' = Released(lease, ks, o)
  PROVE  /\ \A k \in Keys : lease'[k] = lease[k] \/ Freed(lease[k], lease'[k], o)
         /\ \A k \in Keys : o \in lease'[k].holders => o \in lease[k].holders /\ k \notin ks
         /\ lease' \in [Keys -> Leases]
<1>1. ASSUME NEW k \in Keys
      PROVE  /\ lease'[k] = lease[k] \/ Freed(lease[k], lease'[k], o)
             /\ o \in lease'[k].holders => o \in lease[k].holders /\ k \notin ks
             /\ lease'[k] \in Leases
  <2>1. AtRest(lease[k])
    BY DEF LInv, LeasesSettled
  <2>2. CASE k \in ks /\ o \in lease[k].holders
    <3>1. lease'[k] = Dropped(lease[k], o)
      BY <2>2 DEF Released
    <3>2. Freed(lease[k], lease'[k], o)
      BY <2>1, <2>2, <3>1, DroppedFrees
    <3>3. QED
      BY <3>2 DEF Freed, AtRest, Sound
  <2>3. CASE ~(k \in ks /\ o \in lease[k].holders)
    <3>1. lease'[k] = lease[k]
      BY <2>3 DEF Released, Dropped
    <3>2. QED
      BY <2>1, <2>3, <3>1 DEF AtRest, Sound
  <2>4. QED
    BY <2>2, <2>3
<1>2. QED
  BY <1>1 DEF Released

LEMMA GiveUpSteps ==
  ASSUME LInv, NEW l \in Launches, attempt[l] # "queued", NEW outcome \in {"cancelled", "released"},
         lease' = Released(lease, Done(l), l),
         attempt' = [Woken(lease', attempt) EXCEPT ![l] = outcome],
         held' = [held EXCEPT ![l] = {}], UNCHANGED <<cancelled, tending>>
  PROVE  LInv' /\ ServedInOrder
<1>1. l \in Owners
  BY DEF Owners
<1>2. /\ \A k \in Keys : lease'[k] = lease[k] \/ Freed(lease[k], lease'[k], l)
      /\ \A k \in Keys : l \in lease'[k].holders => l \in lease[k].holders /\ k \notin Done(l)
      /\ lease' \in [Keys -> Leases]
  BY <1>1, ReleasedFrees
<1>3. \A k \in Keys : l \notin lease'[k].holders
  BY <1>2, DoneIsHeld
<1>4. \A k \in Keys : \A i \in 1 .. Len(lease'[k].queue) : lease'[k].queue[i].launchId # l
  BY <1>2, DoneIsHeld DEF Freed
<1>5. /\ held'[l] = {} /\ \A p \in Launches \ {l} : held'[p] = held[p]
      /\ held' \in [Launches -> SUBSET Keys]
  BY DEF LInv, Typed
<1>6. \A p \in Launches : Woken(lease', attempt)[p] \in Outcomes
  BY Wakes DEF LInv, Typed, Outcomes
<1>7. attempt'[l] = outcome /\ \A p \in Launches \ {l} : attempt'[p] = Woken(lease', attempt)[p]
  BY DEF Woken
<1>8. attempt' \in [Launches -> Outcomes]
  BY <1>6 DEF Woken, Outcomes
<1>9. Typed'
  BY <1>2, <1>5, <1>8 DEF LInv, Typed
<1>10. tending' = tending \ {l}
  BY OwnersAssumption DEF LInv, Typed
<1>11. QED
  BY <1>1, <1>2, <1>3, <1>4, <1>5, <1>7, <1>9, <1>10, LetGo

LEMMA CancelSteps ==
  ASSUME LInv, NEW l \in Launches, Cancel(l)
  PROVE  LInv' /\ ServedInOrder
<1>1. attempt[l] \in {"queued", "granted", "refused"} /\ UNCHANGED <<held, tending>>
      /\ cancelled' = cancelled \union {l}
  BY DEF Cancel, Acquiring
<1>2. CASE attempt[l] # "queued"
  <2>1. UNCHANGED <<lease, attempt>>
    BY <1>2 DEF Cancel
  <2>2. LInv'
    BY <1>1, <2>1 DEF LInv, Typed, LeasesSettled, NoneLeftBehind, HoldersAreTrue, ModesAreTrue,
                      QueuesAreTrue, ProgressIsTrue
  <2>3. QED
    BY <2>1, <2>2 DEF ServedInOrder
<1>3. CASE attempt[l] = "queued"
  <2>1. PICK k : k = Due(l, held[l])
    OBVIOUS
  <2>2. k \in Keys
    BY <1>1, <2>1, DueOf
  <2>3. lease' = [lease EXCEPT ![k] = Left(@, l)]
        /\ attempt' = [Woken(lease', attempt) EXCEPT ![l] = "refused"]
    BY <1>3, <2>1 DEF Cancel
  <2>4. lease'[k] = Left(lease[k], l) /\ \A j \in Keys \ {k} : lease'[j] = lease[j]
    BY <2>2, <2>3 DEF LInv, Typed
  <2>5. Waits(lease[k], l) => Freed(lease[k], lease'[k], l)
    BY <2>2, <2>4, LeftFrees DEF LInv, LeasesSettled
  <2>6. ~Waits(lease[k], l) => lease'[k] = lease[k]
    BY <2>4 DEF Left
  <2>7. \A j \in Keys : lease'[j] = lease[j] \/ Freed(lease[j], lease'[j], l)
    BY <2>2, <2>4, <2>5, <2>6
  <2>8. \A j \in Keys : AtRest(lease'[j])
    BY <2>7 DEF Freed, LInv, LeasesSettled
  <2>9. lease' \in [Keys -> Leases]
    BY <2>2, <2>3, <2>8 DEF LInv, Typed, AtRest, Sound
  <2>10. \A j \in Keys : l \in lease[j].holders <=> j \in held[l]
    BY <1>3, DoneIsHeld DEF Done
  <2>11. k \notin held[l]
    BY <1>1, <2>1, DueOf
  <2>12. l \notin lease'[k].holders
    BY <2>2, <2>5, <2>6, <2>10, <2>11 DEF Freed
  <2>13. \A j \in Keys : l \in lease'[j].holders <=> j \in held'[l]
    BY <1>1, <2>4, <2>10, <2>11, <2>12
  <2>14. \A j \in Keys : \A i \in 1 .. Len(lease'[j].queue) : lease'[j].queue[i].launchId # l
    <3>1. SUFFICES ASSUME NEW j \in Keys, NEW i \in 1 .. Len(lease'[j].queue),
                          lease'[j].queue[i].launchId = l
                   PROVE  FALSE
      OBVIOUS
    <3>2. CASE j # k
      <4>1. lease'[j] = lease[j]
        BY <2>4, <3>2
      <4>2. j = Due(l, held[l])
        BY <3>1, <4>1 DEF LInv, QueuesAreTrue
      <4>3. QED
        BY <2>1, <3>2, <4>2
    <3>3. CASE j = k
      <4>1. ~Waits(lease[k], l) /\ lease'[k] = lease[k]
        BY <2>5, <2>6, <3>1, <3>3 DEF Freed
      <4>2. lease[k].queue \in Seq(Waiters)
        BY <2>2 DEF LInv, Typed, Leases
      <4>3. i \in DOMAIN lease[k].queue
        BY <3>3, <4>1, <4>2
      <4>4. QED
        BY <3>1, <3>3, <4>1, <4>3 DEF Waits
    <3>4. QED
      BY <3>2, <3>3
  <2>15. \A p \in Launches : Woken(lease', attempt)[p] \in Outcomes
    BY Wakes DEF LInv, Typed, Outcomes
  <2>16. attempt'[l] = "refused" /\ \A p \in Launches \ {l} : attempt'[p] = Woken(lease', attempt)[p]
    BY <2>3 DEF Woken
  <2>17. attempt' \in [Launches -> Outcomes]
    BY <2>3, <2>15 DEF Woken, Outcomes
  <2>18. Typed'
    BY <1>1, <2>9, <2>17 DEF LInv, Typed
  <2>19. tending' = tending \ {l} /\ l \in Owners
    BY <1>1, OwnersAssumption DEF LInv, Typed, Owners
  <2>20. held[l] # Ids(l) /\ held[l] \subseteq Keys
    BY <1>1 DEF LInv, Typed, ProgressIsTrue
  <2>21. \A p \in Launches \ {l} : held'[p] = held[p] /\ attempt'[p] = Woken(lease', attempt)[p]
    BY <1>1, <2>16
  <2>22. QED
    BY <1>1, <2>7, <2>13, <2>14, <2>16, <2>18, <2>19, <2>20, <2>21, LetGo
<1>4. QED
  BY <1>2, <1>3

LEMMA TendDoneSteps ==
  ASSUME LInv, NEW h \in Maintenance, TendDone(h)
  PROVE  LInv' /\ ServedInOrder
<1>1. /\ h \in tending /\ lease' = Released(lease, {Tends[h]}, h)
      /\ attempt' = Woken(lease', attempt) /\ tending' = tending \ {h}
      /\ UNCHANGED <<held, cancelled>>
  BY DEF TendDone
<1>2. h \in Owners /\ h \notin Launches
  BY OwnersAssumption DEF Owners
<1>3. /\ \A k \in Keys : lease'[k] = lease[k] \/ Freed(lease[k], lease'[k], h)
      /\ \A k \in Keys : h \in lease'[k].holders => h \in lease[k].holders /\ k \notin {Tends[h]}
      /\ lease' \in [Keys -> Leases]
  BY <1>1, <1>2, ReleasedFrees
<1>4. \A k \in Keys : h \in lease[k].holders => k = Tends[h]
  BY <1>2 DEF LInv, NoneLeftBehind
<1>5. \A k \in Keys : \A i \in 1 .. Len(lease'[k].queue) : lease'[k].queue[i].launchId # h
  <2>1. SUFFICES ASSUME NEW k \in Keys, NEW i \in 1 .. Len(lease'[k].queue)
                 PROVE  lease'[k].queue[i].launchId \in Launches
    BY <1>2
  <2>2. lease'[k].queue \in Seq(Waiters)
    BY <1>3 DEF Leases
  <2>3. lease'[k].queue[i] \in Waiters
    BY <2>2, ElementOfSeq
  <2>4. QED
    BY <2>3 DEF Waiters
<1>6. \A p \in Launches : Woken(lease', attempt)[p] \in Outcomes
  BY Wakes DEF LInv, Typed, Outcomes
<1>7. attempt' \in [Launches -> Outcomes]
  BY <1>1, <1>6 DEF Woken
<1>8. Typed'
  BY <1>1, <1>3, <1>7 DEF LInv, Typed
<1>9. \A p \in Launches \ {h} : held'[p] = held[p] /\ attempt'[p] = Woken(lease', attempt)[p]
  BY <1>1
<1>10. QED
  BY <1>1, <1>2, <1>3, <1>4, <1>5, <1>8, <1>9, LetGo

(* The attempt asks for its next lease. *)
LEMMA AskNextSteps ==
  ASSUME LInv, NEW l \in Launches, attempt[l] \in {"idle", "granted"}, Done(l) # Ids(l),
         NEW k, k = Due(l, Done(l)), NEW m, m = ModeOf(l, k),
         lease' = [lease EXCEPT ![k] = Asked(@, l, m)],
         attempt' = [attempt EXCEPT ![l] = IF Joins(lease[k], m) THEN "granted" ELSE "queued"],
         held' = [held EXCEPT ![l] = Done(l)], UNCHANGED <<cancelled, tending>>
  PROVE  LInv' /\ ServedInOrder
<1>1. /\ \A j \in Keys : l \in lease[j].holders <=> j \in Done(l)
      /\ Done(l) \subseteq Ids(l) /\ Done(l) \subseteq Keys
      /\ \A j \in Keys : \A i \in 1 .. Len(lease[j].queue) : lease[j].queue[i].launchId # l
  BY DoneIsHeld
<1>2. k \in Keys /\ k \in Ids(l) /\ k \notin Done(l)
  <2>1. Ids(l) \ Done(l) # {}
    BY <1>1
  <2>2. QED
    BY <2>1, DueIsNext
<1>3. PICK done : done = Done(l)
  OBVIOUS
<1>4. /\ held'[l] = done /\ \A p \in Launches \ {l} : held'[p] = held[p]
      /\ held' \in [Launches -> SUBSET Keys]
  BY <1>1, <1>3 DEF LInv, Typed
<1>5. PICK r, t : r = lease[k] /\ t = Asked(r, l, m)
  OBVIOUS
<1>6. lease'[k] = t /\ \A j \in Keys \ {k} : lease'[j] = lease[j]
  BY <1>2, <1>5 DEF LInv, Typed
<1>7. m \in {"exclusive", "shared"} /\ (k \in Writes[l] <=> m = "exclusive")
  BY DEF ModeOf
<1>8. /\ AtRest(r) /\ l \notin r.holders /\ \A i \in 1 .. Len(r.queue) : r.queue[i].launchId # l
      /\ r.queue \in Seq(Waiters) /\ Len(r.queue) \in Nat
  <2>1. AtRest(r)
    BY <1>2, <1>5 DEF LInv, LeasesSettled
  <2>2. r.queue \in Seq(Waiters) /\ Len(r.queue) \in Nat
    BY <2>1 DEF AtRest, Sound, Leases
  <2>3. QED
    BY <1>1, <1>2, <1>5, <2>1, <2>2
<1>9. /\ AtRest(t)
      /\ Joins(r, m) =>
            /\ t.holders = r.holders \union {l} /\ t.mode = m /\ t.queue = <<>> /\ r.queue = <<>>
            /\ r.holders = {} \/ (r.mode = "shared" /\ m = "shared")
      /\ ~Joins(r, m) =>
            /\ t.holders = r.holders /\ t.mode = r.mode
            /\ Len(t.queue) = Len(r.queue) + 1 /\ t.queue[Len(r.queue) + 1] = Waiter(l, m)
            /\ \A i \in 1 .. Len(r.queue) : t.queue[i] = r.queue[i]
  BY <1>5, <1>7, <1>8, AskedSettles, SMTT(30)
<1>10. /\ attempt'[l] = IF Joins(r, m) THEN "granted" ELSE "queued"
       /\ \A p \in Launches \ {l} : attempt'[p] = attempt[p]
       /\ attempt' \in [Launches -> Outcomes]
  BY <1>5 DEF LInv, Typed, Outcomes
<1>11. lease' \in [Keys -> Leases] /\ \A j \in Keys : AtRest(lease'[j])
  <2>1. \A j \in Keys : AtRest(lease'[j])
    BY <1>6, <1>9 DEF LInv, LeasesSettled
  <2>2. QED
    BY <1>2, <2>1 DEF LInv, Typed, AtRest, Sound
<1>12. Typed' /\ LeasesSettled'
  BY <1>4, <1>10, <1>11 DEF LInv, Typed, LeasesSettled
<1>13. /\ \A j \in Keys : \A a \in lease[j].holders : a \in lease'[j].holders
       /\ \A j \in Keys : \A a \in lease'[j].holders :
             a \in lease[j].holders \/ (a = l /\ j = k /\ Joins(r, m))
  BY <1>5, <1>6, <1>9
<1>14. k = Due(l, held'[l]) /\ (Joins(r, m) => l \in lease'[k].holders)
  BY <1>3, <1>4, <1>6, <1>9
<1>15. NoneLeftBehind'
  <2>1. SUFFICES ASSUME NEW j \in Keys, NEW a \in lease'[j].holders
                 PROVE  \/ a \in tending' /\ j = Tends[a]
                        \/ a \in Launches /\ (j \in held'[a] \/ (attempt'[a] = "granted" /\ j = Due(a, held'[a])))
    BY DEF NoneLeftBehind
  <2>2. CASE a = l
    BY <1>1, <1>3, <1>4, <1>10, <1>13, <1>14, <2>2
  <2>3. CASE a # l
    <3>1. a \in lease[j].holders
      BY <1>13, <2>3
    <3>2. \/ a \in tending /\ j = Tends[a]
          \/ a \in Launches /\ (j \in held[a] \/ (attempt[a] = "granted" /\ j = Due(a, held[a])))
      BY <3>1 DEF LInv, NoneLeftBehind
    <3>3. QED
      BY <1>4, <1>10, <2>3, <3>2
  <2>4. QED
    BY <2>2, <2>3
<1>16. HoldersAreTrue'
  <2>1. ASSUME NEW p \in Launches, NEW j \in held'[p]
        PROVE  p \in lease'[j].holders
    <3>1. p \in lease[j].holders /\ j \in Keys
      BY <1>1, <1>3, <1>4, <2>1 DEF LInv, Typed, HoldersAreTrue
    <3>2. QED
      BY <1>13, <3>1
  <2>2. ASSUME NEW p \in Launches, attempt'[p] = "granted"
        PROVE  p \in lease'[Due(p, held'[p])].holders
    <3>1. CASE p = l
      BY <1>10, <1>14, <2>2, <3>1
    <3>2. CASE p # l
      <4>1. attempt[p] = "granted" /\ held'[p] = held[p]
        BY <1>4, <1>10, <2>2, <3>2
      <4>2. Due(p, held[p]) \in Keys /\ p \in lease[Due(p, held[p])].holders
        BY <4>1, DueOf DEF LInv, HoldersAreTrue
      <4>3. QED
        BY <1>13, <4>1, <4>2
    <3>3. QED
      BY <3>1, <3>2
  <2>3. ASSUME NEW h \in tending'
        PROVE  h \in lease'[Tends[h]].holders
    <3>1. h \in tending /\ Tends[h] \in Keys
      BY <2>3, PlanAssumption DEF LInv, Typed
    <3>2. QED
      BY <1>13, <3>1 DEF LInv, HoldersAreTrue
  <2>4. QED
    BY <2>1, <2>2, <2>3 DEF HoldersAreTrue
<1>17. ModesAreTrue'
  <2>1. SUFFICES ASSUME NEW j \in Keys, NEW a \in lease'[j].holders, a \in Maintenance \/ j \in Writes[a]
                 PROVE  lease'[j].mode = "exclusive"
    BY DEF ModesAreTrue
  <2>2. CASE a \in lease[j].holders
    <3>1. lease[j].mode = "exclusive"
      BY <2>1, <2>2 DEF LInv, ModesAreTrue
    <3>2. CASE j # k
      BY <1>6, <3>1, <3>2
    <3>3. CASE j = k
      <4>1. ~Joins(r, m)
        BY <1>5, <1>9, <2>2, <3>1, <3>3
      <4>2. QED
        BY <1>5, <1>6, <1>9, <3>1, <3>3, <4>1
    <3>4. QED
      BY <3>2, <3>3
  <2>3. CASE a \notin lease[j].holders
    <3>1. a = l /\ j = k /\ Joins(r, m)
      BY <1>13, <2>3
    <3>2. QED
      BY <1>6, <1>7, <1>9, <2>1, <3>1, OwnersAssumption
  <2>4. QED
    BY <2>2, <2>3
<1>18. QueuesAreTrue'
  <2>1. SUFFICES ASSUME NEW j \in Keys, NEW i \in 1 .. Len(lease'[j].queue)
                 PROVE  /\ attempt'[lease'[j].queue[i].launchId] = "queued"
                        /\ j = Due(lease'[j].queue[i].launchId, held'[lease'[j].queue[i].launchId])
                        /\ j \in Writes[lease'[j].queue[i].launchId] => lease'[j].queue[i].mode = "exclusive"
    BY DEF QueuesAreTrue
  <2>2. CASE i \in 1 .. Len(lease[j].queue) /\ lease'[j].queue[i] = lease[j].queue[i]
    <3>1. PICK p : p = lease[j].queue[i].launchId
      OBVIOUS
    <3>2. attempt[p] = "queued" /\ j = Due(p, held[p])
          /\ (j \in Writes[p] => lease[j].queue[i].mode = "exclusive")
      BY <2>2, <3>1 DEF LInv, QueuesAreTrue
    <3>3. p \in Launches /\ p # l
      <4>1. lease[j].queue \in Seq(Waiters)
        BY DEF LInv, Typed, Leases
      <4>2. lease[j].queue[i] \in Waiters
        BY <2>2, <4>1, ElementOfSeq
      <4>3. QED
        BY <1>1, <2>2, <3>1, <4>2 DEF Waiters
    <3>4. QED
      BY <1>4, <1>10, <2>2, <3>1, <3>2, <3>3
  <2>3. CASE ~(i \in 1 .. Len(lease[j].queue) /\ lease'[j].queue[i] = lease[j].queue[i])
    <3>1. j = k
      BY <1>6, <2>3
    <3>2. Joins(r, m) => Len(t.queue) = 0
      BY <1>9
    <3>3. ~Joins(r, m)
      BY <1>6, <3>1, <3>2
    <3>4. i = Len(r.queue) + 1
      BY <1>5, <1>6, <1>8, <1>9, <2>3, <3>1, <3>3
    <3>5. lease'[j].queue[i] = Waiter(l, m)
      BY <1>6, <1>9, <3>1, <3>3, <3>4
    <3>6. lease'[j].queue[i].launchId = l /\ lease'[j].queue[i].mode = m
      BY <3>5 DEF Waiter
    <3>7. QED
      BY <1>7, <1>10, <1>14, <3>1, <3>3, <3>6
  <2>4. QED
    BY <2>2, <2>3
<1>19. ProgressIsTrue'
  BY <1>1, <1>3, <1>4, <1>10 DEF LInv, ProgressIsTrue
<1>20. ServedInOrder
  <2>1. SUFFICES ASSUME NEW j \in Keys, NEW a \in lease'[j].holders \ lease[j].holders,
                        NEW i \in Ahead(j, a)
                 PROVE  FALSE
    BY DEF ServedInOrder
  <2>2. lease[j].queue = <<>>
    BY <1>5, <1>9, <1>13
  <2>3. i \in DOMAIN <<>>
    BY <2>2 DEF Ahead
  <2>4. QED
    BY <2>3
<1>21. QED
  BY <1>12, <1>15, <1>16, <1>17, <1>18, <1>19, <1>20 DEF LInv

(* The attempt has all its leases. *)
LEMMA AcquiredSteps ==
  ASSUME LInv, NEW l \in Launches, attempt[l] \in {"idle", "granted"}, Done(l) = Ids(l),
         attempt' = [attempt EXCEPT ![l] = "acquired"],
         held' = [held EXCEPT ![l] = Done(l)], UNCHANGED <<lease, cancelled, tending>>
  PROVE  LInv' /\ ServedInOrder
<1>1. /\ \A j \in Keys : l \in lease[j].holders <=> j \in Done(l)
      /\ Done(l) \subseteq Ids(l) /\ Done(l) \subseteq Keys
      /\ \A j \in Keys : \A i \in 1 .. Len(lease[j].queue) : lease[j].queue[i].launchId # l
  BY DoneIsHeld
<1>2. PICK done : done = Done(l)
  OBVIOUS
<1>3. /\ held'[l] = done /\ \A p \in Launches \ {l} : held'[p] = held[p]
      /\ held' \in [Launches -> SUBSET Keys]
      /\ attempt'[l] = "acquired" /\ \A p \in Launches \ {l} : attempt'[p] = attempt[p]
      /\ attempt' \in [Launches -> Outcomes]
  BY <1>1, <1>2 DEF LInv, Typed, Outcomes
<1>4. Typed' /\ LeasesSettled' /\ ModesAreTrue'
  BY <1>3 DEF LInv, Typed, LeasesSettled, ModesAreTrue
<1>5. NoneLeftBehind'
  <2>1. SUFFICES ASSUME NEW j \in Keys, NEW a \in lease[j].holders
                 PROVE  \/ a \in tending /\ j = Tends[a]
                        \/ a \in Launches /\ (j \in held'[a] \/ (attempt'[a] = "granted" /\ j = Due(a, held'[a])))
    BY DEF NoneLeftBehind
  <2>2. \/ a \in tending /\ j = Tends[a]
        \/ a \in Launches /\ (j \in held[a] \/ (attempt[a] = "granted" /\ j = Due(a, held[a])))
    BY DEF LInv, NoneLeftBehind
  <2>3. CASE a = l
    BY <1>1, <1>2, <1>3, <2>3
  <2>4. CASE a # l
    BY <1>3, <2>2, <2>4
  <2>5. QED
    BY <2>3, <2>4
<1>6. HoldersAreTrue'
  <2>1. \A p \in Launches : \A j \in held'[p] : p \in lease[j].holders
    BY <1>1, <1>2, <1>3 DEF LInv, HoldersAreTrue
  <2>2. \A p \in Launches : attempt'[p] = "granted" => p \in lease[Due(p, held'[p])].holders
    BY <1>3 DEF LInv, HoldersAreTrue
  <2>3. QED
    BY <2>1, <2>2 DEF LInv, HoldersAreTrue
<1>7. QueuesAreTrue'
  <2>1. SUFFICES ASSUME NEW j \in Keys, NEW i \in 1 .. Len(lease[j].queue)
                 PROVE  /\ attempt'[lease[j].queue[i].launchId] = "queued"
                        /\ j = Due(lease[j].queue[i].launchId, held'[lease[j].queue[i].launchId])
                        /\ j \in Writes[lease[j].queue[i].launchId] => lease[j].queue[i].mode = "exclusive"
    BY DEF QueuesAreTrue
  <2>2. PICK p : p = lease[j].queue[i].launchId
    OBVIOUS
  <2>3. p \in Launches /\ p # l
    <3>1. lease[j].queue \in Seq(Waiters)
      BY DEF LInv, Typed, Leases
    <3>2. lease[j].queue[i] \in Waiters
      BY <3>1, ElementOfSeq
    <3>3. QED
      BY <1>1, <2>2, <3>2 DEF Waiters
  <2>4. attempt[p] = "queued" /\ j = Due(p, held[p])
        /\ (j \in Writes[p] => lease[j].queue[i].mode = "exclusive")
    BY <2>2 DEF LInv, QueuesAreTrue
  <2>5. QED
    BY <1>3, <2>2, <2>3, <2>4
<1>8. ProgressIsTrue'
  BY <1>1, <1>2, <1>3 DEF LInv, ProgressIsTrue
<1>9. ServedInOrder
  BY DEF ServedInOrder
<1>10. QED
  BY <1>4, <1>5, <1>6, <1>7, <1>8, <1>9 DEF LInv

(* The loop of acquireLocationLeases, from its call or from a grant. *)
LEMMA TurnSteps ==
  ASSUME LInv, NEW l \in Launches, attempt[l] \in {"idle", "granted"}, Turn(l, Done(l)),
         UNCHANGED <<cancelled, tending>>
  PROVE  LInv' /\ ServedInOrder
<1>1. CASE /\ l \notin cancelled /\ Done(l) # Ids(l)
           /\ LET k == Due(l, Done(l)) IN
              /\ lease' = [lease EXCEPT ![k] = Asked(@, l, ModeOf(l, k))]
              /\ attempt' = [attempt EXCEPT ![l] = IF Joins(lease[k], ModeOf(l, k)) THEN "granted" ELSE "queued"]
           /\ held' = [held EXCEPT ![l] = Done(l)]
  <2>1. PICK k, m : k = Due(l, Done(l)) /\ m = ModeOf(l, k)
    OBVIOUS
  <2>2. /\ Done(l) # Ids(l) /\ held' = [held EXCEPT ![l] = Done(l)]
        /\ lease' = [lease EXCEPT ![k] = Asked(@, l, m)]
        /\ attempt' = [attempt EXCEPT ![l] = IF Joins(lease[k], m) THEN "granted" ELSE "queued"]
    BY <1>1, <2>1
  <2>3. QED
    BY <2>1, <2>2, AskNextSteps
<1>2. CASE /\ l \notin cancelled /\ Done(l) = Ids(l)
           /\ attempt' = [attempt EXCEPT ![l] = "acquired"]
           /\ held' = [held EXCEPT ![l] = Done(l)]
           /\ UNCHANGED lease
  BY <1>2, AcquiredSteps
<1>3. CASE l \in cancelled /\ GiveUp(l, Done(l))
  <2>1. /\ lease' = Released(lease, Done(l), l)
        /\ attempt' = [Woken(lease', attempt) EXCEPT ![l] = "cancelled"]
        /\ held' = [held EXCEPT ![l] = {}]
    BY <1>3 DEF GiveUp
  <2>2. QED
    BY <2>1, GiveUpSteps
<1>4. QED
  BY <1>1, <1>2, <1>3 DEF Turn

LEMMA LaunchSteps ==
  ASSUME LInv, NEW l \in Launches, Ask(l) \/ Resume(l) \/ Cancel(l) \/ Release(l)
  PROVE  LInv' /\ ServedInOrder
<1>1. CASE Ask(l)
  <2>1. attempt[l] = "idle" /\ Turn(l, {}) /\ UNCHANGED <<cancelled, tending>>
    BY <1>1 DEF Ask
  <2>2. Done(l) = {}
    BY <2>1 DEF Done, LInv, ProgressIsTrue
  <2>3. QED
    BY <2>1, <2>2, TurnSteps
<1>2. CASE Resume(l) /\ attempt[l] = "granted"
  <2>1. Turn(l, Done(l)) /\ UNCHANGED <<cancelled, tending>>
    BY <1>2 DEF Resume, Done
  <2>2. QED
    BY <1>2, <2>1, TurnSteps
<1>3. CASE Resume(l) /\ attempt[l] # "granted"
  <2>1. attempt[l] = "refused" /\ GiveUp(l, Done(l)) /\ UNCHANGED <<cancelled, tending>>
    BY <1>3 DEF Resume, Done
  <2>2. /\ lease' = Released(lease, Done(l), l)
        /\ attempt' = [Woken(lease', attempt) EXCEPT ![l] = "cancelled"]
        /\ held' = [held EXCEPT ![l] = {}]
    BY <2>1 DEF GiveUp
  <2>3. QED
    BY <2>1, <2>2, GiveUpSteps
<1>4. CASE Cancel(l)
  BY <1>4, CancelSteps
<1>5. CASE Release(l)
  <2>1. attempt[l] = "acquired" /\ Done(l) = held[l]
    BY <1>5 DEF Release, Done
  <2>2. /\ lease' = Released(lease, Done(l), l) /\ UNCHANGED <<cancelled, tending>>
        /\ attempt' = [Woken(lease', attempt) EXCEPT ![l] = "released"]
        /\ held' = [held EXCEPT ![l] = {}]
    BY <1>5, <2>1 DEF Release
  <2>3. QED
    BY <2>1, <2>2, GiveUpSteps
<1>6. QED
  BY <1>1, <1>2, <1>3, <1>4, <1>5

LEMMA TendSteps ==
  ASSUME LInv, NEW h \in Maintenance, Tend(h)
  PROVE  LInv' /\ ServedInOrder
<1>1. PICK k : k = Tends[h]
  OBVIOUS
<1>2. PICK t : t = [mode |-> "exclusive", holders |-> {h}, queue |-> <<>>]
  OBVIOUS
<1>3. /\ h \notin tending /\ lease[k] = NoLease /\ lease' = [lease EXCEPT ![k] = t]
      /\ tending' = tending \union {h} /\ UNCHANGED <<attempt, held, cancelled>> /\ k \in Keys
  BY <1>1, <1>2, PlanAssumption DEF Tend, LeaseBusy
<1>4. t.mode = "exclusive" /\ t.holders = {h} /\ t.queue = <<>> /\ Len(t.queue) = 0
  BY <1>2
<1>5. t \in Leases
  BY <1>2 DEF Leases, LeaseModes, Owners
<1>6. AtRest(t)
  BY <1>4, <1>5 DEF AtRest, Sound
<1>7. lease'[k] = t /\ \A j \in Keys \ {k} : lease'[j] = lease[j]
  BY <1>3 DEF LInv, Typed
<1>8. lease[k].holders = {} /\ lease[k].queue = <<>>
  BY <1>3, NoLeaseSettled
<1>9. Typed' /\ LeasesSettled'
  BY <1>3, <1>5, <1>6, <1>7 DEF LInv, Typed, LeasesSettled
<1>10. NoneLeftBehind'
  BY <1>1, <1>3, <1>4, <1>7 DEF LInv, NoneLeftBehind
<1>11. HoldersAreTrue'
  <2>1. \A j \in Keys : \A a \in lease[j].holders : a \in lease'[j].holders
    BY <1>7, <1>8
  <2>2. \A l \in Launches : attempt[l] = "granted" => Due(l, held[l]) \in Keys
    BY DueOf
  <2>3. \A l \in Launches : held[l] \subseteq Keys
    BY DEF LInv, Typed
  <2>4. \A g \in tending : Tends[g] \in Keys
    BY PlanAssumption DEF LInv, Typed
  <2>5. h \in lease'[Tends[h]].holders
    BY <1>1, <1>4, <1>7
  <2>6. QED
    BY <1>3, <2>1, <2>2, <2>3, <2>4, <2>5 DEF LInv, HoldersAreTrue
<1>12. ModesAreTrue'
  BY <1>4, <1>7 DEF LInv, ModesAreTrue
<1>13. QueuesAreTrue'
  BY <1>3, <1>4, <1>7 DEF LInv, QueuesAreTrue
<1>14. ProgressIsTrue'
  BY <1>3 DEF LInv, ProgressIsTrue
<1>15. ServedInOrder
  <2>1. \A j \in Keys : \A a \in lease'[j].holders \ lease[j].holders : j = k
    BY <1>7
  <2>2. \A a : Ahead(k, a) = {}
    BY <1>8 DEF Ahead
  <2>3. QED
    BY <2>1, <2>2 DEF ServedInOrder
<1>16. QED
  BY <1>9, <1>10, <1>11, <1>12, <1>13, <1>14, <1>15 DEF LInv

LEMMA LeaseInitially ==
  ASSUME LeaseInit
  PROVE  LInv
<1>1. \A k \in Keys : lease[k] = NoLease
  BY DEF LeaseInit
<1>2. \A k \in Keys : /\ AtRest(lease[k]) /\ lease[k].holders = {} /\ lease[k].queue = <<>>
                      /\ Len(lease[k].queue) = 0 /\ lease[k] \in Leases
  BY <1>1, NoLeaseSettled DEF AtRest, Sound
<1>3. \A l \in Launches : attempt[l] = "idle" /\ held[l] = {}
  BY DEF LeaseInit
<1>4. Typed
  BY <1>2 DEF LeaseInit, Typed, Outcomes
<1>5. LeasesSettled /\ NoneLeftBehind /\ ModesAreTrue /\ QueuesAreTrue
  BY <1>2 DEF LeasesSettled, NoneLeftBehind, ModesAreTrue, QueuesAreTrue
<1>6. HoldersAreTrue
  BY <1>3 DEF LeaseInit, HoldersAreTrue
<1>7. ProgressIsTrue
  BY <1>3 DEF ProgressIsTrue
<1>8. QED
  BY <1>4, <1>5, <1>6, <1>7 DEF LInv

LEMMA LeaseStep ==
  ASSUME LInv, [LeaseNext]_leaseVars
  PROVE  LInv' /\ [ServedInOrder]_leaseVars
<1>1. CASE UNCHANGED leaseVars
  BY <1>1 DEF leaseVars, LInv, Typed, LeasesSettled, NoneLeftBehind, HoldersAreTrue, ModesAreTrue,
              QueuesAreTrue, ProgressIsTrue
<1>2. CASE LeaseNext
  BY <1>2, LaunchSteps, TendSteps, TendDoneSteps DEF LeaseNext
<1>3. QED
  BY <1>1, <1>2

LEMMA TableIsExactLemma ==
  ASSUME LInv
  PROVE  TableIsExact
<1>1. LeaseTypeOK
  BY DEF LInv, Typed, LeasesSettled, AtRest, Leases, Waiters, Owners, LeaseTypeOK
<1>2. WriterAlone
  <2>1. SUFFICES ASSUME NEW o \in Owners, NEW p \in Owners, NEW k \in Writing(o), k \in Using(p)
                 PROVE  o = p
    BY DEF WriterAlone, Owners
  <2>2. ASSUME NEW a \in Owners, NEW j \in Using(a)
        PROVE  j \in Keys /\ a \in lease[j].holders
    <3>1. CASE a \in Maintenance
      <4>1. a \in tending /\ j = Tends[a]
        BY <2>2, <3>1 DEF Using
      <4>2. QED
        BY <3>1, <4>1, PlanAssumption DEF LInv, HoldersAreTrue
    <3>2. CASE a \notin Maintenance
      <4>1. a \in Launches /\ attempt[a] = "acquired" /\ j \in Ids(a)
        BY <2>2, <3>2 DEF Using, Owners
      <4>2. j \in held[a]
        BY <4>1 DEF LInv, ProgressIsTrue
      <4>3. QED
        BY <4>1, <4>2 DEF LInv, Typed, HoldersAreTrue
    <3>3. QED
      BY <3>1, <3>2
  <2>3. k \in Using(o) /\ (o \in Maintenance \/ k \in Writes[o])
    BY <2>1 DEF Writing, Using, Ids
  <2>4. lease[k].mode = "exclusive"
    BY <2>2, <2>3 DEF LInv, ModesAreTrue
  <2>5. QED
    BY <2>1, <2>2, <2>3, <2>4 DEF LInv, LeasesSettled, AtRest, Sound
<1>3. NoLostWakeup
  BY DEF LInv, LeasesSettled, AtRest, NoLostWakeup
<1>4. QED
  BY <1>1, <1>2, <1>3 DEF LInv, TableIsExact

-----------------------------------------------------------------------------
(* The table is exact: a writer works alone, no lease outlives the work it  *)
(* was taken for, and no waiter is left to wait for nobody                  *)
(* (locationLease.ts: acquireLocationLeases, admitWaiting,                  *)
(* releaseLocationLeases, cancelLeaseWaits).                                *)
THEOREM TableIsAlwaysExact == LeaseSpec => []TableIsExact
<1>1. LeaseInit => LInv
  BY LeaseInitially
<1>2. LInv /\ [LeaseNext]_leaseVars => LInv'
  BY LeaseStep
<1>3. LInv => TableIsExact
  BY TableIsExactLemma
<1>4. QED
  BY <1>1, <1>2, <1>3, PTL DEF LeaseSpec

(* Leases are granted in the order of arrival, whatever is released or      *)
(* cancelled (locationLease.ts:14-17, 148-168).                             *)
THEOREM LeasesAreServedInOrder == LeaseSpec => [][ServedInOrder]_leaseVars
<1>1. LeaseInit => LInv
  BY LeaseInitially
<1>2. LInv /\ [LeaseNext]_leaseVars => LInv' /\ [ServedInOrder]_leaseVars
  BY LeaseStep
<1>3. QED
  BY <1>1, <1>2, PTL DEF LeaseSpec

-----------------------------------------------------------------------------
(* Launches.  What a launch is at tells how far it has come with its leases, *)
(* and that carries everything else: a process runs only in phases that     *)
(* hold them.                                                               *)
Holding == {"ready", "prepared", "leaving", "running", "settling", "kept", "finishing"}
Given == {"uploading", "removing", "ended"}

PhasesAgree == \A l \in Launches :
    /\ phase[l] \in {"none", "preparing"} => attempt[l] = "idle" /\ l \notin cancelled
    /\ phase[l] = "waiting" => l \in Acquiring
    /\ phase[l] \in Holding => attempt[l] = "acquired"
    /\ phase[l] \in Given => attempt[l] \in {"idle", "cancelled", "released"}

(* A stop that found a launch without a process is still known to it.        *)
StopsAreKept == \A l \in asked :
    /\ phase[l] # "none"
    /\ l \in launchingRuns => l \in stopped
    /\ phase[l] = "waiting" => l \in cancelled \union cancelling

AnswersAreGiven == \A l \in Launches :
    phase[l] \in {"leaving", "kept", "ended"} => "complete" \in said[l]

HInv == /\ LInv /\ HostTypeOK /\ PhasesAgree /\ StopsAreKept
        /\ AnswersAreGiven /\ ReplacedAlone

(* Of one step of the daemon: what NobodyIsPassedOver asks. *)
InOrder == ServedInOrder /\ StoppedNeverStarts /\ RestartDropsNothing

LEMMA LeasesStay ==
  ASSUME LInv, UNCHANGED leaseVars
  PROVE  LInv' /\ ServedInOrder
BY DEF leaseVars, LInv, Typed, LeasesSettled, NoneLeftBehind, HoldersAreTrue, ModesAreTrue,
       QueuesAreTrue, ProgressIsTrue, ServedInOrder

(* What a launch does with its leases moves nobody else's attempt, but for  *)
(* the wait that it ends.                                                   *)
GoOn(others) == \A p \in others :
    \/ attempt'[p] = attempt[p]
    \/ attempt[p] = "queued" /\ attempt'[p] = "granted"

LEMMA GiveUpMoves ==
  ASSUME LInv, NEW l \in Launches, NEW taken, GiveUp(l, taken)
  PROVE  attempt'[l] = "cancelled" /\ GoOn(Launches \ {l})
<1>1. /\ attempt' = [Woken(lease', attempt) EXCEPT ![l] = "cancelled"]
      /\ \A p \in Launches : Woken(lease', attempt)[p] =
            IF attempt[p] = "queued" /\ p \in lease'[Due(p, held[p])].holders THEN "granted" ELSE attempt[p]
  BY Wakes DEF GiveUp
<1>2. DOMAIN Woken(lease', attempt) = Launches
  BY DEF Woken
<1>3. QED
  BY <1>1, <1>2 DEF GoOn

LEMMA TurnMoves ==
  ASSUME LInv, NEW l \in Launches, NEW done, Turn(l, done)
  PROVE  /\ GoOn(Launches \ {l})
         /\ \/ l \notin cancelled /\ done # Ids(l) /\ attempt'[l] \in {"granted", "queued"}
            \/ l \notin cancelled /\ done = Ids(l) /\ attempt'[l] = "acquired"
            \/ l \in cancelled /\ attempt'[l] = "cancelled"
<1>1. attempt \in [Launches -> Outcomes]
  BY DEF LInv, Typed
<1>2. CASE l \notin cancelled /\ done # Ids(l)
  <2>1. PICK a \in {"granted", "queued"} : attempt' = [attempt EXCEPT ![l] = a]
    BY <1>2 DEF Turn
  <2>2. QED
    BY <1>1, <1>2, <2>1 DEF GoOn
<1>3. CASE l \notin cancelled /\ done = Ids(l)
  BY <1>1, <1>3 DEF Turn, GoOn
<1>4. CASE l \in cancelled
  BY <1>4, GiveUpMoves DEF Turn
<1>5. QED
  BY <1>2, <1>3, <1>4

LEMMA AskMoves ==
  ASSUME LInv, NEW l \in Launches, l \notin cancelled, Ask(l)
  PROVE  /\ GoOn(Launches \ {l}) /\ UNCHANGED cancelled
         /\ Ids(l) = {} => attempt'[l] = "acquired"
         /\ Ids(l) # {} => attempt'[l] \in {"granted", "queued"}
<1>1. Turn(l, {}) /\ UNCHANGED cancelled
  BY DEF Ask
<1>2. QED
  BY <1>1, TurnMoves

LEMMA ResumeMoves ==
  ASSUME LInv, NEW l \in Launches, Resume(l)
  PROVE  /\ GoOn(Launches \ {l}) /\ UNCHANGED cancelled
         /\ attempt'[l] \in {"granted", "queued", "acquired", "cancelled"}
         /\ l \in cancelled => attempt'[l] = "cancelled"
<1>1. UNCHANGED cancelled
  BY DEF Resume
<1>2. CASE attempt[l] = "granted"
  <2>1. PICK done : Turn(l, done)
    BY <1>2 DEF Resume
  <2>2. QED
    BY <1>1, <2>1, TurnMoves
<1>3. CASE attempt[l] # "granted"
  <2>1. PICK taken : GiveUp(l, taken)
    BY <1>3 DEF Resume
  <2>2. QED
    BY <1>1, <2>1, GiveUpMoves
<1>4. QED
  BY <1>2, <1>3

LEMMA ReleaseMoves ==
  ASSUME LInv, NEW l \in Launches, Release(l)
  PROVE  attempt[l] = "acquired" /\ attempt'[l] = "released" /\ GoOn(Launches \ {l}) /\ UNCHANGED cancelled
<1>1. /\ attempt' = [Woken(lease', attempt) EXCEPT ![l] = "released"]
      /\ \A p \in Launches : Woken(lease', attempt)[p] =
            IF attempt[p] = "queued" /\ p \in lease'[Due(p, held[p])].holders THEN "granted" ELSE attempt[p]
  BY Wakes DEF Release
<1>2. DOMAIN Woken(lease', attempt) = Launches
  BY DEF Woken
<1>3. QED
  BY <1>1, <1>2 DEF GoOn, Release

LEMMA CancelMoves ==
  ASSUME LInv, NEW l \in Launches, Cancel(l)
  PROVE  /\ l \in Acquiring /\ attempt'[l] \in {"granted", "refused"}
         /\ GoOn(Launches \ {l}) /\ cancelled' = cancelled \union {l}
<1>1. l \in Acquiring /\ cancelled' = cancelled \union {l}
  BY DEF Cancel
<1>2. CASE attempt[l] = "queued"
  <2>1. attempt' = [Woken(lease', attempt) EXCEPT ![l] = "refused"]
    BY <1>2 DEF Cancel
  <2>2. \A p \in Launches : Woken(lease', attempt)[p] =
            IF attempt[p] = "queued" /\ p \in lease'[Due(p, held[p])].holders THEN "granted" ELSE attempt[p]
    BY Wakes
  <2>3. DOMAIN Woken(lease', attempt) = Launches
    BY DEF Woken
  <2>4. QED
    BY <1>1, <2>1, <2>2, <2>3 DEF GoOn
<1>3. CASE attempt[l] # "queued"
  BY <1>1, <1>3 DEF Cancel, Acquiring, GoOn
<1>4. QED
  BY <1>2, <1>3

LEMMA TendMoves ==
  ASSUME LInv, NEW h \in Maintenance, Tend(h) \/ TendDone(h)
  PROVE  GoOn(Launches) /\ UNCHANGED cancelled
<1>1. CASE Tend(h)
  BY <1>1 DEF Tend, GoOn
<1>2. CASE TendDone(h)
  <2>1. \A p \in Launches : Woken(lease', attempt)[p] =
            IF attempt[p] = "queued" /\ p \in lease'[Due(p, held[p])].holders THEN "granted" ELSE attempt[p]
    BY Wakes
  <2>2. QED
    BY <1>2, <2>1 DEF TendDone, GoOn
<1>3. QED
  BY <1>1, <1>2

-----------------------------------------------------------------------------
(* A launch goes on to phase p.  What must be so for that, in one place: the *)
(* steps of a launch are then looked at one by one.                          *)
Unspawned == {"preparing", "ready", "prepared"}

Fits(p, outcome) ==
    /\ p # "none"
    /\ p = "preparing" => outcome = "idle"
    /\ p = "waiting" => outcome \in {"queued", "granted", "refused"}
    /\ p \in Holding => outcome = "acquired"
    /\ p \in Given => outcome \in {"idle", "cancelled", "released"}

LEMMA MovesOn ==
  ASSUME HInv, cancelling = {}, NEW l \in Launches, NEW p \in Phases, Goto(l, p),
         GoOn(Launches \ {l}), Fits(p, attempt'[l]),
         UNCHANGED <<cancelled, cancelling, asked, upgrade, restarted>>,
         p = "preparing" => l \notin cancelled /\ l \notin asked,
         p = "waiting" => l \notin asked \/ l \in cancelled,
         p \in {"ready", "prepared"} => l \notin asked \/ (l \in stopped /\ stopped' = stopped),
         p = "running" => l \notin asked,
         \/ UNCHANGED stopped /\ (phase[l] \notin Unspawned \/ p \in Unspawned)
         \/ stopped' = stopped \ {l},
         \/ UNCHANGED said /\ p \notin {"leaving", "kept", "ended"}
         \/ Says(l, "complete")
         \/ UNCHANGED said /\ phase[l] = "leaving",
         upgrade = "replacing" => p \notin Unspawned /\ alive' = {}
  PROVE  /\ PhasesAgree' /\ StopsAreKept' /\ AnswersAreGiven' /\ ReplacedAlone'
         /\ StoppedNeverStarts /\ RestartDropsNothing
         /\ stopped' \subseteq launchingRuns' /\ cancelling' \subseteq Acquiring'
         /\ phase' \in [Launches -> Phases] /\ said' \in [Launches -> SUBSET {"complete", "absent"}]
<1>1. /\ phase \in [Launches -> Phases] /\ said \in [Launches -> SUBSET {"complete", "absent"}]
      /\ stopped \subseteq launchingRuns
  BY DEF HInv, HostTypeOK
<1>2. /\ phase'[l] = p /\ \A m \in Launches \ {l} : phase'[m] = phase[m]
      /\ phase' \in [Launches -> Phases]
  BY <1>1 DEF Goto
<1>3. /\ \A m \in Launches \ {l} : said'[m] = said[m]
      /\ said' \in [Launches -> SUBSET {"complete", "absent"}]
      /\ p \in {"leaving", "kept", "ended"} => "complete" \in said'[l]
  BY <1>1 DEF Says, HInv, AnswersAreGiven
<1>4. PhasesAgree'
  <2> SUFFICES ASSUME NEW m \in Launches
               PROVE  /\ phase'[m] \in {"none", "preparing"} => attempt'[m] = "idle" /\ m \notin cancelled'
                      /\ phase'[m] = "waiting" => m \in Acquiring'
                      /\ phase'[m] \in Holding => attempt'[m] = "acquired"
                      /\ phase'[m] \in Given => attempt'[m] \in {"idle", "cancelled", "released"}
    BY DEF PhasesAgree
  <2>1. CASE m = l
    BY <1>2, <2>1 DEF Fits, Acquiring
  <2>2. CASE m # l
    <3>1. phase'[m] = phase[m] /\ (attempt'[m] = attempt[m] \/ (attempt[m] = "queued" /\ attempt'[m] = "granted"))
      BY <1>2, <2>2 DEF GoOn
    <3>2. QED
      BY <3>1 DEF HInv, PhasesAgree, Acquiring, Holding, Given
  <2>3. QED
    BY <2>1, <2>2
<1>5. stopped' \subseteq launchingRuns'
  BY <1>1, <1>2 DEF launchingRuns, In, Unspawned
<1>6. StopsAreKept'
  <2> SUFFICES ASSUME NEW m \in asked
               PROVE  /\ phase'[m] # "none"
                      /\ m \in launchingRuns' => m \in stopped'
                      /\ phase'[m] = "waiting" => m \in cancelled'
    BY DEF StopsAreKept
  <2>1. CASE m = l
    BY <1>1, <1>2, <2>1 DEF Fits, launchingRuns, In
  <2>2. CASE m # l
    BY <1>2, <2>2 DEF HInv, StopsAreKept, launchingRuns, In, HostTypeOK
  <2>3. QED
    BY <2>1, <2>2
<1>7. AnswersAreGiven'
  BY <1>2, <1>3 DEF HInv, AnswersAreGiven
<1>8. ReplacedAlone'
  BY <1>2 DEF HInv, ReplacedAlone, launchingRuns, In, Unspawned
<1>9. StoppedNeverStarts
  BY <1>2 DEF StoppedNeverStarts
<1>10. RestartDropsNothing
  BY DEF RestartDropsNothing
<1>11. QED
  BY <1>2, <1>3, <1>4, <1>5, <1>6, <1>7, <1>8, <1>9, <1>10

StepsWell == HInv' /\ InOrder

LEMMA Goes ==
  ASSUME HInv, cancelling = {}, NEW l \in Launches, NEW p \in Phases, Goto(l, p),
         LInv', ServedInOrder, GoOn(Launches \ {l}), Fits(p, attempt'[l]), UNCHANGED cancelled, Rest,
         p = "preparing" => l \notin cancelled /\ l \notin asked,
         p = "waiting" => l \notin asked \/ l \in cancelled,
         p \in {"ready", "prepared"} => l \notin asked \/ (l \in stopped /\ stopped' = stopped),
         p = "running" => l \notin asked,
         \/ UNCHANGED stopped /\ (phase[l] \notin Unspawned \/ p \in Unspawned)
         \/ stopped' = stopped \ {l},
         \/ UNCHANGED said /\ p \notin {"leaving", "kept", "ended"}
         \/ Says(l, "complete")
         \/ UNCHANGED said /\ phase[l] = "leaving",
         upgrade = "replacing" => p \notin Unspawned \union {"running"},
         newest' \in [Runs -> Launches \union {Nobody}], dirs' \subseteq Runs,
         \/ UNCHANGED alive /\ (p \in {"settling", "kept"} \/ phase[l] \notin {"running", "settling", "kept"})
         \/ alive' = alive \ {l}
         \/ alive' = alive \union {l} /\ p = "running"
  PROVE  StepsWell
<1>1. UNCHANGED <<sweeping, commands, upgrade, revoked, asked, cancelling, restarted, may>>
  BY DEF Rest
<1>2. HostTypeOK /\ ReplacedAlone
  BY DEF HInv
<1>3. upgrade = "replacing" => p \notin Unspawned /\ alive' = {}
  BY <1>2 DEF ReplacedAlone
<1>4. /\ PhasesAgree' /\ StopsAreKept' /\ AnswersAreGiven' /\ ReplacedAlone'
      /\ StoppedNeverStarts /\ RestartDropsNothing
      /\ stopped' \subseteq launchingRuns' /\ cancelling' \subseteq Acquiring'
      /\ phase' \in [Launches -> Phases] /\ said' \in [Launches -> SUBSET {"complete", "absent"}]
  BY <1>1, <1>3, MovesOn
<1>5. phase'[l] = p /\ \A m \in Launches \ {l} : phase'[m] = phase[m]
  BY <1>2 DEF HostTypeOK, Goto
<1>6. alive' \subseteq activeLaunches' \union unsettledRuns'
  <2>1. alive \subseteq Launches /\ \A m \in alive : phase[m] \in {"running", "settling", "kept"}
    BY <1>2 DEF HostTypeOK, activeLaunches, unsettledRuns, In
  <2>2. \A m \in alive' : m \in Launches /\ phase'[m] \in {"running", "settling", "kept"}
    BY <1>5, <2>1
  <2>3. QED
    BY <2>2 DEF activeLaunches, unsettledRuns, In
<1>7. HostTypeOK'
  BY <1>1, <1>2, <1>4, <1>6 DEF HostTypeOK
<1>8. QED
  BY <1>4, <1>7 DEF StepsWell, HInv, InOrder

-----------------------------------------------------------------------------
(* The steps of a launch that leave the leases alone. *)
LEMMA LaunchWell ==
  ASSUME HInv, cancelling = {}, NEW l \in Launches, Launch(l)
  PROVE  StepsWell
<1>1. phase[l] = "none" /\ UNCHANGED leaseVars /\ attempt[l] = "idle" /\ l \notin cancelled /\ l \notin asked
  BY DEF Launch, HInv, PhasesAgree, StopsAreKept
<1>2. LInv' /\ ServedInOrder
  BY <1>1, LeasesStay DEF HInv
<1>3. GoOn(Launches \ {l}) /\ UNCHANGED <<attempt, cancelled>>
  BY <1>1 DEF leaseVars, GoOn
<1>4. PICK p : /\ \/ p = "preparing" /\ upgrade = "open" /\ UNCHANGED said
                  \/ p = "ended" /\ Says(l, "complete")
               /\ Goto(l, p)
  BY DEF Launch
<1>5. UNCHANGED <<alive, stopped, dirs, newest>> /\ Rest /\ newest' \in [Runs -> Launches \union {Nobody}]
      /\ dirs' \subseteq Runs
  BY DEF Launch, Stay, HInv, HostTypeOK
<1>6. Fits(p, attempt'[l]) /\ p \in Phases
  BY <1>1, <1>3, <1>4 DEF Fits, Holding, Given, Phases
<1>7. phase[l] \notin Unspawned /\ (upgrade = "replacing" => p \notin Unspawned \union {"running"})
  BY <1>1, <1>4 DEF Unspawned
<1>8. QED
  BY <1>1, <1>2, <1>3, <1>4, <1>5, <1>6, <1>7, Goes

(* A launch in phase q holds what that phase holds. *)
LEMMA InPhase ==
  ASSUME HInv, NEW l \in Launches
  PROVE  /\ phase[l] \in {"none", "preparing"} => attempt[l] = "idle" /\ l \notin cancelled
         /\ phase[l] \in Holding => attempt[l] = "acquired"
         /\ phase[l] \in Given => attempt[l] \in {"idle", "cancelled", "released"}
         /\ l \in asked /\ phase[l] \in Unspawned => l \in stopped
         /\ newest \in [Runs -> Launches \union {Nobody}] /\ dirs \subseteq Runs
         /\ upgrade = "replacing" => phase[l] \notin Unspawned
         /\ RunOf[l] \in Runs
BY HostAssumption DEF HInv, PhasesAgree, StopsAreKept, HostTypeOK, ReplacedAlone, Unspawned, launchingRuns, In

(* Its leases are as they were. *)
LEMMA Unleased ==
  ASSUME HInv, NEW l \in Launches, UNCHANGED leaseVars
  PROVE  /\ LInv' /\ ServedInOrder /\ GoOn(Launches \ {l})
         /\ UNCHANGED <<attempt, cancelled>>
<1>1. UNCHANGED <<attempt, cancelled>>
  BY DEF leaseVars
<1>2. QED
  BY <1>1, LeasesStay DEF HInv, GoOn

LEMMA PrepareFailsWell ==
  ASSUME HInv, cancelling = {}, NEW l \in Launches, PrepareFails(l)
  PROVE  StepsWell
<1>1. /\ phase[l] = "preparing" /\ Goto(l, "ended") /\ Says(l, "complete") /\ stopped' = stopped \ {l}
      /\ UNCHANGED <<leaseVars, alive, dirs, newest>> /\ Rest
  BY DEF PrepareFails, Stay
<1>2. Fits("ended", attempt'[l]) /\ "ended" \in Phases /\ "ended" \notin Unspawned
  BY <1>1, InPhase, Unleased DEF Fits, Holding, Given, Phases, Unspawned
<1>3. QED
  BY <1>1, <1>2, InPhase, Unleased, Goes

LEMMA PrepareWell ==
  ASSUME HInv, cancelling = {}, NEW l \in Launches, Prepare(l)
  PROVE  StepsWell
<1>1. /\ phase[l] = "ready" /\ Goto(l, "prepared") /\ dirs' = dirs \union {RunOf[l]}
      /\ UNCHANGED <<leaseVars, alive, stopped, said, newest>> /\ Rest
  BY DEF Prepare, Stay
<1>2. /\ Fits("prepared", attempt'[l]) /\ "prepared" \in Phases
      /\ phase[l] \in Unspawned /\ "prepared" \in Unspawned
  BY <1>1, InPhase, Unleased DEF Fits, Holding, Given, Phases, Unspawned
<1>3. QED
  BY <1>1, <1>2, InPhase, Unleased, Goes

LEMMA EndsUnspawnedWell ==
  ASSUME HInv, cancelling = {}, NEW l \in Launches, EndsUnspawned(l)
  PROVE  StepsWell
<1>1. /\ phase[l] \in {"ready", "prepared"} /\ Goto(l, "leaving") /\ Says(l, "complete")
      /\ stopped' = stopped \ {l} /\ UNCHANGED <<leaseVars, alive, dirs, newest>> /\ Rest
  BY DEF EndsUnspawned, Stay
<1>2. Fits("leaving", attempt'[l]) /\ "leaving" \in Phases /\ "leaving" \notin Unspawned
  BY <1>1, InPhase, Unleased DEF Fits, Holding, Given, Phases, Unspawned
<1>3. QED
  BY <1>1, <1>2, InPhase, Unleased, Goes

LEMMA SpawnWell ==
  ASSUME HInv, cancelling = {}, NEW l \in Launches, Spawn(l)
  PROVE  StepsWell
<1>1. /\ phase[l] = "prepared" /\ l \notin stopped /\ Goto(l, "running") /\ alive' = alive \union {l}
      /\ newest' = [newest EXCEPT ![RunOf[l]] = l] /\ stopped' = stopped \ {l}
      /\ UNCHANGED <<leaseVars, said, dirs>> /\ Rest
  BY DEF Spawn
<1>2. /\ Fits("running", attempt'[l]) /\ "running" \in Phases
      /\ phase[l] \in Unspawned /\ "running" \notin Unspawned
  BY <1>1, InPhase, Unleased DEF Fits, Holding, Given, Phases, Unspawned
<1>3. l \notin asked
  BY <1>1, <1>2, InPhase
<1>4. newest' \in [Runs -> Launches \union {Nobody}]
  BY <1>1, InPhase
<1>5. upgrade # "replacing"
  BY <1>2, InPhase
<1>6. QED
  BY <1>1, <1>2, <1>3, <1>4, <1>5, InPhase, Unleased, Goes

LEMMA ExitsWell ==
  ASSUME HInv, cancelling = {}, NEW l \in Launches, Exits(l)
  PROVE  StepsWell
<1>1. /\ phase[l] = "running" /\ Goto(l, "settling") /\ (alive' = alive \ {l} \/ UNCHANGED alive)
      /\ UNCHANGED <<leaseVars, stopped, said, dirs, newest>> /\ Rest
  BY DEF Exits, Stay
<1>2. /\ Fits("settling", attempt'[l]) /\ "settling" \in Phases
      /\ phase[l] \notin Unspawned /\ "settling" \notin Unspawned
  BY <1>1, InPhase, Unleased DEF Fits, Holding, Given, Phases, Unspawned
<1>3. QED
  BY <1>1, <1>2, InPhase, Unleased, Goes

LEMMA ForgottenTyped ==
  ASSUME HInv, NEW l \in Launches
  PROVE  Forgotten(l) \in [Runs -> Launches \union {Nobody}]
BY InPhase DEF Forgotten

LEMMA SettlesWell ==
  ASSUME HInv, cancelling = {}, NEW l \in Launches, Settles(l)
  PROVE  StepsWell
<1>1. /\ phase[l] = "settling" /\ Goto(l, "finishing") /\ alive' = alive \ {l}
      /\ newest' \in [Runs -> Launches \union {Nobody}]
      /\ UNCHANGED <<leaseVars, stopped, said, dirs>> /\ Rest
  BY ForgottenTyped DEF Settles
<1>2. /\ Fits("finishing", attempt'[l]) /\ "finishing" \in Phases
      /\ phase[l] \notin Unspawned /\ "finishing" \notin Unspawned
  BY <1>1, InPhase, Unleased DEF Fits, Holding, Given, Phases, Unspawned
<1>3. QED
  BY <1>1, <1>2, InPhase, Unleased, Goes

LEMMA KeptWell ==
  ASSUME HInv, cancelling = {}, NEW l \in Launches, Kept(l)
  PROVE  StepsWell
<1>1. /\ phase[l] = "settling" /\ Goto(l, "kept") /\ Says(l, "complete")
      /\ newest' \in [Runs -> Launches \union {Nobody}]
      /\ UNCHANGED <<leaseVars, alive, stopped, dirs>> /\ Rest
  BY ForgottenTyped DEF Kept
<1>2. /\ Fits("kept", attempt'[l]) /\ "kept" \in Phases
      /\ phase[l] \notin Unspawned /\ "kept" \notin Unspawned
  BY <1>1, InPhase, Unleased DEF Fits, Holding, Given, Phases, Unspawned
<1>3. QED
  BY <1>1, <1>2, InPhase, Unleased, Goes

LEMMA UploadedWell ==
  ASSUME HInv, cancelling = {}, NEW l \in Launches, Uploaded(l)
  PROVE  StepsWell
<1>1. /\ phase[l] = "uploading" /\ UNCHANGED <<leaseVars, alive, stopped, dirs, newest>> /\ Rest
  BY DEF Uploaded, Stay
<1>2. PICK p : /\ Goto(l, p)
               /\ \/ p = "ended" /\ Says(l, "complete")
                  \/ p = "removing" /\ UNCHANGED said
  BY DEF Uploaded
<1>3. /\ Fits(p, attempt'[l]) /\ p \in Phases
      /\ phase[l] \notin Unspawned /\ p \notin Unspawned
  BY <1>1, <1>2, InPhase, Unleased DEF Fits, Holding, Given, Phases, Unspawned
<1>4. QED
  BY <1>1, <1>2, <1>3, InPhase, Unleased, Goes

LEMMA RemovedWell ==
  ASSUME HInv, cancelling = {}, NEW l \in Launches, Removed(l)
  PROVE  StepsWell
<1>1. /\ phase[l] = "removing" /\ Goto(l, "ended") /\ Says(l, "complete") /\ dirs' = dirs \ {RunOf[l]}
      /\ UNCHANGED <<leaseVars, alive, stopped, newest>> /\ Rest
  BY DEF Removed, Stay
<1>2. /\ Fits("ended", attempt'[l]) /\ "ended" \in Phases
      /\ phase[l] \notin Unspawned /\ "ended" \notin Unspawned
  BY <1>1, InPhase, Unleased DEF Fits, Holding, Given, Phases, Unspawned
<1>3. QED
  BY <1>1, <1>2, InPhase, Unleased, Goes

-----------------------------------------------------------------------------
(* The steps of a launch that ask for leases or give them back. *)
LEMMA BeginWaitWell ==
  ASSUME HInv, cancelling = {}, NEW l \in Launches, BeginWait(l)
  PROVE  StepsWell
<1>1. /\ phase[l] = "preparing" /\ stopped' = stopped \ {l}
      /\ UNCHANGED <<alive, dirs, newest>> /\ Rest
  BY DEF BeginWait, Stay
<1>2. phase[l] \in Unspawned /\ upgrade # "replacing"
  BY <1>1, InPhase DEF Unspawned
<1>3. CASE l \in stopped
  <2>1. Goto(l, "ended") /\ Says(l, "complete") /\ UNCHANGED leaseVars
    BY <1>3 DEF BeginWait
  <2>2. Fits("ended", attempt'[l]) /\ "ended" \in Phases /\ "ended" \notin Unspawned
    BY <1>1, <2>1, InPhase, Unleased DEF Fits, Holding, Given, Phases, Unspawned
  <2>3. QED
    BY <1>1, <1>2, <2>1, <2>2, InPhase, Unleased, Goes
<1>4. CASE l \notin stopped
  <2>1. PICK p : /\ p = IF Ids(l) = {} THEN "ready" ELSE "waiting"
                 /\ Goto(l, p) /\ Ask(l) /\ UNCHANGED said
    BY <1>4 DEF BeginWait
  <2>2. l \notin asked /\ l \notin cancelled
    BY <1>1, <1>2, <1>4, InPhase
  <2>3. /\ GoOn(Launches \ {l}) /\ UNCHANGED cancelled
        /\ Ids(l) = {} => attempt'[l] = "acquired"
        /\ Ids(l) # {} => attempt'[l] \in {"granted", "queued"}
    BY <2>1, <2>2, AskMoves DEF HInv
  <2>4. LInv' /\ ServedInOrder
    BY <2>1, LaunchSteps DEF HInv
  <2>5. Fits(p, attempt'[l]) /\ p \in Phases /\ p \in {"ready", "waiting"}
    BY <2>1, <2>3 DEF Fits, Holding, Given, Phases
  <2>6. QED
    BY <1>1, <1>2, <2>1, <2>2, <2>3, <2>4, <2>5, InPhase, Goes
<1>5. QED
  BY <1>3, <1>4

LEMMA LeaseTurnWell ==
  ASSUME HInv, cancelling = {}, NEW l \in Launches, LeaseTurn(l)
  PROVE  StepsWell
<1>1. /\ phase[l] = "waiting" /\ Resume(l) /\ UNCHANGED <<alive, stopped, dirs, newest>> /\ Rest
  BY DEF LeaseTurn, Stay
<1>2. /\ GoOn(Launches \ {l}) /\ UNCHANGED cancelled
      /\ attempt'[l] \in {"granted", "queued", "acquired", "cancelled"}
      /\ l \in cancelled => attempt'[l] = "cancelled"
  BY <1>1, ResumeMoves DEF HInv
<1>3. LInv' /\ ServedInOrder
  BY <1>1, LaunchSteps DEF HInv
<1>4. l \in asked => l \in cancelled
  BY <1>1 DEF HInv, StopsAreKept
<1>5. phase[l] \notin Unspawned
  BY <1>1 DEF Unspawned
<1>6. CASE attempt'[l] = "acquired" /\ ~revoked /\ upgrade = "open"
  <2>1. Goto(l, "ready") /\ UNCHANGED said
    BY <1>6 DEF LeaseTurn
  <2>2. Fits("ready", attempt'[l]) /\ "ready" \in Phases
    BY <1>6 DEF Fits, Holding, Given, Phases
  <2>3. QED
    BY <1>1, <1>2, <1>3, <1>4, <1>5, <1>6, <2>1, <2>2, InPhase, Goes
<1>7. CASE attempt'[l] = "acquired" /\ ~(~revoked /\ upgrade = "open")
  <2>1. Goto(l, "leaving") /\ Says(l, "complete")
    BY <1>7 DEF LeaseTurn
  <2>2. Fits("leaving", attempt'[l]) /\ "leaving" \in Phases /\ "leaving" \notin Unspawned
    BY <1>7 DEF Fits, Holding, Given, Phases, Unspawned
  <2>3. QED
    BY <1>1, <1>2, <1>3, <1>5, <2>1, <2>2, InPhase, Goes
<1>8. CASE attempt'[l] = "cancelled"
  <2>1. Goto(l, "ended") /\ Says(l, "complete")
    BY <1>8 DEF LeaseTurn
  <2>2. Fits("ended", attempt'[l]) /\ "ended" \in Phases /\ "ended" \notin Unspawned
    BY <1>8 DEF Fits, Holding, Given, Phases, Unspawned
  <2>3. QED
    BY <1>1, <1>2, <1>3, <1>5, <2>1, <2>2, InPhase, Goes
<1>9. CASE attempt'[l] \in {"granted", "queued"}
  <2>1. UNCHANGED phase /\ UNCHANGED said
    BY <1>9 DEF LeaseTurn
  <2>2. phase \in [Launches -> Phases]
    BY DEF HInv, HostTypeOK
  <2>3. Goto(l, "waiting")
    BY <1>1, <2>1, <2>2 DEF Goto
  <2>4. /\ Fits("waiting", attempt'[l]) /\ "waiting" \in Phases
        /\ "waiting" \notin Unspawned
    BY <1>9 DEF Fits, Holding, Given, Phases, Unspawned
  <2>5. l \notin asked
    BY <1>2, <1>4, <1>9
  <2>6. QED
    BY <1>1, <1>2, <1>3, <1>5, <2>1, <2>3, <2>4, <2>5, InPhase, Goes
<1>10. QED
  BY <1>2, <1>6, <1>7, <1>8, <1>9

(* The leases are given back. *)
LEMMA GivenBack ==
  ASSUME HInv, NEW l \in Launches, Release(l), NEW p \in {"ended", "uploading", "removing"}
  PROVE  /\ LInv' /\ ServedInOrder /\ GoOn(Launches \ {l}) /\ UNCHANGED cancelled
         /\ Fits(p, attempt'[l]) /\ p \in Phases /\ p \notin Unspawned
<1>1. attempt'[l] = "released" /\ GoOn(Launches \ {l}) /\ UNCHANGED cancelled
  BY ReleaseMoves DEF HInv
<1>2. LInv' /\ ServedInOrder
  BY LaunchSteps DEF HInv
<1>3. QED
  BY <1>1, <1>2 DEF Fits, Holding, Given, Phases, Unspawned

LEMMA LeaveWell ==
  ASSUME HInv, cancelling = {}, NEW l \in Launches, Leave(l)
  PROVE  StepsWell
<1>1. /\ phase[l] = "leaving" /\ Release(l) /\ Goto(l, "ended")
      /\ UNCHANGED <<alive, stopped, said, dirs, newest>> /\ Rest
  BY DEF Leave, Stay
<1>2. phase[l] \notin Unspawned
  BY <1>1 DEF Unspawned
<1>3. QED
  BY <1>1, <1>2, InPhase, GivenBack, Goes

LEMMA CapturedWell ==
  ASSUME HInv, cancelling = {}, NEW l \in Launches, Captured(l)
  PROVE  StepsWell
<1>1. /\ phase[l] = "finishing" /\ Release(l) /\ Goto(l, "uploading")
      /\ UNCHANGED <<alive, stopped, said, dirs, newest>> /\ Rest
  BY DEF Captured, Stay
<1>2. phase[l] \notin Unspawned
  BY <1>1 DEF Unspawned
<1>3. QED
  BY <1>1, <1>2, InPhase, GivenBack, Goes

LEMMA BookkeepingFailsWell ==
  ASSUME HInv, cancelling = {}, NEW l \in Launches, BookkeepingFails(l)
  PROVE  StepsWell
<1>1. /\ Goto(l, "ended") /\ Says(l, "complete")
      /\ UNCHANGED <<alive, stopped, dirs, newest>> /\ Rest
  BY DEF BookkeepingFails, Stay
<1>2. CASE phase[l] = "finishing" /\ Release(l)
  <2>1. phase[l] \notin Unspawned
    BY <1>2 DEF Unspawned
  <2>2. QED
    BY <1>1, <1>2, <2>1, InPhase, GivenBack, Goes
<1>3. CASE phase[l] = "uploading" /\ UNCHANGED leaseVars
  <2>1. /\ Fits("ended", attempt'[l]) /\ "ended" \in Phases
        /\ phase[l] \notin Unspawned /\ "ended" \notin Unspawned
    BY <1>3, InPhase, Unleased DEF Fits, Holding, Given, Phases, Unspawned
  <2>2. QED
    BY <1>1, <1>3, <2>1, InPhase, Unleased, Goes
<1>4. QED
  BY <1>2, <1>3 DEF BookkeepingFails

-----------------------------------------------------------------------------
(* Stops.  One finds preparations, which it marks, and waits, which it goes *)
(* on to cancel.                                                            *)
LEMMA StopWell ==
  ASSUME HInv, cancelling = {}, NEW ls \in SUBSET Launches, Stop(ls),
         \A l \in ls : phase[l] = "none" => l \notin Acquiring,
         UNCHANGED <<phase, alive, newest, dirs, sweeping, commands, upgrade, restarted>>,
         revoked' \in BOOLEAN,
         \/ UNCHANGED said
         \/ \E l \in Launches : Says(l, "absent")
  PROVE  StepsWell
<1>1. /\ cancelling' = (ls \intersect Acquiring) \ cancelled
      /\ stopped' = stopped \union (ls \intersect launchingRuns)
      /\ asked' = asked \union (ls \intersect (launchingRuns \union Acquiring))
      /\ UNCHANGED leaseVars
  BY DEF Stop
<1>2. LInv' /\ ServedInOrder
  BY <1>1, LeasesStay DEF HInv
<1>3. UNCHANGED <<attempt, cancelled>>
  BY <1>1 DEF leaseVars
<1>4. HostTypeOK
  BY DEF HInv
<1>5. /\ said' \in [Launches -> SUBSET {"complete", "absent"}]
      /\ \A l \in Launches : said[l] \subseteq said'[l]
  BY <1>4 DEF HostTypeOK, Says
<1>6. HostTypeOK'
  BY <1>1, <1>3, <1>4, <1>5 DEF HostTypeOK, activeLaunches, unsettledRuns, launchingRuns, In, Acquiring
<1>7. PhasesAgree'
  BY <1>3 DEF HInv, PhasesAgree, Acquiring
<1>8. StopsAreKept'
  <2> SUFFICES ASSUME NEW l \in asked'
               PROVE  /\ phase[l] # "none" /\ (l \in launchingRuns => l \in stopped')
                      /\ phase[l] = "waiting" => l \in cancelled \union cancelling'
    BY <1>3 DEF StopsAreKept, launchingRuns, In
  <2>1. CASE l \in asked
    BY <1>1, <2>1 DEF HInv, StopsAreKept
  <2>2. CASE l \notin asked
    BY <1>1, <2>2 DEF HInv, PhasesAgree, launchingRuns, In
  <2>3. QED
    BY <2>1, <2>2
<1>9. AnswersAreGiven' /\ ReplacedAlone'
  BY <1>5 DEF HInv, AnswersAreGiven, ReplacedAlone, launchingRuns, In
<1>10. StoppedNeverStarts /\ RestartDropsNothing
  BY DEF StoppedNeverStarts, RestartDropsNothing
<1>11. QED
  BY <1>2, <1>6, <1>7, <1>8, <1>9, <1>10 DEF StepsWell, HInv, InOrder

LEMMA StopsWell ==
  ASSUME HInv, cancelling = {},
         \/ \E l \in Launches : Terminate(l)
         \/ \E r \in Runs : TerminateRun(r)
         \/ Revoke
  PROVE  StepsWell
<1>1. \A l \in Launches : phase[l] = "none" => l \notin Acquiring
  BY DEF HInv, PhasesAgree, Acquiring
<1>2. revoked \in BOOLEAN
  BY DEF HInv, HostTypeOK
<1>3. ASSUME NEW l \in Launches, Terminate(l)
      PROVE  StepsWell
  <2>1. Stop({l}) /\ {l} \in SUBSET Launches
    BY <1>3 DEF Terminate
  <2>2. /\ UNCHANGED said \/ Says(l, "absent")
        /\ UNCHANGED <<phase, alive, newest, dirs, sweeping, commands, upgrade, revoked, restarted, may>>
    BY <1>3 DEF Terminate
  <2>3. QED
    BY <1>1, <1>2, <2>1, <2>2, StopWell
<1>4. ASSUME NEW r \in Runs, TerminateRun(r)
      PROVE  StepsWell
  BY <1>1, <1>2, <1>4, StopWell DEF TerminateRun
<1>5. CASE Revoke
  <2>1. Stop(Launches) /\ revoked' = TRUE
        /\ UNCHANGED <<phase, alive, newest, said, dirs, sweeping, commands, upgrade, restarted, may>>
    BY <1>5 DEF Revoke
  <2>2. QED
    BY <1>1, <2>1, StopWell
<1>6. QED
  BY <1>3, <1>4, <1>5

LEMMA CancelWaitWell ==
  ASSUME HInv, NEW l \in cancelling, CancelWait(l)
  PROVE  StepsWell
<1>1. /\ l \in Launches /\ Cancel(l) /\ cancelling' = cancelling \ {l}
      /\ UNCHANGED <<phase, alive, stopped, newest, said, dirs, sweeping, commands,
                     upgrade, revoked, asked, restarted, may>>
  BY DEF CancelWait, HInv, HostTypeOK, Acquiring
<1>2. /\ l \in Acquiring /\ attempt'[l] \in {"granted", "refused"}
      /\ GoOn(Launches \ {l}) /\ cancelled' = cancelled \union {l}
  BY <1>1, CancelMoves DEF HInv
<1>3. LInv' /\ ServedInOrder
  BY <1>1, LaunchSteps DEF HInv
<1>4. \A m \in Launches :
        /\ m \in Acquiring => m \in Acquiring'
        /\ m \notin Acquiring => attempt'[m] = attempt[m]
  BY <1>2 DEF GoOn, Acquiring
<1>5. HostTypeOK'
  BY <1>1, <1>4 DEF HInv, HostTypeOK, activeLaunches, unsettledRuns, launchingRuns, In, Acquiring
<1>6. PhasesAgree'
  <2> SUFFICES ASSUME NEW m \in Launches
               PROVE  /\ phase[m] \in {"none", "preparing"} => attempt'[m] = "idle" /\ m \notin cancelled'
                      /\ phase[m] = "waiting" => m \in Acquiring'
                      /\ phase[m] \in Holding => attempt'[m] = "acquired"
                      /\ phase[m] \in Given => attempt'[m] \in {"idle", "cancelled", "released"}
    BY <1>1 DEF PhasesAgree
  <2>1. /\ phase[m] \in {"none", "preparing"} => attempt[m] = "idle" /\ m \notin cancelled
        /\ phase[m] = "waiting" => m \in Acquiring
        /\ phase[m] \in Holding => attempt[m] = "acquired"
        /\ phase[m] \in Given => attempt[m] \in {"idle", "cancelled", "released"}
    BY DEF HInv, PhasesAgree
  <2>2. attempt[m] \in {"idle", "acquired", "cancelled", "released"} => m \notin Acquiring
    BY DEF Acquiring
  <2>3. QED
    BY <1>2, <1>4, <2>1, <2>2
<1>7. StopsAreKept'
  BY <1>1, <1>2 DEF HInv, StopsAreKept, launchingRuns, In
<1>8. AnswersAreGiven' /\ ReplacedAlone'
  BY <1>1 DEF HInv, AnswersAreGiven, ReplacedAlone, launchingRuns, In
<1>9. StoppedNeverStarts /\ RestartDropsNothing
  BY <1>1 DEF StoppedNeverStarts, RestartDropsNothing
<1>10. QED
  BY <1>3, <1>5, <1>6, <1>7, <1>8, <1>9 DEF StepsWell, HInv, InOrder

-----------------------------------------------------------------------------
(* What else the daemon does moves no launch. *)
LEMMA QuietWell ==
  ASSUME HInv, Quiet, LInv', ServedInOrder, GoOn(Launches), UNCHANGED cancelled,
         dirs' \subseteq Runs, sweeping' \subseteq Runs, revoked' = revoked, restarted' \in BOOLEAN,
         commands' \in [running : SUBSET TaskKeys, begun : 0 .. MaxCommands],
         upgrade' \in {"open", "draining", "replacing"},
         upgrade' = "replacing" => upgrade = "replacing" \/ (alive = {} /\ launchingRuns = {}),
         restarted' # restarted => \A l \in Launches : phase[l] # "none" => "complete" \in said[l]
  PROVE  StepsWell
<1>1. UNCHANGED <<phase, alive, stopped, newest, said, asked, cancelling>>
  BY DEF Quiet
<1>2. \A m \in Launches :
        /\ m \in Acquiring => m \in Acquiring'
        /\ m \notin Acquiring => attempt'[m] = attempt[m]
  BY DEF GoOn, Acquiring
<1>3. HostTypeOK'
  BY <1>1, <1>2 DEF HInv, HostTypeOK, activeLaunches, unsettledRuns, launchingRuns, In, Acquiring
<1>4. PhasesAgree'
  <2> SUFFICES ASSUME NEW m \in Launches
               PROVE  /\ phase[m] \in {"none", "preparing"} => attempt'[m] = "idle" /\ m \notin cancelled'
                      /\ phase[m] = "waiting" => m \in Acquiring'
                      /\ phase[m] \in Holding => attempt'[m] = "acquired"
                      /\ phase[m] \in Given => attempt'[m] \in {"idle", "cancelled", "released"}
    BY <1>1 DEF PhasesAgree
  <2>1. /\ phase[m] \in {"none", "preparing"} => attempt[m] = "idle" /\ m \notin cancelled
        /\ phase[m] = "waiting" => m \in Acquiring
        /\ phase[m] \in Holding => attempt[m] = "acquired"
        /\ phase[m] \in Given => attempt[m] \in {"idle", "cancelled", "released"}
    BY DEF HInv, PhasesAgree
  <2>2. attempt[m] \in {"idle", "acquired", "cancelled", "released"} => m \notin Acquiring
    BY DEF Acquiring
  <2>3. QED
    BY <1>2, <2>1, <2>2
<1>5. StopsAreKept' /\ AnswersAreGiven' /\ ReplacedAlone'
  BY <1>1 DEF HInv, StopsAreKept, AnswersAreGiven, ReplacedAlone, launchingRuns, In
<1>6. StoppedNeverStarts /\ RestartDropsNothing
  BY <1>1 DEF StoppedNeverStarts, RestartDropsNothing
<1>7. QED
  BY <1>3, <1>4, <1>5, <1>6 DEF StepsWell, HInv, InOrder

LEMMA TypesOfTheRest ==
  ASSUME HInv
  PROVE  /\ dirs \subseteq Runs /\ sweeping \subseteq Runs /\ restarted \in BOOLEAN /\ revoked \in BOOLEAN
         /\ commands.running \subseteq TaskKeys /\ commands.begun \in 0 .. MaxCommands
         /\ commands \in [running : SUBSET TaskKeys, begun : 0 .. MaxCommands]
         /\ upgrade \in {"open", "draining", "replacing"}
         /\ phase \in [Launches -> Phases]
         /\ alive \subseteq activeLaunches \union unsettledRuns
BY DEF HInv, HostTypeOK

LEMMA AnyUnleased ==
  ASSUME HInv, UNCHANGED leaseVars
  PROVE  LInv' /\ ServedInOrder /\ GoOn(Launches) /\ UNCHANGED cancelled
BY LeasesStay DEF HInv, GoOn, leaseVars

LEMMA CommandsWell ==
  ASSUME HInv, NEW k \in TaskKeys, CommandBegins(k) \/ CommandEnds(k)
  PROVE  StepsWell
<1>1. /\ Quiet /\ UNCHANGED <<leaseVars, dirs, sweeping, upgrade, revoked, restarted>>
  BY DEF CommandBegins, CommandEnds
<1>2. commands' \in [running : SUBSET TaskKeys, begun : 0 .. MaxCommands]
  <2>1. CASE CommandBegins(k)
    <3>1. /\ commands' = [running |-> commands.running \union {k}, begun |-> commands.begun + 1]
          /\ commands.begun < MaxCommands
      BY <2>1 DEF CommandBegins
    <3>2. commands.begun + 1 \in 0 .. MaxCommands
      BY <3>1, TypesOfTheRest, HostAssumption
    <3>3. commands.running \union {k} \in SUBSET TaskKeys
      BY TypesOfTheRest
    <3>4. QED
      BY <3>1, <3>2, <3>3
  <2>2. CASE CommandEnds(k)
    BY <2>2, TypesOfTheRest DEF CommandEnds
  <2>3. QED
    BY <2>1, <2>2
<1>3. QED
  BY <1>1, <1>2, AnyUnleased, TypesOfTheRest, QuietWell

LEMMA MaintenanceWell ==
  ASSUME HInv, NEW h \in Maintenance, Maintain(h) \/ MaintainDone(h)
  PROVE  StepsWell
<1>1. /\ Quiet /\ UNCHANGED <<dirs, sweeping, commands, upgrade, revoked, restarted>>
      /\ Tend(h) \/ TendDone(h)
  BY DEF Maintain, MaintainDone
<1>2. LInv' /\ ServedInOrder
  BY <1>1, TendSteps, TendDoneSteps DEF HInv
<1>3. GoOn(Launches) /\ UNCHANGED cancelled
  BY <1>1, TendMoves DEF HInv
<1>4. QED
  BY <1>1, <1>2, <1>3, TypesOfTheRest, QuietWell

LEMMA SweepsWell ==
  ASSUME HInv, SweepBegins \/ \E r \in Runs : SweepRemoves(r)
  PROVE  StepsWell
<1>1. /\ Quiet /\ UNCHANGED <<leaseVars, commands, upgrade, revoked, restarted>>
      /\ dirs' \subseteq dirs /\ sweeping' \subseteq sweeping \union dirs
  BY DEF SweepBegins, SweepRemoves
<1>2. QED
  BY <1>1, AnyUnleased, TypesOfTheRest, QuietWell

LEMMA UpgradesWell ==
  ASSUME HInv, UpgradeBegins \/ UpgradeDrained \/ UpgradeGivesUp \/ UpgradeDone
  PROVE  StepsWell
<1>1. /\ Quiet /\ UNCHANGED <<leaseVars, dirs, sweeping, commands, revoked, restarted>>
      /\ upgrade' \in {"open", "draining", "replacing"}
      /\ upgrade' = "replacing" => launchingRuns \union activeLaunches = {} /\ unsettledRuns = {}
  BY DEF UpgradeBegins, UpgradeDrained, UpgradeGivesUp, UpgradeDone, Upgrade, UpgradeBusy
<1>2. upgrade' = "replacing" => alive = {} /\ launchingRuns = {}
  BY <1>1, TypesOfTheRest
<1>3. QED
  BY <1>1, <1>2, AnyUnleased, TypesOfTheRest, QuietWell

LEMMA RestartWell ==
  ASSUME HInv, Restart
  PROVE  StepsWell
<1>1. /\ Quiet /\ UNCHANGED <<leaseVars, dirs, sweeping, commands, upgrade, revoked>>
      /\ ~hasInFlightRuns /\ restarted' = TRUE
  BY DEF Restart
<1>2. ASSUME NEW l \in Launches, phase[l] # "none"
      PROVE  "complete" \in said[l]
  <2>1. phase[l] \in {"leaving", "ended"}
    BY <1>1, <1>2, TypesOfTheRest
       DEF hasInFlightRuns, activeLaunches, launchingRuns, finishingRuns, unsettledRuns, In, Phases,
           HInv, PhasesAgree
  <2>2. QED
    BY <2>1 DEF HInv, AnswersAreGiven
<1>3. QED
  BY <1>1, <1>2, AnyUnleased, TypesOfTheRest, QuietWell

-----------------------------------------------------------------------------
LEMMA HostInitially ==
  ASSUME NEW over \in SUBSET Launches, NEW what, StartsAfter(over, what)
  PROVE  HInv
<1>1. LInv
  BY LeaseInitially DEF StartsAfter
<1>2. /\ phase = [l \in Launches |-> IF l \in over THEN "ended" ELSE "none"]
      /\ said = [l \in Launches |-> IF l \in over THEN {"complete", "absent"} ELSE {}]
      /\ attempt = [l \in Launches |-> "idle"] /\ cancelled = {}
      /\ alive = {} /\ stopped = {} /\ asked = {} /\ cancelling = {}
      /\ newest = [r \in Runs |-> Nobody] /\ dirs = {} /\ sweeping = {}
      /\ commands = [running |-> {}, begun |-> 0]
      /\ upgrade = "open" /\ revoked = FALSE /\ restarted = FALSE
  BY DEF StartsAfter, LeaseInit
<1>3. HostTypeOK
  <2>1. phase \in [Launches -> Phases] /\ said \in [Launches -> SUBSET {"complete", "absent"}]
    BY <1>2 DEF Phases
  <2>2. commands \in [running : SUBSET TaskKeys, begun : 0 .. MaxCommands]
    BY <1>2, HostAssumption
  <2>3. QED
    BY <1>2, <2>1, <2>2 DEF HostTypeOK
<1>4. PhasesAgree
  BY <1>2 DEF PhasesAgree, Holding, Given
<1>5. StopsAreKept /\ AnswersAreGiven /\ ReplacedAlone
  BY <1>2 DEF StopsAreKept, AnswersAreGiven, ReplacedAlone
<1>6. QED
  BY <1>1, <1>3, <1>4, <1>5 DEF HInv

LEMMA LaunchStepWell ==
  ASSUME HInv, cancelling = {}, NEW l \in Launches, LaunchStep(l)
  PROVE  StepsWell
BY BeginWaitWell, LeaseTurnWell, PrepareWell, SpawnWell, LeaveWell, ExitsWell, SettlesWell, CapturedWell,
   UploadedWell, RemovedWell DEF LaunchStep

LEMMA HostTurnWell ==
  ASSUME HInv, cancelling = {}, HostTurn
  PROVE  StepsWell
<1>1. ASSUME NEW l \in Launches,
             \/ Launch(l) \/ LaunchStep(l) \/ PrepareFails(l) \/ EndsUnspawned(l) \/ Kept(l)
             \/ BookkeepingFails(l)
      PROVE  StepsWell
  BY <1>1, LaunchWell, LaunchStepWell, PrepareFailsWell, EndsUnspawnedWell, KeptWell, BookkeepingFailsWell
<1>2. ASSUME \/ \E l \in Launches : Terminate(l)
             \/ \E r \in Runs : TerminateRun(r)
             \/ Revoke
      PROVE  StepsWell
  BY <1>2, StopsWell
<1>3. ASSUME SweepBegins \/ \E r \in Runs : SweepRemoves(r)
      PROVE  StepsWell
  BY <1>3, SweepsWell
<1>4. ASSUME NEW k \in TaskKeys, CommandBegins(k) \/ CommandEnds(k)
      PROVE  StepsWell
  BY <1>4, CommandsWell
<1>5. ASSUME NEW h \in Maintenance, Maintain(h) \/ MaintainDone(h)
      PROVE  StepsWell
  BY <1>5, MaintenanceWell
<1>6. ASSUME UpgradeBegins \/ UpgradeDrained \/ UpgradeGivesUp \/ UpgradeDone
      PROVE  StepsWell
  BY <1>6, UpgradesWell
<1>7. ASSUME Restart
      PROVE  StepsWell
  BY <1>7, RestartWell
<1>8. QED
  BY <1>1, <1>2, <1>3, <1>4, <1>5, <1>6, <1>7 DEF HostTurn

LEMMA DaemonStep ==
  ASSUME HInv, [HostNext]_vars
  PROVE  HInv' /\ [InOrder]_vars
<1>1. CASE UNCHANGED vars
  <2>1. LInv'
    BY <1>1, LeasesStay DEF HInv, vars
  <2>2. QED
    BY <1>1, <2>1 DEF vars, hostVars, leaseVars, HInv, HostTypeOK, PhasesAgree, StopsAreKept, AnswersAreGiven,
                      ReplacedAlone, activeLaunches, unsettledRuns, launchingRuns, In, Acquiring
<1>2. ASSUME NEW l \in cancelling, CancelWait(l)
      PROVE  StepsWell
  BY <1>2, CancelWaitWell
<1>3. CASE cancelling = {} /\ HostTurn
  BY <1>3, HostTurnWell DEF StepsWell
<1>4. QED
  BY <1>1, <1>2, <1>3 DEF HostNext, StepsWell

LEMMA GuardedLemma ==
  ASSUME HInv
  PROVE  ProcessIsGuarded
<1>1. TableIsExact
  BY TableIsExactLemma DEF HInv
<1>2. ASSUME NEW l \in alive
      PROVE  l \in Launches /\ attempt[l] = "acquired" /\ held[l] = Ids(l)
  <2>1. l \in Launches /\ phase[l] \in {"running", "settling", "kept"}
    BY <1>2, TypesOfTheRest DEF activeLaunches, unsettledRuns, In
  <2>2. attempt[l] = "acquired"
    BY <2>1, InPhase DEF Holding
  <2>3. QED
    BY <2>1, <2>2 DEF HInv, LInv, ProgressIsTrue
<1>3. NoneBesideProcess
  <2> SUFFICES ASSUME NEW l \in alive, NEW m \in Launches, m # l, attempt[m] = "acquired"
               PROVE  Writes[l] \intersect Ids(m) = {}
    BY DEF NoneBesideProcess
  <2>1. Writing(l) = Writes[l] /\ Using(m) = Ids(m)
    BY <1>2, OwnersAssumption DEF Writing, Using
  <2>2. QED
    BY <1>1, <1>2, <2>1 DEF TableIsExact, WriterAlone
<1>4. CompleteMeansOver
  BY <1>2 DEF CompleteMeansOver
<1>5. QED
  BY <1>1, <1>3, <1>4 DEF ProcessIsGuarded, HInv, TypeOK, TableIsExact

(* A process is alone with what it may write from its spawn until it is     *)
(* known to be gone, however launches, stops, commands, maintenance,        *)
(* upgrades and revocations interleave (execution.ts: handleLaunch,         *)
(* executeRun and its exit block, locationLease.ts).                        *)
THEOREM ProcessesAreAlwaysGuarded == HostSpec => []ProcessIsGuarded
<1>1. HostInit => HInv
  BY HostInitially DEF HostInit
<1>2. HInv /\ [HostNext]_vars => HInv'
  BY DaemonStep
<1>3. HInv => ProcessIsGuarded
  BY GuardedLemma
<1>4. QED
  BY <1>1, <1>2, <1>3, PTL DEF HostSpec

(* Under the daemon's own steps too, the table is exact (locationLease.ts). *)
THEOREM TableIsExactUnderLaunches == HostSpec => []TableIsExact
<1>1. HostInit => HInv
  BY HostInitially DEF HostInit
<1>2. HInv /\ [HostNext]_vars => HInv'
  BY DaemonStep
<1>3. HInv => TableIsExact
  BY TableIsExactLemma DEF HInv
<1>4. QED
  BY <1>1, <1>2, <1>3, PTL DEF HostSpec

(* Leases are served in order, a launch that was stopped before its spawn   *)
(* never spawns, and a restart of the updated daemon finds every launch     *)
(* answered (execution.ts:410-414, 457-475, 1690-1698).                     *)
THEOREM NobodyIsEverPassedOver == HostSpec => NobodyIsPassedOver
<1>1. HostInit => HInv
  BY HostInitially DEF HostInit
<1>2. HInv /\ [HostNext]_vars => HInv' /\ [ServedInOrder /\ StoppedNeverStarts /\ RestartDropsNothing]_vars
  BY DaemonStep DEF InOrder
<1>3. QED
  BY <1>1, <1>2, PTL DEF HostSpec, NobodyIsPassedOver
-----------------------------------------------------------------------------
(* The other requests made of a host.  They share nothing with its launches  *)
(* but the connection.  A request is told by what its entry, the host and    *)
(* the frames between them say together (Story), a source in addition by     *)
(* where its call has got to (Dialogue): asked, brokered or answered, and    *)
(* only one of these at a time.                                              *)

(* Frames in a direction, of one kind and one request.                       *)
IsAt(s, i, kind, q) == s[i].kind = kind /\ s[i].req = q
Has(s, kind, q) == \E i \in 1 .. Len(s) : IsAt(s, i, kind, q)
HasNumber(s, kind, q, n) == \E i \in 1 .. Len(s) : IsAt(s, i, kind, q) /\ s[i].n = n
AtMostOne(s, kind, q) == \A i, j \in 1 .. Len(s) : IsAt(s, i, kind, q) /\ IsAt(s, j, kind, q) => i = j
Followed(s, q) == \A i \in 1 .. Len(s) : IsAt(s, i, "open", q) =>
                    \E j \in i + 1 .. Len(s) : IsAt(s, j, "cancel", q)
Below(s, q, n) == \A i \in 1 .. Len(s) : IsAt(s, i, "request", q) => s[i].n <= n

Frames == [kind : {"open", "cancel", "response", "result", "request"}, req : Requests, n : 0 .. MaxCalls]

LEMMA AppendIs ==
  ASSUME NEW S, NEW s \in Seq(S), NEW f \in S
  PROVE  /\ Append(s, f) \in Seq(S) /\ Len(Append(s, f)) = Len(s) + 1
         /\ s \o <<f>> = Append(s, f)
         /\ \A i \in 1 .. Len(s) : Append(s, f)[i] = s[i]
         /\ Append(s, f)[Len(s) + 1] = f
OBVIOUS

LEMMA TailIs ==
  ASSUME NEW S, NEW s \in Seq(S), s # <<>>
  PROVE  /\ Tail(s) \in Seq(S) /\ Len(Tail(s)) = Len(s) - 1 /\ Len(s) \in Nat \ {0}
         /\ Head(s) = s[1] /\ Head(s) \in S
         /\ \A i \in 1 .. Len(s) - 1 : Tail(s)[i] = s[i + 1]
OBVIOUS

(* What one frame more makes of it. *)
LEMMA OneMore ==
  ASSUME NEW s \in Seq(Frames), NEW f \in Frames, NEW kind, NEW q, NEW n
  PROVE  LET t == Append(s, f) IN
         /\ Has(t, kind, q) <=> Has(s, kind, q) \/ (f.kind = kind /\ f.req = q)
         /\ HasNumber(t, kind, q, n) <=>
              HasNumber(s, kind, q, n) \/ (f.kind = kind /\ f.req = q /\ f.n = n)
         /\ AtMostOne(s, kind, q) /\ ~(f.kind = kind /\ f.req = q) => AtMostOne(t, kind, q)
         /\ ~Has(s, kind, q) => AtMostOne(t, kind, q)
<1> DEFINE t == Append(s, f)
<1>1. /\ Len(t) = Len(s) + 1 /\ Len(s) \in Nat
      /\ \A i \in 1 .. Len(s) : t[i] = s[i]
      /\ t[Len(s) + 1] = f
  BY AppendIs
<1>2. \A i \in 1 .. Len(t) : i \in 1 .. Len(s) \/ i = Len(s) + 1
  BY <1>1
<1>3. \A i \in 1 .. Len(s) : i \in 1 .. Len(t)
  BY <1>1
<1>4. Len(s) + 1 \in 1 .. Len(t)
  BY <1>1
<1> HIDE DEF t
<1>5. Has(t, kind, q) <=> Has(s, kind, q) \/ (f.kind = kind /\ f.req = q)
  BY <1>1, <1>2, <1>3, <1>4 DEF Has, IsAt
<1>6. HasNumber(t, kind, q, n) <=>
        HasNumber(s, kind, q, n) \/ (f.kind = kind /\ f.req = q /\ f.n = n)
  BY <1>1, <1>2, <1>3, <1>4 DEF HasNumber, IsAt
<1>7. AtMostOne(s, kind, q) /\ ~(f.kind = kind /\ f.req = q) => AtMostOne(t, kind, q)
  BY <1>1, <1>2 DEF AtMostOne, IsAt
<1>8. ~Has(s, kind, q) => AtMostOne(t, kind, q)
  BY <1>1, <1>2 DEF AtMostOne, Has, IsAt
<1>9. QED
  BY <1>5, <1>6, <1>7, <1>8 DEF t

LEMMA OneMoreOrder ==
  ASSUME NEW s \in Seq(Frames), NEW f \in Frames, NEW q, NEW n
  PROVE  LET t == Append(s, f) IN
         /\ f.kind = "cancel" /\ f.req = q => Followed(t, q)
         /\ Followed(s, q) /\ ~(f.kind = "open" /\ f.req = q) => Followed(t, q)
         /\ Below(t, q, n) <=> Below(s, q, n) /\ (f.kind = "request" /\ f.req = q => f.n <= n)
<1> DEFINE t == Append(s, f)
<1>1. /\ Len(t) = Len(s) + 1 /\ Len(s) \in Nat
      /\ \A i \in 1 .. Len(s) : t[i] = s[i]
      /\ t[Len(s) + 1] = f
  BY AppendIs
<1>2. \A i \in 1 .. Len(t) : i \in 1 .. Len(s) \/ i = Len(s) + 1
  BY <1>1
<1>3. \A i \in 1 .. Len(s) : i \in 1 .. Len(t) /\ Len(s) + 1 \in i + 1 .. Len(t)
  BY <1>1
<1>4. Len(s) + 1 \in 1 .. Len(t)
  BY <1>1
<1> HIDE DEF t
<1>5. f.kind = "cancel" /\ f.req = q => Followed(t, q)
  BY <1>1, <1>2, <1>3 DEF Followed, IsAt
<1>6. ASSUME Followed(s, q), ~(f.kind = "open" /\ f.req = q)
      PROVE  Followed(t, q)
  <2>1. SUFFICES ASSUME NEW i \in 1 .. Len(t), IsAt(t, i, "open", q)
                 PROVE  \E j \in i + 1 .. Len(t) : IsAt(t, j, "cancel", q)
    BY DEF Followed
  <2>2. i \in 1 .. Len(s) /\ IsAt(s, i, "open", q)
    BY <1>1, <1>2, <1>6, <2>1 DEF IsAt
  <2>3. PICK j \in i + 1 .. Len(s) : IsAt(s, j, "cancel", q)
    BY <1>6, <2>2 DEF Followed
  <2>4. j \in i + 1 .. Len(t) /\ j \in 1 .. Len(s)
    BY <1>1, <2>2, <2>3
  <2>5. QED
    BY <1>1, <2>3, <2>4 DEF IsAt
<1>7. Below(t, q, n) <=> Below(s, q, n) /\ (f.kind = "request" /\ f.req = q => f.n <= n)
  BY <1>1, <1>2, <1>3, <1>4 DEF Below, IsAt
<1>8. QED
  BY <1>5, <1>6, <1>7 DEF t

(* What is left without the first frame. *)
LEMMA OneLess ==
  ASSUME NEW s \in Seq(Frames), s # <<>>, NEW kind, NEW q, NEW n
  PROVE  LET t == Tail(s)
             f == Head(s)
         IN
         /\ Has(t, kind, q) => Has(s, kind, q)
         /\ f.kind = kind /\ f.req = q => Has(s, kind, q)
         /\ Has(s, kind, q) /\ ~(f.kind = kind /\ f.req = q) => Has(t, kind, q)
         /\ HasNumber(s, kind, q, n) /\ ~(f.kind = kind /\ f.req = q) => HasNumber(t, kind, q, n)
         /\ AtMostOne(s, kind, q) => AtMostOne(t, kind, q)
         /\ AtMostOne(s, kind, q) /\ f.kind = kind /\ f.req = q => ~Has(t, kind, q)
         /\ AtMostOne(s, kind, q) /\ f.kind = kind /\ f.req = q /\ HasNumber(s, kind, q, n) => f.n = n
<1> DEFINE t == Tail(s)
           f == Head(s)
<1>1. /\ Len(t) = Len(s) - 1 /\ Len(s) \in Nat \ {0}
      /\ f = s[1]
      /\ \A i \in 1 .. Len(t) : t[i] = s[i + 1]
  BY TailIs
<1>2. \A i \in 1 .. Len(t) : i + 1 \in 1 .. Len(s) /\ i + 1 # 1
  BY <1>1
<1>3. \A i \in 1 .. Len(s) : i = 1 \/ (i - 1 \in 1 .. Len(t) /\ t[i - 1] = s[i])
  BY <1>1
<1>4. 1 \in 1 .. Len(s)
  BY <1>1
<1> HIDE DEF t, f
<1>5. Has(t, kind, q) => Has(s, kind, q)
  BY <1>1, <1>2 DEF Has, IsAt
<1>6. f.kind = kind /\ f.req = q => Has(s, kind, q)
  BY <1>1, <1>4 DEF Has, IsAt
<1>7. Has(s, kind, q) /\ ~(f.kind = kind /\ f.req = q) => Has(t, kind, q)
  BY <1>1, <1>3 DEF Has, IsAt
<1>8. HasNumber(s, kind, q, n) /\ ~(f.kind = kind /\ f.req = q) => HasNumber(t, kind, q, n)
  BY <1>1, <1>3 DEF HasNumber, IsAt
<1>9. AtMostOne(s, kind, q) => AtMostOne(t, kind, q)
  <2>1. SUFFICES ASSUME AtMostOne(s, kind, q), NEW i \in 1 .. Len(t), NEW j \in 1 .. Len(t),
                        IsAt(t, i, kind, q), IsAt(t, j, kind, q)
                 PROVE  i = j
    BY DEF AtMostOne
  <2>2. IsAt(s, i + 1, kind, q) /\ IsAt(s, j + 1, kind, q)
    BY <1>1, <2>1 DEF IsAt
  <2>3. i + 1 = j + 1
    BY <1>2, <2>1, <2>2 DEF AtMostOne
  <2>4. QED
    BY <2>3
<1>10. AtMostOne(s, kind, q) /\ f.kind = kind /\ f.req = q => ~Has(t, kind, q)
  BY <1>1, <1>2, <1>4 DEF AtMostOne, Has, IsAt
<1>11. AtMostOne(s, kind, q) /\ f.kind = kind /\ f.req = q /\ HasNumber(s, kind, q, n) => f.n = n
  BY <1>1, <1>4 DEF AtMostOne, HasNumber, IsAt
<1>12. QED
  BY <1>5, <1>6, <1>7, <1>8, <1>9, <1>10, <1>11 DEF t, f

LEMMA OneLessOrder ==
  ASSUME NEW s \in Seq(Frames), s # <<>>, NEW q, NEW n
  PROVE  LET t == Tail(s)
             f == Head(s)
         IN
         /\ Followed(s, q) => Followed(t, q)
         /\ Followed(s, q) /\ f.kind = "open" /\ f.req = q => Has(t, "cancel", q)
         /\ Below(s, q, n) => Below(t, q, n)
         /\ Below(s, q, n) /\ f.kind = "request" /\ f.req = q => f.n <= n
<1> DEFINE t == Tail(s)
           f == Head(s)
<1>1. /\ Len(t) = Len(s) - 1 /\ Len(s) \in Nat \ {0}
      /\ f = s[1]
      /\ \A i \in 1 .. Len(t) : t[i] = s[i + 1]
  BY TailIs
<1>2. \A i \in 1 .. Len(t) : i + 1 \in 1 .. Len(s) /\ i + 1 # 1
  BY <1>1
<1>3. \A i \in 1 .. Len(s) : i = 1 \/ (i - 1 \in 1 .. Len(t) /\ t[i - 1] = s[i])
  BY <1>1
<1>4. 1 \in 1 .. Len(s)
  BY <1>1
<1> HIDE DEF t, f
<1>5. ASSUME Followed(s, q) PROVE Followed(t, q)
  <2>1. SUFFICES ASSUME NEW i \in 1 .. Len(t), IsAt(t, i, "open", q)
                 PROVE  \E j \in i + 1 .. Len(t) : IsAt(t, j, "cancel", q)
    BY DEF Followed
  <2>2. i + 1 \in 1 .. Len(s) /\ IsAt(s, i + 1, "open", q)
    BY <1>1, <1>2, <2>1 DEF IsAt
  <2>3. PICK j \in i + 2 .. Len(s) : IsAt(s, j, "cancel", q)
    BY <1>5, <2>2 DEF Followed
  <2>4. j - 1 \in i + 1 .. Len(t) /\ t[j - 1] = s[j]
    BY <1>1, <2>2, <2>3
  <2>5. QED
    BY <2>3, <2>4 DEF IsAt
<1>6. ASSUME Followed(s, q), f.kind = "open", f.req = q PROVE Has(t, "cancel", q)
  <2>1. PICK j \in 2 .. Len(s) : IsAt(s, j, "cancel", q)
    BY <1>1, <1>4, <1>6 DEF Followed, IsAt
  <2>2. j - 1 \in 1 .. Len(t) /\ t[j - 1] = s[j]
    BY <1>1, <2>1
  <2>3. QED
    BY <2>1, <2>2 DEF Has, IsAt
<1>7. Below(s, q, n) => Below(t, q, n)
  BY <1>1, <1>2 DEF Below, IsAt
<1>8. Below(s, q, n) /\ f.kind = "request" /\ f.req = q => f.n <= n
  BY <1>1, <1>4 DEF Below, IsAt
<1>9. QED
  BY <1>5, <1>6, <1>7, <1>8 DEF t, f

-----------------------------------------------------------------------------
(* A request on both sides: its entry `e`, what the host has of it, `r`, and *)
(* the frames down and up between them, `d` and `u`.                         *)
Story(q, e, r, d, u) ==
    /\ e \in {"new", "unwanted"} => /\ r = "none" /\ ~Has(d, "open", q)
                                    /\ ~Has(d, "cancel", q) /\ ~Has(d, "response", q)
    /\ r = "none" => ~Has(d, "response", q) /\ ~Has(u, "result", q) /\ ~Has(u, "request", q)
    /\ r = "asking" => q \in Sources
    /\ Has(u, "result", q) => r = "over"
    /\ Has(d, "cancel", q) => e = "done"
    /\ Has(d, "open", q) => /\ r = "none" /\ AtMostOne(d, "open", q)
                            /\ e = "done" /\ q \notin Tools => Followed(d, q)
    /\ e = "done" /\ q \notin Tools /\ r \in {"working", "asking"} => Has(d, "cancel", q)

(* The calls of a source, while its connection lasts: it asks (a times), the *)
(* control plane counts (s) and brokers (b), the host takes the response.    *)
InSequence(q, r, a, s, b, d, u) ==
    \/ r \in {"none", "over"}
    \/ /\ r = "working" /\ s = a /\ ~b
       /\ ~Has(u, "request", q) /\ ~Has(d, "response", q)
    \/ /\ r = "asking" /\ s = a - 1 /\ ~b /\ ~Has(d, "response", q)
       /\ AtMostOne(u, "request", q) /\ HasNumber(u, "request", q, a)
    \/ /\ r = "asking" /\ s = a /\ b
       /\ ~Has(u, "request", q) /\ ~Has(d, "response", q)
    \/ /\ r = "asking" /\ s = a /\ ~b /\ ~Has(u, "request", q)
       /\ AtMostOne(d, "response", q) /\ HasNumber(d, "response", q, a)

Dialogue(q, e, r, a, s, b, d, u, connected) ==
    /\ s <= a
    /\ r = "none" => a = 0 /\ s = 0 /\ ~b
    /\ Below(u, q, a)
    /\ e = "open" /\ connected => InSequence(q, r, a, s, b, d, u)

Connected == link # 0 /\ sink = link

Downward == {f \in Frames : /\ f.kind \in {"open", "cancel", "response"}
                            /\ f.kind = "cancel" => f.req \notin Tools
                            /\ f.kind = "response" => f.req \in Sources}
Upward == {f \in Frames : /\ f.kind \in {"result", "request"}
                          /\ f.kind = "request" => f.req \in Sources}

Framed == down \in Seq(Downward) /\ up \in Seq(Upward)
Linked ==
    /\ link = 0 => made <= MaxLosses
    /\ ~online => down = <<>> /\ \A q \in Requests : entry[q] # "open"
    /\ ~Connected => /\ up = <<>>
                     /\ \A q \in Sources : remote[q] \in {"none", "over"}
                     /\ \A q \in Sessions : remote[q] \notin {"working", "asking"}
Stories == \A q \in Requests : Story(q, entry[q], remote[q], down, up)
Dialogues == \A q \in Sources :
    Dialogue(q, entry[q], remote[q], requested[q], called[q].sequence, called[q].busy, down, up,
             Connected)
OneAtATime == \A p, q \in Tools : remote[p] = "working" /\ remote[q] = "working" => p = q

RInv == /\ RequestsTypeOK /\ Framed /\ Linked /\ Stories /\ Dialogues
        /\ SourceStaysOnConnection /\ OneAtATime

(* Tool operations, sessions and sources are different things, and the       *)
(* bounds are numbers.                                                       *)
RequestsApart ==
    /\ Tools \intersect Sessions = {} /\ Tools \intersect Sources = {}
    /\ Sessions \intersect Sources = {}
    /\ MaxCalls \in Nat /\ MaxLosses \in Nat

LEMMA FramesAreFrames ==
  ASSUME Framed
  PROVE  down \in Seq(Frames) /\ up \in Seq(Frames)
<1>1. Downward \subseteq Frames /\ Upward \subseteq Frames
  BY DEF Downward, Upward
<1>2. QED
  BY <1>1 DEF Framed

LEMMA StoryApart ==
  ASSUME NEW q, NEW e, NEW r, NEW d \in Seq(Frames), NEW u \in Seq(Frames), Story(q, e, r, d, u)
  PROVE  /\ \A f \in Frames : f.req # q => Story(q, e, r, Append(d, f), u) /\ Story(q, e, r, d, Append(u, f))
         /\ d # <<>> /\ Head(d).req # q => Story(q, e, r, Tail(d), u)
         /\ u # <<>> => Story(q, e, r, d, Tail(u))
<1>1. ASSUME NEW f \in Frames, f.req # q
      PROVE  Story(q, e, r, Append(d, f), u) /\ Story(q, e, r, d, Append(u, f))
  BY <1>1, OneMore, OneMoreOrder DEF Story
<1>2. ASSUME d # <<>>, Head(d).req # q
      PROVE  Story(q, e, r, Tail(d), u)
  BY <1>2, OneLess, OneLessOrder DEF Story
<1>3. ASSUME u # <<>>
      PROVE  Story(q, e, r, d, Tail(u))
  BY <1>3, OneLess, OneLessOrder DEF Story
<1>4. QED
  BY <1>1, <1>2, <1>3

LEMMA DialogueApart ==
  ASSUME NEW q, NEW e, NEW r, NEW a, NEW s, NEW b, NEW connected,
         NEW d \in Seq(Frames), NEW u \in Seq(Frames), Dialogue(q, e, r, a, s, b, d, u, connected)
  PROVE  /\ \A f \in Frames : f.req # q \/ f.kind # "response" =>
              Dialogue(q, e, r, a, s, b, Append(d, f), u, connected)
         /\ \A f \in Frames : f.req # q \/ f.kind # "request" =>
              Dialogue(q, e, r, a, s, b, d, Append(u, f), connected)
         /\ d # <<>> /\ (Head(d).req # q \/ Head(d).kind # "response") =>
              Dialogue(q, e, r, a, s, b, Tail(d), u, connected)
         /\ u # <<>> /\ (Head(u).req # q \/ Head(u).kind # "request") =>
              Dialogue(q, e, r, a, s, b, d, Tail(u), connected)
         /\ e = "open" => Dialogue(q, "done", r, a, s, b, d, u, connected)
<1>1. ASSUME NEW f \in Frames, f.req # q \/ f.kind # "response"
      PROVE  Dialogue(q, e, r, a, s, b, Append(d, f), u, connected)
  BY <1>1, OneMore, OneMoreOrder DEF Dialogue, InSequence
<1>2. ASSUME NEW f \in Frames, f.req # q \/ f.kind # "request"
      PROVE  Dialogue(q, e, r, a, s, b, d, Append(u, f), connected)
  BY <1>2, OneMore, OneMoreOrder DEF Dialogue, InSequence
<1>3. ASSUME d # <<>>, Head(d).req # q \/ Head(d).kind # "response"
      PROVE  Dialogue(q, e, r, a, s, b, Tail(d), u, connected)
  BY <1>3, OneLess, OneLessOrder DEF Dialogue, InSequence
<1>4. ASSUME u # <<>>, Head(u).req # q \/ Head(u).kind # "request"
      PROVE  Dialogue(q, e, r, a, s, b, d, Tail(u), connected)
  BY <1>4, OneLess, OneLessOrder DEF Dialogue, InSequence
<1>5. e = "open" => Dialogue(q, "done", r, a, s, b, d, u, connected)
  BY DEF Dialogue
<1>6. QED
  BY <1>1, <1>2, <1>3, <1>4, <1>5

LEMMA NoFrames ==
  ASSUME NEW kind, NEW q, NEW n
  PROVE  ~Has(<<>>, kind, q) /\ AtMostOne(<<>>, kind, q) /\ Followed(<<>>, q) /\ Below(<<>>, q, n)
BY DEF Has, AtMostOne, Followed, Below

LEMMA StoryEmptied ==
  ASSUME NEW q, NEW e, NEW r, NEW d, NEW u, Story(q, e, r, d, u),
         q \in Tools \/ r \notin {"working", "asking"}
  PROVE  Story(q, e, r, <<>>, u) /\ (e = "open" => Story(q, "done", r, <<>>, u))
BY NoFrames DEF Story

(* An entry is settled: its caller is told, and the host is told to cancel   *)
(* what is no tool operation, unless it ended.                               *)
LEMMA StorySettled ==
  ASSUME NEW q \in Requests, NEW r, NEW d \in Seq(Frames), NEW u, Story(q, "open", r, d, u)
  PROVE  /\ q \in Tools \/ r = "over" => Story(q, "done", r, d, u)
         /\ \A f \in Frames : f.kind = "cancel" /\ f.req = q => Story(q, "done", r, Append(d, f), u)
<1>1. q \in Tools \/ r = "over" => Story(q, "done", r, d, u)
  BY DEF Story
<1>2. ASSUME NEW f \in Frames, f.kind = "cancel", f.req = q
      PROVE  Story(q, "done", r, Append(d, f), u)
  <2>1. /\ Followed(Append(d, f), q) /\ Has(Append(d, f), "cancel", q)
        /\ Has(Append(d, f), "open", q) <=> Has(d, "open", q)
        /\ Has(Append(d, f), "response", q) <=> Has(d, "response", q)
        /\ AtMostOne(d, "open", q) => AtMostOne(Append(d, f), "open", q)
    <3>1. f.kind # "open" /\ f.kind # "response"
      BY <1>2
    <3>2. Followed(Append(d, f), q)
      BY <1>2, OneMoreOrder
    <3>3. Has(Append(d, f), "cancel", q)
      BY <1>2, OneMore
    <3>4. Has(Append(d, f), "open", q) <=> Has(d, "open", q)
      BY <3>1, OneMore
    <3>5. Has(Append(d, f), "response", q) <=> Has(d, "response", q)
      BY <3>1, OneMore
    <3>6. AtMostOne(d, "open", q) => AtMostOne(Append(d, f), "open", q)
      BY <3>1, OneMore
    <3>7. QED
      BY <3>2, <3>3, <3>4, <3>5, <3>6
  <2>2. QED
    BY <2>1 DEF Story
<1>3. QED
  BY <1>1, <1>2

(* What one settlement writes. *)
LEMMA SettledWithWrites ==
  ASSUME RInv, RequestsApart, NEW q \in Requests, entry[q] = "open",
         NEW what \in {"result", "timeout", "cancelled", "failed", "refused", "disconnected"},
         NEW frames, frames = CancelOf(q) \/ (frames = <<>> /\ (q \in Tools \/ remote[q] = "over")),
         SettledWith(q, what, frames), UNCHANGED <<linkVars, remoteVars>>,
         up' = up \/ (up # <<>> /\ up' = Tail(up) /\ Head(up).req = q)
  PROVE  RInv'
<1> DEFINE cancel == Frame("cancel", q, 0)
<1>1. /\ entry' = [entry EXCEPT ![q] = "done"] /\ answer' = [answer EXCEPT ![q] = what]
      /\ via' = via /\ called' = called /\ link' = link /\ sink' = sink /\ made' = made
      /\ remote' = remote /\ requested' = requested
  BY DEF SettledWith, Settled, RInv, RequestsTypeOK, linkVars, remoteVars
<1>2. online
  BY DEF RInv, Linked
<1>3. /\ down \in Seq(Downward) /\ up \in Seq(Upward) /\ down \in Seq(Frames) /\ up \in Seq(Frames)
      /\ up' \in Seq(Upward) /\ up' \in Seq(Frames)
  BY FramesAreFrames, TailIs DEF RInv, Framed
<1>4. q \notin Tools => cancel \in Downward /\ cancel \in Frames
  BY DEF Frame, Downward, Frames, RequestsApart
<1>5. \/ q \notin Tools /\ down' = Append(down, cancel)
      \/ down' = down /\ (q \in Tools \/ remote[q] = "over")
  <2>1. down' = down \o frames
    BY <1>2 DEF SettledWith, Send
  <2>2. frames = <<>> \/ (q \notin Tools /\ frames = <<cancel>>)
    BY DEF CancelOf
  <2>3. down \o <<>> = down
    BY <1>3
  <2>4. q \notin Tools => down \o <<cancel>> = Append(down, cancel)
    BY <1>3, <1>4, AppendIs
  <2>5. frames = <<>> => q \in Tools \/ remote[q] = "over"
    BY DEF CancelOf
  <2>6. QED
    BY <2>1, <2>2, <2>3, <2>4, <2>5
<1>6. down' \in Seq(Downward) /\ down' \in Seq(Frames)
  <2>1. CASE q \notin Tools /\ down' = Append(down, cancel)
    BY <2>1, <1>3, <1>4, AppendIs
  <2>2. CASE down' = down
    BY <2>2, <1>3
  <2>3. QED
    BY <2>1, <2>2, <1>5
<1>7. \A p \in Requests : Story(p, entry[p], remote[p], down, up')
  BY <1>3, StoryApart DEF RInv, Stories
<1>8. ASSUME NEW p \in Requests
      PROVE  Story(p, entry'[p], remote[p], down', up')
  <2>1. CASE p # q
    <3>1. cancel.req # p /\ entry'[p] = entry[p]
      BY <2>1, <1>1 DEF Frame, RInv, RequestsTypeOK
    <3>2. QED
      BY <3>1, <1>3, <1>4, <1>5, <1>7, StoryApart
  <2>2. CASE p = q
    <3>1. cancel.req = p /\ cancel.kind = "cancel" /\ entry'[p] = "done"
      BY <2>2, <1>1 DEF Frame, RInv, RequestsTypeOK
    <3>2. Story(q, "open", remote[q], down, up')
      BY <1>7
    <3>3. QED
      BY <2>2, <3>1, <3>2, <1>3, <1>4, <1>5, StorySettled
  <2>3. QED
    BY <2>1, <2>2
<1>9. ASSUME NEW p \in Sources
      PROVE  Dialogue(p, entry'[p], remote[p], requested[p], called[p].sequence, called[p].busy,
                      down', up', Connected)
  <2>1. Dialogue(p, entry[p], remote[p], requested[p], called[p].sequence, called[p].busy,
                 down, up, Connected)
    BY DEF RInv, Dialogues
  <2>2. entry'[p] = entry[p] \/ entry'[p] = "done"
    BY <1>1 DEF RInv, RequestsTypeOK, Requests
  <2>3. Dialogue(p, entry[p], remote[p], requested[p], called[p].sequence, called[p].busy,
                 down', up, Connected)
    <3>1. cancel.kind # "response"
      BY DEF Frame
    <3>2. QED
      BY <2>1, <3>1, <1>3, <1>4, <1>5, DialogueApart, ZenonT(60)
  <2>4. CASE p # q
    <3>1. up' = up \/ (up # <<>> /\ up' = Tail(up) /\ Head(up).req # p)
      BY <2>4
    <3>2. entry'[p] = entry[p]
      BY <2>4, <1>1 DEF RInv, RequestsTypeOK, Requests
    <3>3. CASE up' = up
      BY <2>3, <3>2, <3>3
    <3>4. CASE up # <<>> /\ up' = Tail(up) /\ Head(up).req # p
      BY <2>3, <3>2, <3>4, <1>3, <1>6, DialogueApart
    <3>5. QED
      BY <3>1, <3>3, <3>4
  <2>5. CASE p = q
    <3>1. Below(up', p, requested[p])
      <4>1. Below(up, p, requested[p])
        BY <2>1 DEF Dialogue
      <4>2. up # <<>> => Below(Tail(up), p, requested[p])
        BY <4>1, <1>3, OneLessOrder
      <4>3. QED
        BY <4>1, <4>2
    <3>2. entry'[p] = "done"
      BY <2>5, <1>1 DEF RInv, RequestsTypeOK
    <3>3. QED
      BY <2>1, <3>1, <3>2 DEF Dialogue
  <2>6. QED
    BY <2>4, <2>5
<1>10. RequestsTypeOK'
  <2>1. /\ \A i \in 1 .. Len(down') : down'[i] \in Downward
        /\ \A i \in 1 .. Len(up') : up'[i] \in Upward
    BY <1>3, <1>6
  <2>2. /\ \A i \in 1 .. Len(down') : down'[i].kind \in {"open", "cancel", "response"}
        /\ \A i \in 1 .. Len(up') : up'[i].kind \in {"result", "request"}
    BY <2>1 DEF Downward, Upward
  <2>3. \A p \in Requests : entry'[p] = "done" <=> answer'[p] # Nothing
    BY <1>1 DEF RInv, RequestsTypeOK, Nothing
  <2>4. QED
    BY <1>1, <2>2, <2>3 DEF RInv, RequestsTypeOK
<1>11. Linked'
  BY <1>1, <1>2 DEF RInv, Linked, Connected, online
<1>12. Framed' /\ SourceStaysOnConnection' /\ OneAtATime'
  BY <1>1, <1>3, <1>6 DEF RInv, Framed, SourceStaysOnConnection, OneAtATime, online, RequestsTypeOK
<1>13. Stories' /\ Dialogues'
  BY <1>1, <1>8, <1>9 DEF Stories, Dialogues, Connected
<1>14. QED
  BY <1>10, <1>11, <1>12, <1>13 DEF RInv

(* A step about request q: what the others are at, and what is on its way    *)
(* for them, stays.                                                          *)
About(q) ==
    /\ \/ down' = down
       \/ \E f \in Downward : f.req = q /\ down' = Append(down, f)
       \/ down # <<>> /\ Head(down).req = q /\ down' = Tail(down)
    /\ \/ up' = up
       \/ \E f \in Upward : f.req = q /\ up' = Append(up, f)
       \/ up # <<>> /\ Head(up).req = q /\ up' = Tail(up)
    /\ \A p \in Requests \ {q} : entry'[p] = entry[p] /\ remote'[p] = remote[p]
    /\ \A p \in Sources \ {q} : requested'[p] = requested[p] /\ called'[p] = called[p]
    /\ UNCHANGED <<link, sink, made>>

LEMMA OthersGoOn ==
  ASSUME RInv, NEW q \in Requests, About(q)
  PROVE  /\ Framed' /\ down' \in Seq(Frames) /\ up' \in Seq(Frames)
         /\ \A p \in Requests \ {q} : Story(p, entry[p], remote[p], down, up)'
         /\ \A p \in Sources \ {q} :
              Dialogue(p, entry[p], remote[p], requested[p], called[p].sequence, called[p].busy,
                       down, up, Connected)'
<1>1. /\ down \in Seq(Downward) /\ up \in Seq(Upward) /\ down \in Seq(Frames) /\ up \in Seq(Frames)
  BY FramesAreFrames DEF RInv, Framed
<1>2. Downward \subseteq Frames /\ Upward \subseteq Frames
  BY DEF Downward, Upward
<1>3. down' \in Seq(Downward)
  <2>1. CASE down' = down
    BY <2>1, <1>1
  <2>2. CASE \E f \in Downward : f.req = q /\ down' = Append(down, f)
    BY <2>2, <1>1, AppendIs
  <2>3. CASE down # <<>> /\ Head(down).req = q /\ down' = Tail(down)
    BY <2>3, <1>1, TailIs
  <2>4. QED
    BY <2>1, <2>2, <2>3 DEF About
<1>4. up' \in Seq(Upward)
  <2>1. CASE up' = up
    BY <2>1, <1>1
  <2>2. CASE \E f \in Upward : f.req = q /\ up' = Append(up, f)
    BY <2>2, <1>1, AppendIs
  <2>3. CASE up # <<>> /\ Head(up).req = q /\ up' = Tail(up)
    BY <2>3, <1>1, TailIs
  <2>4. QED
    BY <2>1, <2>2, <2>3 DEF About
<1>5. Framed' /\ down' \in Seq(Frames) /\ up' \in Seq(Frames)
  BY <1>2, <1>3, <1>4 DEF Framed
<1>6. ASSUME NEW p \in Requests \ {q}
      PROVE  Story(p, entry'[p], remote'[p], down', up')
  <2>1. Story(p, entry[p], remote[p], down, up)
    BY DEF RInv, Stories
  <2>2. Story(p, entry[p], remote[p], down', up)
    BY <2>1, <1>1, <1>2, StoryApart DEF About
  <2>3. Story(p, entry[p], remote[p], down', up')
    BY <2>2, <1>1, <1>2, <1>5, StoryApart DEF About
  <2>4. QED
    BY <2>3 DEF About
<1>7. ASSUME NEW p \in Sources \ {q}
      PROVE  Dialogue(p, entry'[p], remote'[p], requested'[p], called'[p].sequence, called'[p].busy,
                      down', up', Connected')
  <2>1. Dialogue(p, entry[p], remote[p], requested[p], called[p].sequence, called[p].busy,
                 down, up, Connected)
    BY DEF RInv, Dialogues
  <2>2. Dialogue(p, entry[p], remote[p], requested[p], called[p].sequence, called[p].busy,
                 down', up, Connected)
    <3>1. CASE down' = down
      BY <3>1, <2>1
    <3>2. CASE \E f \in Downward : f.req = q /\ down' = Append(down, f)
      BY <3>2, <2>1, <1>1, <1>2, DialogueApart
    <3>3. CASE down # <<>> /\ Head(down).req = q /\ down' = Tail(down)
      BY <3>3, <2>1, <1>1, DialogueApart
    <3>4. QED
      BY <3>1, <3>2, <3>3 DEF About
  <2>3. Dialogue(p, entry[p], remote[p], requested[p], called[p].sequence, called[p].busy,
                 down', up', Connected)
    <3>1. CASE up' = up
      BY <3>1, <2>2
    <3>2. CASE \E f \in Upward : f.req = q /\ up' = Append(up, f)
      BY <3>2, <2>2, <1>1, <1>2, <1>5, DialogueApart, ZenonT(60)
    <3>3. CASE up # <<>> /\ Head(up).req = q /\ up' = Tail(up)
      BY <3>3, <2>2, <1>1, <1>5, DialogueApart
    <3>4. QED
      BY <3>1, <3>2, <3>3 DEF About
  <2>4. Connected' = Connected /\ p \in Requests \ {q}
    BY DEF About, Connected, Requests
  <2>5. QED
    BY <2>3, <2>4 DEF About
<1>8. QED
  BY <1>5, <1>6, <1>7

(* What is left to show of such a step. *)
LEMMA StepAbout ==
  ASSUME RInv, NEW q \in Requests, About(q),
         entry' \in [Requests -> {"unwanted", "new", "open", "done"}],
         via' \in [Requests -> 0 .. made],
         answer' \in [Requests -> {Nothing, "result", "timeout", "cancelled", "failed",
                                   "refused", "disconnected"}],
         called' \in [Sources -> [sequence : 0 .. MaxCalls, busy : BOOLEAN]],
         remote' \in [Requests -> {"none", "working", "asking", "stopping", "over"}],
         requested' \in [Sources -> 0 .. MaxCalls],
         \A p \in Requests \ {q} : answer'[p] = answer[p] /\ via'[p] = via[p],
         entry'[q] = "done" <=> answer'[q] # Nothing,
         Story(q, entry[q], remote[q], down, up)',
         q \in Sources => Dialogue(q, entry[q], remote[q], requested[q], called[q].sequence,
                                   called[q].busy, down, up, Connected)',
         OneAtATime', Linked',
         q \in Sources /\ entry'[q] = "open" /\ online => via'[q] = sink
  PROVE  RInv'
<1>1. UNCHANGED <<link, sink, made>>
  BY DEF About
<1>2. Framed' /\ Stories' /\ Dialogues'
  BY OthersGoOn DEF Stories, Dialogues
<1>3. RequestsTypeOK'
  <2>1. /\ \A i \in 1 .. Len(down') : down'[i] \in Downward
        /\ \A i \in 1 .. Len(up') : up'[i] \in Upward
    BY <1>2 DEF Framed
  <2>2. /\ \A i \in 1 .. Len(down') : down'[i].kind \in {"open", "cancel", "response"}
        /\ \A i \in 1 .. Len(up') : up'[i].kind \in {"result", "request"}
    BY <2>1 DEF Downward, Upward
  <2>3. \A p \in Requests : entry'[p] = "done" <=> answer'[p] # Nothing
    <3>1. \A p \in Requests \ {q} : entry'[p] = entry[p] /\ answer'[p] = answer[p]
      BY DEF About
    <3>2. \A p \in Requests : entry[p] = "done" <=> answer[p] # Nothing
      BY DEF RInv, RequestsTypeOK
    <3>3. QED
      BY <3>1, <3>2
  <2>4. QED
    BY <1>1, <2>2, <2>3 DEF RInv, RequestsTypeOK
<1>4. SourceStaysOnConnection'
  BY <1>1 DEF RInv, SourceStaysOnConnection, online, About, Requests
<1>5. QED
  BY <1>2, <1>3, <1>4 DEF RInv

LEMMA OpenStep ==
  ASSUME RInv, RequestsApart, NEW q \in Requests, Open(q)
  PROVE  RInv'
<1> DEFINE f == Frame("open", q, 0)
<1>1. /\ entry[q] = "new" /\ online /\ UNCHANGED <<link, sink, made, remote, requested, up>>
      /\ answer[q] = Nothing
  BY DEF Open, linkVars, remoteVars, RInv, RequestsTypeOK
<1>2. /\ down \in Seq(Frames) /\ up \in Seq(Frames) /\ down \in Seq(Downward)
      /\ f \in Frames /\ f \in Downward /\ f.req = q /\ f.kind = "open"
  BY FramesAreFrames DEF RInv, Framed, Frame, Frames, Downward, RequestsApart
<1>3. /\ remote[q] = "none" /\ ~Has(down, "open", q) /\ ~Has(down, "cancel", q)
      /\ ~Has(down, "response", q) /\ ~Has(up, "result", q) /\ ~Has(up, "request", q)
  BY <1>1 DEF RInv, Stories, Story
<1>4. CASE q \in Tools /\ InProgress # {}
  <2>1. /\ entry' = [entry EXCEPT ![q] = "done"] /\ answer' = [answer EXCEPT ![q] = "refused"]
        /\ UNCHANGED <<via, called>>
    BY <1>4, <1>1 DEF Open, SettledWith, Settled, RInv, RequestsTypeOK
  <2>2. down' = down
    BY <1>4, <1>1, <1>2 DEF Open, SettledWith, Send
  <2>3. About(q)
    BY <1>1, <2>1, <2>2 DEF About, RInv, RequestsTypeOK
  <2>5. Story(q, entry'[q], remote'[q], down', up')
    BY <1>1, <1>3, <2>1, <2>2 DEF Story, RInv, RequestsTypeOK
  <2>6. q \notin Sources
    BY <1>4 DEF RequestsApart
  <2>7. Linked' /\ OneAtATime'
    BY <1>1, <2>1, <2>2 DEF RInv, RequestsTypeOK, Linked, OneAtATime, online, Connected
  <2>8. /\ entry' \in [Requests -> {"unwanted", "new", "open", "done"}]
        /\ answer' \in [Requests -> {Nothing, "result", "timeout", "cancelled", "failed",
                                   "refused", "disconnected"}]
        /\ entry'[q] = "done" /\ answer'[q] # Nothing
        /\ \A p \in Requests \ {q} : answer'[p] = answer[p]
    BY <2>1 DEF RInv, RequestsTypeOK, Nothing
  <2>9. QED
    BY <1>1, <2>1, <2>3, <2>5, <2>6, <2>7, <2>8, StepAbout DEF RInv, RequestsTypeOK
<1>5. CASE ~(q \in Tools /\ InProgress # {})
  <2>1. /\ entry' = [entry EXCEPT ![q] = "open"] /\ via' = [via EXCEPT ![q] = sink]
        /\ UNCHANGED <<answer, called>>
    BY <1>5, <1>1 DEF Open
  <2>2. down' = Append(down, f)
    BY <1>5, <1>1, <1>2, AppendIs DEF Open, Send
  <2>3. About(q)
    BY <1>1, <1>2, <2>1, <2>2 DEF About, RInv, RequestsTypeOK
  <2>4. entry'[q] = "open" /\ remote'[q] = "none" /\ via'[q] = sink /\ entry'[q] # "done" /\ q \in Requests
    BY <1>1, <1>3, <2>1 DEF RInv, RequestsTypeOK
  <2>5. Story(q, entry'[q], remote'[q], down', up')
    <3>1. ~Has(down', "response", q) /\ ~Has(down', "cancel", q) /\ AtMostOne(down', "open", q)
      <4>1. f.kind # "response" /\ f.kind # "cancel"
        BY <1>2
      <4>5. ~Has(Append(down, f), "cancel", q)
        BY <1>2, <1>3, <4>1, OneMore, SMTT(30)
      <4>2. ~Has(Append(down, f), "response", q)
        BY <1>2, <1>3, <4>1, OneMore, SMTT(30)
      <4>3. AtMostOne(Append(down, f), "open", q)
        BY <1>2, <1>3, OneMore
      <4>4. QED
        BY <2>2, <4>2, <4>3, <4>5
    <3>2. QED
      BY <1>1, <1>3, <2>4, <3>1 DEF Story
  <2>6. ASSUME q \in Sources
        PROVE  Dialogue(q, entry'[q], remote'[q], requested'[q], called'[q].sequence, called'[q].busy,
                        down', up', Connected')
    <3>1. Dialogue(q, entry[q], remote[q], requested[q], called[q].sequence, called[q].busy,
                   down, up, Connected)
      BY <2>6 DEF RInv, Dialogues
    <3>2. QED
      BY <1>1, <2>1, <2>4, <3>1 DEF Dialogue, InSequence
  <2>7. Linked' /\ OneAtATime'
    BY <1>1, <2>1, <2>2 DEF RInv, RequestsTypeOK, Linked, OneAtATime, online, Connected
  <2>8. /\ entry' \in [Requests -> {"unwanted", "new", "open", "done"}]
        /\ via' \in [Requests -> 0 .. made]
        /\ \A p \in Requests \ {q} : via'[p] = via[p]
    BY <2>1 DEF RInv, RequestsTypeOK
  <2>9. QED
    BY <1>1, <2>1, <2>3, <2>4, <2>5, <2>6, <2>7, <2>8, StepAbout DEF RInv, RequestsTypeOK
<1>6. QED
  BY <1>4, <1>5

LEMMA TimeOutStep ==
  ASSUME RInv, RequestsApart, NEW q \in Requests, TimesOut(q) \/ Close(q)
  PROVE  RInv'
<1>1. /\ entry[q] = "open" /\ UNCHANGED <<linkVars, remoteVars>> /\ up' = up
  BY DEF TimesOut, Close
<1>2. PICK what \in {"timeout", "cancelled"} : SettledWith(q, what, CancelOf(q))
  BY DEF TimesOut, Close
<1>3. QED
  BY <1>1, <1>2, SettledWithWrites

LEMMA ResultStep ==
  ASSUME RInv, RequestsApart, receiveResult
  PROVE  RInv'
<1> DEFINE q == Head(up).req
<1>1. /\ up # <<>> /\ Head(up).kind = "result" /\ up' = Tail(up)
      /\ UNCHANGED <<linkVars, remoteVars>>
  BY DEF receiveResult
<1>2. /\ down \in Seq(Frames) /\ up \in Seq(Frames) /\ Head(up) \in Frames /\ q \in Requests
  <2>1. down \in Seq(Frames) /\ up \in Seq(Frames)
    BY FramesAreFrames DEF RInv
  <2>2. Head(up) \in Frames
    BY <1>1, <2>1, TailIs
  <2>3. QED
    BY <2>1, <2>2 DEF Frames
<1>3. Has(up, "result", q) /\ Story(q, entry[q], remote[q], down, up)
  BY <1>1, <1>2, OneLess DEF RInv, Stories
<1>4. remote[q] = "over"
  BY <1>3 DEF Story
<1> HIDE DEF q
<1>5. CASE entry[q] # "open"
  <2>1. UNCHANGED <<entry, via, answer, called, down>>
    BY <1>5 DEF receiveResult, q
  <2>2. About(q)
    BY <1>1, <2>1 DEF About, q, linkVars, remoteVars
  <2>3. UNCHANGED <<link, sink, made, remote, requested>>
    BY <1>1 DEF linkVars, remoteVars
  <2>4. Story(q, entry'[q], remote'[q], down', up')
    BY <1>1, <1>2, <1>3, <2>1, <2>3, StoryApart
  <2>5. ASSUME q \in Sources
        PROVE  Dialogue(q, entry'[q], remote'[q], requested'[q], called'[q].sequence, called'[q].busy,
                        down', up', Connected')
    <3>1. Dialogue(q, entry[q], remote[q], requested[q], called[q].sequence, called[q].busy,
                   down, up, Connected)
      BY <2>5 DEF RInv, Dialogues
    <3>2. Connected' = Connected
      BY <2>3 DEF Connected
    <3>3. Head(up).kind # "request"
      BY <1>1
    <3>4. Dialogue(q, entry[q], remote[q], requested[q], called[q].sequence, called[q].busy,
                   down, Tail(up), Connected)
      BY <1>1, <1>2, <3>1, <3>3, DialogueApart
    <3>5. QED
      BY <1>1, <2>1, <2>3, <3>2, <3>4
  <2>6. Linked' /\ OneAtATime'
    BY <1>1, <2>1, <2>3 DEF RInv, Linked, OneAtATime, online, Connected
  <2>7. QED
    BY <1>2, <1>5, <2>1, <2>2, <2>3, <2>4, <2>5, <2>6, StepAbout DEF RInv, RequestsTypeOK
<1>6. CASE entry[q] = "open"
  <2>2. PICK what \in {"result", "failed"}, frames \in {CancelOf(q), <<>>} :
           SettledWith(q, what, frames)
    BY <1>6 DEF receiveResult, q
  <2>3. up' = Tail(up) /\ Head(up).req = q
    BY <1>1 DEF q
  <2>4. QED
    BY <1>1, <1>2, <1>4, <1>6, <2>2, <2>3, SettledWithWrites
<1>7. QED
  BY <1>5, <1>6

LEMMA SourceRequestStep ==
  ASSUME RInv, RequestsApart, receiveSourceRequest
  PROVE  RInv'
<1> DEFINE q == Head(up).req
           n == Head(up).n
<1>1. /\ up # <<>> /\ Head(up).kind = "request" /\ up' = Tail(up)
      /\ UNCHANGED <<linkVars, remoteVars>>
      /\ UNCHANGED <<link, sink, made, remote, requested>>
  BY DEF receiveSourceRequest, linkVars, remoteVars
<1>2. /\ down \in Seq(Frames) /\ up \in Seq(Frames)
      /\ q \in Requests /\ q \in Sources /\ n \in 0 .. MaxCalls
  <2>1. down \in Seq(Frames) /\ up \in Seq(Frames) /\ up \in Seq(Upward)
    BY FramesAreFrames DEF RInv, Framed
  <2>2. Head(up) \in Upward
    BY <1>1, <2>1, TailIs
  <2>3. QED
    BY <1>1, <2>1, <2>2 DEF Frames, Upward
<1>3. /\ Has(up, "request", q) /\ Story(q, entry[q], remote[q], down, up)
      /\ Dialogue(q, entry[q], remote[q], requested[q], called[q].sequence, called[q].busy,
                  down, up, Connected)
  BY <1>1, <1>2, OneLess DEF RInv, Stories, Dialogues
<1>4. remote[q] # "none" /\ n <= requested[q] /\ Below(Tail(up), q, requested[q])
  <2>1. Below(up, q, requested[q])
    BY <1>3 DEF Dialogue
  <2>2. QED
    BY <1>1, <1>2, <1>3, <2>1, OneLessOrder DEF Story
<1>5. Story(q, entry[q], remote[q], down, Tail(up))
  BY <1>1, <1>2, <1>3, StoryApart
<1>6. Connected' = Connected
  BY <1>1 DEF Connected
<1> HIDE DEF q, n
<1>7. CASE entry[q] # "open"
  <2>1. UNCHANGED <<entry, via, answer, called, down>>
    BY <1>7 DEF receiveSourceRequest, q
  <2>2. About(q)
    BY <1>1, <2>1 DEF About, q
  <2>3. Story(q, entry'[q], remote'[q], down', up')
    BY <1>1, <1>5, <2>1
  <2>4. Dialogue(q, entry'[q], remote'[q], requested'[q], called'[q].sequence, called'[q].busy,
                 down', up', Connected')
    BY <1>1, <1>3, <1>4, <1>7, <2>1 DEF Dialogue
  <2>5. Linked' /\ OneAtATime'
    BY <1>1, <2>1 DEF RInv, Linked, OneAtATime, online, Connected
  <2>6. QED
    BY <1>1, <1>2, <1>7, <2>1, <2>2, <2>3, <2>4, <2>5, StepAbout DEF RInv, RequestsTypeOK
<1>8. CASE entry[q] = "open" /\ (called[q].busy \/ n # called[q].sequence + 1)
  <2>1. SettledWith(q, "failed", CancelOf(q))
    BY <1>8 DEF receiveSourceRequest, q, n
  <2>2. up' = Tail(up) /\ Head(up).req = q
    BY <1>1 DEF q
  <2>3. QED
    BY <1>1, <1>2, <1>8, <2>1, <2>2, SettledWithWrites
<1>9. CASE entry[q] = "open" /\ ~called[q].busy /\ n = called[q].sequence + 1
  <2>1. /\ called' = [called EXCEPT ![q] = [sequence |-> n, busy |-> TRUE]]
        /\ UNCHANGED <<entry, via, answer, down>>
    BY <1>9 DEF receiveSourceRequest, q, n
  <2>2. About(q)
    BY <1>1, <2>1 DEF About, q, RInv, RequestsTypeOK
  <2>3. Story(q, entry'[q], remote'[q], down', up')
    BY <1>1, <1>5, <2>1
  <2>4. called'[q].sequence = n /\ called'[q].busy = TRUE
    BY <1>2, <2>1 DEF RInv, RequestsTypeOK
  <2>5. ASSUME Connected
        PROVE  InSequence(q, remote[q], requested[q], n, TRUE, down, Tail(up))
    <3>1. InSequence(q, remote[q], requested[q], called[q].sequence, called[q].busy, down, up)
      BY <1>3, <1>9, <2>5 DEF Dialogue
    <3>2. AtMostOne(up, "request", q) /\ HasNumber(up, "request", q, requested[q]) =>
             n = requested[q] /\ ~Has(Tail(up), "request", q)
      BY <1>1, <1>2, OneLess DEF q, n
    <3>3. QED
      BY <1>3, <1>9, <3>1, <3>2 DEF InSequence
  <2>6. Dialogue(q, entry'[q], remote'[q], requested'[q], called'[q].sequence, called'[q].busy,
                 down', up', Connected')
    BY <1>1, <1>4, <1>6, <2>1, <2>4, <2>5 DEF Dialogue
  <2>7. Linked' /\ OneAtATime'
    BY <1>1, <2>1 DEF RInv, Linked, OneAtATime, online, Connected
  <2>8. called' \in [Sources -> [sequence : 0 .. MaxCalls, busy : BOOLEAN]]
    BY <1>2, <2>1 DEF RInv, RequestsTypeOK
  <2>9. QED
    BY <1>1, <1>2, <2>1, <2>2, <2>3, <2>6, <2>7, <2>8, StepAbout
       DEF RInv, RequestsTypeOK, SourceStaysOnConnection, online
<1>10. QED
  BY <1>7, <1>8, <1>9 DEF RInv, RequestsTypeOK

LEMMA BrokerStep ==
  ASSUME RInv, RequestsApart, NEW q \in Sources, BrokerAnswers(q)
  PROVE  RInv'
<1> DEFINE f == Frame("response", q, called[q].sequence)
<1>1. /\ called[q].busy /\ entry[q] = "open" /\ up' = up /\ q \in Requests
      /\ UNCHANGED <<linkVars, remoteVars>>
      /\ UNCHANGED <<link, sink, made, remote, requested>>
  BY DEF BrokerAnswers, linkVars, remoteVars, Requests
<1>2. /\ down \in Seq(Frames) /\ up \in Seq(Frames) /\ down \in Seq(Downward)
      /\ f \in Frames /\ f \in Downward /\ f.req = q /\ f.kind = "response" /\ f.n = called[q].sequence
  BY <1>1, FramesAreFrames DEF RInv, Framed, Frame, Frames, Downward, RequestsTypeOK
<1>3. CASE SettledWith(q, "failed", CancelOf(q))
  BY <1>1, <1>3, SettledWithWrites
<1>4. CASE /\ called' = [called EXCEPT ![q].busy = FALSE]
           /\ Send(<<f>>)
           /\ UNCHANGED <<entry, via, answer>>
  <2>1. down' = Append(down, f)
    <3>1. online
      BY <1>1 DEF RInv, Linked
    <3>2. QED
      BY <1>2, <1>4, <3>1, AppendIs DEF Send
  <2>2. called'[q].sequence = called[q].sequence /\ called'[q].busy = FALSE
    BY <1>4 DEF RInv, RequestsTypeOK
  <2>3. About(q)
    BY <1>1, <1>2, <1>4, <2>1 DEF About, RInv, RequestsTypeOK
  <2>4. /\ Story(q, entry[q], remote[q], down, up)
        /\ Dialogue(q, entry[q], remote[q], requested[q], called[q].sequence, called[q].busy,
                    down, up, Connected)
    BY <1>1 DEF RInv, Stories, Dialogues
  <2>5. remote[q] # "none"
    BY <1>1, <2>4 DEF Dialogue
  <2>6. /\ Has(down', "open", q) <=> Has(down, "open", q)
        /\ Has(down', "cancel", q) <=> Has(down, "cancel", q)
        /\ ~Has(down, "response", q) => /\ AtMostOne(down', "response", q)
                                        /\ HasNumber(down', "response", q, called[q].sequence)
    <3>1. f.kind # "open" /\ f.kind # "cancel"
      BY <1>2
    <3>2. /\ Has(Append(down, f), "open", q) <=> Has(down, "open", q)
          /\ Has(Append(down, f), "cancel", q) <=> Has(down, "cancel", q)
      <4>1. Has(Append(down, f), "open", q) <=> Has(down, "open", q)
        BY <1>2, <3>1, OneMore
      <4>2. Has(Append(down, f), "cancel", q) <=> Has(down, "cancel", q)
        BY <1>2, <3>1, OneMore
      <4>3. QED
        BY <4>1, <4>2
    <3>3. /\ ~Has(down, "response", q) => AtMostOne(Append(down, f), "response", q)
          /\ HasNumber(Append(down, f), "response", q, called[q].sequence)
      BY <1>2, OneMore
    <3>4. QED
      BY <2>1, <3>2, <3>3
  <2>7. Story(q, entry'[q], remote'[q], down', up')
    BY <1>1, <1>4, <2>4, <2>5, <2>6 DEF Story
  <2>8. ASSUME Connected
        PROVE  InSequence(q, remote[q], requested[q], called[q].sequence, FALSE, down', up)
    BY <1>1, <2>4, <2>6, <2>8 DEF Dialogue, InSequence
  <2>9. Connected' = Connected
    BY <1>1 DEF Connected
  <2>10. Dialogue(q, entry'[q], remote'[q], requested'[q], called'[q].sequence, called'[q].busy,
                 down', up', Connected')
    BY <1>1, <1>4, <2>2, <2>4, <2>5, <2>8, <2>9 DEF Dialogue
  <2>11. Linked' /\ OneAtATime'
    BY <1>1, <1>4 DEF RInv, Linked, OneAtATime, online, Connected
  <2>12. called' \in [Sources -> [sequence : 0 .. MaxCalls, busy : BOOLEAN]]
    BY <1>4 DEF RInv, RequestsTypeOK
  <2>13. QED
    BY <1>1, <1>4, <2>3, <2>7, <2>10, <2>11, <2>12, StepAbout
       DEF RInv, RequestsTypeOK, SourceStaysOnConnection, online
<1>5. QED
  BY <1>3, <1>4 DEF BrokerAnswers

LEMMA LossStep ==
  ASSUME RInv, RequestsApart, LinkLost
  PROVE  RInv'
<1>1. /\ link' = 0 /\ up' = <<>> /\ made <= MaxLosses
      /\ UNCHANGED <<sink, made, entry, via, answer, called, requested, down>>
      /\ remote' = [q \in Requests |->
                      IF q \in Sources /\ remote[q] # "none" THEN "over"
                      ELSE IF q \in Sessions /\ remote[q] = "working" THEN "stopping"
                      ELSE remote[q]]
  BY DEF LinkLost
<1>2. RequestsTypeOK'
  BY <1>1 DEF RInv, RequestsTypeOK
<1>3. Framed' /\ SourceStaysOnConnection'
  BY <1>1 DEF RInv, Framed, SourceStaysOnConnection, online
<1>4. OneAtATime'
  BY <1>1 DEF RInv, OneAtATime, RequestsApart, Requests
<1>5. ~Connected'
  BY <1>1 DEF Connected
<1>6. Linked'
  <2>1. \A q \in Sources : remote'[q] \in {"none", "over"}
    BY <1>1 DEF Requests
  <2>2. \A q \in Sessions : remote'[q] \notin {"working", "asking"}
    <3>1. \A q \in Sessions : q \in Requests /\ q \notin Sources
      BY DEF Requests, RequestsApart
    <3>2. \A q \in Sessions : remote[q] # "asking"
      BY <3>1 DEF RInv, Stories, Story
    <3>3. QED
      BY <1>1, <3>1, <3>2
  <2>3. QED
    BY <1>1, <1>5, <2>1, <2>2 DEF RInv, Linked, online
<1>7. ASSUME NEW q \in Requests
      PROVE  Story(q, entry[q], remote'[q], down, <<>>)
  <2>1. Story(q, entry[q], remote[q], down, up)
    BY DEF RInv, Stories
  <2>2. /\ remote[q] = "none" <=> remote'[q] = "none"
        /\ remote'[q] = "asking" => remote[q] = "asking"
        /\ remote'[q] = "working" => remote[q] = "working"
    BY <1>1
  <2>3. QED
    BY <2>1, <2>2, NoFrames DEF Story
<1>8. ASSUME NEW q \in Sources
      PROVE  Dialogue(q, entry[q], remote'[q], requested[q], called[q].sequence, called[q].busy,
                      down, <<>>, Connected')
  <2>1. Dialogue(q, entry[q], remote[q], requested[q], called[q].sequence, called[q].busy,
                 down, up, Connected)
    BY DEF RInv, Dialogues
  <2>2. remote'[q] = "none" => remote[q] = "none"
    BY <1>1 DEF Requests
  <2>3. QED
    BY <1>5, <2>1, <2>2, NoFrames DEF Dialogue
<1>9. Stories' /\ Dialogues'
  BY <1>1, <1>7, <1>8 DEF Stories, Dialogues
<1>10. QED
  BY <1>2, <1>3, <1>4, <1>6, <1>9 DEF RInv

LEMMA ReconnectStep ==
  ASSUME RInv, RequestsApart, Reconnect
  PROVE  RInv'
<1>1. /\ link = 0 /\ link' = made + 1 /\ made' = made + 1
      /\ UNCHANGED <<sink, entry, via, answer, called, remote, requested, down, up>>
  BY DEF Reconnect, remoteVars
<1>2. made \in Nat /\ made <= MaxLosses /\ sink \in 0 .. made /\ MaxLosses \in Nat
  BY <1>1 DEF RInv, RequestsTypeOK, Linked, RequestsApart
<1>3. ~Connected /\ ~Connected'
  BY <1>1, <1>2 DEF Connected
<1>4. RequestsTypeOK'
  <2>1. via' \in [Requests -> 0 .. made'] /\ made' \in 1 .. MaxLosses + 1
        /\ link' \in 0 .. made' /\ sink' \in 0 .. made'
    BY <1>1, <1>2 DEF RInv, RequestsTypeOK
  <2>2. QED
    BY <1>1, <2>1 DEF RInv, RequestsTypeOK
<1>5. Framed' /\ SourceStaysOnConnection' /\ OneAtATime'
  BY <1>1 DEF RInv, Framed, SourceStaysOnConnection, OneAtATime, online
<1>6. Linked'
  BY <1>1, <1>2, <1>3 DEF RInv, Linked, online
<1>7. Stories'
  BY <1>1 DEF RInv, Stories
<1>8. Dialogues'
  BY <1>1, <1>3 DEF RInv, Dialogues, Dialogue
<1>9. QED
  BY <1>4, <1>5, <1>6, <1>7, <1>8 DEF RInv

(* The registry notices that a socket is gone, or hears of the next one.     *)
LEMMA RegisterStep ==
  ASSUME RInv, RequestsApart, registerConnection \/ unregisterConnection
  PROVE  RInv'
<1> DEFINE qs == IF registerConnection THEN {q \in Sources : entry[q] = "open"}
                                       ELSE {q \in Requests : entry[q] = "open"}
<1>1. /\ sink # link /\ sink' \in {0, link} /\ down' = <<>>
      /\ UNCHANGED <<link, made, via, called, remote, requested, up>>
      /\ registerConnection => sink' = link /\ link # 0
      /\ ~registerConnection => sink' = 0
  BY DEF registerConnection, unregisterConnection, remoteVars
<1>2. /\ qs \subseteq {q \in Requests : entry[q] = "open"}
      /\ entry' = [q \in Requests |-> IF q \in qs THEN "done" ELSE entry[q]]
      /\ answer' = [q \in Requests |-> IF q \in qs THEN "disconnected" ELSE answer[q]]
  BY DEF registerConnection, unregisterConnection, Settled, Requests
<1>3. /\ \A q \in Sources : q \in Requests /\ (entry[q] = "open" => q \in qs)
      /\ ~registerConnection => \A q \in Requests : entry[q] = "open" => q \in qs
  BY DEF Requests
<1> HIDE DEF qs
<1>4. /\ ~Connected /\ up = <<>>
      /\ \A q \in Sources : remote[q] \in {"none", "over"}
      /\ \A q \in Sessions : remote[q] \notin {"working", "asking"}
  BY <1>1 DEF RInv, Linked, Connected
<1>5. \A q \in Sources : entry'[q] # "open"
  BY <1>2, <1>3
<1>6. RequestsTypeOK'
  <2>1. entry' \in [Requests -> {"unwanted", "new", "open", "done"}]
    BY <1>2 DEF RInv, RequestsTypeOK
  <2>2. answer' \in [Requests -> {Nothing, "result", "timeout", "cancelled", "failed",
                                   "refused", "disconnected"}]
    BY <1>2 DEF RInv, RequestsTypeOK
  <2>3. \A q \in Requests : entry'[q] = "done" <=> answer'[q] # Nothing
    BY <1>2 DEF RInv, RequestsTypeOK, Nothing
  <2>4. sink' \in 0 .. made'
    BY <1>1 DEF RInv, RequestsTypeOK
  <2>5. Len(down') = 0
    BY <1>1
  <2>6. QED
    BY <1>1, <2>1, <2>2, <2>3, <2>4, <2>5 DEF RInv, RequestsTypeOK
<1>7. Framed' /\ SourceStaysOnConnection' /\ OneAtATime'
  BY <1>1, <1>5 DEF RInv, Framed, SourceStaysOnConnection, OneAtATime
<1>8. Linked'
  <2>1. sink' = 0 => ~registerConnection
    BY <1>1
  <2>2. sink' = 0 => \A q \in Requests : entry'[q] # "open"
    BY <1>2, <1>3, <2>1
  <2>3. QED
    BY <1>1, <1>4, <2>2 DEF RInv, Linked, online
<1>9. Stories'
  <2>1. ASSUME NEW q \in Requests
        PROVE  Story(q, entry'[q], remote[q], <<>>, up)
    <3>1. entry'[q] = entry[q] \/ (entry[q] = "open" /\ entry'[q] = "done")
      BY <1>2
    <3>2. q \in Tools \/ remote[q] \notin {"working", "asking"}
      BY <1>4 DEF Requests
    <3>3. Story(q, entry[q], remote[q], down, up)
      BY DEF RInv, Stories
    <3>4. QED
      BY <3>1, <3>2, <3>3, StoryEmptied
  <2>2. QED
    BY <1>1, <2>1 DEF Stories
<1>10. Dialogues'
  <2>1. ASSUME NEW q \in Sources
        PROVE  Dialogue(q, entry'[q], remote[q], requested[q], called[q].sequence, called[q].busy,
                        <<>>, up, Connected')
    <3>1. Dialogue(q, entry[q], remote[q], requested[q], called[q].sequence, called[q].busy,
                   down, up, Connected)
      BY DEF RInv, Dialogues
    <3>2. QED
      BY <1>5, <3>1 DEF Dialogue
  <2>2. QED
    BY <1>1, <2>1 DEF Dialogues
<1>11. QED
  BY <1>6, <1>7, <1>8, <1>9, <1>10 DEF RInv

(* What the host takes from the connection.                                  *)
LEMMA ReceiveStep ==
  ASSUME RInv, RequestsApart, HostReceives
  PROVE  RInv'
<1> DEFINE f == Head(down)
           q == f.req
           g == Frame("result", q, 0)
<1>1. /\ down # <<>> /\ sink = link /\ down' = Tail(down)
      /\ UNCHANGED <<link, sink, made, entry, via, answer, called, requested>>
  BY DEF HostReceives, HostStep, linkVars
<1>2. /\ down \in Seq(Frames) /\ up \in Seq(Frames) /\ down \in Seq(Downward) /\ up \in Seq(Upward)
      /\ f \in Frames /\ f \in Downward /\ q \in Requests
      /\ g \in Frames /\ g \in Upward /\ g.req = q /\ g.kind = "result"
  <2>1. down \in Seq(Frames) /\ up \in Seq(Frames) /\ down \in Seq(Downward) /\ up \in Seq(Upward)
    BY FramesAreFrames DEF RInv, Framed
  <2>2. f \in Downward
    BY <1>1, <2>1, TailIs
  <2>3. f \in Frames /\ q \in Requests
    BY <2>2 DEF Downward, Frames
  <2>4. g \in Frames /\ g \in Upward /\ g.req = q /\ g.kind = "result"
    BY <2>3 DEF Frame, Frames, Upward, RequestsApart
  <2>5. QED
    BY <2>1, <2>2, <2>3, <2>4
<1>3. online /\ link # 0 /\ Connected
  BY <1>1 DEF RInv, Linked, Connected, online
<1>4. Reply("result", q, 0) => up' = Append(up, g)
  BY <1>1, <1>3 DEF Reply, Connected
<1>5. /\ Story(q, entry[q], remote[q], down, up)
      /\ q \in Sources => Dialogue(q, entry[q], remote[q], requested[q], called[q].sequence,
                                   called[q].busy, down, up, Connected)
      /\ Connected' = Connected
  BY <1>1, <1>2 DEF RInv, Stories, Dialogues, Connected
<1>6. /\ Has(Tail(down), "open", q) => Has(down, "open", q)
      /\ Has(Tail(down), "cancel", q) => Has(down, "cancel", q)
      /\ Has(Tail(down), "response", q) => Has(down, "response", q)
      /\ AtMostOne(down, "open", q) => AtMostOne(Tail(down), "open", q)
      /\ Followed(down, q) => Followed(Tail(down), q)
      /\ Has(down, f.kind, q)
      /\ AtMostOne(down, f.kind, q) => ~Has(Tail(down), f.kind, q)
  BY <1>1, <1>2, OneLess, OneLessOrder
<1>7. ASSUME f.kind # "cancel", Has(down, "cancel", q)
      PROVE  Has(Tail(down), "cancel", q)
  BY <1>1, <1>2, <1>7, OneLess
<1>8. f.kind = "open" /\ Followed(down, q) => Has(Tail(down), "cancel", q)
  BY <1>1, <1>2, OneLessOrder
<1>9. f.kind = "response" => /\ q \in Sources
                             /\ AtMostOne(down, "response", q) /\ HasNumber(down, "response", q, requested[q])
                                   => f.n = requested[q]
  <2>1. f.kind = "response" => q \in Sources
    BY <1>2 DEF Downward
  <2>2. QED
    BY <1>1, <1>2, <2>1, OneLess
<1>10. f.kind = "cancel" => q \notin Tools
  BY <1>2 DEF Downward
<1>11. /\ Has(Append(up, g), "result", q)
       /\ Has(Append(up, g), "request", q) <=> Has(up, "request", q)
       /\ \A n : Below(up, q, n) => Below(Append(up, g), q, n)
  <2>1. g.kind # "request"
    BY <1>2
  <2>2. Has(Append(up, g), "request", q) <=> Has(up, "request", q)
    BY <1>2, <2>1, OneMore, ZenonT(60)
  <2>3. Has(Append(up, g), "result", q)
    BY <1>2, OneMore
  <2>4. ASSUME NEW n, Below(up, q, n) PROVE Below(Append(up, g), q, n)
    BY <1>2, <2>1, <2>4, OneMoreOrder
  <2>5. QED
    BY <2>2, <2>3, <2>4
<1>12. f.kind \in {"open", "cancel", "response"}
  BY <1>2 DEF Downward
<1>13. remote \in [Requests -> {"none", "working", "asking", "stopping", "over"}]
  BY DEF RInv, RequestsTypeOK
<1> HIDE DEF f, q, g
<1>14. ASSUME NEW r \in {"none", "working", "asking", "stopping", "over"},
              remote' = [remote EXCEPT ![q] = r],
              up' = up \/ up' = Append(up, g),
              Story(q, entry[q], r, Tail(down), up'),
              q \in Sources => Dialogue(q, entry[q], r, requested[q], called[q].sequence,
                                        called[q].busy, Tail(down), up', Connected),
              r = "working" /\ q \in Tools => ~HostBusy
       PROVE  RInv'
  <2>1. About(q)
    BY <1>1, <1>2, <1>13, <1>14 DEF About, q, f
  <2>2. remote'[q] = r /\ remote' \in [Requests -> {"none", "working", "asking", "stopping", "over"}]
    BY <1>2, <1>13, <1>14
  <2>3. Story(q, entry'[q], remote'[q], down', up')
    BY <1>1, <1>14, <2>2
  <2>4. q \in Sources => Dialogue(q, entry'[q], remote'[q], requested'[q], called'[q].sequence,
                                  called'[q].busy, down', up', Connected')
    BY <1>1, <1>5, <1>14, <2>2
  <2>5. OneAtATime'
    <3>1. CASE r = "working" /\ q \in Tools
      BY <1>13, <1>14, <3>1 DEF HostBusy, OneAtATime, Requests
    <3>2. CASE ~(r = "working" /\ q \in Tools)
      BY <1>13, <1>14, <3>2 DEF OneAtATime, Requests, RInv
    <3>3. QED
      BY <3>1, <3>2
  <2>6. Linked'
    BY <1>1, <1>3, <1>5 DEF Linked, RInv, online
  <2>7. QED
    BY <1>1, <1>2, <2>1, <2>2, <2>3, <2>4, <2>5, <2>6, StepAbout
       DEF RInv, RequestsTypeOK, SourceStaysOnConnection, online
<1>15. CASE f.kind = "open"
  <2>1. /\ remote[q] = "none" /\ ~Has(Tail(down), "open", q) /\ entry[q] \notin {"new", "unwanted"}
        /\ ~Has(Tail(down), "response", q) /\ ~Has(up, "result", q) /\ ~Has(up, "request", q)
        /\ entry[q] = "done" /\ q \notin Tools => Has(Tail(down), "cancel", q)
    BY <1>5, <1>6, <1>8, <1>15 DEF Story
  <2>2. CASE q \in Tools /\ HostBusy
    <3>1. remote' = [remote EXCEPT ![q] = "over"] /\ up' = Append(up, g)
      BY <1>4, <1>15, <2>2 DEF HostReceives, f, q
    <3>2. Story(q, entry[q], "over", Tail(down), up')
      BY <1>5, <1>6, <2>1, <3>1 DEF Story
    <3>3. q \notin Sources
      BY <2>2 DEF RequestsApart
    <3>4. QED
      BY <1>14, <3>1, <3>2, <3>3
  <2>3. CASE ~(q \in Tools /\ HostBusy)
    <3>1. remote' = [remote EXCEPT ![q] = "working"] /\ up' = up
      BY <1>15, <2>3 DEF HostReceives, f, q
    <3>2. Story(q, entry[q], "working", Tail(down), up')
      BY <1>5, <1>6, <2>1, <3>1 DEF Story
    <3>3. q \in Sources => Dialogue(q, entry[q], "working", requested[q], called[q].sequence,
                                    called[q].busy, Tail(down), up', Connected)
      BY <1>5, <2>1, <3>1 DEF Dialogue, InSequence
    <3>4. QED
      BY <1>14, <2>3, <3>1, <3>2, <3>3
  <2>4. QED
    BY <2>2, <2>3
<1>16. CASE f.kind = "cancel"
  <2>1. entry[q] = "done"
    BY <1>5, <1>6, <1>16 DEF Story
  <2>2. CASE remote[q] \in {"working", "asking"}
    <3>1. remote' = [remote EXCEPT ![q] = "stopping"] /\ up' = up
      BY <1>16, <2>2 DEF HostReceives, f, q
    <3>2. Story(q, entry[q], "stopping", Tail(down), up')
      BY <1>5, <1>6, <2>1, <2>2, <3>1 DEF Story
    <3>3. q \in Sources => Dialogue(q, entry[q], "stopping", requested[q], called[q].sequence,
                                    called[q].busy, Tail(down), up', Connected)
      BY <1>5, <2>1, <2>2, <3>1 DEF Dialogue
    <3>4. QED
      BY <1>14, <3>1, <3>2, <3>3
  <2>3. CASE remote[q] \notin {"working", "asking"}
    <3>1. remote' = remote /\ up' = up
      BY <1>16, <2>3 DEF HostReceives, f, q
    <3>2. remote' = [remote EXCEPT ![q] = remote[q]] /\ remote[q] \in {"none", "stopping", "over"}
      BY <1>2, <1>13, <2>3, <3>1
    <3>3. Story(q, entry[q], remote[q], Tail(down), up')
      BY <1>5, <1>6, <2>1, <2>3, <3>1 DEF Story
    <3>4. q \in Sources => Dialogue(q, entry[q], remote[q], requested[q], called[q].sequence,
                                    called[q].busy, Tail(down), up', Connected)
      BY <1>5, <2>1, <3>1 DEF Dialogue
    <3>5. QED
      BY <1>14, <3>1, <3>2, <3>3, <3>4
  <2>4. QED
    BY <2>2, <2>3
<1>17. CASE f.kind = "response"
  <2> DEFINE r == IF remote[q] = "asking" /\ f.n = requested[q] THEN "working"
                  ELSE IF remote[q] = "working" THEN "stopping" ELSE remote[q]
  <2>1. remote' = [remote EXCEPT ![q] = r] /\ up' = up
    BY <1>2, <1>13, <1>17 DEF HostReceives, f, q
  <2>2. /\ remote[q] # "none" /\ entry[q] \notin {"new", "unwanted"} /\ q \in Sources
        /\ ~Has(Tail(down), "open", q)
    BY <1>5, <1>6, <1>9, <1>17 DEF Story
  <2>3. r \in {"none", "working", "asking", "stopping", "over"} /\ r # "none"
    BY <1>2, <1>13, <2>2
  <2>4. Story(q, entry[q], r, Tail(down), up')
    <3>1. entry[q] = "done" /\ q \notin Tools /\ remote[q] \in {"working", "asking"}
            => Has(Tail(down), "cancel", q)
      BY <1>5, <1>7, <1>17 DEF Story
    <3>2. r \in {"working", "asking"} => remote[q] \in {"working", "asking"}
      OBVIOUS
    <3>3. r = "asking" => remote[q] = "asking"
      OBVIOUS
    <3>4. Has(up, "result", q) => r = "over"
      BY <1>5 DEF Story
    <3> HIDE DEF r
    <3>5. QED
      BY <1>5, <1>6, <2>1, <2>2, <2>3, <3>1, <3>2, <3>3, <3>4 DEF Story
  <2>5. Dialogue(q, entry[q], r, requested[q], called[q].sequence, called[q].busy, Tail(down),
                 up', Connected)
    <3>1. ASSUME entry[q] = "open"
          PROVE  InSequence(q, r, requested[q], called[q].sequence, called[q].busy, Tail(down), up)
      <4>1. InSequence(q, remote[q], requested[q], called[q].sequence, called[q].busy, down, up)
        BY <1>3, <1>5, <2>2, <3>1 DEF Dialogue
      <4>2. Has(down, "response", q)
        BY <1>6, <1>17
      <4>3. CASE remote[q] \in {"none", "over"}
        BY <4>3 DEF InSequence
      <4>4. CASE remote[q] \notin {"none", "over"}
        <5>1. /\ remote[q] = "asking" /\ called[q].sequence = requested[q] /\ ~called[q].busy
              /\ ~Has(up, "request", q)
              /\ AtMostOne(down, "response", q) /\ HasNumber(down, "response", q, requested[q])
          BY <4>1, <4>2, <4>4 DEF InSequence
        <5>2. f.n = requested[q] /\ ~Has(Tail(down), "response", q)
          BY <1>6, <1>9, <1>17, <5>1
        <5>3. r = "working"
          BY <5>1, <5>2
        <5>4. QED
          BY <5>1, <5>2, <5>3 DEF InSequence
      <4>5. QED
        BY <4>3, <4>4
    <3> HIDE DEF r
    <3>2. QED
      BY <1>5, <2>1, <2>2, <2>3, <3>1 DEF Dialogue
  <2>6. q \notin Tools
    BY <2>2 DEF RequestsApart
  <2> HIDE DEF r
  <2>7. QED
    BY <1>14, <2>1, <2>3, <2>4, <2>5, <2>6
<1>18. QED
  BY <1>12, <1>15, <1>16, <1>17

LEMMA AskStep ==
  ASSUME RInv, RequestsApart, NEW q \in Sources, HostAsks(q)
  PROVE  RInv'
<1> DEFINE a == requested[q] + 1
           f == Frame("request", q, a)
<1>1. /\ remote[q] = "working" /\ requested[q] < MaxCalls /\ q \in Requests /\ q \notin Tools
      /\ remote' = [remote EXCEPT ![q] = "asking"] /\ requested' = [requested EXCEPT ![q] = @ + 1]
      /\ UNCHANGED <<link, sink, made, entry, via, answer, called, down>>
  BY DEF HostAsks, HostStep, linkVars, Requests, RequestsApart
<1>2. /\ requested[q] \in 0 .. MaxCalls /\ a \in 0 .. MaxCalls /\ MaxCalls \in Nat
      /\ remote'[q] = "asking" /\ requested'[q] = a
  BY <1>1 DEF RInv, RequestsTypeOK, RequestsApart
<1>3. /\ down \in Seq(Frames) /\ up \in Seq(Frames) /\ up \in Seq(Upward)
      /\ f \in Frames /\ f \in Upward /\ f.req = q /\ f.kind = "request" /\ f.n = a
  BY <1>1, <1>2, FramesAreFrames DEF RInv, Framed, Frame, Frames, Upward
<1>4. Connected /\ Connected' = Connected
  BY <1>1 DEF RInv, Linked, Connected
<1>5. up' = Append(up, f)
  BY <1>4 DEF HostAsks, Reply, Connected
<1>6. /\ Story(q, entry[q], remote[q], down, up)
      /\ Dialogue(q, entry[q], remote[q], requested[q], called[q].sequence, called[q].busy,
                  down, up, Connected)
  BY <1>1 DEF RInv, Stories, Dialogues
<1>7. /\ Has(Append(up, f), "result", q) <=> Has(up, "result", q)
      /\ ~Has(up, "request", q) => AtMostOne(Append(up, f), "request", q)
      /\ HasNumber(Append(up, f), "request", q, a)
      /\ Below(Append(up, f), q, a)
  <2>1. f.kind # "result"
    BY <1>3
  <2>2. Has(Append(up, f), "result", q) <=> Has(up, "result", q)
    BY <1>3, <2>1, OneMore
  <2>3. /\ ~Has(up, "request", q) => AtMostOne(Append(up, f), "request", q)
        /\ HasNumber(Append(up, f), "request", q, a)
    BY <1>3, OneMore
  <2>4. Below(up, q, a)
    <3>1. Below(up, q, requested[q])
      BY <1>6 DEF Dialogue
    <3>2. \A i \in 1 .. Len(up) : up[i].n \in 0 .. MaxCalls
      <4>1. \A i \in 1 .. Len(up) : up[i] \in Frames
        BY <1>3
      <4>2. QED
        BY <4>1 DEF Frames
    <3>3. QED
      BY <1>2, <3>1, <3>2 DEF Below
  <2>5. Below(Append(up, f), q, a)
    BY <1>2, <1>3, <2>4, OneMoreOrder
  <2>6. QED
    BY <2>2, <2>3, <2>5
<1>8. About(q)
  BY <1>1, <1>3, <1>5 DEF About, RInv, RequestsTypeOK
<1>9. Story(q, entry'[q], remote'[q], down', up')
  BY <1>1, <1>2, <1>5, <1>6, <1>7 DEF Story
<1>10. Dialogue(q, entry'[q], remote'[q], requested'[q], called'[q].sequence, called'[q].busy,
                down', up', Connected')
  <2>1. called[q].sequence \in Nat /\ called[q].sequence <= a
    BY <1>2, <1>6 DEF Dialogue, RInv, RequestsTypeOK
  <2>2. entry[q] = "open" => InSequence(q, "asking", a, called[q].sequence, called[q].busy, down, up')
    BY <1>1, <1>2, <1>4, <1>5, <1>6, <1>7 DEF Dialogue, InSequence
  <2> HIDE DEF a, f
  <2>3. QED
    BY <1>1, <1>2, <1>5, <1>7, <2>1, <2>2 DEF Dialogue
<1>11. OneAtATime'
  BY <1>1 DEF RInv, OneAtATime, RequestsTypeOK, Requests
<1>12. Linked'
  BY <1>1, <1>4 DEF RInv, Linked, online
<1>13. /\ remote' \in [Requests -> {"none", "working", "asking", "stopping", "over"}]
       /\ requested' \in [Sources -> 0 .. MaxCalls]
  BY <1>1, <1>2 DEF RInv, RequestsTypeOK
<1>14. QED
  BY <1>1, <1>8, <1>9, <1>10, <1>11, <1>12, <1>13, StepAbout
     DEF RInv, RequestsTypeOK, SourceStaysOnConnection, online

LEMMA EndStep ==
  ASSUME RInv, RequestsApart, NEW q \in Requests, HostEnds(q)
  PROVE  RInv'
<1> DEFINE f == Frame("result", q, 0)
<1>1. /\ remote[q] # "none" /\ remote' = [remote EXCEPT ![q] = "over"]
      /\ UNCHANGED <<link, sink, made, entry, via, answer, called, down, requested>>
  BY DEF HostEnds, HostStep, linkVars
<1>2. up' = up \/ (Connected /\ up' = Append(up, f))
  BY DEF HostEnds, Reply, Connected
<1>3. /\ down \in Seq(Frames) /\ up \in Seq(Frames) /\ up \in Seq(Upward)
      /\ f \in Frames /\ f \in Upward /\ f.req = q /\ f.kind = "result" /\ f.kind # "request"
  BY FramesAreFrames DEF RInv, Framed, Frame, Frames, Upward, RequestsApart
<1>4. Connected' = Connected /\ remote'[q] = "over"
  BY <1>1 DEF Connected, RInv, RequestsTypeOK
<1>5. /\ Story(q, entry[q], remote[q], down, up)
      /\ q \in Sources => Dialogue(q, entry[q], remote[q], requested[q], called[q].sequence,
                                   called[q].busy, down, up, Connected)
  BY DEF RInv, Stories, Dialogues
<1>6. About(q)
  BY <1>1, <1>2, <1>3 DEF About, RInv, RequestsTypeOK
<1>7. Story(q, entry'[q], remote'[q], down', up')
  BY <1>1, <1>4, <1>5 DEF Story
<1>8. ASSUME q \in Sources
      PROVE  Dialogue(q, entry'[q], remote'[q], requested'[q], called'[q].sequence, called'[q].busy,
                      down', up', Connected')
  <2>1. Below(up, q, requested[q])
    BY <1>5, <1>8 DEF Dialogue
  <2>2. Below(Append(up, f), q, requested[q])
    BY <1>3, <2>1, OneMoreOrder
  <2>3. QED
    BY <1>1, <1>2, <1>4, <1>5, <1>8, <2>1, <2>2 DEF Dialogue, InSequence
<1>9. OneAtATime'
  BY <1>1 DEF RInv, OneAtATime, RequestsTypeOK, Requests
<1>10. Linked'
  BY <1>1, <1>2, <1>4 DEF RInv, Linked, online, RequestsTypeOK, Requests
<1>11. remote' \in [Requests -> {"none", "working", "asking", "stopping", "over"}]
  BY <1>1 DEF RInv, RequestsTypeOK
<1>12. QED
  BY <1>1, <1>6, <1>7, <1>8, <1>9, <1>10, <1>11, StepAbout
     DEF RInv, RequestsTypeOK, SourceStaysOnConnection, online

LEMMA RequestsInitially ==
  ASSUME Init, RequestsApart
  PROVE  RInv
<1>1. RequestsTypeOK
  BY DEF Init, RequestsTypeOK, RequestsApart, Requests, Nothing
<1>2. Framed /\ Linked /\ SourceStaysOnConnection /\ OneAtATime
  BY DEF Init, Framed, Linked, SourceStaysOnConnection, OneAtATime, Connected, online,
         RequestsApart, Requests
<1>3. Stories
  BY NoFrames DEF Init, Stories, Story
<1>4. Dialogues
  BY NoFrames, SMTT(30) DEF Init, Dialogues, Dialogue, InSequence, Requests
<1>5. QED
  BY <1>1, <1>2, <1>3, <1>4 DEF RInv

LEMMA RequestsStep ==
  ASSUME RInv, RequestsApart, [Next]_requestVars
  PROVE  RInv'
<1>1. CASE UNCHANGED requestVars
  BY <1>1 DEF requestVars, RInv, RequestsTypeOK, Framed, Linked, Stories, Dialogues, Connected,
              SourceStaysOnConnection, OneAtATime, online
<1>2. CASE \E q \in Requests : Open(q) \/ TimesOut(q) \/ Close(q) \/ HostEnds(q)
  BY <1>2, OpenStep, TimeOutStep, EndStep
<1>3. CASE \E q \in Sources : BrokerAnswers(q) \/ HostAsks(q)
  BY <1>3, BrokerStep, AskStep
<1>4. CASE receiveResult \/ receiveSourceRequest \/ HostReceives
  BY <1>4, ResultStep, SourceRequestStep, ReceiveStep
<1>5. CASE LinkLost \/ Reconnect \/ registerConnection \/ unregisterConnection
  BY <1>5, LossStep, ReconnectStep, RegisterStep
<1>6. QED
  BY <1>1, <1>2, <1>3, <1>4, <1>5 DEF Next

LEMMA RequestsAgree ==
  ASSUME RInv, RequestsApart
  PROVE  SidesInStep
<1>1. NothingGoesOnUnheard
  <2>1. ASSUME NEW q \in Sessions \union Sources, entry[q] = "done", remote[q] \in {"working", "asking"}
        PROVE  Has(down, "cancel", q)
    <3>1. q \in Requests /\ q \notin Tools
      BY DEF Requests, RequestsApart
    <3>2. QED
      BY <2>1, <3>1 DEF RInv, Stories, Story
  <2>2. QED
    BY <2>1 DEF NothingGoesOnUnheard, Has, IsAt
<1>2. CallsInStep
  <2>1. SUFFICES ASSUME NEW q \in Sources, entry[q] = "open"
                 PROVE  /\ called[q].sequence <= requested[q]
                        /\ remote[q] = "working" /\ sink = link =>
                             called[q].sequence = requested[q] /\ ~called[q].busy
    BY DEF CallsInStep
  <2>2. q \in Requests /\ online
    BY <2>1 DEF Requests, RInv, Linked
  <2>3. Dialogue(q, entry[q], remote[q], requested[q], called[q].sequence, called[q].busy,
                 down, up, Connected)
    BY DEF RInv, Dialogues
  <2>4. sink = link => Connected
    BY <2>2 DEF online, Connected
  <2>5. QED
    BY <2>1, <2>3, <2>4 DEF Dialogue, InSequence
<1>3. OneToolOperation
  <2> DEFINE W == {q \in Tools : remote[q] = "working"}
  <2>1. CASE W = {}
    BY <2>1, FS_EmptySet DEF OneToolOperation
  <2>2. CASE W # {}
    <3>1. PICK q \in W : TRUE
      BY <2>2
    <3>2. W = {q}
      BY <3>1 DEF RInv, OneAtATime
    <3>3. Cardinality(W) = 1
      BY <3>2, FS_Singleton
    <3>4. QED
      BY <3>3 DEF OneToolOperation
  <2>3. QED
    BY <2>1, <2>2
<1>4. QED
  BY <1>1, <1>2, <1>3 DEF SidesInStep, RInv

(* What is asked of a host besides Runs stays in step, for any requests, any *)
(* number of calls and any number of losses (connectionRegistry.ts:430-483,  *)
(* 696-1330).                                                                *)
THEOREM RequestsStayInStep ==
  ASSUME RequestsApart
  PROVE  Spec => []SidesInStep
<1>1. Init => RInv
  BY RequestsInitially
<1>2. RInv /\ [Next]_requestVars => RInv'
  BY RequestsStep
<1>3. RInv => SidesInStep
  BY RequestsAgree
<1>4. QED
  BY <1>1, <1>2, <1>3, PTL DEF Spec
=============================================================================
