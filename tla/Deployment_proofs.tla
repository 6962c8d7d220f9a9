-------------------------- MODULE Deployment_proofs --------------------------
(***************************************************************************)
(* Theorems about the job rows of instance updates, for any jobs,          *)
(* deployers, stages and bounds on losses and deaths.                      *)
(*                                                                         *)
(* A report may be handled long after it was sent, and by a row that moved *)
(* on.  The invariant says what each report on its way may still do:       *)
(* nothing, for its event is recorded, or be the one next event of its     *)
(* job's story; and ties it to what the deployer that sent it does now.    *)
(***************************************************************************)
EXTENDS Deployment, TLAPS

(* The requests on their way, each with its type. *)
BeatRequest == [kind : {"beat"}, from : Deployers, open : BOOLEAN]
EventRequest ==
  [kind : {"event"}, from : Deployers, open : BOOLEAN, job : Jobs, event : Event, terminal : BOOLEAN]

SentFor(j) == {r \in net : r.kind = "event" /\ r.job = j}
EventOf(w) == [at |-> w.at, said |-> w.said]

(* A stage's report that ends its job. *)
Closes(j, e) == e.said = "succeeded" /\ e.at = Len(Stages(j))

RequestsAreTyped ==
  \A r \in net :
    /\ r \in BeatRequest \cup EventRequest
    /\ r.kind = "event" => /\ r.event.at \in 1 .. Len(Stages(r.job))
                           /\ r.terminal = Closes(r.job, r.event)

(* Whoever sent an open request waits for it. *)
OpenIsAwaited ==
  \A r \in net : r.open =>
    /\ r.kind = "beat" => deployer[r.from].pc = "beating"
    /\ r.kind = "event" => deployer[r.from].pc = "reporting" /\ r = Report(deployer[r.from], r.from)

OneActive == \A i, j \in Jobs : jobs[i].status \in Active /\ jobs[j].status \in Active => i = j

(* A deployer executes a job it was handed, in a stage of it. *)
ExecutesItsOwn ==
  \A d \in Deployers : LET w == deployer[d] IN
    /\ w.job # None <=> w.pc \in {"reporting", "working"}
    /\ w.job # None => jobs[w.job].by = d /\ w.at \in 1 .. Len(Stages(w.job))
    /\ w.pc = "working" => w.said = "started"

(* A job that nobody was handed has no history. *)
UntouchedIsBlank ==
  \A j \in Jobs : jobs[j].status \in {"none", "queued", "cancelled"} =>
    /\ jobs[j].by = None /\ jobs[j].events = <<>> /\ executed[j] = 0 /\ SentFor(j) = {}

(* Where in its job's story an event stands, and the event that is due. *)
Place(e) == IF e.said = "started" THEN 2 * e.at - 1 ELSE 2 * e.at
Told(j) == jobs[j].events
Unbroken(j) == \A i \in DOMAIN Told(j) : Told(j)[i] = Story(j)[i]
IsDueNext(j, e) == Unbroken(j) /\ Place(e) = Len(Told(j)) + 1
IsLatest(j, e) == Len(Told(j)) = Place(e) /\ Told(j)[Len(Told(j))] = e

(* A report on its way is recorded or due, and of those due for a job      *)
(* there is one event; a success was executed.                             *)
ReportsAreDue ==
  /\ \A r \in net : r.kind = "event" =>
       \/ Recorded(r.job, r.event)
       \/ /\ IsDueNext(r.job, r.event)
          /\ r.event.said = "succeeded" => executed[r.job] = r.event.at
  /\ \A r, s \in net :
       (/\ r.kind = "event" /\ s.kind = "event" /\ r.job = s.job
        /\ ~Recorded(r.job, r.event) /\ ~Recorded(s.job, s.event)) => r.event = s.event

(* What a deployer does agrees with the story so far and with what is on   *)
(* its way.                                                                *)
DeployersAgree ==
  \A d \in Deployers : LET w == deployer[d] IN w.job # None =>
    /\ IF w.pc = "working" THEN IsLatest(w.job, EventOf(w))
       ELSE IsLatest(w.job, EventOf(w)) \/ IsDueNext(w.job, EventOf(w))
    /\ executed[w.job] = IF w.said = "succeeded" THEN w.at ELSE w.at - 1
    /\ \A r \in net : r.kind = "event" /\ r.job = w.job =>
         Recorded(r.job, r.event) \/ (w.pc = "reporting" /\ r.event = EventOf(w))

(* Unless late heartbeats are handled, a job that is executed is running:  *)
(* no sweep, no other deployer's beat ends it.                             *)
Proceeds(w) ==
  \/ w.pc = "working"
  \/ /\ w.pc = "reporting" /\ Recorded(w.job, EventOf(w))
     /\ w.said # "failed" /\ ~Closes(w.job, EventOf(w))
ExecutedIsRunning ==
  ~setting.late => \A d \in Deployers : Proceeds(deployer[d]) => jobs[deployer[d].job].status = "running"

IInv ==
  /\ TypeOK /\ RequestsAreTyped /\ OpenIsAwaited /\ OneActive /\ ExecutesItsOwn
  /\ UntouchedIsBlank /\ EventsInOrder /\ ReportsAreDue /\ DeployersAgree
  /\ SucceededMeansDone /\ ExecutedIsRunning

-----------------------------------------------------------------------------
(* What the types give. *)

LEMMA SettingFields ==
  ASSUME TypeOK
  PROVE  /\ setting.late \in BOOLEAN /\ setting.limit \in BOOLEAN
         /\ setting.lost \in Nat /\ setting.deaths \in Nat
         /\ setting.deployers \subseteq Deployers
         /\ Len(UpdateStages) \in Nat \ {0}
         /\ \A j \in Jobs : /\ Len(Stages(j)) \in Nat \ {0} /\ Len(Stages(j)) <= Len(UpdateStages)
                            /\ j # None
<1>1. setting \in Settings
  BY DEF TypeOK
<1>2. UpdateStages \in Seq(STRING) /\ Len(UpdateStages) > 0
  BY <1>1, DeploymentAssumption DEF UpdateStages
<1>3. Len(UpdateStages) \in Nat \ {0}
  BY <1>2
<1>4. Len(<<"remote_check">>) = 1
  OBVIOUS
<1>5. QED
  BY <1>1, <1>3, <1>4, DeploymentAssumption DEF Stages, None

LEMMA RowFields ==
  ASSUME TypeOK, NEW j \in Jobs
  PROVE  /\ jobs[j] \in [status : Statuses, by : Deployers \cup {None}, events : Seq(Event)]
         /\ jobs[j].status \in Statuses /\ jobs[j].by \in Deployers \cup {None}
         /\ jobs[j].events \in Seq(Event) /\ Len(jobs[j].events) \in Nat
         /\ DOMAIN jobs[j].events = 1 .. Len(jobs[j].events)
         /\ executed[j] \in Nat
BY DEF TypeOK

LEMMA DeployerFields ==
  ASSUME TypeOK, NEW d \in Deployers
  PROVE  /\ deployer[d].pc \in {"down", "idle", "beating", "reporting", "working"}
         /\ deployer[d].job \in Jobs \cup {None} /\ deployer[d].at \in 0 .. Len(UpdateStages)
         /\ deployer[d].said \in {"started", "succeeded", "failed"}
         /\ deployer[d] \in [pc : {"down", "idle", "beating", "reporting", "working"},
                             job : Jobs \cup {None}, at : 0 .. Len(UpdateStages),
                             said : {"started", "succeeded", "failed"}]
BY DEF TypeOK

LEMMA EventFields ==
  ASSUME RequestsAreTyped, NEW r \in net
  PROVE  /\ r.kind \in {"beat", "event"} /\ r.from \in Deployers /\ r.open \in BOOLEAN
         /\ r.kind = "event" => /\ r.job \in Jobs /\ r.event \in Event
                                /\ r.event.at \in 1 .. Len(Stages(r.job))
                                /\ r.event.said \in {"started", "succeeded", "failed"}
                                /\ r.terminal = Closes(r.job, r.event)
BY DEF RequestsAreTyped, BeatRequest, EventRequest, Event

(* An event in its place of the story: as the story has it, or a failure.  *)
LEMMA StoryPlaces ==
  ASSUME TypeOK, NEW j \in Jobs, NEW e \in Event, e.at \in 1 .. Len(Stages(j))
  PROVE  /\ Place(e) \in 1 .. Len(Story(j)) /\ Len(Story(j)) = 2 * Len(Stages(j))
         /\ e.said # "failed" => e = Story(j)[Place(e)]
         /\ e.said = "failed" => Place(e) % 2 = 0 /\ e = [Story(j)[Place(e)] EXCEPT !.said = "failed"]
         /\ e.said = "started" <=> Place(e) % 2 = 1
<1>1. Len(Stages(j)) \in Nat /\ e.at \in Nat
  BY SettingFields
<1>2. Len(Story(j)) = 2 * Len(Stages(j))
  BY <1>1 DEF Story
<1>3. Place(e) \in 1 .. 2 * Len(Stages(j))
  BY <1>1 DEF Place
<1>4. Story(j)[Place(e)] = [at |-> (Place(e) + 1) \div 2,
                            said |-> IF Place(e) % 2 = 1 THEN "started" ELSE "succeeded"]
  BY <1>3 DEF Story
<1>5. /\ (Place(e) + 1) \div 2 = e.at
      /\ e.said = "started" <=> Place(e) % 2 = 1
      /\ Place(e) % 2 = 0 \/ Place(e) % 2 = 1
  BY <1>1 DEF Place
<1>6. e = [at |-> e.at, said |-> e.said] /\ e.said \in {"started", "succeeded", "failed"}
  BY DEF Event
<1>7. QED
  BY <1>2, <1>3, <1>4, <1>5, <1>6

-----------------------------------------------------------------------------
(* A step that moves at most one deployer. *)

Blank == {"none", "queued", "cancelled"}

(* A request that is on its way, or was and has been given up.             *)
Echoes(r, s) == r = s \/ r = [s EXCEPT !.open = FALSE]

(* Deployer d goes on to w: it executes nothing, or is to report what is    *)
(* due next or has just been recorded.                                      *)
MayGoOn(d, w) ==
  \/ w.job = None /\ w.pc \in {"idle", "down", "beating"}
  \/ /\ w.job \in Jobs /\ w.pc \in {"reporting", "working"} /\ jobs'[w.job].by = d
     /\ w.at \in 1 .. Len(Stages(w.job)) /\ EventOf(w) \in Event
     /\ IF w.pc = "working" THEN IsLatest(w.job, EventOf(w))' /\ w.said = "started"
        ELSE IsLatest(w.job, EventOf(w))' \/ IsDueNext(w.job, EventOf(w))'
     /\ executed'[w.job] = IF w.said = "succeeded" THEN w.at ELSE w.at - 1
     /\ \A s \in net : s.kind = "event" /\ s.job = w.job =>
          Recorded(w.job, s.event)' \/ (w.pc = "reporting" /\ s.event = EventOf(w))

(* What it asks of the rows: histories only grow, and when one grows all    *)
(* that is on its way for that job is recorded; nobody else loses his job.  *)
RowsGoOn(d, w) ==
  /\ \A j \in Jobs :
       /\ \A e \in Event : Recorded(j, e) => Recorded(j, e)'
       /\ \/ jobs'[j].events = jobs[j].events
          \/ \A s \in net : s.kind = "event" /\ s.job = j => Recorded(j, s.event)'
       /\ jobs[j].by # None => jobs'[j].by = jobs[j].by
       /\ jobs'[j].status \in Blank =>
            jobs[j].status \in Blank /\ jobs'[j].by = None /\ jobs'[j].events = jobs[j].events
       /\ j # w.job => executed'[j] = executed[j]
  /\ w.job # None /\ executed'[w.job] # executed[w.job] =>
       \A s \in net : s.kind = "event" /\ s.job = w.job => Recorded(w.job, s.event)'
  /\ \A x \in Deployers \ {d} : \A v \in {deployer[x]} : v.job # None =>
       IF v.pc = "working" THEN IsLatest(v.job, EventOf(v))'
       ELSE IsLatest(v.job, EventOf(v))' \/ IsDueNext(v.job, EventOf(v))'

(* What becomes of the requests: they are handled, lost or given up, and d  *)
(* may send one.                                                            *)
NetGoesOn(d, w) ==
  \A r \in net' :
    \/ (\E s \in net : Echoes(r, s)) /\ (r.open => r.from # d \/ w = deployer[d])
    \/ r = [kind |-> "beat", from |-> d, open |-> TRUE] /\ w.pc = "beating"
    \/ r = Report(w, d) /\ w.pc = "reporting"

LEMMA MovingOn ==
  ASSUME IInv, TypeOK', setting' = setting, NEW d \in Deployers, NEW w,
         deployer' = [deployer EXCEPT ![d] = w],
         MayGoOn(d, w), RowsGoOn(d, w), NetGoesOn(d, w)
  PROVE  /\ RequestsAreTyped' /\ OpenIsAwaited' /\ ExecutesItsOwn' /\ UntouchedIsBlank'
         /\ ReportsAreDue' /\ DeployersAgree'
<1> USE DEF IInv
<1>1. /\ \A j : Stages(j)' = Stages(j)
      /\ deployer'[d] = w /\ \A x \in Deployers : x # d => deployer'[x] = deployer[x]
      /\ None \notin Deployers /\ None \notin Jobs
  BY DeploymentAssumption DEF TypeOK, Stages, UpdateStages, None
<1>2. ASSUME NEW r \in net', NEW s \in net, Echoes(r, s)
      PROVE  /\ r \in BeatRequest \cup EventRequest
             /\ s.kind = r.kind /\ s.from = r.from /\ r.kind \in {"beat", "event"}
             /\ r.from \in Deployers /\ r.open \in BOOLEAN /\ (r.open => r = s)
             /\ r.kind = "event" => /\ s.job = r.job /\ s.event = r.event /\ s.job \in Jobs
                                    /\ r.event \in Event /\ s.terminal = r.terminal
                                    /\ s.event.at \in 1 .. Len(Stages(s.job))
                                    /\ s.terminal = Closes(s.job, s.event)
  <2>1. CASE s \in BeatRequest
    BY <1>2, <2>1 DEF Echoes, BeatRequest
  <2>2. CASE s \in EventRequest
    <3>1. r \in EventRequest
      BY <1>2, <2>2 DEF Echoes, EventRequest
    <3>2. /\ s.kind = r.kind /\ s.from = r.from /\ s.job = r.job /\ s.event = r.event
          /\ s.terminal = r.terminal /\ (r.open => r = s)
      BY <1>2, <2>2 DEF Echoes, EventRequest
    <3>3. QED
      BY <3>1, <3>2 DEF EventRequest, RequestsAreTyped
  <2>3. QED
    BY <2>1, <2>2 DEF RequestsAreTyped
<1>3. ASSUME w.pc = "reporting"
      PROVE  LET r == Report(w, d) IN
             /\ r \in EventRequest /\ r.kind = "event" /\ r.job = w.job /\ r.from = d
             /\ r.event = EventOf(w) /\ r.event.at = w.at
             /\ r.terminal = Closes(w.job, r.event)
  BY <1>3 DEF MayGoOn, Report, EventOf, EventRequest, Closes, Event
<1>4. RequestsAreTyped'
  <2> SUFFICES ASSUME NEW r \in net'
               PROVE  /\ r \in BeatRequest \cup EventRequest
                      /\ r.kind = "event" => /\ r.event.at \in 1 .. Len(Stages(r.job))
                                             /\ r.terminal = Closes(r.job, r.event)
    BY <1>1 DEF RequestsAreTyped, BeatRequest, EventRequest, Closes
  <2>1. CASE \E s \in net : Echoes(r, s)
    BY <1>2, <2>1
  <2>2. CASE r = [kind |-> "beat", from |-> d, open |-> TRUE]
    BY <2>2 DEF BeatRequest
  <2>3. CASE r = Report(w, d) /\ w.pc = "reporting"
    BY <1>3, <2>3 DEF MayGoOn
  <2>4. QED
    BY <2>1, <2>2, <2>3 DEF NetGoesOn
<1>5. OpenIsAwaited'
  <2> SUFFICES ASSUME NEW r \in net', r.open
               PROVE  /\ r.kind = "beat" => deployer'[r.from].pc = "beating"
                      /\ r.kind = "event" => /\ deployer'[r.from].pc = "reporting"
                                             /\ r = Report(deployer[r.from], r.from)'
    BY DEF OpenIsAwaited
  <2>1. CASE \E s \in net : Echoes(r, s) /\ (r.from # d \/ w = deployer[d])
    <3>1. r \in net /\ r.from \in Deployers /\ deployer'[r.from] = deployer[r.from]
      BY <1>1, <1>2, <2>1
    <3>2. Report(deployer[r.from], r.from)' = Report(deployer[r.from], r.from)
      BY <1>1, <3>1 DEF Report
    <3>3. QED
      BY <1>1, <3>1, <3>2 DEF OpenIsAwaited
  <2>2. CASE r = [kind |-> "beat", from |-> d, open |-> TRUE] /\ w.pc = "beating"
    BY <1>1, <2>2
  <2>3. CASE r = Report(w, d) /\ w.pc = "reporting"
    <3>1. Report(deployer[d], d)' = Report(w, d)
      BY <1>1 DEF Report
    <3>2. QED
      BY <1>1, <1>3, <2>3, <3>1
  <2>4. QED
    BY <2>1, <2>2, <2>3 DEF NetGoesOn
<1>6. ExecutesItsOwn'
  <2> SUFFICES ASSUME NEW x \in Deployers
               PROVE  LET v == deployer'[x] IN
                      /\ v.job # None <=> v.pc \in {"reporting", "working"}
                      /\ v.job # None => /\ jobs'[v.job].by = x
                                         /\ v.at \in 1 .. Len(Stages(v.job))
                      /\ v.pc = "working" => v.said = "started"
    BY <1>1 DEF ExecutesItsOwn
  <2>1. CASE x = d
    BY <1>1, <2>1 DEF MayGoOn
  <2>2. CASE x # d
    <3>1. deployer'[x] = deployer[x] /\ deployer[x].job \in Jobs \cup {None}
      BY <1>1, <2>2, DeployerFields
    <3>2. deployer[x].job # None => jobs'[deployer[x].job].by = x
      BY <1>1, <3>1 DEF ExecutesItsOwn, RowsGoOn
    <3>3. QED
      BY <3>1, <3>2 DEF ExecutesItsOwn
  <2>3. QED
    BY <2>1, <2>2
<1>7. ASSUME NEW j \in Jobs, NEW x \in Deployers, x # d, deployer[x].job = j
      PROVE  j # w.job
  <2>1. jobs'[j].by = x
    BY <1>1, <1>7 DEF ExecutesItsOwn, RowsGoOn
  <2>2. QED
    BY <1>1, <1>7, <2>1 DEF MayGoOn
<1>8. UntouchedIsBlank'
  <2> SUFFICES ASSUME NEW j \in Jobs, jobs'[j].status \in Blank
               PROVE  /\ jobs'[j].by = None /\ jobs'[j].events = <<>> /\ executed'[j] = 0
                      /\ \A r \in net' : ~(r.kind = "event" /\ r.job = j)
    BY DEF UntouchedIsBlank, SentFor, Blank
  <2>1. /\ jobs[j].events = <<>> /\ executed[j] = 0 /\ jobs'[j].by = None
        /\ jobs'[j].events = jobs[j].events
        /\ \A s \in net : ~(s.kind = "event" /\ s.job = j)
    BY DEF UntouchedIsBlank, SentFor, Blank, RowsGoOn
  <2>2. j # w.job
    BY <1>1, <2>1 DEF MayGoOn
  <2>3. executed'[j] = 0
    BY <2>1, <2>2 DEF RowsGoOn
  <2>4. ASSUME NEW r \in net', r.kind = "event", r.job = j
        PROVE  FALSE
    <3>1. CASE \E s \in net : Echoes(r, s)
      BY <1>2, <2>1, <2>4, <3>1
    <3>2. CASE r = [kind |-> "beat", from |-> d, open |-> TRUE]
      BY <2>4, <3>2
    <3>3. CASE r = Report(w, d) /\ w.pc = "reporting"
      BY <1>3, <2>2, <2>4, <3>3
    <3>4. QED
      BY <3>1, <3>2, <3>3 DEF NetGoesOn
  <2>5. QED
    BY <2>1, <2>3, <2>4
<1>9. /\ \A j \in Jobs, e \in Event : /\ Recorded(j, e) => Recorded(j, e)'
                                      /\ IsLatest(j, e)' /\ Place(e) >= 1 => Recorded(j, e)'
      /\ \A j \in Jobs, e \in Event : jobs'[j].events = jobs[j].events =>
           (IsDueNext(j, e) => IsDueNext(j, e)')
  <2>1. ASSUME NEW j \in Jobs
        PROVE  DOMAIN jobs'[j].events = 1 .. Len(jobs'[j].events) /\ Len(jobs'[j].events) \in Nat
    BY SMTT(30) DEF TypeOK
  <2>2. \A j \in Jobs, e \in Event : IsLatest(j, e)' /\ Place(e) >= 1 => Recorded(j, e)'
    BY <2>1 DEF IsLatest, Told, Recorded
  <2>3. \A j : Story(j)' = Story(j)
    BY <1>1 DEF Story
  <2>4. \A j \in Jobs, e \in Event : jobs'[j].events = jobs[j].events =>
           (IsDueNext(j, e) => IsDueNext(j, e)')
    BY <2>3 DEF IsDueNext, Unbroken, Told
  <2>5. QED
    BY <2>2, <2>4 DEF RowsGoOn
<1>10. ASSUME w.pc = "reporting"
       PROVE  Place(EventOf(w)) >= 1 /\ EventOf(w) \in Event
  BY <1>10, SettingFields DEF MayGoOn, Place, EventOf
<1>11. ASSUME NEW r \in net', r.kind = "event"
       PROVE  \/ Recorded(r.job, r.event)'
              \/ IsDueNext(r.job, r.event)'
                 /\ (r.event.said = "succeeded" => executed'[r.job] = r.event.at)
  <2>1. ASSUME NEW s \in net, Echoes(r, s)
        PROVE  \/ Recorded(s.job, s.event)'
               \/ IsDueNext(s.job, s.event)'
                  /\ (s.event.said = "succeeded" => executed'[s.job] = s.event.at)
    <3>1. s.kind = "event" /\ s.job \in Jobs /\ s.event \in Event
      BY <1>2, <1>11, <2>1
    <3>2. CASE Recorded(s.job, s.event) \/ jobs'[s.job].events # jobs[s.job].events
      BY <1>9, <3>1, <3>2 DEF RowsGoOn
    <3>3. CASE ~Recorded(s.job, s.event) /\ jobs'[s.job].events = jobs[s.job].events
      <4>1. IsDueNext(s.job, s.event)'
        BY <1>9, <3>1, <3>3 DEF ReportsAreDue
      <4>2. executed'[s.job] = executed[s.job] \/ Recorded(s.job, s.event)'
        BY <1>1, <3>1 DEF RowsGoOn
      <4>3. QED
        BY <3>1, <3>3, <4>1, <4>2 DEF ReportsAreDue
    <3>4. QED
      BY <3>2, <3>3
  <2>2. CASE \E s \in net : Echoes(r, s)
    BY <1>2, <1>11, <2>1, <2>2
  <2>3. CASE r = Report(w, d) /\ w.pc = "reporting"
    <3>1. r.job = w.job /\ w.job \in Jobs /\ r.event = EventOf(w)
      BY <1>3, <2>3 DEF MayGoOn
    <3>2. IsLatest(w.job, EventOf(w))' \/ IsDueNext(w.job, EventOf(w))'
      BY <2>3 DEF MayGoOn
    <3>3. EventOf(w).said = "succeeded" => executed'[w.job] = EventOf(w).at
      BY <2>3 DEF MayGoOn, EventOf
    <3>4. QED
      BY <1>9, <1>10, <2>3, <3>1, <3>2, <3>3
  <2>4. QED
    BY <1>11, <2>2, <2>3 DEF NetGoesOn
<1>12. ASSUME NEW r \in net', NEW s \in net', r.kind = "event", s.kind = "event", r.job = s.job,
              ~Recorded(r.job, r.event)', ~Recorded(s.job, s.event)'
       PROVE  r.event = s.event
  <2>1. ASSUME NEW t \in net, NEW u \in net, Echoes(r, t), Echoes(s, u)
        PROVE  r.event = s.event
    <3>1. /\ t.kind = "event" /\ u.kind = "event" /\ t.job = u.job /\ t.job \in Jobs
          /\ t.event = r.event /\ u.event = s.event /\ t.event \in Event /\ u.event \in Event
          /\ t.job = r.job /\ u.job = s.job
      BY <1>2, <1>12, <2>1
    <3>2. ~Recorded(t.job, t.event) /\ ~Recorded(u.job, u.event)
      BY <1>9, <1>12, <3>1
    <3>3. QED
      BY <3>1, <3>2 DEF ReportsAreDue
  <2>2. ASSUME NEW q \in net', NEW t \in net, Echoes(q, t), q.kind = "event", q.job = w.job,
               w.pc = "reporting", ~Recorded(q.job, q.event)'
        PROVE  q.event = EventOf(w)
    BY <1>2, <2>2 DEF MayGoOn
  <2>3. ASSUME NEW q \in net', q.kind = "event"
        PROVE  (\E t \in net : Echoes(q, t)) \/ (q = Report(w, d) /\ w.pc = "reporting")
    BY <2>3 DEF NetGoesOn
  <2>4. QED
    BY <1>3, <1>12, <2>1, <2>2, <2>3
<1>13. ReportsAreDue'
  BY <1>11, <1>12 DEF ReportsAreDue
<1>14. DeployersAgree'
  <2> SUFFICES ASSUME NEW x \in Deployers, NEW v, v = deployer'[x], v.job # None
               PROVE  /\ IF v.pc = "working" THEN IsLatest(v.job, EventOf(v))'
                         ELSE IsLatest(v.job, EventOf(v))' \/ IsDueNext(v.job, EventOf(v))'
                      /\ executed'[v.job] = IF v.said = "succeeded" THEN v.at ELSE v.at - 1
                      /\ \A r \in net' : r.kind = "event" /\ r.job = v.job =>
                           Recorded(r.job, r.event)' \/ (v.pc = "reporting" /\ r.event = EventOf(v))
    BY DEF DeployersAgree, EventOf
  <2>1. CASE x = d
    <3>1. v = w /\ w.job \in Jobs /\ w.pc \in {"reporting", "working"}
      BY <1>1, <2>1 DEF MayGoOn
    <3>2. ASSUME NEW r \in net', r.kind = "event", r.job = w.job
          PROVE  Recorded(r.job, r.event)' \/ (w.pc = "reporting" /\ r.event = EventOf(w))
      <4>1. CASE \E s \in net : Echoes(r, s)
        BY <1>1, <1>2, <3>1, <3>2, <4>1 DEF MayGoOn
      <4>2. CASE r = Report(w, d) /\ w.pc = "reporting"
        BY <1>3, <4>2
      <4>3. QED
        BY <3>2, <4>1, <4>2 DEF NetGoesOn
    <3>3. QED
      BY <1>1, <3>1, <3>2 DEF MayGoOn
  <2>2. CASE x # d
    <3>1. v = deployer[x] /\ v.job \in Jobs /\ v.job # w.job
      BY <1>1, <1>7, <2>2, DeployerFields
    <3>2. executed'[v.job] = IF v.said = "succeeded" THEN v.at ELSE v.at - 1
      BY <3>1 DEF RowsGoOn, DeployersAgree
    <3>3. ASSUME NEW r \in net', r.kind = "event", r.job = v.job
          PROVE  Recorded(r.job, r.event)' \/ (v.pc = "reporting" /\ r.event = EventOf(v))
      <4>1. PICK s \in net : Echoes(r, s)
        BY <1>3, <3>1, <3>3 DEF NetGoesOn
      <4>2. Recorded(s.job, s.event) \/ (v.pc = "reporting" /\ s.event = EventOf(v))
        BY <1>2, <3>1, <3>3, <4>1 DEF DeployersAgree
      <4>3. QED
        BY <1>2, <1>9, <3>3, <4>1, <4>2
    <3>4. QED
      BY <2>2, <3>1, <3>2, <3>3 DEF RowsGoOn
  <2>3. QED
    BY <2>1, <2>2
<1>15. QED
  BY <1>4, <1>5, <1>6, <1>8, <1>13, <1>14

(* A step that leaves every deployer at what it does.                       *)
RowsStandBy ==
  /\ \A j \in Jobs :
       /\ \A e \in Event : Recorded(j, e) => Recorded(j, e)'
       /\ \/ jobs'[j].events = jobs[j].events
          \/ \A s \in net : s.kind = "event" /\ s.job = j => Recorded(j, s.event)'
       /\ jobs[j].by # None => jobs'[j].by = jobs[j].by
       /\ jobs'[j].status \in Blank =>
            jobs[j].status \in Blank /\ jobs'[j].by = None /\ jobs'[j].events = jobs[j].events
  /\ \A x \in Deployers : \A v \in {deployer[x]} : v.job # None =>
       IF v.pc = "working" THEN IsLatest(v.job, EventOf(v))'
       ELSE IsLatest(v.job, EventOf(v))' \/ IsDueNext(v.job, EventOf(v))'

LEMMA StandingBy ==
  ASSUME IInv, TypeOK', setting' = setting, deployer' = deployer, executed' = executed,
         RowsStandBy, \A r \in net' : \E s \in net : Echoes(r, s)
  PROVE  /\ RequestsAreTyped' /\ OpenIsAwaited' /\ ExecutesItsOwn' /\ UntouchedIsBlank'
         /\ ReportsAreDue' /\ DeployersAgree'
<1>1. CASE Deployers = {}
  <2>1. net = {} /\ net' = {}
    BY <1>1, EventFields DEF IInv
  <2>2. UntouchedIsBlank'
    BY <2>1 DEF IInv, UntouchedIsBlank, SentFor, RowsStandBy, Blank
  <2>3. QED
    BY <1>1, <2>1, <2>2
       DEF RequestsAreTyped, OpenIsAwaited, ExecutesItsOwn, ReportsAreDue, DeployersAgree
<1>2. ASSUME NEW d \in Deployers
      PROVE  /\ RequestsAreTyped' /\ OpenIsAwaited' /\ ExecutesItsOwn' /\ UntouchedIsBlank'
             /\ ReportsAreDue' /\ DeployersAgree'
  <2> PICK w : w = deployer[d]
    OBVIOUS
  <2>1. deployer' = [deployer EXCEPT ![d] = w]
    BY DEF IInv, TypeOK
  <2>2. w.job \in Jobs \cup {None} /\ w.said \in {"started", "succeeded", "failed"}
        /\ w.pc \in {"down", "idle", "beating", "reporting", "working"}
    BY DeployerFields DEF IInv
  <2>3. ASSUME w.job # None
        PROVE  /\ w.job \in Jobs /\ w.pc \in {"reporting", "working"} /\ jobs'[w.job].by = d
               /\ w.at \in 1 .. Len(Stages(w.job)) /\ EventOf(w) \in Event
               /\ w.pc = "working" => w.said = "started"
    <3>1. w.job \in Jobs /\ w.pc \in {"reporting", "working"} /\ jobs[w.job].by = d
          /\ w.at \in 1 .. Len(Stages(w.job)) /\ (w.pc = "working" => w.said = "started")
      BY <2>2, <2>3 DEF IInv, ExecutesItsOwn
    <3>2. jobs'[w.job].by = d
      BY <3>1, DeploymentAssumption DEF RowsStandBy
    <3>3. EventOf(w) \in Event
      BY <2>2, <3>1, SettingFields DEF IInv, EventOf, Event
    <3>4. QED
      BY <3>1, <3>2, <3>3
  <2>4. ASSUME w.job # None, NEW s \in net, s.kind = "event", s.job = w.job
        PROVE  Recorded(w.job, s.event)' \/ (w.pc = "reporting" /\ s.event = EventOf(w))
    BY <2>3, <2>4, EventFields DEF IInv, DeployersAgree, RowsStandBy
  <2>5. MayGoOn(d, w)
    <3>1. CASE w.job = None
      BY <2>2, <3>1 DEF IInv, ExecutesItsOwn, MayGoOn
    <3>2. CASE w.job # None
      <4>1. executed'[w.job] = IF w.said = "succeeded" THEN w.at ELSE w.at - 1
        BY <3>2 DEF IInv, DeployersAgree
      <4>2. IF w.pc = "working" THEN IsLatest(w.job, EventOf(w))'
            ELSE IsLatest(w.job, EventOf(w))' \/ IsDueNext(w.job, EventOf(w))'
        BY <3>2 DEF RowsStandBy
      <4>3. QED
        BY <2>3, <2>4, <3>2, <4>1, <4>2 DEF MayGoOn
    <3>3. QED
      BY <3>1, <3>2
  <2>6. RowsGoOn(d, w)
    BY DEF RowsStandBy, RowsGoOn
  <2>7. NetGoesOn(d, w)
    BY DEF NetGoesOn
  <2>8. QED
    BY <2>1, <2>5, <2>6, <2>7, MovingOn
<1>3. QED
  BY <1>1, <1>2

-----------------------------------------------------------------------------
(* Events and their places. *)

(* EventsInOrder, of one job.                                               *)
InOrder(told, story) ==
  /\ Len(told) <= Len(story)
  /\ \A i \in DOMAIN told : \/ told[i] = story[i]
                            \/ /\ i = Len(told) /\ i % 2 = 0
                               /\ told[i] = [story[i] EXCEPT !.said = "failed"]

LEMMA OrderOfEach ==
  /\ EventsInOrder <=> \A j \in Jobs : InOrder(jobs[j].events, Story(j))
  /\ EventsInOrder' <=> \A j \in Jobs : InOrder(jobs'[j].events, Story(j)')
<1>1. EventsInOrder <=> \A j \in Jobs : InOrder(jobs[j].events, Story(j))
  BY DEF EventsInOrder, InOrder
<1>2. EventsInOrder' <=> \A j \in Jobs : InOrder(jobs'[j].events, Story(j)')
  BY DEF EventsInOrder, InOrder
<1>3. QED
  BY <1>1, <1>2

LEMMA DueIsUnseen ==
  ASSUME TypeOK, NEW j \in Jobs, NEW e \in Event, e.at \in 1 .. Len(Stages(j)), IsDueNext(j, e)
  PROVE  ~Recorded(j, e)
<1> SUFFICES ASSUME NEW i \in DOMAIN Told(j), Told(j)[i] = e
             PROVE  FALSE
  BY DEF Recorded, Told
<1>1. i \in 1 .. Len(Told(j)) /\ Len(Told(j)) \in Nat
  BY RowFields DEF Told
<1>2. Place(e) = Len(Told(j)) + 1 /\ e = Story(j)[i]
  BY DEF IsDueNext, Unbroken
<1>3. i \in 1 .. 2 * Len(Stages(j)) /\ Len(Stages(j)) \in Nat
  BY <1>1, <1>2, StoryPlaces, SettingFields
<1>4. e = [at |-> (i + 1) \div 2, said |-> IF i % 2 = 1 THEN "started" ELSE "succeeded"]
  BY <1>2, <1>3 DEF Story
<1>5. Place(e) = i
  BY <1>3, <1>4 DEF Place
<1>6. QED
  BY <1>1, <1>2, <1>5

(* After an event that is no failure, the next one of the story is due.     *)
LEMMA NextIsDue ==
  ASSUME TypeOK, EventsInOrder, NEW j \in Jobs, NEW e \in Event, NEW f,
         e.at \in 1 .. Len(Stages(j)), IsLatest(j, e), e.said # "failed", Place(f) = Place(e) + 1
  PROVE  IsDueNext(j, f) /\ Recorded(j, e)
<1>1. Len(Told(j)) \in Nat /\ DOMAIN Told(j) = 1 .. Len(Told(j)) /\ Len(Told(j)) = Place(e)
      /\ Told(j)[Len(Told(j))] = e
  BY RowFields DEF IsLatest, Told
<1>2. Place(e) \in 1 .. Len(Story(j)) /\ e = Story(j)[Place(e)]
  BY StoryPlaces
<1>3. \A i \in DOMAIN Told(j) : i # Len(Told(j)) => Told(j)[i] = Story(j)[i]
  BY DEF EventsInOrder, Told
<1>4. Unbroken(j)
  BY <1>1, <1>2, <1>3 DEF Unbroken
<1>5. Recorded(j, e)
  BY <1>1, <1>2 DEF Recorded, Told
<1>6. QED
  BY <1>1, <1>4, <1>5 DEF IsDueNext

(* A deployer has one request open at a time.                               *)
LEMMA OneOpen ==
  ASSUME RequestsAreTyped, OpenIsAwaited, NEW r \in net, NEW s \in net,
         r.open, s.open, r.from = s.from
  PROVE  r = s
<1>1. CASE r.kind = "beat"
  <2>1. s.kind = "beat"
    BY <1>1, EventFields DEF OpenIsAwaited
  <2>2. r \in BeatRequest /\ s \in BeatRequest
    BY <1>1, <2>1 DEF RequestsAreTyped, BeatRequest, EventRequest
  <2>3. QED
    BY <2>2 DEF BeatRequest
<1>2. CASE r.kind = "event"
  <2>1. s.kind = "event"
    BY <1>2, EventFields DEF OpenIsAwaited
  <2>2. QED
    BY <1>2, <2>1 DEF OpenIsAwaited
<1>3. QED
  BY <1>1, <1>2, EventFields

-----------------------------------------------------------------------------
(* The steps. *)

LEMMA InitEstablishes ==
  ASSUME Init
  PROVE  IInv
<1>1. setting \in Settings /\ setting.lost \in Nat /\ setting.deaths \in Nat /\ Len(UpdateStages) \in Nat
  BY DeploymentAssumption DEF Init, UpdateStages
<1>2. TypeOK
  <2>1. jobs \in [Jobs -> [status : Statuses, by : Deployers \cup {None}, events : Seq(Event)]]
    BY DEF Init, Statuses
  <2>2. deployer \in [Deployers -> [pc : {"down", "idle", "beating", "reporting", "working"},
                                    job : Jobs \cup {None}, at : 0 .. Len(UpdateStages),
                                    said : {"started", "succeeded", "failed"}]]
    BY <1>1 DEF Init, Idle
  <2>3. QED
    BY <1>1, <2>1, <2>2 DEF Init, TypeOK
<1>3. \A d \in Deployers : deployer[d].job = None /\ deployer[d].pc \in {"idle", "down"}
  BY DEF Init, Idle
<1>4. \A j \in Jobs : jobs[j].status = "none" /\ jobs[j].by = None /\ jobs[j].events = <<>>
  BY DEF Init
<1>5. RequestsAreTyped /\ OpenIsAwaited /\ ReportsAreDue /\ UntouchedIsBlank
  BY <1>4 DEF Init, RequestsAreTyped, OpenIsAwaited, ReportsAreDue, UntouchedIsBlank, SentFor
<1>6. OneActive /\ SucceededMeansDone
  BY <1>4 DEF OneActive, SucceededMeansDone, Active
<1>7. ExecutesItsOwn /\ DeployersAgree /\ ExecutedIsRunning
  BY <1>3 DEF ExecutesItsOwn, DeployersAgree, ExecutedIsRunning, Proceeds
<1>8. EventsInOrder
  <2>1. \A j \in Jobs : Len(Story(j)) \in Nat
    BY <1>2, SettingFields DEF Story
  <2>2. QED
    BY <1>4, <2>1 DEF EventsInOrder
<1>9. QED
  BY <1>2, <1>5, <1>6, <1>7, <1>8 DEF IInv

(* A row whose status changes and nothing else: a creation, a cancellation, *)
(* a sweep.                                                                 *)
LEMMA StatusChanges ==
  ASSUME IInv, NEW j \in Jobs, NEW st \in Statuses, jobs' = [jobs EXCEPT ![j].status = st],
         UNCHANGED <<setting, deployer, net, runs, executed, lost, deaths>>,
         st \in Blank => jobs[j].status \in Blank, st # "succeeded",
         st \in Active => \A i \in Jobs : i # j => jobs[i].status \notin Active,
         ~setting.late => \A d \in Deployers : Proceeds(deployer[d]) => deployer[d].job # j
  PROVE  IInv'
<1>1. TypeOK'
  BY ZenonT(30) DEF IInv, TypeOK, UpdateStages
<1>2. /\ \A i \in Jobs : /\ jobs'[i].events = jobs[i].events /\ jobs'[i].by = jobs[i].by
                         /\ i # j => jobs'[i] = jobs[i]
      /\ jobs'[j].status = st
      /\ \A i : Stages(i)' = Stages(i)
  BY DEF IInv, TypeOK, Stages, UpdateStages
<1>3. \A i \in Jobs, e \in Event : (Recorded(i, e)' <=> Recorded(i, e))
                                   /\ (IsLatest(i, e)' <=> IsLatest(i, e))
                                   /\ (IsDueNext(i, e)' <=> IsDueNext(i, e))
  BY <1>2, ZenonT(30) DEF Recorded, IsLatest, IsDueNext, Told, Unbroken, Story
<1>4. RowsStandBy
  <2>1. \A x \in Deployers : LET v == deployer[x] IN v.job # None =>
          v.job \in Jobs /\ EventOf(v) \in Event
    BY DeployerFields, SettingFields DEF IInv, ExecutesItsOwn, EventOf, Event
  <2>2. \A i \in Jobs : jobs'[i].status \in Blank => jobs[i].status \in Blank /\ jobs'[i].by = None
    BY <1>2 DEF IInv, UntouchedIsBlank, Blank
  <2>3. QED
    BY <1>2, <1>3, <2>1, <2>2 DEF RowsStandBy, IInv, DeployersAgree
<1>5. \A r \in net' : \E s \in net : Echoes(r, s)
  BY DEF Echoes
<1>6. /\ RequestsAreTyped' /\ OpenIsAwaited' /\ ExecutesItsOwn' /\ UntouchedIsBlank'
      /\ ReportsAreDue' /\ DeployersAgree'
  BY <1>1, <1>4, <1>5, StandingBy
<1>7. OneActive'
  BY <1>2 DEF IInv, OneActive
<1>8. SucceededMeansDone'
  BY <1>2 DEF IInv, SucceededMeansDone
<1>9. EventsInOrder'
  <2>1. \A i : Story(i)' = Story(i)
    BY <1>2 DEF Story
  <2>2. QED
    BY <1>2, <2>1, OrderOfEach DEF IInv
<1>10. ExecutedIsRunning'
  <2> SUFFICES ASSUME ~setting.late, NEW d \in Deployers, Proceeds(deployer[d])'
               PROVE  jobs'[deployer[d].job].status = "running"
    BY DEF ExecutedIsRunning
  <2>1. deployer[d].job \in Jobs /\ EventOf(deployer[d]) \in Event
    BY DeployerFields, SettingFields DEF IInv, ExecutesItsOwn, EventOf, Event, Proceeds
  <2>2. Proceeds(deployer[d])
    BY <1>2, <1>3, <2>1 DEF Proceeds, Closes, EventOf
  <2>3. QED
    BY <1>2, <2>1, <2>2 DEF IInv, ExecutedIsRunning
<1>11. QED
  BY <1>1, <1>6, <1>7, <1>8, <1>9, <1>10 DEF IInv

LEMMA RowSteps ==
  ASSUME IInv, UNCHANGED setting, NEW j \in Jobs, createJob(j) \/ cancelJob(j) \/ sweepLostJobs(j)
  PROVE  IInv'
<1>1. ASSUME ~setting.late, NEW d \in Deployers, Proceeds(deployer[d]), deployer[d].job = j
      PROVE  jobs[j].status = "running" /\ InProgress(j)
  BY <1>1 DEF IInv, ExecutedIsRunning, InProgress, Proceeds, EventOf
<1>2. CASE createJob(j)
  BY <1>1, <1>2, StatusChanges DEF createJob, Statuses, Active, Blank
<1>3. CASE cancelJob(j)
  <2>1. "cancelled" \in Statuses /\ "cancelled" \notin Active /\ jobs[j].status \in Blank
    BY <1>3 DEF cancelJob, Statuses, Active, Blank
  <2>2. ~setting.late => \A d \in Deployers : Proceeds(deployer[d]) => deployer[d].job # j
    BY <1>1, <1>3 DEF cancelJob
  <2>3. QED
    BY <1>3, <2>1, <2>2, StatusChanges DEF cancelJob
<1>4. CASE sweepLostJobs(j)
  <2>1. "failed" \in Statuses /\ "failed" \notin Active /\ "failed" \notin Blank
    BY DEF Statuses, Active, Blank
  <2>2. ~setting.late => \A d \in Deployers : Proceeds(deployer[d]) => deployer[d].job # j
    BY <1>1, <1>4 DEF sweepLostJobs
  <2>3. QED
    BY <1>4, <2>1, <2>2, StatusChanges DEF sweepLostJobs
<1>5. QED
  BY <1>2, <1>3, <1>4

(* A step that leaves the rows alone: the Runs', a request lost, a beat     *)
(* sent, a request or an execution given up, a death, a return.             *)
LEMMA RowsAlone ==
  ASSUME IInv, TypeOK', UNCHANGED <<setting, jobs, executed>>
  PROVE  /\ OneActive' /\ SucceededMeansDone' /\ EventsInOrder'
         /\ \A j : Stages(j)' = Stages(j)
         /\ \A j, e : /\ Recorded(j, e)' <=> Recorded(j, e)
                      /\ IsLatest(j, e)' <=> IsLatest(j, e)
                      /\ IsDueNext(j, e)' <=> IsDueNext(j, e)
         /\ RowsStandBy
<1>1. \A j : Stages(j)' = Stages(j) /\ Story(j)' = Story(j)
  BY DEF Stages, UpdateStages, Story
<1>2. \A j, e : /\ Recorded(j, e)' <=> Recorded(j, e)
                /\ IsLatest(j, e)' <=> IsLatest(j, e)
                /\ IsDueNext(j, e)' <=> IsDueNext(j, e)
  BY <1>1 DEF Recorded, IsLatest, IsDueNext, Told, Unbroken
<1>3. OneActive' /\ EventsInOrder'
  BY <1>1 DEF IInv, OneActive, EventsInOrder
<1>4. SucceededMeansDone'
  BY <1>1 DEF IInv, SucceededMeansDone
<1>5. RowsStandBy
  <2>1. ASSUME NEW x \in Deployers, NEW v, v = deployer[x], v.job # None
        PROVE  IF v.pc = "working" THEN IsLatest(v.job, EventOf(v))'
               ELSE IsLatest(v.job, EventOf(v))' \/ IsDueNext(v.job, EventOf(v))'
    <3>1. IF v.pc = "working" THEN IsLatest(v.job, EventOf(v))
          ELSE IsLatest(v.job, EventOf(v)) \/ IsDueNext(v.job, EventOf(v))
      BY <2>1 DEF IInv, DeployersAgree
    <3>2. /\ IsLatest(v.job, EventOf(v))' <=> IsLatest(v.job, EventOf(v))
          /\ IsDueNext(v.job, EventOf(v))' <=> IsDueNext(v.job, EventOf(v))
      BY <1>2 DEF EventOf
    <3>3. QED
      BY <3>1, <3>2
  <2>2. \A i \in Jobs : jobs[i].status \in Blank => jobs[i].by = None
    BY DEF IInv, UntouchedIsBlank, Blank
  <2>3. QED
    BY <1>2, <2>1, <2>2 DEF RowsStandBy
<1>6. QED
  BY <1>1, <1>2, <1>3, <1>4, <1>5

(* A deployer that ends what it does, or sends its report once more, with    *)
(* the rows left alone.                                                      *)
LEMMA LeavesOff ==
  ASSUME IInv, TypeOK', UNCHANGED <<setting, jobs, executed>>, NEW d \in Deployers, NEW w,
         deployer' = [deployer EXCEPT ![d] = w], NetGoesOn(d, w),
         \/ w.job = None /\ w.pc \in {"idle", "down", "beating"}
         \/ w = deployer[d]
  PROVE  IInv'
<1>1. deployer'[d] = w /\ \A x \in Deployers : x # d => deployer'[x] = deployer[x]
  BY DEF IInv, TypeOK
<1>2. MayGoOn(d, w)
  <2>1. CASE w.job = None /\ w.pc \in {"idle", "down", "beating"}
    BY <2>1 DEF MayGoOn
  <2>2. CASE w = deployer[d] /\ w.job = None
    BY <2>2, DeployerFields DEF IInv, ExecutesItsOwn, MayGoOn
  <2>3. CASE w = deployer[d] /\ w.job # None
    <3>1. w.job \in Jobs /\ w.pc \in {"reporting", "working"} /\ jobs'[w.job].by = d
          /\ w.at \in 1 .. Len(Stages(w.job)) /\ (w.pc = "working" => w.said = "started")
          /\ w.said \in {"started", "succeeded", "failed"}
      BY <2>3, DeployerFields DEF IInv, ExecutesItsOwn
    <3>2. EventOf(w) \in Event
      BY <3>1, SettingFields DEF IInv, EventOf, Event
    <3>3. \A s \in net : s.kind = "event" /\ s.job = w.job =>
            Recorded(w.job, s.event)' \/ (w.pc = "reporting" /\ s.event = EventOf(w))
      BY <2>3, RowsAlone DEF IInv, DeployersAgree
    <3>4. /\ IF w.pc = "working" THEN IsLatest(w.job, EventOf(w))'
             ELSE IsLatest(w.job, EventOf(w))' \/ IsDueNext(w.job, EventOf(w))'
          /\ executed'[w.job] = IF w.said = "succeeded" THEN w.at ELSE w.at - 1
      BY <2>3, RowsAlone DEF IInv, DeployersAgree
    <3>5. QED
      BY <3>1, <3>2, <3>3, <3>4 DEF MayGoOn
  <2>4. QED
    BY <2>1, <2>2, <2>3
<1>3. RowsGoOn(d, w)
  BY RowsAlone DEF RowsStandBy, RowsGoOn
<1>4. /\ RequestsAreTyped' /\ OpenIsAwaited' /\ ExecutesItsOwn' /\ UntouchedIsBlank'
      /\ ReportsAreDue' /\ DeployersAgree'
  BY <1>2, <1>3, MovingOn
<1>5. ExecutedIsRunning'
  <2> SUFFICES ASSUME ~setting.late, NEW x \in Deployers, Proceeds(deployer[x])'
               PROVE  jobs[deployer'[x].job].status = "running"
    BY DEF ExecutedIsRunning
  <2>1. deployer'[x] = deployer[x]
    BY <1>1 DEF Proceeds
  <2>2. Proceeds(deployer[x])
    BY <2>1, RowsAlone DEF Proceeds, Closes, EventOf
  <2>3. QED
    BY <2>1, <2>2 DEF IInv, ExecutedIsRunning
<1>6. QED
  BY <1>4, <1>5, RowsAlone DEF IInv

LEMMA AloneSteps ==
  ASSUME IInv, UNCHANGED <<setting, jobs, deployer, executed>>, TypeOK',
         \A r \in net' : \E s \in net : Echoes(r, s)
  PROVE  IInv'
<1>1. RequestsAreTyped' /\ OpenIsAwaited' /\ ExecutesItsOwn' /\ UntouchedIsBlank'
      /\ ReportsAreDue' /\ DeployersAgree'
  BY RowsAlone, StandingBy
<1>2. ExecutedIsRunning'
  BY RowsAlone DEF IInv, ExecutedIsRunning, Proceeds, Closes, EventOf
<1>3. QED
  BY <1>1, <1>2, RowsAlone DEF IInv

LEMMA RunSteps ==
  ASSUME IInv, UNCHANGED setting, NEW r \in Runs, AdmitRun(r) \/ StartRun(r) \/ EndRun(r)
  PROVE  IInv'
<1>1. UNCHANGED <<jobs, deployer, net, executed, lost, deaths>>
  BY DEF AdmitRun, StartRun, EndRun
<1>2. TypeOK'
  BY <1>1 DEF IInv, TypeOK, UpdateStages, AdmitRun, StartRun, EndRun
<1>3. \A q \in net' : \E s \in net : Echoes(q, s)
  BY <1>1 DEF Echoes
<1>4. QED
  BY <1>1, <1>2, <1>3, AloneSteps

LEMMA LoseSteps ==
  ASSUME IInv, UNCHANGED setting, NEW r \in net, LoseRequest(r)
  PROVE  IInv'
<1>1. lost' \in 0 .. setting.lost
  BY SettingFields DEF IInv, TypeOK, LoseRequest, Lose
<1>2. TypeOK'
  BY <1>1 DEF IInv, TypeOK, UpdateStages, LoseRequest
<1>3. \A q \in net' : \E s \in net : Echoes(q, s)
  BY DEF Echoes, LoseRequest
<1>4. QED
  BY <1>2, <1>3, AloneSteps DEF LoseRequest

LEMMA ClosedEchoes ==
  ASSUME RequestsAreTyped, NEW d \in Deployers, NEW r \in Closed(d)
  PROVE  /\ \E s \in net : Echoes(r, s)
         /\ r.open => r.from # d
         /\ r.kind \in {"beat", "event"} /\ r.from \in Deployers /\ r.open \in BOOLEAN
<1>1. CASE r \in net \ Outstanding(d)
  BY <1>1, EventFields DEF Outstanding, Echoes
<1>2. CASE r \in {[s EXCEPT !.open = FALSE] : s \in Outstanding(d)}
  <2>1. PICK s \in Outstanding(d) : r = [s EXCEPT !.open = FALSE]
    BY <1>2
  <2>2. Echoes(r, s) /\ s \in net
    BY <2>1 DEF Outstanding, Echoes
  <2>3. r.open = FALSE /\ r.kind = s.kind /\ r.from = s.from
    <3>1. CASE s \in BeatRequest
      BY <2>1, <3>1 DEF BeatRequest
    <3>2. CASE s \in EventRequest
      BY <2>1, <3>2 DEF EventRequest
    <3>3. QED
      BY <2>2, <3>1, <3>2 DEF RequestsAreTyped
  <2>4. QED
    BY <2>2, <2>3, EventFields
<1>3. QED
  BY <1>1, <1>2 DEF Closed

LEMMA ReportFields ==
  ASSUME NEW w, NEW d \in Deployers
  PROVE  /\ Report(w, d).kind = "event" /\ Report(w, d).from = d /\ Report(w, d).open = TRUE
BY DEF Report

(* What a deployer may become.                                              *)
LEMMA DeployersTyped ==
  ASSUME TypeOK, NEW d \in Deployers, NEW w,
         w \in [pc : {"down", "idle", "beating", "reporting", "working"},
                job : Jobs \cup {None}, at : 0 .. Len(UpdateStages),
                said : {"started", "succeeded", "failed"}]
  PROVE  [deployer EXCEPT ![d] = w] \in
           [Deployers -> [pc : {"down", "idle", "beating", "reporting", "working"},
                          job : Jobs \cup {None}, at : 0 .. Len(UpdateStages),
                          said : {"started", "succeeded", "failed"}]]
BY DEF TypeOK

LEMMA IdleTyped ==
  ASSUME TypeOK, NEW pc \in {"idle", "down", "beating"}
  PROVE  /\ [Idle EXCEPT !.pc = pc] \in
              [pc : {"down", "idle", "beating", "reporting", "working"},
               job : Jobs \cup {None}, at : 0 .. Len(UpdateStages),
               said : {"started", "succeeded", "failed"}]
         /\ [Idle EXCEPT !.pc = pc].job = None /\ [Idle EXCEPT !.pc = pc].pc = pc
BY SettingFields DEF Idle

LEMMA BeatSteps ==
  ASSUME IInv, UNCHANGED setting, NEW d \in Deployers, Beat(d)
  PROVE  IInv'
<1>1. PICK w : w = [deployer[d] EXCEPT !.pc = "beating"]
  OBVIOUS
<1>2. /\ w \in [pc : {"down", "idle", "beating", "reporting", "working"},
                job : Jobs \cup {None}, at : 0 .. Len(UpdateStages),
                said : {"started", "succeeded", "failed"}]
      /\ w.job = None /\ w.pc = "beating" /\ deployer' = [deployer EXCEPT ![d] = w]
  BY <1>1, DeployerFields DEF IInv, ExecutesItsOwn, Beat
<1>3. TypeOK'
  <2>1. \A r \in net' : r.kind \in {"beat", "event"} /\ r.from \in Deployers /\ r.open \in BOOLEAN
    <3>1. PICK b : b = [kind |-> "beat", from |-> d, open |-> TRUE]
      OBVIOUS
    <3>2. b.kind = "beat" /\ b.from = d /\ b.open = TRUE /\ net' = net \cup {b}
      BY <3>1 DEF Beat
    <3>3. ASSUME NEW r \in net
          PROVE  r.kind \in {"beat", "event"} /\ r.from \in Deployers /\ r.open \in BOOLEAN
      BY EventFields DEF IInv
    <3>4. QED
      BY <3>2, <3>3
  <2>2. UNCHANGED <<jobs, runs, executed, lost, deaths>>
    BY DEF Beat
  <2>3. QED
    BY <1>2, <2>1, <2>2, DeployersTyped DEF IInv, TypeOK, UpdateStages
<1>4. NetGoesOn(d, w)
  <2>1. ASSUME NEW r \in net, r.open
        PROVE  r.from # d
    BY <2>1, EventFields DEF IInv, OpenIsAwaited, Beat
  <2>2. QED
    BY <1>2, <2>1 DEF NetGoesOn, Echoes, Beat
<1>5. QED
  BY <1>2, <1>3, <1>4, LeavesOff DEF Beat

LEMMA StopSteps ==
  ASSUME IInv, UNCHANGED setting, NEW d \in Deployers, TimesOut(d) \/ GivesUp(d) \/ Dies(d)
  PROVE  IInv'
<1>1. UNCHANGED <<jobs, runs, executed>>
  BY DEF TimesOut, GivesUp, Dies
<1>2. lost' \in 0 .. setting.lost /\ deaths' \in 0 .. setting.deaths
  BY SettingFields, SMTT(30) DEF IInv, TypeOK, TimesOut, GivesUp, Dies, Lose
<1>3. ASSUME NEW pc \in {"idle", "down"}, NEW w, w = [Idle EXCEPT !.pc = pc],
             deployer' = [deployer EXCEPT ![d] = w], net' = Closed(d)
      PROVE  IInv'
  <2>1. \A r \in net' : r.kind \in {"beat", "event"} /\ r.from \in Deployers /\ r.open \in BOOLEAN
    BY <1>3, ClosedEchoes DEF IInv
  <2>2. TypeOK'
    BY <1>1, <1>2, <1>3, <2>1, IdleTyped, DeployersTyped DEF IInv, TypeOK, UpdateStages
  <2>3. NetGoesOn(d, w)
    BY <1>3, ClosedEchoes DEF IInv, NetGoesOn
  <2>4. QED
    BY <1>1, <1>3, <2>2, <2>3, LeavesOff, IdleTyped DEF IInv
<1>4. Idle = [Idle EXCEPT !.pc = "idle"]
  BY DEF Idle
<1>5. CASE GivesUp(d) \/ Dies(d) \/ (TimesOut(d) /\ deployer[d].pc = "beating")
  BY <1>3, <1>4, <1>5 DEF GivesUp, Dies, TimesOut
<1>6. CASE TimesOut(d) /\ deployer[d].pc # "beating"
  <2>1. PICK w : w = deployer[d]
    OBVIOUS
  <2>2. /\ w.pc = "reporting" /\ deployer' = deployer /\ net' = Closed(d) \cup {Report(w, d)}
        /\ deployer' = [deployer EXCEPT ![d] = w]
    BY <1>6, <2>1 DEF TimesOut, Waits, IInv, TypeOK
  <2>3. \A r \in net' : r.kind \in {"beat", "event"} /\ r.from \in Deployers /\ r.open \in BOOLEAN
    <3>1. ASSUME NEW r \in Closed(d)
          PROVE  r.kind \in {"beat", "event"} /\ r.from \in Deployers /\ r.open \in BOOLEAN
      BY ClosedEchoes DEF IInv
    <3>2. PICK q : q = Report(w, d)
      OBVIOUS
    <3>3. q.kind = "event" /\ q.from = d /\ q.open = TRUE /\ net' = Closed(d) \cup {q}
      BY <2>2, <3>2, ReportFields
    <3>4. QED
      BY <3>1, <3>3
  <2>4. TypeOK'
    BY <1>1, <1>2, <2>2, <2>3 DEF IInv, TypeOK, UpdateStages
  <2>5. NetGoesOn(d, w)
    BY <2>2, ClosedEchoes DEF IInv, NetGoesOn
  <2>6. QED
    BY <1>1, <2>1, <2>2, <2>4, <2>5, LeavesOff
<1>7. QED
  BY <1>5, <1>6

LEMMA ReturnSteps ==
  ASSUME IInv, UNCHANGED setting, NEW d \in Deployers, Returns(d)
  PROVE  IInv'
<1>1. PICK w : w = Idle
  OBVIOUS
<1>2. Idle = [Idle EXCEPT !.pc = "idle"]
  BY DEF Idle
<1>3. TypeOK'
  BY <1>2, IdleTyped, DeployersTyped DEF IInv, TypeOK, UpdateStages, Returns
<1>4. \A r \in net : r.open => r.from # d
  BY EventFields DEF IInv, OpenIsAwaited, Returns
<1>5. NetGoesOn(d, w)
  BY <1>4 DEF NetGoesOn, Echoes, Returns
<1>6. QED
  BY <1>1, <1>2, <1>3, <1>5, LeavesOff, IdleTyped DEF IInv, Returns

(* What Reports(d, w) makes of the requests.                                *)
LEMMA ReportsGoOn ==
  ASSUME RequestsAreTyped, NEW d \in Deployers, NEW w, Reports(d, w), w.pc = "reporting"
  PROVE  /\ NetGoesOn(d, w)
         /\ \A r \in net' : r.kind \in {"beat", "event"} /\ r.from \in Deployers /\ r.open \in BOOLEAN
<1>1. PICK q : q = Report(w, d)
  OBVIOUS
<1>2. q.kind = "event" /\ q.from = d /\ q.open = TRUE /\ net' = (net \ Outstanding(d)) \cup {q}
  BY <1>1, ReportFields DEF Reports
<1>3. ASSUME NEW r \in net
      PROVE  r.kind \in {"beat", "event"} /\ r.from \in Deployers /\ r.open \in BOOLEAN
  BY EventFields
<1>4. \A r \in net \ Outstanding(d) : r \in net /\ (r.open => r.from # d)
  BY DEF Outstanding
<1>5. NetGoesOn(d, w)
  BY <1>1, <1>2, <1>4 DEF NetGoesOn, Echoes
<1>6. QED
  BY <1>2, <1>3, <1>5

(* A stage was executed: d goes on to report w.                             *)
LEMMA ScriptEnds ==
  ASSUME IInv, UNCHANGED <<setting, jobs, runs, lost, deaths>>, NEW d \in Deployers,
         NEW said \in {"succeeded", "failed"}, deployer[d].pc = "working",
         Reports(d, [deployer[d] EXCEPT !.pc = "reporting", !.said = said]),
         executed' = IF said = "succeeded" THEN [executed EXCEPT ![deployer[d].job] = @ + 1]
                     ELSE executed
  PROVE  IInv'
<1>1. PICK w : w = [deployer[d] EXCEPT !.pc = "reporting", !.said = said]
  OBVIOUS
<1>2. PICK v : v = deployer[d]
  OBVIOUS
<1>3. /\ v.job \in Jobs /\ v.said = "started" /\ jobs[v.job].by = d
      /\ v.at \in 1 .. Len(Stages(v.job)) /\ v.pc = "working"
      /\ v \in [pc : {"down", "idle", "beating", "reporting", "working"},
                job : Jobs \cup {None}, at : 0 .. Len(UpdateStages),
                said : {"started", "succeeded", "failed"}]
  BY <1>2, DeployerFields DEF IInv, ExecutesItsOwn
<1>4. /\ w \in [pc : {"down", "idle", "beating", "reporting", "working"},
                job : Jobs \cup {None}, at : 0 .. Len(UpdateStages),
                said : {"started", "succeeded", "failed"}]
      /\ w.job = v.job /\ w.at = v.at /\ w.pc = "reporting" /\ w.said = said
  BY <1>1, <1>2, <1>3
<1>5. deployer' = [deployer EXCEPT ![d] = w] /\ Reports(d, w) /\ NetGoesOn(d, w)
      /\ \A r \in net' : r.kind \in {"beat", "event"} /\ r.from \in Deployers /\ r.open \in BOOLEAN
  BY <1>1, <1>4, ReportsGoOn DEF IInv, Reports
<1>6. /\ EventOf(v) \in Event /\ EventOf(v).at = v.at /\ EventOf(v).said = "started"
      /\ EventOf(w) \in Event /\ EventOf(w).at = v.at /\ EventOf(w).said = said
      /\ Place(EventOf(w)) = Place(EventOf(v)) + 1
      /\ Len(Stages(v.job)) \in Nat
  <2>1. Len(Stages(v.job)) \in Nat
    BY <1>3, SettingFields DEF IInv
  <2>2. QED
    BY <1>3, <1>4, <2>1 DEF EventOf, Event, Place
<1>7. /\ IsLatest(v.job, EventOf(v)) /\ executed[v.job] = v.at - 1
      /\ \A r \in net : r.kind = "event" /\ r.job = v.job => Recorded(v.job, r.event)
  <2>1. v.job # None
    BY <1>3, DeploymentAssumption DEF None
  <2>2. /\ IsLatest(v.job, EventOf(v))
        /\ executed[v.job] = IF v.said = "succeeded" THEN v.at ELSE v.at - 1
        /\ \A r \in net : r.kind = "event" /\ r.job = v.job =>
              Recorded(r.job, r.event) \/ (v.pc = "reporting" /\ r.event = EventOf(v))
    BY <1>2, <1>3, <2>1 DEF IInv, DeployersAgree
  <2>3. QED
    BY <1>3, <2>2
<1>8. IsDueNext(v.job, EventOf(w))
  BY <1>3, <1>6, <1>7, NextIsDue DEF IInv
<1>9. /\ executed' \in [Jobs -> Nat] /\ \A j \in Jobs : j # v.job => executed'[j] = executed[j]
      /\ executed'[v.job] = IF said = "succeeded" THEN v.at ELSE v.at - 1
  BY <1>2, <1>3, <1>6, <1>7 DEF IInv, TypeOK
<1>10. TypeOK'
  BY <1>4, <1>5, <1>9, DeployersTyped DEF IInv, TypeOK, UpdateStages
<1>11. \A j \in Jobs : Stages(j)' = Stages(j) /\ Story(j)' = Story(j)
  BY DEF Stages, UpdateStages, Story
<1>12. \A j, e : /\ Recorded(j, e)' <=> Recorded(j, e)
                 /\ IsLatest(j, e)' <=> IsLatest(j, e)
  BY DEF Recorded, IsLatest, Told
<1>13. \A j \in Jobs : \A e : IsDueNext(j, e)' <=> IsDueNext(j, e)
  BY <1>11 DEF IsDueNext, Told, Unbroken
<1>14. MayGoOn(d, w)
  BY <1>3, <1>4, <1>6, <1>7, <1>8, <1>9, <1>12, <1>13 DEF MayGoOn
<1>15. RowsGoOn(d, w)
  <2>1. ASSUME NEW x \in Deployers \ {d}, NEW u \in {deployer[x]}, u.job # None
        PROVE  IF u.pc = "working" THEN IsLatest(u.job, EventOf(u))'
               ELSE IsLatest(u.job, EventOf(u))' \/ IsDueNext(u.job, EventOf(u))'
    <3>1. u.job \in Jobs /\ EventOf(u)' = EventOf(u)
      BY <2>1, DeployerFields DEF IInv, EventOf
    <3>2. IF u.pc = "working" THEN IsLatest(u.job, EventOf(u))
          ELSE IsLatest(u.job, EventOf(u)) \/ IsDueNext(u.job, EventOf(u))
      BY <2>1 DEF IInv, DeployersAgree
    <3>3. QED
      BY <1>12, <1>13, <3>1, <3>2
  <2>2. \A i \in Jobs : jobs[i].status \in Blank => jobs[i].by = None
    BY DEF IInv, UntouchedIsBlank, Blank
  <2>3. QED
    BY <1>4, <1>7, <1>9, <1>12, <2>1, <2>2 DEF RowsGoOn
<1>16. /\ RequestsAreTyped' /\ OpenIsAwaited' /\ ExecutesItsOwn' /\ UntouchedIsBlank'
       /\ ReportsAreDue' /\ DeployersAgree'
  BY <1>5, <1>10, <1>14, <1>15, MovingOn
<1>17. OneActive' /\ EventsInOrder'
  BY <1>11, OrderOfEach DEF IInv, OneActive
<1>18. SucceededMeansDone'
  BY <1>3, <1>6, <1>7, <1>9, <1>11 DEF IInv, SucceededMeansDone
<1>19. ExecutedIsRunning'
  <2> SUFFICES ASSUME ~setting.late, NEW x \in Deployers, Proceeds(deployer[x])'
               PROVE  jobs[deployer'[x].job].status = "running"
    BY DEF ExecutedIsRunning
  <2>1. CASE x = d
    <3>1. deployer'[d] = w
      BY <1>5 DEF IInv, TypeOK
    <3>2. Proceeds(deployer[d])
      BY <1>2, <1>3 DEF Proceeds
    <3>3. QED
      BY <1>2, <1>4, <2>1, <3>1, <3>2 DEF IInv, ExecutedIsRunning
  <2>2. CASE x # d
    <3>1. deployer'[x] = deployer[x]
      BY <1>5, <2>2 DEF IInv, TypeOK
    <3>2. deployer[x].job \in Jobs
      BY <3>1, DeployerFields DEF IInv, ExecutesItsOwn, Proceeds
    <3>3. Proceeds(deployer[x])
      BY <1>11, <1>12, <3>1, <3>2 DEF Proceeds, Closes, EventOf
    <3>4. QED
      BY <3>1, <3>3 DEF IInv, ExecutedIsRunning
  <2>3. QED
    BY <2>1, <2>2
<1>20. QED
  BY <1>10, <1>16, <1>17, <1>18, <1>19 DEF IInv

LEMMA ScriptSteps ==
  ASSUME IInv, UNCHANGED setting, NEW d \in Deployers, StageEnds(d) \/ DrainEnds(d)
  PROVE  IInv'
BY ScriptEnds DEF StageEnds, DrainEnds

(* The rows after a heartbeat: nothing is told, nobody loses a job, and     *)
(* what another deployer executes goes on.                                  *)
LEMMA RowsAfterBeat ==
  ASSUME IInv, UNCHANGED <<setting, executed>>, NEW d \in Deployers,
         jobs' = [j \in Jobs |-> AfterBeat(jobs[j], d)]
  PROVE  /\ jobs' \in [Jobs -> [status : Statuses, by : Deployers \cup {None}, events : Seq(Event)]]
         /\ OneActive' /\ EventsInOrder' /\ SucceededMeansDone' /\ RowsStandBy
         /\ \A i \in Jobs : \A e : /\ Recorded(i, e)' <=> Recorded(i, e)
                                   /\ IsLatest(i, e)' <=> IsLatest(i, e)
                                   /\ IsDueNext(i, e)' <=> IsDueNext(i, e)
         /\ \A i \in Jobs : jobs[i].status = "running" /\ jobs[i].by # d => jobs'[i] = jobs[i]
         /\ \A i \in Handed(d) : jobs'[i].by = d /\ jobs'[i].status = "running"
<1>1. ASSUME NEW i \in Jobs
      PROVE  /\ jobs'[i] \in [status : Statuses, by : Deployers \cup {None}, events : Seq(Event)]
             /\ jobs'[i].events = jobs[i].events
             /\ jobs'[i].status \in Active => jobs[i].status \in Active
             /\ jobs'[i].status = "succeeded" => jobs[i].status = "succeeded"
             /\ jobs[i].status # "queued" => jobs'[i].by = jobs[i].by
             /\ jobs'[i].status \in Blank => jobs'[i] = jobs[i]
             /\ jobs[i].status = "running" /\ jobs[i].by # d => jobs'[i] = jobs[i]
             /\ jobs[i].status = "queued" => jobs'[i].by = d /\ jobs'[i].status = "running"
  <2>1. jobs'[i] = AfterBeat(jobs[i], d)
    OBVIOUS
  <2>2. jobs[i] \in [status : Statuses, by : Deployers \cup {None}, events : Seq(Event)]
    BY RowFields DEF IInv
  <2>3. CASE jobs[i].status = "running" /\ jobs[i].by = d
    BY <2>1, <2>2, <2>3 DEF AfterBeat, Statuses, Active, Blank
  <2>4. CASE jobs[i].status = "queued"
    BY <2>1, <2>2, <2>4 DEF AfterBeat, Statuses, Active, Blank
  <2>5. CASE jobs[i].status # "queued" /\ ~(jobs[i].status = "running" /\ jobs[i].by = d)
    <3>1. jobs'[i] = jobs[i]
      BY <2>1, <2>5 DEF AfterBeat
    <3>2. QED
      BY <2>2, <2>5, <3>1 DEF Statuses
  <2>6. QED
    BY <2>3, <2>4, <2>5
<1>2. \A i \in Jobs : Stages(i)' = Stages(i) /\ Story(i)' = Story(i)
  BY DEF Stages, UpdateStages, Story
<1>3. \A i \in Jobs : \A e : /\ Recorded(i, e)' <=> Recorded(i, e)
                             /\ IsLatest(i, e)' <=> IsLatest(i, e)
                             /\ IsDueNext(i, e)' <=> IsDueNext(i, e)
  BY <1>1, <1>2 DEF Recorded, IsLatest, IsDueNext, Told, Unbroken
<1>4. RowsStandBy
  <2>1. ASSUME NEW x \in Deployers, NEW u \in {deployer[x]}, u.job # None
        PROVE  IF u.pc = "working" THEN IsLatest(u.job, EventOf(u))'
               ELSE IsLatest(u.job, EventOf(u))' \/ IsDueNext(u.job, EventOf(u))'
    <3>1. u.job \in Jobs /\ EventOf(u)' = EventOf(u)
      BY <2>1, DeployerFields DEF IInv, EventOf
    <3>2. IF u.pc = "working" THEN IsLatest(u.job, EventOf(u))
          ELSE IsLatest(u.job, EventOf(u)) \/ IsDueNext(u.job, EventOf(u))
      BY <2>1 DEF IInv, DeployersAgree
    <3>3. QED
      BY <1>3, <3>1, <3>2
  <2>2. \A i \in Jobs : jobs[i].status \in Blank => jobs[i].by = None
    BY DEF IInv, UntouchedIsBlank, Blank
  <2>3. \A i \in Jobs : jobs[i].by # None => jobs'[i].by = jobs[i].by
    BY <1>1, <2>2 DEF Blank
  <2>4. QED
    BY <1>1, <1>3, <2>1, <2>2, <2>3 DEF RowsStandBy
<1>5. OneActive' /\ EventsInOrder'
  BY <1>1, <1>2, OrderOfEach DEF IInv, OneActive
<1>6. SucceededMeansDone'
  BY <1>1, <1>2 DEF IInv, SucceededMeansDone
<1>7. QED
  BY <1>1, <1>3, <1>4, <1>5, <1>6 DEF Handed

LEMMA HandleBeatSteps ==
  ASSUME IInv, UNCHANGED setting, NEW r \in net, HandleBeat(r)
  PROVE  IInv'
<1> DEFINE d == r.from
<1>1. d \in Deployers /\ r.kind = "beat" /\ UNCHANGED <<runs, executed, deaths>>
      /\ jobs' = [j \in Jobs |-> AfterBeat(jobs[j], d)]
  BY EventFields DEF IInv, HandleBeat
<1>2. /\ jobs' \in [Jobs -> [status : Statuses, by : Deployers \cup {None}, events : Seq(Event)]]
      /\ OneActive' /\ EventsInOrder' /\ SucceededMeansDone' /\ RowsStandBy
      /\ \A i \in Jobs : \A e : /\ Recorded(i, e)' <=> Recorded(i, e)
                                /\ IsLatest(i, e)' <=> IsLatest(i, e)
                                /\ IsDueNext(i, e)' <=> IsDueNext(i, e)
      /\ \A i \in Jobs : jobs[i].status = "running" /\ jobs[i].by # d => jobs'[i] = jobs[i]
      /\ \A i \in Handed(d) : jobs'[i].by = d /\ jobs'[i].status = "running"
  BY <1>1, RowsAfterBeat
<1>3. lost' \in 0 .. setting.lost
  BY SettingFields DEF IInv, TypeOK, HandleBeat, Lose
<1>4. \A j : Stages(j)' = Stages(j)
  BY DEF Stages, UpdateStages
<1>5. ASSUME deployer' = deployer, net' = net \ {r}, r.open \/ setting.late
      PROVE  IInv'
  <2>1. TypeOK'
    BY <1>1, <1>2, <1>3, <1>5 DEF IInv, TypeOK, UpdateStages
  <2>2. \A q \in net' : \E s \in net : Echoes(q, s)
    BY <1>5 DEF Echoes
  <2>3. /\ RequestsAreTyped' /\ OpenIsAwaited' /\ ExecutesItsOwn' /\ UntouchedIsBlank'
        /\ ReportsAreDue' /\ DeployersAgree'
    BY <1>1, <1>2, <1>5, <2>1, <2>2, StandingBy
  <2>4. ExecutedIsRunning'
    <3> SUFFICES ASSUME ~setting.late, NEW x \in Deployers, Proceeds(deployer[x])'
                 PROVE  jobs'[deployer[x].job].status = "running"
      BY <1>5 DEF ExecutedIsRunning
    <3>1. deployer[x].job \in Jobs /\ jobs[deployer[x].job].by = x /\ x # d
      BY <1>1, <1>5, DeployerFields DEF IInv, ExecutesItsOwn, Proceeds, OpenIsAwaited
    <3>2. Proceeds(deployer[x])
      BY <1>2, <1>4, <1>5, <3>1 DEF Proceeds, Closes, EventOf
    <3>3. jobs[deployer[x].job].status = "running"
      BY <3>2 DEF IInv, ExecutedIsRunning
    <3>4. QED
      BY <1>2, <3>1, <3>3
  <2>5. QED
    BY <1>2, <2>1, <2>3, <2>4 DEF IInv
<1>6. ASSUME r.open, NEW w, deployer' = [deployer EXCEPT ![d] = w],
             w \in [pc : {"down", "idle", "beating", "reporting", "working"},
                    job : Jobs \cup {None}, at : 0 .. Len(UpdateStages),
                    said : {"started", "succeeded", "failed"}],
             \A q \in net' : q.kind \in {"beat", "event"} /\ q.from \in Deployers /\ q.open \in BOOLEAN,
             NetGoesOn(d, w), MayGoOn(d, w),
             w.pc # "idle" => jobs'[w.job].status = "running"
      PROVE  IInv'
  <2>1. TypeOK'
    BY <1>1, <1>2, <1>3, <1>6, DeployersTyped DEF IInv, TypeOK, UpdateStages
  <2>2. RowsGoOn(d, w)
    BY <1>1, <1>2 DEF RowsGoOn, RowsStandBy
  <2>3. /\ RequestsAreTyped' /\ OpenIsAwaited' /\ ExecutesItsOwn' /\ UntouchedIsBlank'
        /\ ReportsAreDue' /\ DeployersAgree'
    BY <1>1, <1>6, <2>1, <2>2, MovingOn
  <2>4. ExecutedIsRunning'
    <3> SUFFICES ASSUME ~setting.late, NEW x \in Deployers, Proceeds(deployer[x])'
                 PROVE  jobs'[deployer'[x].job].status = "running"
      BY DEF ExecutedIsRunning
    <3>1. CASE x = d
      BY <1>1, <1>6, <3>1 DEF IInv, TypeOK, Proceeds
    <3>2. CASE x # d
      <4>1. deployer'[x] = deployer[x]
        BY <1>6, <3>2 DEF IInv, TypeOK
      <4>2. deployer[x].job \in Jobs /\ jobs[deployer[x].job].by = x
        BY <4>1, DeployerFields DEF IInv, ExecutesItsOwn, Proceeds
      <4>3. Proceeds(deployer[x])
        BY <1>2, <1>4, <4>1, <4>2 DEF Proceeds, Closes, EventOf
      <4>4. jobs[deployer[x].job].status = "running"
        BY <4>3 DEF IInv, ExecutedIsRunning
      <4>5. QED
        BY <1>2, <3>2, <4>1, <4>2, <4>4
    <3>3. QED
      BY <3>1, <3>2
  <2>5. QED
    BY <1>2, <2>1, <2>3, <2>4 DEF IInv
<1>7. \A q \in net : q.kind \in {"beat", "event"} /\ q.from \in Deployers /\ q.open \in BOOLEAN
  BY DEF IInv, TypeOK
<1>8. CASE r.open /\ deployer' = [deployer EXCEPT ![d] = Idle] /\ net' = net \ {r}
  <2>1. PICK w : w = Idle
    OBVIOUS
  <2>2. Idle = [Idle EXCEPT !.pc = "idle"]
    BY DEF Idle
  <2>3. /\ w \in [pc : {"down", "idle", "beating", "reporting", "working"},
                  job : Jobs \cup {None}, at : 0 .. Len(UpdateStages),
                  said : {"started", "succeeded", "failed"}]
        /\ w.pc = "idle" /\ w.job = None
    BY <2>1, <2>2, IdleTyped DEF IInv
  <2>4. NetGoesOn(d, w)
    BY <1>8, OneOpen DEF IInv, NetGoesOn, Echoes
  <2>5. MayGoOn(d, w)
    BY <2>3 DEF MayGoOn
  <2>6. QED
    BY <1>6, <1>7, <1>8, <2>1, <2>3, <2>4, <2>5
<1>9. ASSUME r.open, NEW j \in Handed(d), Reports(d, Reporting(j, 1, "started"))
      PROVE  IInv'
  <2>1. PICK w : w = Reporting(j, 1, "started")
    OBVIOUS
  <2>2. Len(Stages(j)) \in Nat \ {0} /\ Len(Stages(j)) <= Len(UpdateStages)
        /\ Len(UpdateStages) \in Nat /\ j \in Jobs /\ j # None
    BY SettingFields DEF IInv, Handed
  <2>3. w.pc = "reporting" /\ w.job = j /\ w.at = 1 /\ w.said = "started"
        /\ w \in [pc : {"down", "idle", "beating", "reporting", "working"},
                  job : Jobs \cup {None}, at : 0 .. Len(UpdateStages),
                  said : {"started", "succeeded", "failed"}]
    BY <2>1, <2>2 DEF Reporting
  <2>4. deployer' = [deployer EXCEPT ![d] = w] /\ NetGoesOn(d, w)
        /\ \A q \in net' : q.kind \in {"beat", "event"} /\ q.from \in Deployers /\ q.open \in BOOLEAN
    BY <1>1, <1>9, <2>1, <2>3, ReportsGoOn DEF IInv, Reports
  <2>5. jobs[j].events = <<>> /\ executed[j] = 0 /\ SentFor(j) = {}
    BY DEF IInv, UntouchedIsBlank, Handed
  <2>6. EventOf(w) \in Event /\ Place(EventOf(w)) = 1
    BY <2>3 DEF EventOf, Event, Place
  <2>7. IsDueNext(j, EventOf(w))
    BY <2>5, <2>6 DEF IsDueNext, Unbroken, Told
  <2>8. IsDueNext(j, EventOf(w))'
    BY <1>2, <2>2, <2>7 DEF EventOf
  <2>9. MayGoOn(d, w)
    <3>1. \A s \in net : ~(s.kind = "event" /\ s.job = j)
      BY <2>5 DEF SentFor
    <3>2. jobs'[j].by = d
      BY <1>2, <2>2
    <3>3. 1 \in 1 .. Len(Stages(j))
      BY <2>2
    <3>4. executed'[j] = 1 - 1
      BY <1>1, <2>5
    <3>5. QED
      BY <2>2, <2>3, <2>6, <2>8, <3>1, <3>2, <3>3, <3>4 DEF MayGoOn
  <2>10. QED
    BY <1>2, <1>6, <1>9, <2>3, <2>4, <2>9
<1>10. QED
  BY <1>5, <1>8, <1>9 DEF HandleBeat

(* The rows after a report that was due: it is recorded, and nothing else   *)
(* is on its way for that job.                                              *)
LEMMA RowsAfterEvent ==
  ASSUME IInv, UNCHANGED <<setting, executed>>, NEW r \in net, r.kind = "event",
         ~Seen(jobs[r.job], r), jobs[r.job].status = "running",
         jobs' = [jobs EXCEPT ![r.job] = appendEvent(@, r)]
  PROVE  /\ jobs' \in [Jobs -> [status : Statuses, by : Deployers \cup {None}, events : Seq(Event)]]
         /\ OneActive' /\ EventsInOrder' /\ SucceededMeansDone' /\ RowsStandBy
         /\ \A i \in Jobs : i # r.job => jobs'[i] = jobs[i]
         /\ jobs'[r.job].by = jobs[r.job].by
         /\ r.event.said # "failed" /\ ~Closes(r.job, r.event) => jobs'[r.job].status = "running"
         /\ IsLatest(r.job, r.event)'
         /\ r.event.said # "failed" =>
              \A f : Place(f) = Place(r.event) + 1 => IsDueNext(r.job, f)'
<1> DEFINE j == r.job
           e == r.event
<1>1. /\ j \in Jobs /\ e \in Event /\ e.at \in 1 .. Len(Stages(j)) /\ r.terminal = Closes(j, e)
      /\ e.said \in {"started", "succeeded", "failed"}
  BY EventFields DEF IInv
<1>2. ~Recorded(j, e)
  BY DEF Seen, Recorded
<1>3. /\ IsDueNext(j, e) /\ (e.said = "succeeded" => executed[j] = e.at)
      /\ \A s \in net : s.kind = "event" /\ s.job = j => Recorded(j, s.event) \/ s.event = e
  BY <1>2 DEF IInv, ReportsAreDue
<1>4. /\ jobs[j] \in [status : Statuses, by : Deployers \cup {None}, events : Seq(Event)]
      /\ Told(j) \in Seq(Event) /\ Len(Told(j)) \in Nat /\ Told(j) = jobs[j].events
  BY <1>1, RowFields DEF IInv, Told
<1>5. /\ jobs'[j] = appendEvent(jobs[j], r)
      /\ \A i \in Jobs : i # j => jobs'[i] = jobs[i]
  BY <1>1 DEF IInv, TypeOK
<1>6. /\ jobs'[j].events = Append(Told(j), e) /\ jobs'[j].by = jobs[j].by
      /\ jobs'[j].status \in {"running", "failed", "succeeded"}
      /\ jobs'[j].status = "succeeded" => e.said # "failed" /\ Closes(j, e)
      /\ e.said # "failed" /\ ~Closes(j, e) => jobs'[j].status = "running"
      /\ jobs'[j] \in [status : Statuses, by : Deployers \cup {None}, events : Seq(Event)]
  <2>1. PICK st : st = CASE e.said = "failed" -> "failed"
                         [] r.terminal -> "succeeded" [] OTHER -> jobs[j].status
    OBVIOUS
  <2>2. jobs'[j] = [jobs[j] EXCEPT !.events = Append(@, e), !.status = st]
    BY <1>5, <2>1 DEF appendEvent
  <2>3. jobs'[j].events = Append(Told(j), e) /\ jobs'[j].by = jobs[j].by /\ jobs'[j].status = st
    BY <1>4, <2>2, ZenonT(30)
  <2>4. /\ e.said = "failed" => st = "failed"
        /\ e.said # "failed" /\ Closes(j, e) => st = "succeeded"
        /\ e.said # "failed" /\ ~Closes(j, e) => st = "running"
    BY <1>1, <2>1 DEF Closes
  <2>5. st \in {"running", "failed", "succeeded"} /\ st \in Statuses
    BY <2>4 DEF Statuses, Active
  <2>6. Append(Told(j), e) \in Seq(Event)
    BY <1>1, <1>4
  <2>7. jobs'[j] \in [status : Statuses, by : Deployers \cup {None}, events : Seq(Event)]
    <3>1. PICK row : row = jobs[j]
      OBVIOUS
    <3>2. PICK told : told = Append(Told(j), e)
      OBVIOUS
    <3>3. jobs'[j] = [row EXCEPT !.events = told, !.status = st]
      BY <1>4, <2>2, <3>1, <3>2
    <3>4. row \in [status : Statuses, by : Deployers \cup {None}, events : Seq(Event)]
          /\ told \in Seq(Event)
      BY <1>4, <2>6, <3>1, <3>2
    <3>5. jobs'[j] = [status |-> st, by |-> row.by, events |-> told]
      BY <3>3, <3>4
    <3>6. row.by \in Deployers \cup {None}
      BY <3>4
    <3>7. QED
      BY <2>5, <3>4, <3>5, <3>6
  <2>8. QED
    BY <2>3, <2>4, <2>5, <2>7
<1>7. \A i : Stages(i)' = Stages(i) /\ Story(i)' = Story(i)
  BY DEF Stages, UpdateStages, Story
<1>8. Place(e) = Len(Told(j)) + 1 /\ \A k \in 1 .. Len(Told(j)) : Told(j)[k] = Story(j)[k]
  BY <1>3, <1>4 DEF IsDueNext, Unbroken
<1>9. /\ Len(jobs'[j].events) = Place(e) /\ DOMAIN jobs'[j].events = 1 .. Place(e)
      /\ jobs'[j].events[Place(e)] = e
      /\ \A k \in 1 .. Len(Told(j)) : jobs'[j].events[k] = Told(j)[k]
  BY <1>1, <1>4, <1>6, <1>8
<1>10. IsLatest(j, e)'
  BY <1>9 DEF IsLatest, Told
<1>11. /\ Place(e) \in 1 .. Len(Story(j)) /\ Len(Story(j)) = 2 * Len(Stages(j))
       /\ e.said # "failed" => e = Story(j)[Place(e)]
       /\ e.said = "failed" => Place(e) % 2 = 0 /\ e = [Story(j)[Place(e)] EXCEPT !.said = "failed"]
  BY <1>1, StoryPlaces DEF IInv
<1>12. ASSUME e.said # "failed", NEW f, Place(f) = Place(e) + 1
       PROVE  IsDueNext(j, f)'
  <2>1. \A k \in 1 .. Place(e) : k \in 1 .. Len(Told(j)) \/ k = Place(e)
    BY <1>4, <1>8
  <2>2. \A k \in DOMAIN jobs'[j].events : jobs'[j].events[k] = Story(j)[k]
    BY <1>8, <1>9, <1>11, <1>12, <2>1
  <2>3. Place(f)' = Place(f)
    BY DEF Place
  <2>4. QED
    BY <1>7, <1>9, <1>12, <2>2, <2>3 DEF IsDueNext, Unbroken, Told
<1>13. EventsInOrder'
  <2>1. InOrder(jobs'[j].events, Story(j))
    <3>1. Len(jobs'[j].events) <= Len(Story(j))
      BY <1>1, <1>9, <1>11, SettingFields DEF IInv
    <3>2. \A k \in DOMAIN jobs'[j].events : k # Place(e) => jobs'[j].events[k] = Story(j)[k]
      BY <1>4, <1>8, <1>9, SMTT(30)
    <3>3. QED
      BY <1>1, <1>9, <1>11, <3>1, <3>2 DEF InOrder
  <2>2. QED
    BY <1>5, <1>7, <2>1, OrderOfEach DEF IInv
<1>14. OneActive'
  <2>1. \A i \in Jobs : jobs'[i].status \in Active => jobs[i].status \in Active
    BY <1>5 DEF Active
  <2>2. QED
    BY <2>1 DEF IInv, OneActive
<1>15. SucceededMeansDone'
  <2>1. jobs'[j].status = "succeeded" => executed[j] = Len(Stages(j))
    BY <1>3, <1>6 DEF Closes
  <2>2. QED
    BY <1>5, <1>7, <2>1 DEF IInv, SucceededMeansDone
<1>16. RowsStandBy
  <2>1. \A f \in Event : Recorded(j, f) => Recorded(j, f)'
    BY <1>4, <1>8, <1>9 DEF Recorded
  <2>2. Recorded(j, e)'
    BY <1>1, <1>9, <1>11 DEF Recorded
  <2>3. \A s \in net : s.kind = "event" /\ s.job = j => Recorded(j, s.event)'
    BY <1>3, <2>1, <2>2, EventFields DEF IInv
  <2>4. \A i \in Jobs : \A f : i # j => /\ Recorded(i, f)' <=> Recorded(i, f)
                                        /\ IsLatest(i, f)' <=> IsLatest(i, f)
                                        /\ IsDueNext(i, f)' <=> IsDueNext(i, f)
    BY <1>5, <1>7 DEF Recorded, IsLatest, IsDueNext, Told, Unbroken
  <2>5. ASSUME NEW x \in Deployers, NEW u \in {deployer[x]}, u.job # None
        PROVE  IF u.pc = "working" THEN IsLatest(u.job, EventOf(u))'
               ELSE IsLatest(u.job, EventOf(u))' \/ IsDueNext(u.job, EventOf(u))'
    <3>1. u.job \in Jobs /\ EventOf(u)' = EventOf(u)
      BY <2>5, DeployerFields DEF IInv, EventOf
    <3>2. IF u.pc = "working" THEN IsLatest(u.job, EventOf(u))
          ELSE IsLatest(u.job, EventOf(u)) \/ IsDueNext(u.job, EventOf(u))
      BY <2>5 DEF IInv, DeployersAgree
    <3>3. CASE u.job = j
      <4>1. u.pc = "reporting" /\ e = EventOf(u)
        BY <1>2, <2>5, <3>3 DEF IInv, DeployersAgree
      <4>2. QED
        BY <1>10, <3>1, <3>3, <4>1
    <3>4. CASE u.job # j
      BY <2>4, <3>1, <3>2, <3>4
    <3>5. QED
      BY <3>3, <3>4
  <2>6. /\ jobs'[j].status \notin Blank
        /\ \A i \in Jobs : jobs[i].status \in Blank => jobs[i].by = None
    BY <1>6 DEF IInv, UntouchedIsBlank, Blank
  <2>7. QED
    BY <1>5, <1>6, <2>1, <2>3, <2>4, <2>5, <2>6 DEF RowsStandBy
<1>17. jobs' \in [Jobs -> [status : Statuses, by : Deployers \cup {None}, events : Seq(Event)]]
  BY <1>5, <1>6 DEF IInv, TypeOK
<1>18. QED
  BY <1>5, <1>6, <1>10, <1>12, <1>13, <1>14, <1>15, <1>16, <1>17

(* The rows after any report: who goes on executing is still at a running   *)
(* job.                                                                     *)
LEMMA RowsAfterReport ==
  ASSUME IInv, UNCHANGED <<setting, executed>>, NEW r \in net, r.kind = "event",
         jobs' = [jobs EXCEPT ![r.job] = appendEvent(@, r)]
  PROVE  /\ jobs' \in [Jobs -> [status : Statuses, by : Deployers \cup {None}, events : Seq(Event)]]
         /\ OneActive' /\ EventsInOrder' /\ SucceededMeansDone' /\ RowsStandBy
         /\ jobs' # jobs => ~Seen(jobs[r.job], r) /\ jobs[r.job].status = "running"
         /\ \A x \in Deployers :
              (~setting.late /\ deployer'[x] = deployer[x] /\ Proceeds(deployer[x])') =>
                jobs'[deployer[x].job].status = "running"
<1>1. CASE ~Seen(jobs[r.job], r) /\ jobs[r.job].status = "running"
  <2>1. /\ \A i \in Jobs : i # r.job => jobs'[i] = jobs[i]
        /\ jobs'[r.job].by = jobs[r.job].by
        /\ r.event.said # "failed" /\ ~Closes(r.job, r.event) => jobs'[r.job].status = "running"
    BY <1>1, RowsAfterEvent
  <2>2. ASSUME NEW x \in Deployers, ~setting.late, deployer'[x] = deployer[x], Proceeds(deployer[x])'
        PROVE  jobs'[deployer[x].job].status = "running"
    <3>1. PICK u : u = deployer[x]
      OBVIOUS
    <3>2. /\ u.job \in Jobs /\ u.job # None
          /\ \/ u.pc = "working"
             \/ /\ u.pc = "reporting" /\ Recorded(u.job, EventOf(u))'
                /\ u.said # "failed" /\ ~Closes(u.job, EventOf(u))
      <4>1. Closes(u.job, EventOf(u))' = Closes(u.job, EventOf(u)) /\ EventOf(u)' = EventOf(u)
        BY DEF Closes, Stages, UpdateStages, EventOf
      <4>2. u.pc \in {"reporting", "working"}
        BY <2>2, <3>1 DEF Proceeds
      <4>3. u.job # None /\ u.job \in Jobs
        BY <3>1, <4>2, DeployerFields DEF IInv, ExecutesItsOwn
      <4>4. Proceeds(deployer[x])' = (Proceeds(u))'
        BY <2>2, <3>1 DEF Proceeds, EventOf
      <4>5. QED
        BY <2>2, <4>1, <4>3, <4>4 DEF Proceeds
    <3>3. CASE u.job = r.job
      <4>1. ~Recorded(r.job, r.event)
        BY <1>1 DEF Seen, Recorded
      <4>2. u.pc = "reporting" /\ r.event = EventOf(u)
        BY <3>1, <3>2, <3>3, <4>1 DEF IInv, DeployersAgree
      <4>3. QED
        BY <2>1, <3>1, <3>2, <3>3, <4>2 DEF EventOf
    <3>4. CASE u.job # r.job
      <4>1. jobs'[u.job] = jobs[u.job]
        BY <2>1, <3>2, <3>4
      <4>2. Recorded(u.job, EventOf(u))' <=> Recorded(u.job, EventOf(u))
        BY <4>1 DEF Recorded, EventOf
      <4>3. Proceeds(deployer[x])
        BY <3>1, <3>2, <4>2 DEF Proceeds
      <4>4. QED
        BY <2>2, <3>1, <4>1, <4>3 DEF IInv, ExecutedIsRunning
    <3>5. QED
      BY <3>3, <3>4
  <2>3. QED
    BY <1>1, <2>2, RowsAfterEvent
<1>2. CASE ~(~Seen(jobs[r.job], r) /\ jobs[r.job].status = "running")
  <2>1. jobs' = jobs
    BY <1>2, EventFields DEF IInv, TypeOK, appendEvent
  <2>2. \A j : Stages(j)' = Stages(j) /\ Story(j)' = Story(j)
    BY DEF Stages, UpdateStages, Story
  <2>3. OneActive' /\ EventsInOrder' /\ SucceededMeansDone'
    BY <2>1, <2>2, OrderOfEach DEF IInv, OneActive, SucceededMeansDone
  <2>4. \A j, e : /\ Recorded(j, e)' <=> Recorded(j, e)
                  /\ IsLatest(j, e)' <=> IsLatest(j, e)
                  /\ IsDueNext(j, e)' <=> IsDueNext(j, e)
    BY <2>1, <2>2 DEF Recorded, IsLatest, IsDueNext, Told, Unbroken
  <2>5. RowsStandBy
    <3>1. ASSUME NEW x \in Deployers, NEW u \in {deployer[x]}, u.job # None
          PROVE  IF u.pc = "working" THEN IsLatest(u.job, EventOf(u))'
                 ELSE IsLatest(u.job, EventOf(u))' \/ IsDueNext(u.job, EventOf(u))'
      <4>1. EventOf(u)' = EventOf(u)
        BY DEF EventOf
      <4>2. QED
        BY <2>4, <3>1, <4>1 DEF IInv, DeployersAgree
    <3>2. \A i \in Jobs : jobs[i].status \in Blank => jobs[i].by = None
      BY DEF IInv, UntouchedIsBlank, Blank
    <3>3. QED
      BY <2>1, <2>4, <3>1, <3>2 DEF RowsStandBy
  <2>6. ASSUME NEW x \in Deployers, ~setting.late, deployer'[x] = deployer[x], Proceeds(deployer[x])'
        PROVE  jobs[deployer[x].job].status = "running"
    <3>1. Closes(deployer[x].job, EventOf(deployer[x]))' = Closes(deployer[x].job, EventOf(deployer[x]))
          /\ EventOf(deployer[x])' = EventOf(deployer[x])
      BY <2>2, <2>6 DEF Closes, EventOf
    <3>2. Recorded(deployer[x].job, EventOf(deployer[x]))' <=> Recorded(deployer[x].job, EventOf(deployer[x]))
      BY <2>1, <2>6, <3>1 DEF Recorded
    <3>3. Proceeds(deployer[x])
      BY <2>6, <3>1, <3>2 DEF Proceeds
    <3>4. QED
      BY <2>6, <3>3 DEF IInv, ExecutedIsRunning
  <2>7. QED
    BY <2>1, <2>3, <2>5, <2>6 DEF IInv, TypeOK
<1>3. QED
  BY <1>1, <1>2

(* Its sender waits for the answer of a report that is accepted: the report  *)
(* is the latest of the story, and all of the job's are recorded.           *)
LEMMA AnswerFinds ==
  ASSUME IInv, UNCHANGED <<setting, executed>>, NEW r \in net, r.kind = "event", r.open,
         Accepted(jobs[r.job], r),
         jobs' = [jobs EXCEPT ![r.job] = appendEvent(@, r)]
  PROVE  /\ IsLatest(r.job, r.event)'
         /\ r.event.said # "failed" =>
              \A f : Place(f) = Place(r.event) + 1 => IsDueNext(r.job, f)'
         /\ \A s \in net : s.kind = "event" /\ s.job = r.job => Recorded(r.job, s.event)'
         /\ (~setting.late /\ r.event.said # "failed" /\ ~Closes(r.job, r.event)) =>
              jobs'[r.job].status = "running"
<1> DEFINE j == r.job
           e == r.event
           v == deployer[r.from]
<1>1. /\ j \in Jobs /\ e \in Event /\ e.at \in 1 .. Len(Stages(j)) /\ r.from \in Deployers
      /\ e.said \in {"started", "succeeded", "failed"}
  BY EventFields DEF IInv
<1>2. /\ v.pc = "reporting" /\ v.job = j /\ e = EventOf(v) /\ e.said = v.said
  BY DEF IInv, OpenIsAwaited, Report, EventOf
<1>3. j # None /\ (IsLatest(j, e) \/ IsDueNext(j, e))
  <2>1. j # None
    BY <1>1, DeploymentAssumption DEF None
  <2>2. QED
    BY <1>1, <1>2, <2>1 DEF IInv, DeployersAgree
<1>4. Place(e) >= 1 /\ Place(e) \in Nat
  BY <1>1, SettingFields DEF Place, IInv
<1>5. CASE ~Seen(jobs[j], r)
  <2>1. jobs[j].status = "running"
    BY <1>5 DEF Accepted
  <2>2. /\ IsLatest(j, e)' /\ RowsStandBy
        /\ e.said # "failed" /\ ~Closes(j, e) => jobs'[j].status = "running"
        /\ e.said # "failed" => \A f : Place(f) = Place(e) + 1 => IsDueNext(j, f)'
    BY <1>5, <2>1, RowsAfterEvent
  <2>3. Recorded(j, e)'
    <3>1. jobs'[j].events \in Seq(Event) /\ Place(e)' = Place(e)
      BY <1>1, <1>5, <2>1, RowsAfterEvent DEF Place
    <3>2. QED
      BY <1>4, <2>2, <3>1 DEF IsLatest, Recorded, Told
  <2>4. ASSUME NEW s \in net, s.kind = "event", s.job = j
        PROVE  Recorded(j, s.event)'
    <3>1. Recorded(j, s.event) \/ s.event = e
      BY <1>1, <1>2, <1>3, <2>4 DEF IInv, DeployersAgree
    <3>2. QED
      BY <1>1, <2>2, <2>3, <2>4, <3>1, EventFields DEF IInv, RowsStandBy
  <2>5. QED
    BY <2>2, <2>4
<1>6. CASE Seen(jobs[j], r)
  <2>1. jobs' = jobs /\ Recorded(j, e)
    BY <1>1, <1>6 DEF IInv, TypeOK, appendEvent, Seen, Recorded
  <2>2. IsLatest(j, e)
    BY <1>1, <1>3, <2>1, DueIsUnseen DEF IInv
  <2>3. \A i : Story(i)' = Story(i) /\ Stages(i)' = Stages(i)
    BY DEF Stages, UpdateStages, Story
  <2>4. IsLatest(j, e)'
    BY <2>1, <2>2 DEF IsLatest, Told
  <2>5. ASSUME e.said # "failed", NEW f, Place(f) = Place(e) + 1
        PROVE  IsDueNext(j, f)'
    <3>1. IsDueNext(j, f)
      BY <1>1, <2>2, <2>5, NextIsDue DEF IInv
    <3>2. QED
      BY <2>1, <2>3, <3>1 DEF IsDueNext, Unbroken, Told
  <2>6. ASSUME NEW s \in net, s.kind = "event", s.job = j
        PROVE  Recorded(j, s.event)'
    <3>1. Recorded(j, s.event) \/ s.event = e
      BY <1>1, <1>2, <1>3, <2>6 DEF IInv, DeployersAgree
    <3>2. Recorded(j, s.event)
      BY <2>1, <3>1
    <3>3. QED
      BY <2>1, <3>2 DEF Recorded
  <2>7. ASSUME ~setting.late, e.said # "failed", ~Closes(j, e)
        PROVE  jobs[j].status = "running"
    <3>1. Proceeds(v)
      BY <1>2, <2>1, <2>7 DEF Proceeds
    <3>2. QED
      BY <1>1, <1>2, <2>7, <3>1 DEF IInv, ExecutedIsRunning
  <2>8. QED
    BY <2>1, <2>4, <2>5, <2>6, <2>7
<1>7. QED
  BY <1>5, <1>6

LEMMA HandleEventSteps ==
  ASSUME IInv, UNCHANGED setting, NEW r \in net, HandleEvent(r)
  PROVE  IInv'
<1> DEFINE d == r.from
           j == r.job
           e == r.event
<1>1. /\ d \in Deployers /\ r.kind = "event" /\ UNCHANGED <<runs, executed, deaths>>
      /\ jobs' = [jobs EXCEPT ![j] = appendEvent(@, r)]
      /\ j \in Jobs /\ e \in Event /\ e.at \in 1 .. Len(Stages(j))
      /\ e.said \in {"started", "succeeded", "failed"}
  BY EventFields DEF IInv, HandleEvent
<1>2. /\ jobs' \in [Jobs -> [status : Statuses, by : Deployers \cup {None}, events : Seq(Event)]]
      /\ OneActive' /\ EventsInOrder' /\ SucceededMeansDone' /\ RowsStandBy
      /\ \A x \in Deployers :
           (~setting.late /\ deployer'[x] = deployer[x] /\ Proceeds(deployer[x])') =>
             jobs'[deployer[x].job].status = "running"
  BY <1>1, RowsAfterReport
<1>3. lost' \in 0 .. setting.lost
  BY SettingFields DEF IInv, TypeOK, HandleEvent, Lose
<1>4. \A i : Stages(i)' = Stages(i)
  BY DEF Stages, UpdateStages
<1>5. \A q \in net : q.kind \in {"beat", "event"} /\ q.from \in Deployers /\ q.open \in BOOLEAN
  BY DEF IInv, TypeOK
<1>6. ASSUME deployer' = deployer, net' = net \ {r}
      PROVE  IInv'
  <2>1. TypeOK'
    BY <1>1, <1>2, <1>3, <1>6 DEF IInv, TypeOK, UpdateStages
  <2>2. \A q \in net' : \E s \in net : Echoes(q, s)
    BY <1>6 DEF Echoes
  <2>3. /\ RequestsAreTyped' /\ OpenIsAwaited' /\ ExecutesItsOwn' /\ UntouchedIsBlank'
        /\ ReportsAreDue' /\ DeployersAgree'
    BY <1>1, <1>2, <1>6, <2>1, <2>2, StandingBy
  <2>4. ExecutedIsRunning'
    BY <1>2, <1>6 DEF ExecutedIsRunning
  <2>5. QED
    BY <1>2, <2>1, <2>3, <2>4 DEF IInv
<1>7. ASSUME NEW w, deployer' = [deployer EXCEPT ![d] = w],
             w \in [pc : {"down", "idle", "beating", "reporting", "working"},
                    job : Jobs \cup {None}, at : 0 .. Len(UpdateStages),
                    said : {"started", "succeeded", "failed"}],
             \A q \in net' : q.kind \in {"beat", "event"} /\ q.from \in Deployers /\ q.open \in BOOLEAN,
             NetGoesOn(d, w), MayGoOn(d, w),
             ~setting.late /\ w.pc # "idle" => jobs'[w.job].status = "running"
      PROVE  IInv'
  <2>1. TypeOK'
    BY <1>1, <1>2, <1>3, <1>7, DeployersTyped DEF IInv, TypeOK, UpdateStages
  <2>2. RowsGoOn(d, w)
    BY <1>1, <1>2 DEF RowsGoOn, RowsStandBy
  <2>3. /\ RequestsAreTyped' /\ OpenIsAwaited' /\ ExecutesItsOwn' /\ UntouchedIsBlank'
        /\ ReportsAreDue' /\ DeployersAgree'
    BY <1>1, <1>7, <2>1, <2>2, MovingOn
  <2>4. ExecutedIsRunning'
    <3> SUFFICES ASSUME ~setting.late, NEW x \in Deployers, Proceeds(deployer[x])'
                 PROVE  jobs'[deployer'[x].job].status = "running"
      BY DEF ExecutedIsRunning
    <3>1. CASE x = d
      BY <1>1, <1>7, <3>1 DEF IInv, TypeOK, Proceeds
    <3>2. CASE x # d
      <4>1. deployer'[x] = deployer[x]
        BY <1>7, <3>2 DEF IInv, TypeOK
      <4>2. QED
        BY <1>2, <4>1
    <3>3. QED
      BY <3>1, <3>2
  <2>5. QED
    BY <1>2, <2>1, <2>3, <2>4 DEF IInv
<1>8. CASE r.open /\ deployer' = [deployer EXCEPT ![d] = Idle] /\ net' = net \ {r}
  <2>1. PICK w : w = Idle
    OBVIOUS
  <2>2. Idle = [Idle EXCEPT !.pc = "idle"]
    BY DEF Idle
  <2>3. /\ w \in [pc : {"down", "idle", "beating", "reporting", "working"},
                  job : Jobs \cup {None}, at : 0 .. Len(UpdateStages),
                  said : {"started", "succeeded", "failed"}]
        /\ w.pc = "idle" /\ w.job = None
    BY <2>1, <2>2, IdleTyped DEF IInv
  <2>4. NetGoesOn(d, w)
    BY <1>8, OneOpen DEF IInv, NetGoesOn, Echoes
  <2>5. MayGoOn(d, w)
    BY <2>3 DEF MayGoOn
  <2>6. QED
    BY <1>5, <1>7, <1>8, <2>1, <2>3, <2>4, <2>5
<1>9. ASSUME r.open, Accepted(jobs[j], r), Reported(d) # Idle,
             IF Reported(d).pc = "reporting" THEN Reports(d, Reported(d))
             ELSE deployer' = [deployer EXCEPT ![d] = Reported(d)] /\ net' = net \ {r}
      PROVE  IInv'
  <2>1. PICK v : v = deployer[d]
    OBVIOUS
  <2>2. PICK w : w = Reported(d)
    OBVIOUS
  <2>3. /\ v.pc = "reporting" /\ v.job = j /\ e = EventOf(v) /\ v.at = e.at /\ v.said = e.said
        /\ v \in [pc : {"down", "idle", "beating", "reporting", "working"},
                  job : Jobs \cup {None}, at : 0 .. Len(UpdateStages),
                  said : {"started", "succeeded", "failed"}]
    BY <1>1, <1>9, <2>1, DeployerFields DEF IInv, OpenIsAwaited, Report, EventOf
  <2>4. /\ IsLatest(j, e)'
        /\ e.said # "failed" => \A f : Place(f) = Place(e) + 1 => IsDueNext(j, f)'
        /\ \A s \in net : s.kind = "event" /\ s.job = j => Recorded(j, s.event)'
        /\ (~setting.late /\ e.said # "failed" /\ ~Closes(j, e)) => jobs'[j].status = "running"
    BY <1>1, <1>9, AnswerFinds
  <2>5. /\ executed'[j] = IF e.said = "succeeded" THEN e.at ELSE e.at - 1
        /\ jobs'[j].by = d /\ j # None
    <3>1. j # None
      BY <1>1, DeploymentAssumption DEF None
    <3>2. executed[j] = (IF v.said = "succeeded" THEN v.at ELSE v.at - 1) /\ jobs[j].by = d
      BY <1>1, <2>1, <2>3, <3>1 DEF IInv, DeployersAgree, ExecutesItsOwn
    <3>3. QED
      BY <1>1, <1>2, <2>3, <3>1, <3>2, DeploymentAssumption DEF RowsStandBy
  <2>6. Len(Stages(j)) \in Nat \ {0} /\ Len(Stages(j)) <= Len(UpdateStages) /\ Len(UpdateStages) \in Nat
    BY <1>1, SettingFields DEF IInv
  <2>7. CASE e.said = "started"
    <3>1. w = [v EXCEPT !.pc = "working"]
      BY <2>1, <2>2, <2>3, <2>7 DEF Reported
    <3>2. /\ w.pc = "working" /\ w.job = j /\ w.at = e.at /\ w.said = "started" /\ EventOf(w) = e
          /\ w \in [pc : {"down", "idle", "beating", "reporting", "working"},
                    job : Jobs \cup {None}, at : 0 .. Len(UpdateStages),
                    said : {"started", "succeeded", "failed"}]
      BY <2>3, <2>7, <3>1 DEF EventOf
    <3>3. deployer' = [deployer EXCEPT ![d] = w] /\ net' = net \ {r}
      BY <1>9, <2>2, <3>2
    <3>4. NetGoesOn(d, w)
      BY <1>9, <3>3, OneOpen DEF IInv, NetGoesOn, Echoes
    <3>5. EventOf(w)' = e
      BY <3>2 DEF EventOf
    <3>6. MayGoOn(d, w)
      BY <1>1, <2>4, <2>5, <2>7, <3>2, <3>5 DEF MayGoOn
    <3>7. ~setting.late => jobs'[w.job].status = "running"
      BY <2>4, <2>7, <3>2 DEF Closes
    <3>8. QED
      BY <1>5, <1>7, <3>2, <3>3, <3>4, <3>6, <3>7
  <2>8. CASE e.said # "started"
    <3>1. /\ e.said = "succeeded" /\ e.at < Len(Stages(j))
          /\ w = Reporting(j, e.at + 1, "started")
      BY <1>9, <2>1, <2>2, <2>3, <2>8 DEF Reported
    <3>2. /\ w.pc = "reporting" /\ w.job = j /\ w.at = e.at + 1 /\ w.said = "started"
          /\ w.at \in 1 .. Len(Stages(j)) /\ w.at \in 0 .. Len(UpdateStages)
      BY <1>1, <2>6, <3>1 DEF Reporting
    <3>3. w \in [pc : {"down", "idle", "beating", "reporting", "working"},
                 job : Jobs \cup {None}, at : 0 .. Len(UpdateStages),
                 said : {"started", "succeeded", "failed"}]
      BY <1>1, <3>1, <3>2 DEF Reporting
    <3>4. Reports(d, w) /\ deployer' = [deployer EXCEPT ![d] = w]
      BY <1>9, <2>2, <3>2 DEF Reports
    <3>5. /\ NetGoesOn(d, w)
          /\ \A q \in net' : q.kind \in {"beat", "event"} /\ q.from \in Deployers /\ q.open \in BOOLEAN
      BY <1>1, <3>2, <3>4, ReportsGoOn DEF IInv
    <3>6. EventOf(w) \in Event /\ Place(EventOf(w)) = Place(e) + 1
      BY <1>1, <2>6, <3>1, <3>2, SMTT(30) DEF EventOf, Event, Place
    <3>7. IsDueNext(j, EventOf(w))'
      BY <2>4, <3>1, <3>6 DEF EventOf
    <3>8. executed'[j] = w.at - 1
      BY <1>1, <2>5, <3>1, <3>2
    <3>9. MayGoOn(d, w)
      BY <1>1, <2>4, <2>5, <3>2, <3>6, <3>7, <3>8 DEF MayGoOn
    <3>10. ~setting.late => jobs'[w.job].status = "running"
      BY <1>1, <2>4, <2>6, <3>1, <3>2 DEF Closes
    <3>11. QED
      BY <1>7, <3>3, <3>4, <3>5, <3>9, <3>10
  <2>9. QED
    BY <2>7, <2>8
<1>10. QED
  <2>1. Idle.pc # "reporting"
    BY DEF Idle
  <2>2. QED
    BY <1>6, <1>8, <1>9, <2>1 DEF HandleEvent

-----------------------------------------------------------------------------
(* The theorems. *)

LEMMA Inductively == IInv /\ [Next]_vars => IInv'
<1> SUFFICES ASSUME IInv, [Next]_vars
             PROVE  IInv'
  OBVIOUS
<1>1. CASE Next
  <2>1. CASE \E j \in Jobs : createJob(j) \/ cancelJob(j) \/ sweepLostJobs(j)
    BY <1>1, <2>1, RowSteps DEF Next
  <2>2. CASE Handle
    BY <1>1, <2>2, HandleBeatSteps, HandleEventSteps DEF Next, Handle
  <2>3. CASE \E r \in net : LoseRequest(r)
    BY <1>1, <2>3, LoseSteps DEF Next
  <2>4. ASSUME NEW d \in Deployers,
               \/ Beat(d) \/ TimesOut(d) \/ GivesUp(d) \/ StageEnds(d) \/ DrainEnds(d)
               \/ Dies(d) \/ Returns(d)
        PROVE  IInv'
    BY <1>1, <2>4, BeatSteps, StopSteps, ScriptSteps, ReturnSteps DEF Next
  <2>5. CASE \E r \in Runs : AdmitRun(r) \/ StartRun(r) \/ EndRun(r)
    BY <1>1, <2>5, RunSteps DEF Next
  <2>6. QED
    BY <1>1, <2>1, <2>2, <2>3, <2>4, <2>5 DEF Next
<1>2. CASE UNCHANGED vars
  <2>1. TypeOK'
    BY <1>2 DEF vars, table, IInv, TypeOK, UpdateStages
  <2>2. \A q \in net' : \E s \in net : Echoes(q, s)
    BY <1>2 DEF vars, table, Echoes
  <2>3. QED
    BY <1>2, <2>1, <2>2, AloneSteps DEF vars, table
<1>3. QED
  BY <1>1, <1>2

(* A job's events are its stages' story, its success is earned, a cancelled *)
(* job was never handed out, and unless late heartbeats are handled no two  *)
(* stages are executed side by side, whatever is lost, late or repeated and *)
(* whoever dies (repository.ts:143-287, deployer/poll.py:362-463).          *)
THEOREM JobsAlwaysTellTheTruth == Spec => []JobsTellTheTruth
<1>1. IInv => JobsTellTheTruth
  <2> SUFFICES ASSUME IInv
               PROVE  JobsTellTheTruth
    OBVIOUS
  <2>1. NoneBeside
    <3> SUFFICES ASSUME ~setting.late, NEW d \in Deployers, NEW e \in Deployers,
                        deployer[d].pc = "working", deployer[e].pc = "working"
                 PROVE  d = e
      BY DEF NoneBeside
    <3>1. ASSUME NEW x \in {d, e}
          PROVE  /\ deployer[x].job \in Jobs /\ jobs[deployer[x].job].by = x
                 /\ jobs[deployer[x].job].status \in Active
      <4>1. deployer[x].job \in Jobs /\ jobs[deployer[x].job].by = x
        BY DeployerFields DEF IInv, ExecutesItsOwn
      <4>2. jobs[deployer[x].job].status = "running"
        BY DEF IInv, ExecutedIsRunning, Proceeds
      <4>3. QED
        BY <4>1, <4>2 DEF Active
    <3>2. deployer[d].job = deployer[e].job
      BY <3>1 DEF IInv, OneActive
    <3>3. QED
      BY <3>1, <3>2
  <2>2. CancelledUntouched
    <3>1. ASSUME NEW j \in Jobs, jobs[j].status = "cancelled"
          PROVE  jobs[j].events = <<>> /\ jobs[j].by = None
      BY <3>1 DEF IInv, UntouchedIsBlank
    <3>2. ASSUME NEW j \in Jobs, jobs[j].status = "cancelled", NEW d \in Deployers,
                 deployer[d].job = j, deployer[d].pc = "working"
          PROVE  FALSE
      BY <3>1, <3>2, DeploymentAssumption DEF IInv, ExecutesItsOwn
    <3>3. QED
      BY <3>1, <3>2 DEF CancelledUntouched
  <2>3. QED
    BY <2>1, <2>2 DEF IInv, JobsTellTheTruth
<1>2. QED
  BY <1>1, InitEstablishes, Inductively, PTL DEF Spec

(* What ended stays as it ended, whatever comes late; and unless a          *)
(* heartbeat that was given up is handled, no step fails a job while a      *)
(* stage of it is executed (repository.ts:239-243, service.ts:251-254).     *)
THEOREM EndsAreAlwaysTrue == Spec => EndsAreTrue
<1>1. IInv /\ [Next]_vars => [EndsStand /\ (~setting.late => AbandonedIsDead)]_vars
  <2> SUFFICES ASSUME IInv, Next
               PROVE  EndsStand /\ (~setting.late => AbandonedIsDead)
    BY DEF vars
  <2>1. ASSUME NEW i \in Jobs, createJob(i) \/ cancelJob(i) \/ sweepLostJobs(i)
        PROVE  EndsStand /\ AbandonedIsDead
    <3>1. /\ jobs[i].status \in {"none", "queued", "running"}
          /\ \A j \in Jobs : j # i => jobs'[j] = jobs[j]
          /\ jobs[i].status = "running" => ~InProgress(i)
      BY <2>1 DEF IInv, TypeOK, createJob, cancelJob, sweepLostJobs, Active
    <3>2. EndsStand
      BY <3>1 DEF EndsStand
    <3>3. AbandonedIsDead
      BY <3>1 DEF AbandonedIsDead, InProgress
    <3>4. QED
      BY <3>2, <3>3
  <2>2. ASSUME NEW r \in net, HandleBeat(r)
        PROVE  EndsStand /\ (~setting.late => AbandonedIsDead)
    <3>1. \A j \in Jobs : jobs'[j] = AfterBeat(jobs[j], r.from)
      BY <2>2 DEF HandleBeat
    <3>2. EndsStand
      BY <3>1 DEF EndsStand, AfterBeat
    <3>3. ASSUME ~setting.late, NEW j \in Jobs, NEW d \in Deployers, jobs[j].status = "running",
                 deployer[d].job = j, deployer[d].pc = "working"
          PROVE  jobs'[j].status # "failed"
      <4>1. r.open /\ r.kind = "beat"
        BY <2>2, <3>3 DEF HandleBeat
      <4>2. r.from # d /\ jobs[j].by = d
        BY <3>3, <4>1, DeploymentAssumption DEF IInv, OpenIsAwaited, ExecutesItsOwn
      <4>3. jobs'[j] = jobs[j]
        BY <3>1, <3>3, <4>2 DEF AfterBeat
      <4>4. QED
        BY <3>3, <4>3
    <3>4. QED
      BY <3>2, <3>3 DEF AbandonedIsDead
  <2>3. ASSUME NEW r \in net, HandleEvent(r)
        PROVE  EndsStand /\ AbandonedIsDead
    <3>1. r.job \in Jobs /\ jobs' = [jobs EXCEPT ![r.job] = appendEvent(@, r)] /\ r.kind = "event"
      BY <2>3, EventFields DEF HandleEvent, IInv
    <3>2. \A j \in Jobs : j # r.job => jobs'[j] = jobs[j]
      BY <3>1 DEF IInv, TypeOK
    <3>3. jobs'[r.job] = appendEvent(jobs[r.job], r)
      BY <3>1 DEF IInv, TypeOK
    <3>4. EndsStand
      BY <3>2, <3>3 DEF EndsStand, appendEvent
    <3>5. ASSUME NEW d \in Deployers, deployer[d].job = r.job, deployer[d].pc = "working"
          PROVE  Seen(jobs[r.job], r)
      <4>1. deployer[d].job # None
        BY <3>1, <3>5, DeploymentAssumption DEF None
      <4>2. Recorded(r.job, r.event)
        BY <3>1, <3>5, <4>1 DEF IInv, DeployersAgree
      <4>3. QED
        BY <4>2 DEF Seen, Recorded
    <3>6. AbandonedIsDead
      BY <3>2, <3>3, <3>5 DEF AbandonedIsDead, appendEvent
    <3>7. QED
      BY <3>4, <3>6
  <2>4. CASE UNCHANGED jobs
    BY <2>4 DEF EndsStand, AbandonedIsDead
  <2>5. QED
    BY <2>1, <2>2, <2>3, <2>4
       DEF Next, Handle, LoseRequest, Beat, TimesOut, GivesUp, StageEnds, DrainEnds, Dies, Returns,
           AdmitRun, StartRun, EndRun
<1>2. QED
  BY <1>1, InitEstablishes, Inductively, PTL DEF Spec, EndsAreTrue
=============================================================================
